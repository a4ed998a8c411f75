---------------------------- MODULE DatabasePool ----------------------------
(***************************************************************************)
(* database_pool.cpp: a fixed set of MySQL handles, lent one at a time to  *)
(* the threads that run registerUser() and loginUser().  acquire() sleeps  *)
(* on a condition variable while none is free; a Lease gives its handle    *)
(* back when it goes out of scope, and notifies after the unlock.          *)
(***************************************************************************)
EXTENDS Naturals, Sequences, FiniteSets

CONSTANTS
  PoolSizes, \* the values config_.poolSize may have
  Workers,   \* threads that use the pool once init() has succeeded
  Main,      \* the thread that runs init() and the destructor
  None,      \* no handle
  MaxUses    \* bound: uses of the pool by one worker

Dbs == UNION {1..n : n \in PoolSizes}

ASSUME DatabaseAssumption ==
  /\ IsFiniteSet(Workers) /\ Main \notin Workers
  /\ PoolSizes \subseteq Nat /\ None \notin Dbs
  /\ MaxUses \in Nat

VARIABLES
  open,       \* handles connected to the server
  all,        \* all_
  available,  \* available_
  phase,      \* "init", then "serving" or "failed", in the end "destroyed"
  pc,
  lease,      \* the handle of each thread's Lease
  uses        \* bound: what is left of MaxUses

vars == <<open, all, available, phase, pc, lease, uses>>

Threads == Workers \cup {Main}

TypeOK ==
  /\ open \subseteq Dbs
  /\ all \subseteq Dbs
  /\ available \in Seq(Dbs)
  /\ phase \in {"init", "serving", "failed", "destroyed"}
  /\ pc \in [Threads ->
       {"idle", "acquire", "waiting", "query", "release", "notify"}]
  /\ lease \in [Threads -> Dbs \cup {None}]
  /\ uses \in [Workers -> 0..MaxUses]

Init ==
  /\ open = {} /\ all = {} /\ available = <<>>
  /\ phase = "init"
  /\ pc = [t \in Threads |-> "idle"]
  /\ lease = [t \in Threads |-> None]
  /\ uses = [w \in Workers |-> MaxUses]

Goto(t, label) == pc' = [pc EXCEPT ![t] = label]

-----------------------------------------------------------------------------
(* init() *)

Fresh == Cardinality(all) + 1

\* mysql_init() and mysql_real_connect(): the handle joins the pool ...
Connect ==
  /\ phase = "init" /\ pc[Main] = "idle"
  /\ Fresh \in Dbs
  /\ open' = open \cup {Fresh}
  /\ all' = all \cup {Fresh}
  /\ available' = Append(available, Fresh)
  /\ UNCHANGED <<phase, pc, lease, uses>>

\* ... or init() gives up and closes the handle that did not connect.  The
\* ones before it stay in the pool.
\* Mutant: return without mysql_close().
MutantAfterFailure(h) == open \cup {h}
AfterFailure(h) == open

ConnectFails ==
  /\ phase = "init" /\ pc[Main] = "idle"
  /\ Fresh \in Dbs
  /\ open' = AfterFailure(Fresh)
  /\ phase' = "failed"
  /\ UNCHANGED <<all, available, pc, lease, uses>>

\* As many handles as config_.poolSize says are connected: Lease lease =
\* acquire() for the CREATE TABLE statement.
Schema ==
  /\ phase = "init" /\ pc[Main] = "idle" /\ Cardinality(all) \in PoolSizes
  /\ Goto(Main, "acquire")
  /\ UNCHANGED <<open, all, available, phase, lease, uses>>

-----------------------------------------------------------------------------
(* A thread that uses the pool *)

\* registerUser() or loginUser(), once init() has returned.
Begin(w) ==
  /\ phase = "serving" /\ pc[Main] = "idle"
  /\ pc[w] = "idle" /\ uses[w] > 0
  /\ uses' = [uses EXCEPT ![w] = @ - 1]
  /\ Goto(w, "acquire")
  /\ UNCHANGED <<open, all, available, phase, lease>>

\* ~Lease(): release() pushes the handle, if there is one.
\* Mutant: the handle is cleared before it is pushed.
MutantNull(queue, h) == Append(queue, None)
Pushed(queue, h) == IF h = None THEN queue ELSE Append(queue, h)

\* What the move constructor leaves in the Lease it moves from.
\* Mutant: the handle stays there as well.
MutantMovedFrom(h) == h
MovedFrom(h) == None

\* acquire() under the lock: take the first free handle, or sleep.  The Lease
\* is returned by value: it moves into the caller's, and the one that it has
\* moved from is destroyed.
Acquire(t) ==
  /\ pc[t] = "acquire" /\ available # <<>>
  /\ lease' = [lease EXCEPT ![t] = Head(available)]
  /\ available' = Pushed(Tail(available), MovedFrom(Head(available)))
  /\ Goto(t, "query")
  /\ UNCHANGED <<open, all, phase, uses>>

Sleep(t) ==
  /\ pc[t] = "acquire" /\ available = <<>>
  /\ Goto(t, "waiting")
  /\ UNCHANGED <<open, all, available, phase, lease, uses>>

Spurious(t) ==
  /\ pc[t] = "waiting"
  /\ Goto(t, "acquire")
  /\ UNCHANGED <<open, all, available, phase, lease, uses>>

\* The end of the statement: init() fails with that of the schema.
Query(t) ==
  /\ pc[t] = "query"
  /\ Goto(t, "release")
  /\ IF t = Main THEN phase' \in {"serving", "failed"} ELSE UNCHANGED phase
  /\ UNCHANGED <<open, all, available, lease, uses>>

\* Mutant: notify_one() only when the queue was empty.
MutantNotifies == available = <<>>
Notifies == TRUE

\* The Lease of a caller goes out of scope: its handle is pushed ...
Release(t) ==
  /\ pc[t] = "release"
  /\ available' = Pushed(available, lease[t])
  /\ lease' = [lease EXCEPT ![t] = None]
  /\ Goto(t, IF Notifies THEN "notify" ELSE "idle")
  /\ UNCHANGED <<open, all, phase, uses>>

Waiting == {t \in Threads : pc[t] = "waiting"}

\* ... and then wakes one sleeper, if there is one.
\* Mutant: notify_one() is missing.
MutantWoken == {}
Woken == Waiting

Notify(t) ==
  /\ pc[t] = "notify"
  /\ IF Woken = {} THEN Goto(t, "idle")
     ELSE \E u \in Woken : pc' = [pc EXCEPT ![t] = "idle", ![u] = "acquire"]
  /\ UNCHANGED <<open, all, available, phase, lease, uses>>

Use(t) == Acquire(t) \/ Sleep(t) \/ Release(t) \/ Notify(t)
InitStep == Connect \/ ConnectFails \/ Schema \/ Query(Main)

-----------------------------------------------------------------------------
\* ~DatabasePool(), after init() has failed or the server has joined its
\* workers: mysql_close() of everything in all_.
Destroy ==
  /\ phase \in {"serving", "failed"} /\ \A t \in Threads : pc[t] = "idle"
  /\ open' = open \ all
  /\ phase' = "destroyed"
  /\ UNCHANGED <<all, available, pc, lease, uses>>

Over == phase = "destroyed" /\ UNCHANGED vars
-----------------------------------------------------------------------------
\* A handle is free or in one Lease, never both and never lost: two threads
\* do not speak on one MySQL connection.
Lent(h) == {t \in Threads : lease[t] = h}
Free(h) == {i \in 1..Len(available) : available[i] = h}

LeaseExclusive ==
  \A h \in all : Cardinality(Lent(h)) + Cardinality(Free(h)) = 1

\* While a thread sleeps in acquire(), every free handle is meant for a
\* thread that is awake or is about to be woken.
EnoughNotified ==
  Waiting # {} =>
    Len(available) <= Cardinality({t \in Threads : pc[t] \in {"acquire", "notify"}})

\* A thread only speaks on a connected handle, and in the end every
\* connection is closed, those of an init() that failed half-way included.
NoHandleLeak ==
  /\ \A t \in Threads : lease[t] # None => lease[t] \in open
  /\ phase = "destroyed" => open = {}
=============================================================================
