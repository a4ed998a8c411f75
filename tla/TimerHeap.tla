------------------------------ MODULE TimerHeap ------------------------------
(***************************************************************************)
(* timer_heap.cpp: a priority queue with lazy deletion.  addOrUpdate() and *)
(* remove() leave the descriptor's earlier nodes in heap_, popExpired()    *)
(* tells them from the live one by version and deadline.  The version      *)
(* starts again at 1 once the entry is gone, so it does not identify a     *)
(* node on its own.                                                        *)
(*                                                                         *)
(* heap_ is a set: of two equal nodes the second is popped by the call     *)
(* that popped the first, and finds the entry erased.  The calls hold      *)
(* connectionsMutex_, so none starts during popExpired()'s loop.           *)
(***************************************************************************)
EXTENDS Integers, Sequences, FiniteSets

CONSTANTS
  Fds,
  Times,      \* the time points used
  None,       \* no entry; no popExpired() running
  MaxNodes    \* bound: nodes in heap_

ASSUME TimerAssumption ==
  /\ Times \subseteq Int
  /\ None \notin Int
  /\ MaxNodes \in Nat

VARIABLES
  heap,       \* heap_
  latest,     \* latest_
  expired,    \* the vector popExpired() builds, and then its answer
  now         \* its argument while its loop runs

vars == <<heap, latest, expired, now>>

Entry == [at: Times, version: Nat]
Node  == [at: Times, fd: Fds, version: Nat]
NodeOf(f) == [at |-> latest[f].at, fd |-> f, version |-> latest[f].version]
NoEntry == [at |-> None, version |-> 0]   \* latest_.find(f) == latest_.end()

TypeOK ==
  /\ heap \subseteq Node
  /\ latest \in [Fds -> Entry \cup {NoEntry}]
  /\ expired \in Seq(Fds)
  /\ now \in Times \cup {None}

Init ==
  /\ heap = {}
  /\ latest = [f \in Fds |-> NoEntry]
  /\ expired = <<>>
  /\ now = None

Has(f) == latest[f] # NoEntry

\* Mutant: counted down.
MutantNextVersion(f) == latest[f].version - 1
NextVersion(f) == latest[f].version + 1

\* Mutant: only the first addOrUpdate() of a descriptor pushes a node.
MutantPushed(f, t, v) ==
  IF Has(f) THEN heap ELSE heap \cup {[at |-> t, fd |-> f, version |-> v]}
Pushed(f, t, v) == heap \cup {[at |-> t, fd |-> f, version |-> v]}

AddOrUpdate(f, t) ==
  LET v == IF Has(f) THEN NextVersion(f) ELSE 1 IN
  /\ now = None /\ Cardinality(heap) < MaxNodes
  /\ latest' = [latest EXCEPT ![f] = [at |-> t, version |-> v]]
  /\ heap' = Pushed(f, t, v)
  /\ UNCHANGED <<expired, now>>

Remove(f) ==
  /\ now = None
  /\ latest' = [latest EXCEPT ![f] = NoEntry]
  /\ UNCHANGED <<heap, expired, now>>

PopExpired(n) ==
  /\ now = None
  /\ now' = n
  /\ expired' = <<>>
  /\ UNCHANGED <<heap, latest>>

Top(n) == n \in heap /\ \A m \in heap : n.at <= m.at

\* Mutants: the version alone, and no test at all.
MutantVersionOnly(n) == ~Has(n.fd) \/ latest[n.fd].version # n.version
MutantFresh(n) == FALSE
Stale(n) ==
  ~Has(n.fd) \/ latest[n.fd].version # n.version \/ latest[n.fd].at # n.at

\* One turn of the loop: the earliest node leaves the heap, and if it is the
\* live one its descriptor joins the answer.
PopTop ==
  /\ now # None
  /\ \E n \in heap :
       /\ Top(n) /\ n.at <= now
       /\ heap' = heap \ {n}
       /\ IF Stale(n)
          THEN UNCHANGED <<latest, expired>>
          ELSE /\ expired' = Append(expired, n.fd)
               /\ latest' = [latest EXCEPT ![n.fd] = NoEntry]
  /\ UNCHANGED now

Return ==
  /\ now # None
  /\ \A n \in heap : n.at > now
  /\ now' = None
  /\ UNCHANGED <<heap, latest, expired>>

Next ==
  \/ \E f \in Fds, t \in Times : AddOrUpdate(f, t)
  \/ \E f \in Fds : Remove(f)
  \/ \E n \in Times : PopExpired(n)
  \/ PopTop \/ Return

Spec == Init /\ [][Next]_vars
-----------------------------------------------------------------------------
\* Lazy deletion never loses the live node: every entry of latest_ still has
\* its node in heap_, so its deadline cannot be missed.
LiveNode == \A f \in Fds : Has(f) => NodeOf(f) \in heap

Range(s) == {s[i] : i \in 1..Len(s)}

\* popExpired() names a descriptor once, however many of its nodes were in
\* the heap: closeIdleConnections() closes it once.
NoDoubleExpiry ==
  \A i, j \in 1..Len(expired) : expired[i] = expired[j] => i = j

\* The loop is one atomic Expire(now) of TimerSpec that took effect when
\* popExpired() was called: what it has still to pop counts as answered.
ToPop(f) == now # None /\ Has(f) /\ latest[f].at <= now

Timers == INSTANCE TimerSpec WITH
  deadline <- [f \in Fds |-> IF ToPop(f) THEN None ELSE latest[f].at],
  due <- Range(expired) \cup {f \in Fds : ToPop(f)}

\* The heap with its stale nodes behaves as one deadline per descriptor: no
\* refresh is lost, none expires early, none is missed.
ImplementsTimers == Timers!Spec
=============================================================================
