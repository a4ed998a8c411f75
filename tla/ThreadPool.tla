----------------------------- MODULE ThreadPool -----------------------------
(***************************************************************************)
(* thread_pool.cpp: a queue of tasks behind mutex_ and a condition         *)
(* variable.  A step is one critical section, one notification or one      *)
(* task.  The notifications come after the unlock, so a worker can go      *)
(* to sleep, and stop() can run, between a push and its notify_one().      *)
(***************************************************************************)
EXTENDS Naturals, Sequences, FiniteSets

CONSTANTS
  Workers,   \* threadCount_ threads
  Callers,   \* threads that call enqueue()
  Tasks,     \* bound: the calls of enqueue(), one task each
  None

ASSUME PoolAssumption ==
  /\ Workers # {}
  /\ None \notin Tasks

VARIABLES
  tasks,      \* tasks_
  stopping,   \* stopping_
  pc,         \* each worker in workerLoop()
  holds,      \* the task a worker has taken and not finished
  calling,    \* each caller: "idle", or "notify" after its push
  owner,      \* the thread that calls start() and stop()
  accepted,   \* tasks enqueue() pushed
  refused,    \* tasks it dropped because of stopping_
  ran         \* how often each task has been run

vars == <<tasks, stopping, pc, holds, calling, owner, accepted, refused, ran>>

TypeOK ==
  /\ tasks \in Seq(Tasks)
  /\ stopping \in BOOLEAN
  /\ pc \in [Workers -> {"none", "lock", "waiting", "run", "gone"}]
  /\ holds \in [Workers -> Tasks \cup {None}]
  /\ calling \in [Callers -> {"idle", "notify"}]
  /\ owner \in {"start", "running", "notify", "join", "stopped"}
  /\ accepted \subseteq Tasks
  /\ refused \subseteq Tasks
  /\ ran \in [Tasks -> Nat]
  /\ \A w \in Workers : pc[w] = "run" <=> holds[w] # None

Init ==
  /\ tasks = <<>>
  /\ stopping = FALSE
  /\ pc = [w \in Workers |-> "none"]
  /\ holds = [w \in Workers |-> None]
  /\ calling = [c \in Callers |-> "idle"]
  /\ owner = "start"
  /\ accepted = {}
  /\ refused = {}
  /\ ran = [t \in Tasks |-> 0]

-----------------------------------------------------------------------------
(* start() and stop() *)

\* start() creates the threads one by one; the first ones already run.
Start(w) ==
  /\ owner = "start" /\ pc[w] = "none"
  /\ pc' = [pc EXCEPT ![w] = "lock"]
  /\ owner' = IF \A v \in Workers \ {w} : pc[v] # "none" THEN "running" ELSE owner
  /\ UNCHANGED <<tasks, stopping, holds, calling, accepted, refused, ran>>

Stop ==
  /\ owner = "running"
  /\ stopping' = TRUE
  /\ owner' = "notify"
  /\ UNCHANGED <<tasks, pc, holds, calling, accepted, refused, ran>>

Waiting == {w \in Workers : pc[w] = "waiting"}

\* Who a notification wakes; they contend for mutex_ and test again.
Wake(W) == pc' = [w \in Workers |-> IF w \in W THEN "lock" ELSE pc[w]]

\* Mutant: stop() with notify_one().
MutantAll(W) == \E w \in Waiting : W = {w}
All(W) == W = Waiting

NotifyAll ==
  /\ owner = "notify"
  /\ \E W \in SUBSET Waiting : All(W) /\ Wake(W)
  /\ owner' = "join"
  /\ UNCHANGED <<tasks, stopping, holds, calling, accepted, refused, ran>>

\* join() of every worker, and workers_.clear().
Joinable == \A w \in Workers : pc[w] = "gone"

Join ==
  /\ owner = "join" /\ Joinable
  /\ owner' = "stopped"
  /\ UNCHANGED <<tasks, stopping, pc, holds, calling, accepted, refused, ran>>

-----------------------------------------------------------------------------
(* enqueue() *)

Refuses == stopping

Enqueue(c, t) ==
  /\ calling[c] = "idle" /\ t \notin accepted \cup refused
  /\ IF Refuses
     THEN /\ refused' = refused \cup {t}
          /\ UNCHANGED <<tasks, calling, accepted>>
     ELSE /\ tasks' = Append(tasks, t)
          /\ accepted' = accepted \cup {t}
          /\ calling' = [calling EXCEPT ![c] = "notify"]
          /\ UNCHANGED refused
  /\ UNCHANGED <<stopping, pc, holds, owner, ran>>

\* Mutant: notify_one() is missing.
MutantOne(W) == W = {}
One(W) == IF Waiting = {} THEN W = {} ELSE \E w \in Waiting : W = {w}

NotifyOne(c) ==
  /\ calling[c] = "notify"
  /\ \E W \in SUBSET Waiting : One(W) /\ Wake(W)
  /\ calling' = [calling EXCEPT ![c] = "idle"]
  /\ UNCHANGED <<tasks, stopping, holds, owner, accepted, refused, ran>>

-----------------------------------------------------------------------------
(* workerLoop() *)

\* wait() with its predicate: sleep when there is nothing to do, ...
Sleep(w) ==
  /\ pc[w] = "lock" /\ ~stopping /\ tasks = <<>>
  /\ pc' = [pc EXCEPT ![w] = "waiting"]
  /\ UNCHANGED <<tasks, stopping, holds, calling, owner, accepted, refused, ran>>

\* ... and wake up for a notification or for no reason.
Spurious(w) ==
  /\ pc[w] = "waiting"
  /\ Wake({w})
  /\ UNCHANGED <<tasks, stopping, holds, calling, owner, accepted, refused, ran>>

MayLeave == stopping /\ tasks = <<>>

Leave(w) ==
  /\ pc[w] = "lock" /\ MayLeave
  /\ pc' = [pc EXCEPT ![w] = "gone"]
  /\ UNCHANGED <<tasks, stopping, holds, calling, owner, accepted, refused, ran>>

\* task = tasks_.front(); tasks_.pop();
\* Mutants: the other way round, and front() without pop().
MutantFront == IF Len(tasks) > 1 THEN tasks[2] ELSE None
Front == Head(tasks)

MutantPopped == tasks
Popped == Tail(tasks)

Take(w) ==
  /\ pc[w] = "lock" /\ tasks # <<>>
  /\ holds' = [holds EXCEPT ![w] = Front]
  /\ tasks' = Popped
  /\ pc' = [pc EXCEPT ![w] = "run"]
  /\ UNCHANGED <<stopping, calling, owner, accepted, refused, ran>>

\* task(), outside the lock.
Run(w) ==
  /\ pc[w] = "run"
  /\ ran' = [ran EXCEPT ![holds[w]] = @ + 1]
  /\ holds' = [holds EXCEPT ![w] = None]
  /\ pc' = [pc EXCEPT ![w] = "lock"]
  /\ UNCHANGED <<tasks, stopping, calling, owner, accepted, refused>>

-----------------------------------------------------------------------------
OwnerStep == (\E w \in Workers : Start(w)) \/ Stop \/ NotifyAll \/ Join
CallerStep(c) == NotifyOne(c) \/ \E t \in Tasks : Enqueue(c, t)
WorkerStep(w) == Sleep(w) \/ Leave(w) \/ Take(w) \/ Run(w)

Over ==
  /\ owner = "stopped" /\ accepted \cup refused = Tasks
  /\ \A c \in Callers : calling[c] = "idle"

Next ==
  \/ OwnerStep
  \/ \E c \in Callers : CallerStep(c)
  \/ \E w \in Workers : WorkerStep(w) \/ Spurious(w)
  \/ Over /\ UNCHANGED vars

Spec == Init /\ [][Next]_vars
-----------------------------------------------------------------------------
\* A task is in one place at a time: queued, held by one worker or run once.
\* The queue never drops, copies or repeats a task it accepted, and stop()
\* loses none of them.
Copies(t) ==
  Cardinality({i \in 1..Len(tasks) : tasks[i] = t})
    + Cardinality({w \in Workers : holds[w] = t}) + ran[t]

ExactlyOnce == \A t \in Tasks : Copies(t) = IF t \in accepted THEN 1 ELSE 0

\* No lost wakeup: when a task is queued, some worker will look at the queue
\* without help, or a notification for it is still on its way.
NoLostWakeup ==
  tasks # <<>> =>
    \/ \E w \in Workers : pc[w] \in {"none", "lock", "run"}
    \/ \E c \in Callers : calling[c] = "notify"

\* When stop() starts to join, no worker sleeps: none would ever be woken.
NoSleeperAtJoin ==
  owner \in {"join", "stopped"} => \A w \in Workers : pc[w] # "waiting"

\* When stop() has returned, every accepted task has been run to its end.
DrainedAtStop ==
  owner = "stopped" => tasks = <<>> /\ \A w \in Workers : pc[w] = "gone"

\* An accepted task is eventually run, whether or not the pool stops and
\* without help from spurious wakeups.
EventuallyRun == \A t \in Tasks : t \in accepted ~> ran[t] = 1
=============================================================================
