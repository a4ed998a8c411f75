-------------------------- MODULE ThreadPoolProofs --------------------------
(* ThreadPool for any number of workers, callers and tasks. *)
EXTENDS ThreadPool, SequenceTheorems, FiniteSetTheorems, TLAPS

\* The owner's progress tells stopping_ and which threads exist.
Phases ==
  /\ stopping <=> owner \in {"notify", "join", "stopped"}
  /\ owner # "start" => \A w \in Workers : pc[w] # "none"

\* A worker leaves only an empty queue, and nothing is pushed afterwards.
LeftEmpty == (\E w \in Workers : pc[w] = "gone") => stopping /\ tasks = <<>>

IInv ==
  /\ TypeOK /\ Phases /\ LeftEmpty
  /\ NoLostWakeup /\ NoSleeperAtJoin /\ DrainedAtStop

-----------------------------------------------------------------------------
\* The initial state satisfies the inductive invariant.
LEMMA Initially == Init => IInv
  <1> SUFFICES ASSUME Init
               PROVE  IInv
    OBVIOUS
  <1>1. TypeOK
    <2>1. tasks \in Seq(Tasks) /\ accepted \subseteq Tasks /\ refused \subseteq Tasks
      BY DEF Init
    <2>2. stopping \in BOOLEAN
      BY DEF Init
    <2>3. pc \in [Workers -> {"none", "lock", "waiting", "run", "gone"}]
      BY DEF Init
    <2>4. holds \in [Workers -> Tasks \cup {None}]
      BY DEF Init
    <2>5. ran \in [Tasks -> Nat]
      BY DEF Init
    <2>6. /\ calling \in [Callers -> {"idle", "notify"}]
          /\ owner \in {"start", "running", "notify", "join", "stopped"}
      BY DEF Init
    <2>7. \A w \in Workers : pc[w] = "run" <=> holds[w] # None
      BY DEF Init
    <2> QED
      BY <2>1, <2>2, <2>3, <2>4, <2>5, <2>6, <2>7 DEF TypeOK
  <1>2. Phases /\ LeftEmpty
    BY DEF Init, Phases, LeftEmpty
  <1>3. NoLostWakeup /\ NoSleeperAtJoin /\ DrainedAtStop
    BY DEF Init, NoLostWakeup, NoSleeperAtJoin, DrainedAtStop
  <1> QED
    BY <1>1, <1>2, <1>3 DEF IInv

\* A notification changes no worker but the sleeping ones it wakes.
LEMMA WakeFrame ==
  ASSUME TypeOK, NEW W \in SUBSET Waiting, Wake(W)
  PROVE  /\ pc' \in [Workers -> {"none", "lock", "waiting", "run", "gone"}]
         /\ \A w \in W : pc[w] = "waiting" /\ pc'[w] = "lock"
         /\ \A w \in Workers \ W : pc'[w] = pc[w]
  BY DEF TypeOK, Waiting, Wake

\* A notification disturbs nothing that is said about the other pcs.
LEMMA WakeStep ==
  ASSUME IInv, NEW W \in SUBSET Waiting, Wake(W),
         UNCHANGED <<tasks, stopping, holds, accepted, refused, ran>>
  PROVE  /\ pc' \in [Workers -> {"none", "lock", "waiting", "run", "gone"}]
         /\ LeftEmpty'
         /\ \A w \in Workers : pc[w] # "none" => pc'[w] # "none"
         /\ \A w \in Workers : pc[w] # "waiting" => pc'[w] = pc[w]
         /\ \A w \in Workers : pc'[w] = "run" <=> pc[w] = "run"
  BY WakeFrame DEF IInv, LeftEmpty, Waiting

\* Every step keeps the inductive invariant.
LEMMA Step == IInv /\ [Next]_vars => IInv'
  <1> SUFFICES ASSUME IInv, [Next]_vars
               PROVE  IInv'
    OBVIOUS
  <1> USE DEF IInv
  <1>1. ASSUME NEW w \in Workers, Start(w)
        PROVE  IInv'
    <2>1. TypeOK' /\ LeftEmpty'
      BY <1>1 DEF Start, TypeOK, LeftEmpty
    <2>2. Phases'
      BY <1>1 DEF Start, TypeOK, Phases
    <2>3. NoLostWakeup' /\ NoSleeperAtJoin' /\ DrainedAtStop'
      BY <1>1 DEF Start, TypeOK, NoLostWakeup, NoSleeperAtJoin, DrainedAtStop
    <2> QED
      BY <2>1, <2>2, <2>3
  <1>2. ASSUME Stop
        PROVE  IInv'
    BY <1>2 DEF Stop, TypeOK, Phases, LeftEmpty, NoLostWakeup,
                NoSleeperAtJoin, DrainedAtStop
  <1>3. ASSUME NotifyAll
        PROVE  IInv'
    <2>1. Wake(Waiting)
      BY <1>3 DEF NotifyAll, All
    <2>2. /\ owner = "notify" /\ owner' = "join"
          /\ UNCHANGED <<tasks, stopping, holds, calling, accepted, refused, ran>>
      BY <1>3 DEF NotifyAll
    <2>3. TypeOK' /\ LeftEmpty' /\ Phases'
      BY <2>1, <2>2, WakeStep DEF TypeOK, Phases
    <2>4. NoSleeperAtJoin' /\ DrainedAtStop'
      BY <2>1, <2>2, WakeFrame DEF NoSleeperAtJoin, DrainedAtStop, Waiting
    <2>5. NoLostWakeup'
      BY <2>1, <2>2, WakeStep DEF NoLostWakeup
    <2> QED
      BY <2>3, <2>4, <2>5
  <1>4. ASSUME Join
        PROVE  IInv'
    <2>1. TypeOK' /\ LeftEmpty' /\ Phases'
      BY <1>4 DEF Join, TypeOK, LeftEmpty, Phases
    <2>2. NoLostWakeup' /\ NoSleeperAtJoin' /\ DrainedAtStop'
      BY <1>4, PoolAssumption DEF Join, Joinable, LeftEmpty, NoLostWakeup,
                                  NoSleeperAtJoin, DrainedAtStop
    <2> QED
      BY <2>1, <2>2
  <1>5. ASSUME NEW c \in Callers, NEW t \in Tasks, Enqueue(c, t)
        PROVE  IInv'
    <2>1. CASE stopping
      BY <1>5, <2>1 DEF Enqueue, Refuses, TypeOK, Phases, LeftEmpty,
                        NoLostWakeup, NoSleeperAtJoin, DrainedAtStop
    <2>2. CASE ~stopping
      <3>1. /\ tasks' = Append(tasks, t)
            /\ accepted' = accepted \cup {t}
            /\ calling' = [calling EXCEPT ![c] = "notify"]
            /\ UNCHANGED <<stopping, pc, holds, owner, refused, ran>>
        BY <1>5, <2>2 DEF Enqueue, Refuses
      <3>2. TypeOK'
        BY <3>1 DEF TypeOK
      <3>3. Phases' /\ LeftEmpty'
        BY <2>2, <3>1 DEF Phases, LeftEmpty
      <3>4. NoLostWakeup'
        BY <3>1 DEF NoLostWakeup, TypeOK
      <3>5. NoSleeperAtJoin' /\ DrainedAtStop'
        BY <2>2, <3>1 DEF NoSleeperAtJoin, DrainedAtStop, Phases
      <3> QED
        BY <3>2, <3>3, <3>4, <3>5
    <2> QED
      BY <2>1, <2>2
  <1>6. ASSUME NEW c \in Callers, NotifyOne(c)
        PROVE  IInv'
    <2>1. PICK W \in SUBSET Waiting : One(W) /\ Wake(W)
      BY <1>6 DEF NotifyOne
    <2>2. /\ calling' = [calling EXCEPT ![c] = "idle"]
          /\ UNCHANGED <<tasks, stopping, holds, owner, accepted, refused, ran>>
      BY <1>6 DEF NotifyOne
    <2>3. TypeOK' /\ LeftEmpty' /\ Phases'
      BY <2>1, <2>2, WakeStep DEF TypeOK, Phases
    <2>4. NoSleeperAtJoin' /\ DrainedAtStop'
      BY <2>1, <2>2, WakeFrame DEF NoSleeperAtJoin, DrainedAtStop
    <2>5. NoLostWakeup'
      <3> SUFFICES ASSUME tasks # <<>>
                   PROVE  \E w \in Workers : pc'[w] \in {"none", "lock", "run"}
        BY <2>2 DEF NoLostWakeup
      <3>1. CASE Waiting = {}
        <4>1. PICK w \in Workers : TRUE
          BY PoolAssumption
        <4>2. pc[w] \in {"none", "lock", "run"}
          BY <3>1 DEF Waiting, LeftEmpty, TypeOK
        <4> QED
          BY <2>1, <3>1, <4>2, WakeFrame
      <3>2. CASE Waiting # {}
        <4>1. PICK w \in Waiting : W = {w}
          BY <2>1, <3>2 DEF One
        <4> QED
          BY <2>1, <4>1, WakeFrame DEF Waiting
      <3> QED
        BY <3>1, <3>2
    <2> QED
      BY <2>3, <2>4, <2>5
  <1>7. ASSUME NEW w \in Workers, Sleep(w)
        PROVE  IInv'
    <2>1. TypeOK' /\ LeftEmpty' /\ Phases'
      BY <1>7 DEF Sleep, TypeOK, LeftEmpty, Phases
    <2>2. NoLostWakeup' /\ NoSleeperAtJoin' /\ DrainedAtStop'
      BY <1>7 DEF Sleep, Phases, NoLostWakeup, NoSleeperAtJoin, DrainedAtStop
    <2> QED
      BY <2>1, <2>2
  <1>8. ASSUME NEW w \in Workers, Spurious(w)
        PROVE  IInv'
    <2>1. /\ {w} \in SUBSET Waiting /\ Wake({w})
          /\ UNCHANGED <<tasks, stopping, holds, calling, owner, accepted,
                         refused, ran>>
      BY <1>8 DEF Spurious, Waiting
    <2>2. TypeOK' /\ LeftEmpty' /\ Phases'
      BY <2>1, WakeStep DEF TypeOK, Phases
    <2>3. NoLostWakeup' /\ NoSleeperAtJoin' /\ DrainedAtStop'
      BY <2>1, WakeFrame DEF NoLostWakeup, NoSleeperAtJoin, DrainedAtStop
    <2> QED
      BY <2>2, <2>3
  <1>9. ASSUME NEW w \in Workers, Leave(w)
        PROVE  IInv'
    <2>1. TypeOK' /\ LeftEmpty' /\ Phases'
      BY <1>9 DEF Leave, MayLeave, TypeOK, LeftEmpty, Phases
    <2>2. NoLostWakeup' /\ NoSleeperAtJoin' /\ DrainedAtStop'
      BY <1>9 DEF Leave, MayLeave, TypeOK, NoLostWakeup, NoSleeperAtJoin,
                  DrainedAtStop
    <2> QED
      BY <2>1, <2>2
  <1>10. ASSUME NEW w \in Workers, Take(w)
         PROVE  IInv'
    <2>1. /\ pc[w] = "lock" /\ tasks # <<>>
          /\ holds' = [holds EXCEPT ![w] = Head(tasks)]
          /\ tasks' = Tail(tasks)
          /\ pc' = [pc EXCEPT ![w] = "run"]
          /\ UNCHANGED <<stopping, calling, owner, accepted, refused, ran>>
      BY <1>10 DEF Take, Front, Popped
    <2>2. Head(tasks) \in Tasks /\ Tail(tasks) \in Seq(Tasks)
      BY <2>1, HeadTailProperties DEF TypeOK
    <2> HIDE DEF IInv
    <2>3. TypeOK'
      <3>1. /\ holds' \in [Workers -> Tasks \cup {None}]
            /\ pc' \in [Workers -> {"none", "lock", "waiting", "run", "gone"}]
        BY <2>1, <2>2 DEF IInv, TypeOK
      <3>2. \A v \in Workers : pc'[v] = "run" <=> holds'[v] # None
        BY <2>1, <2>2, PoolAssumption DEF IInv, TypeOK
      <3> QED
        BY <2>1, <2>2, <3>1, <3>2 DEF IInv, TypeOK
    <2>5. Phases'
      BY <2>1 DEF IInv, TypeOK, Phases
    <2>6. LeftEmpty'
      BY <2>1 DEF IInv, TypeOK, LeftEmpty
    <2>7. NoLostWakeup'
      BY <2>1 DEF IInv, TypeOK, NoLostWakeup
    <2>8. NoSleeperAtJoin' /\ DrainedAtStop'
      BY <2>1 DEF IInv, TypeOK, NoSleeperAtJoin, DrainedAtStop
    <2> QED
      BY <2>3, <2>5, <2>6, <2>7, <2>8 DEF IInv
  <1>11. ASSUME NEW w \in Workers, Run(w)
         PROVE  IInv'
    <2>1. TypeOK'
      BY <1>11 DEF Run, TypeOK
    <2>2. LeftEmpty' /\ Phases'
      BY <1>11 DEF Run, TypeOK, LeftEmpty, Phases
    <2>3. NoLostWakeup' /\ NoSleeperAtJoin' /\ DrainedAtStop'
      BY <1>11 DEF Run, TypeOK, NoLostWakeup, NoSleeperAtJoin, DrainedAtStop
    <2> QED
      BY <2>1, <2>2, <2>3
  <1>12. ASSUME UNCHANGED vars
         PROVE  IInv'
    BY <1>12 DEF vars, TypeOK, Phases, LeftEmpty, NoLostWakeup,
                 NoSleeperAtJoin, DrainedAtStop
  <1> QED
    BY <1>1, <1>2, <1>3, <1>4, <1>5, <1>6, <1>7, <1>8, <1>9, <1>10, <1>11,
       <1>12 DEF Next, OwnerStep, CallerStep, WorkerStep, Over

THEOREM Invariance == Spec => []IInv
  <1>1. Init => IInv
    BY Initially
  <1>2. IInv /\ [Next]_vars => IInv'
    BY Step
  <1> QED
    BY <1>1, <1>2, PTL DEF Spec

\* Every reachable state is well typed.
THEOREM TypeCorrect == Spec => []TypeOK
  <1>1. IInv => TypeOK
    BY DEF IInv
  <1> QED
    BY <1>1, Invariance, PTL

\* A queued task always has a worker or a notification on its way to it,
\* although notify_one() comes after the unlock.
THEOREM WakeupsSuffice == Spec => []NoLostWakeup
  <1>1. IInv => NoLostWakeup
    BY DEF IInv
  <1> QED
    BY <1>1, Invariance, PTL

\* stop() never joins a worker that sleeps on the condition variable.
THEOREM JoinFindsNoSleeper == Spec => []NoSleeperAtJoin
  <1>1. IInv => NoSleeperAtJoin
    BY DEF IInv
  <1> QED
    BY <1>1, Invariance, PTL

\* stop() returns only after the last accepted task.
THEOREM StopDrains == Spec => []DrainedAtStop
  <1>1. IInv => DrainedAtStop
    BY DEF IInv
  <1> QED
    BY <1>1, Invariance, PTL

-----------------------------------------------------------------------------
(* No task is lost, copied or repeated *)

Queued(t) == \E i \in 1..Len(tasks) : tasks[i] = t
HeldBy(t, w) == holds[w] = t

\* ExactlyOnce without counting: queue positions and holders are unique and
\* exclude one another, and what is queued or held has not been run.
OnePlace ==
  /\ \A i, j \in 1..Len(tasks) : tasks[i] = tasks[j] => i = j
  /\ \A v, w \in Workers : \A t \in Tasks : HeldBy(t, v) /\ HeldBy(t, w) => v = w
  /\ \A t \in Tasks : Queued(t) =>
       t \in accepted /\ ran[t] = 0 /\ \A w \in Workers : ~HeldBy(t, w)
  /\ \A t \in Tasks : \A w \in Workers : HeldBy(t, w) => t \in accepted /\ ran[t] = 0
  /\ \A t \in Tasks : ran[t] = 0 \/ (ran[t] = 1 /\ t \in accepted)
  /\ \A t \in accepted : Queued(t) \/ ran[t] = 1 \/ \E w \in Workers : HeldBy(t, w)

\* The places of a task counted, once there is at most one of each kind.
LEMMA OnePlaceCounts ==
  ASSUME TypeOK, OnePlace
  PROVE  ExactlyOnce
  <1> SUFFICES ASSUME NEW t \in Tasks
               PROVE  Copies(t) = IF t \in accepted THEN 1 ELSE 0
    BY DEF ExactlyOnce
  <1> DEFINE P == {i \in 1..Len(tasks) : tasks[i] = t}
             H == {w \in Workers : holds[w] = t}
  <1>1. Cardinality(P) = IF Queued(t) THEN 1 ELSE 0
    <2>1. CASE Queued(t)
      <3>1. PICK i \in 1..Len(tasks) : tasks[i] = t
        BY <2>1 DEF Queued
      <3>2. P = {i}
        BY <3>1 DEF OnePlace
      <3> QED
        BY <2>1, <3>2, FS_Singleton
    <2>2. CASE ~Queued(t)
      <3>1. P = {}
        BY <2>2 DEF Queued
      <3> QED
        BY <2>2, <3>1, FS_EmptySet
    <2> QED
      BY <2>1, <2>2
  <1>2. Cardinality(H) = IF \E w \in Workers : HeldBy(t, w) THEN 1 ELSE 0
    <2>1. CASE \E w \in Workers : HeldBy(t, w)
      <3>1. PICK w \in Workers : HeldBy(t, w)
        BY <2>1
      <3>2. H = {w}
        BY <3>1 DEF OnePlace, HeldBy
      <3> QED
        BY <2>1, <3>2, FS_Singleton
    <2>2. CASE ~\E w \in Workers : HeldBy(t, w)
      <3>1. H = {}
        BY <2>2 DEF HeldBy
      <3> QED
        BY <2>2, <3>1, FS_EmptySet
    <2> QED
      BY <2>1, <2>2
  <1>3. Copies(t) = Cardinality(P) + Cardinality(H) + ran[t]
    BY DEF Copies
  <1> HIDE DEF P, H
  <1> QED
    BY <1>1, <1>2, <1>3 DEF OnePlace

\* A step that moves no task keeps every task in its place.
LEMMA OnceFrame ==
  ASSUME OnePlace, UNCHANGED <<tasks, holds, accepted, ran>>
  PROVE  OnePlace'
  BY DEF OnePlace, Queued, HeldBy

\* Every step keeps every task in one place.
LEMMA OnceStep == IInv /\ OnePlace /\ [Next]_vars => OnePlace'
  <1> SUFFICES ASSUME IInv, OnePlace, [Next]_vars
               PROVE  OnePlace'
    OBVIOUS
  <1>0. TypeOK
    BY DEF IInv
  <1>1. ASSUME NEW c \in Callers, NEW t \in Tasks, Enqueue(c, t)
        PROVE  OnePlace'
    <2>1. CASE stopping
      BY <1>1, <2>1, OnceFrame DEF Enqueue, Refuses
    <2>2. CASE ~stopping
      <3>1. /\ t \notin accepted /\ tasks' = Append(tasks, t)
            /\ accepted' = accepted \cup {t} /\ UNCHANGED <<holds, ran>>
        BY <1>1, <2>2 DEF Enqueue, Refuses
      <3>2. /\ Len(tasks) \in Nat /\ Len(tasks') = Len(tasks) + 1
            /\ \A i \in 1..Len(tasks) : tasks'[i] = tasks[i] /\ tasks[i] \in Tasks
            /\ tasks'[Len(tasks) + 1] = t
        BY <1>0, <3>1 DEF TypeOK
      <3>3. \A u \in Tasks : Queued(u)' <=> Queued(u) \/ u = t
        BY <3>2 DEF Queued
      <3>4. ~Queued(t) /\ ran[t] = 0 /\ \A w \in Workers : ~HeldBy(t, w)
        BY <3>1 DEF OnePlace
      <3>5. \A i, j \in 1..Len(tasks') : tasks'[i] = tasks'[j] => i = j
        <4>1. \A i \in 1..Len(tasks) : tasks[i] # t
          BY <3>4 DEF Queued
        <4>2. \A i, j \in 1..Len(tasks) : tasks[i] = tasks[j] => i = j
          BY DEF OnePlace
        <4> QED
          BY <3>2, <4>1, <4>2
      <3>6. \A u \in Tasks : \A w \in Workers : HeldBy(u, w)' <=> HeldBy(u, w)
        BY <3>1 DEF HeldBy
      <3> QED
        BY <1>0, <3>1, <3>3, <3>4, <3>5, <3>6 DEF OnePlace, TypeOK
    <2> QED
      BY <2>1, <2>2
  <1>2. ASSUME NEW w \in Workers, Take(w)
        PROVE  OnePlace'
    <2> DEFINE t == Head(tasks)
    <2>1. /\ pc[w] = "lock" /\ tasks # <<>> /\ tasks' = Tail(tasks)
          /\ holds' = [holds EXCEPT ![w] = t]
          /\ UNCHANGED <<accepted, ran>>
      BY <1>2 DEF Take, Front, Popped
    <2>2. /\ Len(tasks) \in Nat /\ Len(tasks) > 0 /\ t = tasks[1] /\ t \in Tasks
          /\ Len(tasks') = Len(tasks) - 1
          /\ \A i \in 1..Len(tasks') : tasks'[i] = tasks[i + 1]
      BY <1>0, <2>1, HeadTailProperties DEF TypeOK
    <2> HIDE DEF t
    <2>3. \A i, j \in 1..Len(tasks) : tasks[i] = tasks[j] => i = j
      BY DEF OnePlace
    <2>4. \A u \in Tasks : Queued(u)' <=> Queued(u) /\ u # t
      <3> SUFFICES ASSUME NEW u \in Tasks
                   PROVE  Queued(u)' <=> Queued(u) /\ u # t
        OBVIOUS
      <3>1. ASSUME Queued(u)'
            PROVE  Queued(u) /\ u # t
        <4>1. PICK i \in 1..Len(tasks') : tasks'[i] = u
          BY <3>1 DEF Queued
        <4>2. i + 1 \in 1..Len(tasks) /\ tasks[i + 1] = u /\ 1 \in 1..Len(tasks) /\ i + 1 # 1
          BY <2>2, <4>1
        <4> QED
          BY <2>2, <2>3, <4>2 DEF Queued
      <3>2. ASSUME Queued(u), u # t
            PROVE  Queued(u)'
        <4>1. PICK i \in 1..Len(tasks) : tasks[i] = u
          BY <3>2 DEF Queued
        <4>2. i - 1 \in 1..Len(tasks') /\ tasks'[i - 1] = u
          BY <2>2, <3>2, <4>1
        <4> QED
          BY <4>2 DEF Queued
      <3> QED
        BY <3>1, <3>2
    <2>5. \A i, j \in 1..Len(tasks') : tasks'[i] = tasks'[j] => i = j
      BY <2>2, <2>3
    <2>6. Queued(t)
      BY <2>2 DEF Queued
    <2>7. holds[w] = None
      BY <1>0, <2>1 DEF TypeOK
    <2>8. \A u \in Tasks : \A v \in Workers :
            HeldBy(u, v)' <=> (IF v = w THEN u = t ELSE HeldBy(u, v))
      BY <1>0, <2>1 DEF TypeOK, HeldBy
    <2>9. \A u \in Tasks : ~HeldBy(u, w)
      BY <2>7, PoolAssumption DEF HeldBy
    <2>10. accepted \subseteq Tasks
      BY <1>0 DEF TypeOK
    <2> QED
      BY <2>1, <2>2, <2>4, <2>5, <2>6, <2>8, <2>9, <2>10 DEF OnePlace
  <1>3. ASSUME NEW w \in Workers, Run(w)
        PROVE  OnePlace'
    <2> DEFINE t == holds[w]
    <2>1. /\ ran' = [ran EXCEPT ![t] = ran[t] + 1]
          /\ holds' = [holds EXCEPT ![w] = None]
          /\ UNCHANGED <<tasks, accepted>>
      BY <1>3 DEF Run
    <2>2. t \in Tasks
      BY <1>0, <1>3 DEF Run, TypeOK
    <2>3. HeldBy(t, w)
      BY DEF HeldBy
    <2> HIDE DEF t
    <2>4. t \in accepted /\ ran[t] = 0 /\ ~Queued(t)
      BY <2>2, <2>3 DEF OnePlace
    <2>5. \A u \in Tasks : Queued(u)' <=> Queued(u)
      BY <2>1 DEF Queued
    <2>6. \A u \in Tasks : \A v \in Workers : HeldBy(u, v)' <=> v # w /\ HeldBy(u, v)
      BY <1>0, <2>1, PoolAssumption DEF TypeOK, HeldBy
    <2>7. \A u \in Tasks : ran'[u] = IF u = t THEN 1 ELSE ran[u]
      BY <1>0, <2>1, <2>2, <2>4 DEF TypeOK
    <2>8. \A u \in Tasks : HeldBy(u, w) => u = t
      BY DEF HeldBy, t
    <2>9. accepted \subseteq Tasks
      BY <1>0 DEF TypeOK
    <2>10. \A i, j \in 1..Len(tasks') : tasks'[i] = tasks'[j] => i = j
      BY <2>1 DEF OnePlace
    <2> QED
      BY <2>1, <2>2, <2>3, <2>4, <2>5, <2>6, <2>7, <2>8, <2>9, <2>10 DEF OnePlace
  <1>4. CASE UNCHANGED <<tasks, holds, accepted, ran>>
    BY <1>4, OnceFrame
  <1> QED
    BY <1>1, <1>2, <1>3, <1>4
    DEF Next, vars, OwnerStep, CallerStep, WorkerStep, Over, Start, Stop, NotifyAll,
        Join, NotifyOne, Sleep, Spurious, Leave

\* Every accepted task is queued, held by one worker or has been run once,
\* and only one of these: the queue loses, copies and repeats nothing.
THEOREM EveryTaskOnce == Spec => []ExactlyOnce
  <1>1. Init => OnePlace
    BY PoolAssumption DEF Init, OnePlace, Queued, HeldBy
  <1>2. IInv /\ OnePlace /\ [Next]_vars => OnePlace'
    BY OnceStep
  <1>3. IInv /\ OnePlace => ExactlyOnce
    BY OnePlaceCounts DEF IInv
  <1> QED
    BY <1>1, <1>2, <1>3, Invariance, PTL DEF Spec
=============================================================================
