------------------------- MODULE UserServiceProofs -------------------------
(* UserService for any pool, any number of workers and of faults, and any   *)
(* requests that the router passes on.  First DatabasePool, as a part of    *)
(* every system that takes its steps.                                       *)
EXTENDS UserService, SequenceTheorems, FiniteSetTheorems, TLAPS


\* The steps that change the pool, in the order init(), use, destructor.
PoolNext ==
  \/ Connect \/ ConnectFails \/ Schema
  \/ \E w \in Workers : Begin(w)
  \/ \E t \in Threads : Acquire(t) \/ Sleep(t) \/ Spurious(t) \/ Query(t)
                          \/ Release(t) \/ Notify(t)
  \/ Destroy

\* Workers come after init(), nobody is left for the destructor, and what is
\* open is what the pool knows: the first handles up to some number.
Phases ==
  /\ phase = "init" => \A w \in Workers : pc[w] = "idle"
  /\ phase = "destroyed" => \A t \in Threads : pc[t] = "idle"
  /\ open = IF phase = "destroyed" THEN {} ELSE all
  /\ \E k \in Nat : all = 1..k

\* A Lease has a handle from acquire() to its destructor.
Leases == \A t \in Threads : lease[t] # None <=> pc[t] \in {"query", "release"}

IsFree(h) == \E i \in 1..Len(available) : available[i] = h
LentTo(h, t) == lease[t] = h

\* LeaseExclusive without counting.
OnePlace ==
  /\ \A i, j \in 1..Len(available) : available[i] = available[j] => i = j
  /\ \A t, u \in Threads : \A h \in Dbs : LentTo(h, t) /\ LentTo(h, u) => t = u
  /\ \A h \in Dbs : \A t \in Threads : LentTo(h, t) => ~IsFree(h)
  /\ \A h \in Dbs : h \in all <=> IsFree(h) \/ \E t \in Threads : LentTo(h, t)

PoolInv == TypeOK /\ Phases /\ Leases /\ OnePlace /\ EnoughNotified

-----------------------------------------------------------------------------
\* The initial state satisfies the invariant.
LEMMA PoolInitially == Init => PoolInv
  <1> SUFFICES ASSUME Init
               PROVE  PoolInv
    OBVIOUS
  <1>1. TypeOK
    BY DatabaseAssumption DEF Init, TypeOK
  <1>2. Phases
    <2>1. all = 1..0 /\ 0 \in Nat
      BY DatabaseAssumption DEF Init
    <2>2. \E k \in Nat : all = 1..k
      BY <2>1
    <2> QED
      BY <2>2 DEF Init, Phases, Threads
  <1>3. Leases /\ EnoughNotified
    BY DEF Init, Leases, EnoughNotified, Waiting
  <1>4. OnePlace
    BY DatabaseAssumption DEF Init, OnePlace, IsFree, LentTo
  <1> QED
    BY <1>1, <1>2, <1>3, <1>4 DEF PoolInv

\* The next handle is a new one.
LEMMA FreshIsNew ==
  ASSUME Phases, Fresh \in Dbs
  PROVE  /\ Fresh \notin all
         /\ \E k \in Nat : all \cup {Fresh} = 1..k
  <1>1. PICK k \in Nat : all = 1..k
    BY DEF Phases
  <1>2. Cardinality(all) = k
    BY <1>1, DatabaseAssumption, FS_Interval
  <1>3. Fresh = k + 1 /\ k + 1 \in Nat
    BY <1>2 DEF Fresh
  <1>4. all \cup {Fresh} = 1..(k + 1)
    BY <1>1, <1>3, DatabaseAssumption
  <1> QED
    BY <1>1, <1>3, <1>4

\* The head of a queue leaves it, the other handles stay in their order.
LEMMA QueueHead ==
  ASSUME NEW S, NEW q \in Seq(S), q # <<>>
  PROVE  /\ Len(q) \in Nat /\ Len(q) > 0 /\ Head(q) = q[1] /\ Head(q) \in S
         /\ Tail(q) \in Seq(S) /\ Len(Tail(q)) = Len(q) - 1
         /\ \A i \in 1..Len(Tail(q)) : Tail(q)[i] = q[i + 1]
  BY HeadTailProperties

\* A new handle comes last.
LEMMA QueueAppend ==
  ASSUME NEW S, NEW q \in Seq(S), NEW h \in S
  PROVE  /\ Append(q, h) \in Seq(S)
         /\ Len(q) \in Nat /\ Len(Append(q, h)) = Len(q) + 1
         /\ \A i \in 1..Len(q) : Append(q, h)[i] = q[i]
         /\ Append(q, h)[Len(q) + 1] = h
  BY AppendProperties

\* acquire() takes the handle away; the Lease that was moved from gives none.
LEMMA AcquireTakes ==
  ASSUME NEW t \in Threads, Acquire(t)
  PROVE  available' = Tail(available)
  BY DEF Acquire, Pushed, MovedFrom

\* A Lease that goes out of scope gives its handle back.
LEMMA ReleaseGives ==
  ASSUME NEW t \in Threads, Release(t), Leases
  PROVE  lease[t] # None /\ available' = Append(available, lease[t])
  <1>1. lease[t] # None
    BY DEF Release, Leases
  <1> QED
    BY <1>1 DEF Release, Pushed

\* Every step of the pool is well typed.
LEMMA PoolTypeStep ==
  ASSUME TypeOK, Leases, PoolNext
  PROVE  TypeOK'
  <1> USE DEF TypeOK
  <1>1. ASSUME Connect
        PROVE  TypeOK'
    <2>1. Append(available, Fresh) \in Seq(Dbs)
      BY <1>1, QueueAppend DEF Connect
    <2> QED
      BY <1>1, <2>1 DEF Connect
  <1>2. CASE ConnectFails \/ Schema \/ Destroy
    BY <1>2 DEF ConnectFails, AfterFailure, Schema, Goto, Destroy
  <1>3. ASSUME NEW w \in Workers, Begin(w)
        PROVE  TypeOK'
    BY <1>3, DatabaseAssumption DEF Begin, Goto, Threads
  <1>4. ASSUME NEW t \in Threads, Acquire(t)
        PROVE  TypeOK'
    <2>1. Head(available) \in Dbs /\ Tail(available) \in Seq(Dbs)
      BY <1>4, QueueHead DEF Acquire
    <2> QED
      BY <1>4, <2>1, AcquireTakes DEF Acquire, Goto
  <1>5. ASSUME NEW t \in Threads, Sleep(t) \/ Spurious(t)
        PROVE  TypeOK'
    BY <1>5 DEF Sleep, Spurious, Goto
  <1>6. ASSUME NEW t \in Threads, Query(t)
        PROVE  TypeOK'
    BY <1>6 DEF Query, Goto
  <1>7. ASSUME NEW t \in Threads, Release(t)
        PROVE  TypeOK'
    <2>1. lease[t] \in Dbs
      BY <1>7, ReleaseGives
    <2>2. Append(available, lease[t]) \in Seq(Dbs)
      BY <2>1, QueueAppend
    <2> QED
      BY <1>7, <2>2, ReleaseGives DEF Release, Notifies, Goto
  <1>8. ASSUME NEW t \in Threads, Notify(t)
        PROVE  TypeOK'
    BY <1>8 DEF Notify, Woken, Waiting, Goto
  <1> QED
    BY <1>1, <1>2, <1>3, <1>4, <1>5, <1>6, <1>7, <1>8 DEF PoolNext

\* Phases and leases follow the threads.
LEMMA PhasesStep ==
  ASSUME TypeOK, Phases, Leases, PoolNext
  PROVE  Phases' /\ Leases'
  <1> USE DEF Threads
  <1>1. ASSUME Connect
        PROVE  Phases' /\ Leases'
    BY <1>1, FreshIsNew DEF Connect, Phases, Leases
  <1>2. ASSUME ConnectFails
        PROVE  Phases' /\ Leases'
    BY <1>2 DEF ConnectFails, AfterFailure, Phases, Leases
  <1>3. ASSUME Schema
        PROVE  Phases' /\ Leases'
    BY <1>3, DatabaseAssumption DEF Schema, Goto, TypeOK, Phases, Leases
  <1>4. ASSUME NEW w \in Workers, Begin(w)
        PROVE  Phases' /\ Leases'
    BY <1>4 DEF Begin, Goto, TypeOK, Phases, Leases
  <1>5. ASSUME NEW t \in Threads, Acquire(t)
        PROVE  Phases' /\ Leases'
    <2>1. Head(available) # None
      BY <1>5, QueueHead, DatabaseAssumption DEF Acquire, TypeOK
    <2> QED
      BY <1>5, <2>1 DEF Acquire, Goto, TypeOK, Phases, Leases
  <1>6. ASSUME NEW t \in Threads, Sleep(t) \/ Spurious(t)
        PROVE  Phases' /\ Leases'
    BY <1>6 DEF Sleep, Spurious, Goto, TypeOK, Phases, Leases
  <1>7. ASSUME NEW t \in Threads, Query(t)
        PROVE  Phases' /\ Leases'
    <2>1. phase # "destroyed" /\ (t # Main => phase # "init")
      BY <1>7 DEF Query, Phases
    <2> QED
      BY <1>7, <2>1 DEF Query, Goto, TypeOK, Phases, Leases
  <1>8. ASSUME NEW t \in Threads, Release(t)
        PROVE  Phases' /\ Leases'
    BY <1>8 DEF Release, Notifies, Goto, TypeOK, Phases, Leases
  <1>9. ASSUME NEW t \in Threads, Notify(t)
        PROVE  Phases' /\ Leases'
    BY <1>9 DEF Notify, Woken, Waiting, Goto, TypeOK, Phases, Leases
  <1>10. ASSUME Destroy
         PROVE  Phases' /\ Leases'
    BY <1>10 DEF Destroy, TypeOK, Phases, Leases
  <1> QED
    BY <1>1, <1>2, <1>3, <1>4, <1>5, <1>6, <1>7, <1>8, <1>9, <1>10 DEF PoolNext

\* A handle is in one place.
LEMMA OnePlaceStep ==
  ASSUME TypeOK, Phases, Leases, OnePlace, PoolNext
  PROVE  OnePlace'
  <1>1. ASSUME Connect
        PROVE  OnePlace'
    <2>1. /\ available' = Append(available, Fresh) /\ all' = all \cup {Fresh}
          /\ UNCHANGED lease /\ Fresh \in Dbs
      BY <1>1 DEF Connect
    <2>2. Fresh \notin all
      BY <2>1, FreshIsNew
    <2>3. /\ Len(available) \in Nat /\ Len(available') = Len(available) + 1
          /\ \A i \in 1..Len(available) : available'[i] = available[i]
          /\ available'[Len(available) + 1] = Fresh
      BY <2>1, QueueAppend DEF TypeOK
    <2>4. \A h \in Dbs : IsFree(h)' <=> IsFree(h) \/ h = Fresh
      BY <2>3 DEF IsFree
    <2>5. ~IsFree(Fresh) /\ \A t \in Threads : ~LentTo(Fresh, t)
      BY <2>1, <2>2 DEF OnePlace
    <2>6. \A i, j \in 1..Len(available') : available'[i] = available'[j] => i = j
      <3>1. \A i, j \in 1..Len(available) : available[i] = available[j] => i = j
        BY DEF OnePlace
      <3>2. \A i \in 1..Len(available) : available[i] # Fresh
        BY <2>5 DEF IsFree
      <3> QED
        BY <2>3, <3>1, <3>2
    <2>7. \A h \in Dbs : \A t \in Threads : LentTo(h, t)' <=> LentTo(h, t)
      BY <2>1 DEF LentTo
    <2> QED
      BY <2>1, <2>4, <2>5, <2>6, <2>7 DEF OnePlace
  <1>2. ASSUME NEW t \in Threads, Acquire(t)
        PROVE  OnePlace'
    <2> DEFINE h == Head(available)
    <2>1. /\ pc[t] = "acquire" /\ available # <<>> /\ available' = Tail(available)
          /\ lease' = [lease EXCEPT ![t] = h]
          /\ UNCHANGED all
      BY <1>2, AcquireTakes DEF Acquire
    <2>2. /\ Len(available) \in Nat /\ Len(available) > 0
          /\ h = available[1] /\ h \in Dbs
          /\ Len(available') = Len(available) - 1
          /\ \A i \in 1..Len(available') : available'[i] = available[i + 1]
      BY <2>1, QueueHead DEF TypeOK
    <2> HIDE DEF h
    <2>3. \A i, j \in 1..Len(available) : available[i] = available[j] => i = j
      BY DEF OnePlace
    <2>4. \A g \in Dbs : IsFree(g)' <=> IsFree(g) /\ g # h
      <3> SUFFICES ASSUME NEW g \in Dbs
                   PROVE  IsFree(g)' <=> IsFree(g) /\ g # h
        OBVIOUS
      <3>1. ASSUME IsFree(g)'
            PROVE  IsFree(g) /\ g # h
        <4>1. PICK i \in 1..Len(available') : available'[i] = g
          BY <3>1 DEF IsFree
        <4>2. /\ i + 1 \in 1..Len(available) /\ available[i + 1] = g
              /\ 1 \in 1..Len(available) /\ i + 1 # 1
          BY <2>2, <4>1
        <4> QED
          BY <2>2, <2>3, <4>2 DEF IsFree
      <3>2. ASSUME IsFree(g), g # h
            PROVE  IsFree(g)'
        <4>1. PICK i \in 1..Len(available) : available[i] = g
          BY <3>2 DEF IsFree
        <4>2. i - 1 \in 1..Len(available') /\ available'[i - 1] = g
          BY <2>2, <3>2, <4>1
        <4> QED
          BY <4>2 DEF IsFree
      <3> QED
        BY <3>1, <3>2
    <2>5. \A i, j \in 1..Len(available') : available'[i] = available'[j] => i = j
      BY <2>2, <2>3
    <2>6. IsFree(h)
      BY <2>2 DEF IsFree
    <2>7. \A g \in Dbs : ~LentTo(g, t)
      BY <2>1, DatabaseAssumption DEF Leases, LentTo
    <2>8. \A g \in Dbs : \A u \in Threads :
            LentTo(g, u)' <=> (IF u = t THEN g = h ELSE LentTo(g, u))
      BY <2>1 DEF TypeOK, LentTo
    <2> QED
      BY <2>1, <2>2, <2>4, <2>5, <2>6, <2>7, <2>8 DEF OnePlace
  <1>3. ASSUME NEW t \in Threads, Release(t)
        PROVE  OnePlace'
    <2> DEFINE h == lease[t]
    <2>1. /\ pc[t] = "release" /\ available' = Append(available, h)
          /\ lease' = [lease EXCEPT ![t] = None]
          /\ UNCHANGED all
      BY <1>3, ReleaseGives DEF Release
    <2>2. h \in Dbs
      BY <2>1 DEF Leases, TypeOK
    <2>3. LentTo(h, t) /\ \A g \in Dbs : LentTo(g, t) => g = h
      BY DEF LentTo
    <2> HIDE DEF h
    <2>4. ~IsFree(h) /\ h \in all
      BY <2>2, <2>3 DEF OnePlace
    <2>5. /\ Len(available) \in Nat /\ Len(available') = Len(available) + 1
          /\ \A i \in 1..Len(available) : available'[i] = available[i]
          /\ available'[Len(available) + 1] = h
      BY <2>1, <2>2, QueueAppend DEF TypeOK
    <2>6. \A g \in Dbs : IsFree(g)' <=> IsFree(g) \/ g = h
      BY <2>5 DEF IsFree
    <2>7. \A i, j \in 1..Len(available') : available'[i] = available'[j] => i = j
      <3>1. \A i, j \in 1..Len(available) : available[i] = available[j] => i = j
        BY DEF OnePlace
      <3>2. \A i \in 1..Len(available) : available[i] # h
        BY <2>4 DEF IsFree
      <3> QED
        BY <2>5, <3>1, <3>2
    <2>8. \A g \in Dbs : \A u \in Threads : LentTo(g, u)' <=> u # t /\ LentTo(g, u)
      BY <2>1, DatabaseAssumption DEF TypeOK, LentTo
    <2> QED
      BY <2>1, <2>2, <2>3, <2>4, <2>6, <2>7, <2>8 DEF OnePlace
  <1>4. CASE UNCHANGED <<all, available, lease>>
    BY <1>4 DEF OnePlace, IsFree, LentTo
  <1> QED
    BY <1>1, <1>2, <1>3, <1>4
    DEF PoolNext, ConnectFails, Schema, Begin, Sleep, Spurious, Query, Notify, Destroy

\* The threads that a free handle is meant for.
Awake == {t \in Threads : pc[t] \in {"acquire", "notify"}}

LEMMA AwakeFinite == IsFiniteSet(Awake) /\ Cardinality(Awake) \in Nat
  <1>1. IsFiniteSet(Threads)
    BY DatabaseAssumption, FS_AddElement DEF Threads
  <1>2. IsFiniteSet(Awake)
    BY <1>1, FS_Subset DEF Awake
  <1> QED
    BY <1>2, FS_CardinalityType

\* No step leaves a sleeper with more free handles than threads awake.
LEMMA EnoughStep ==
  ASSUME TypeOK, Phases, Leases, EnoughNotified, PoolNext
  PROVE  EnoughNotified'
  <1>0. /\ Waiting # {} => Len(available) <= Cardinality(Awake)
        /\ Cardinality(Awake) \in Nat /\ Len(available) \in Nat
    BY AwakeFinite DEF EnoughNotified, Awake, TypeOK
  <1> SUFFICES ASSUME Waiting' # {}
               PROVE  Len(available') <= Cardinality(Awake')
    BY DEF EnoughNotified, Awake
  \* One more thread is awake, and at most one more handle is free.
  <1>1. ASSUME NEW t \in Threads, Awake' = Awake \cup {t}, t \notin Awake, Waiting # {},
               Len(available') \in {Len(available), Len(available) + 1}
        PROVE  Len(available') <= Cardinality(Awake')
    <2>1. Cardinality(Awake') = Cardinality(Awake) + 1
      BY <1>1, AwakeFinite, FS_AddElement
    <2> QED
      BY <1>0, <1>1, <2>1
  <1>2. ASSUME Connect
        PROVE  Len(available') <= Cardinality(Awake')
    <2>1. Waiting = {} /\ Waiting' = {}
      BY <1>2 DEF Connect, Phases, Waiting, Threads
    <2> QED
      BY <2>1
  <1>3. CASE ConnectFails \/ Destroy
    BY <1>0, <1>3 DEF ConnectFails, Destroy, Waiting, Awake
  <1>4. ASSUME Schema
        PROVE  Len(available') <= Cardinality(Awake')
    <2>1. Waiting' = {}
      BY <1>4, DatabaseAssumption DEF Schema, Goto, Phases, TypeOK, Waiting, Threads
    <2> QED
      BY <2>1
  <1>5. ASSUME NEW w \in Workers, Begin(w)
        PROVE  Len(available') <= Cardinality(Awake')
    <2>1. Awake' = Awake \cup {w} /\ w \notin Awake /\ Waiting' = Waiting /\ w \in Threads
      BY <1>5 DEF Begin, Goto, TypeOK, Waiting, Awake, Threads
    <2>2. Len(available') = Len(available)
      BY <1>5 DEF Begin
    <2> QED
      BY <1>1, <2>1, <2>2
  <1>6. ASSUME NEW t \in Threads, Acquire(t)
        PROVE  Len(available') <= Cardinality(Awake')
    <2>1. Awake' = Awake \ {t} /\ t \in Awake /\ Waiting' = Waiting
      BY <1>6 DEF Acquire, Goto, TypeOK, Waiting, Awake
    <2>2. Len(available') = Len(available) - 1
      BY <1>6, AcquireTakes, QueueHead DEF Acquire, TypeOK
    <2>3. Cardinality(Awake') = Cardinality(Awake) - 1
      BY <2>1, AwakeFinite, FS_RemoveElement
    <2> QED
      BY <1>0, <2>1, <2>2, <2>3
  <1>7. ASSUME NEW t \in Threads, Sleep(t)
        PROVE  Len(available') <= Cardinality(Awake')
    <2>1. Len(available') = 0
      BY <1>7 DEF Sleep
    <2>2. Awake' = Awake \ {t} /\ t \in Awake
      BY <1>7 DEF Sleep, Goto, TypeOK, Awake
    <2>3. Cardinality(Awake') \in Nat
      BY <2>2, AwakeFinite, FS_RemoveElement, FS_CardinalityType
    <2> QED
      BY <2>1, <2>3
  <1>8. ASSUME NEW t \in Threads, Spurious(t)
        PROVE  Len(available') <= Cardinality(Awake')
    <2>1. Awake' = Awake \cup {t} /\ t \notin Awake /\ t \in Waiting
      BY <1>8 DEF Spurious, Goto, TypeOK, Waiting, Awake
    <2>2. Len(available') = Len(available)
      BY <1>8 DEF Spurious
    <2> QED
      BY <1>1, <2>1, <2>2
  <1>9. ASSUME NEW t \in Threads, Query(t)
        PROVE  Len(available') <= Cardinality(Awake')
    <2>1. Awake' = Awake /\ Waiting' = Waiting /\ available' = available
      BY <1>9 DEF Query, Goto, TypeOK, Waiting, Awake
    <2> QED
      BY <1>0, <2>1
  <1>10. ASSUME NEW t \in Threads, Release(t)
         PROVE  Len(available') <= Cardinality(Awake')
    <2>1. Awake' = Awake \cup {t} /\ t \notin Awake /\ Waiting' = Waiting
      BY <1>10 DEF Release, Notifies, Goto, TypeOK, Waiting, Awake
    <2>2. lease[t] \in Dbs
      BY <1>10, ReleaseGives DEF TypeOK
    <2>3. Len(available') = Len(available) + 1
      BY <2>2, <1>10, ReleaseGives, QueueAppend DEF TypeOK
    <2> QED
      BY <1>1, <2>1, <2>3
  <1>11. ASSUME NEW t \in Threads, Notify(t)
         PROVE  Len(available') <= Cardinality(Awake')
    <2>1. CASE Waiting = {}
      <3>1. Waiting' = {}
        BY <1>11, <2>1 DEF Notify, Woken, Goto, TypeOK, Waiting
      <3> QED
        BY <3>1
    <2>2. CASE Waiting # {}
      <3>1. PICK u \in Waiting : pc' = [pc EXCEPT ![t] = "idle", ![u] = "acquire"]
        BY <1>11, <2>2 DEF Notify, Woken
      <3>2. /\ Awake' = (Awake \ {t}) \cup {u} /\ t \in Awake /\ u \notin Awake
            /\ available' = available
        BY <1>11, <3>1 DEF Notify, TypeOK, Waiting, Awake
      <3>3. IsFiniteSet(Awake \ {t}) /\ Cardinality(Awake \ {t}) = Cardinality(Awake) - 1
        BY <3>2, AwakeFinite, FS_RemoveElement
      <3>4. Cardinality(Awake') = Cardinality(Awake \ {t}) + 1
        BY <3>2, <3>3, FS_AddElement
      <3> QED
        BY <1>0, <2>2, <3>2, <3>3, <3>4
    <2> QED
      BY <2>1, <2>2
  <1> QED
    BY <1>2, <1>3, <1>4, <1>5, <1>6, <1>7, <1>8, <1>9, <1>10, <1>11 DEF PoolNext

\* Every step of the pool keeps the invariant.
LEMMA PoolStep ==
  ASSUME PoolInv, PoolNext
  PROVE  PoolInv'
  BY PoolTypeStep, PhasesStep, OnePlaceStep, EnoughStep DEF PoolInv

\* What other components do leaves the pool alone.
LEMMA PoolFrame ==
  ASSUME PoolInv, UNCHANGED vars
  PROVE  PoolInv'
  BY DEF PoolInv, vars, TypeOK, Phases, Leases, OnePlace, IsFree, LentTo,
         EnoughNotified, Waiting, Threads

\* A handle of the pool is counted once, free or lent.
LEMMA PoolExclusive ==
  ASSUME PoolInv
  PROVE  LeaseExclusive
  <1> SUFFICES ASSUME NEW h \in all
               PROVE  Cardinality(Lent(h)) + Cardinality(Free(h)) = 1
    BY DEF LeaseExclusive
  <1>1. h \in Dbs /\ (IsFree(h) \/ \E t \in Threads : LentTo(h, t))
    BY DEF PoolInv, TypeOK, OnePlace
  <1>2. CASE IsFree(h)
    <2>1. PICK i \in 1..Len(available) : available[i] = h
      BY <1>2 DEF IsFree
    <2>2. Free(h) = {i} /\ Lent(h) = {}
      BY <1>1, <1>2, <2>1 DEF PoolInv, OnePlace, Free, Lent, LentTo
    <2>3. Cardinality({i}) = 1 /\ Cardinality({}) = 0
      BY FS_Singleton, FS_EmptySet
    <2> QED
      BY <2>2, <2>3
  <1>3. CASE ~IsFree(h)
    <2>1. PICK t \in Threads : LentTo(h, t)
      BY <1>1, <1>3
    <2>2. Lent(h) = {t} /\ Free(h) = {}
      BY <1>1, <1>3, <2>1 DEF PoolInv, OnePlace, Free, IsFree, Lent, LentTo
    <2>3. Cardinality({t}) = 1 /\ Cardinality({}) = 0
      BY FS_Singleton, FS_EmptySet
    <2> QED
      BY <2>2, <2>3
  <1> QED
    BY <1>2, <1>3

\* What a thread speaks on is connected, and nothing is left in the end.
LEMMA PoolLeaksNothing ==
  ASSUME PoolInv
  PROVE  NoHandleLeak
  <1>1. \A t \in Threads : lease[t] # None => lease[t] \in all
    BY DEF PoolInv, TypeOK, OnePlace, LentTo
  <1> QED
    BY <1>1 DEF PoolInv, Phases, Leases, NoHandleLeak

-----------------------------------------------------------------------------
(* The calls, the table and the answers *)

Registers(r) == r.path.text = "/register"

\* A statement has an outcome until its worker returns.
Pending == \A w \in Workers : outcome[w] # None => pc[w] = "query"

\* The worker has inserted the row, and its client has not been told.
Claims(w) == outcome[w] = "done" /\ Registers(call[w].request)
Mine(w) == Row(call[w].request)

\* What the table owes to the statements and to the answers given.
Ledger ==
  /\ \A row, other \in rows : row.username = other.username => row = other
  /\ \A w \in Workers :
       /\ outcome[w] = "done" => Mine(w) \in rows
       /\ outcome[w] = "refused" /\ Registers(call[w].request) => Taken(Mine(w))
  /\ \A v, w \in Workers :
       Claims(v) /\ Claims(w) /\ Mine(v).username = Mine(w).username => v = w
  /\ \A w \in Workers : \A k \in 1..Len(answers) :
       Claims(w) /\ Status(k) = 201 => Mine(w).username # RowOf(k).username
  /\ \A row \in rows :
       \/ \E k \in 1..Len(answers) : /\ Path(k) = "/register" /\ RowOf(k) = row
                                     /\ Status(k) = 201 \/ answers[k].failed
       \/ \E w \in Workers : Claims(w) /\ Mine(w) = row

\* The part of AnswersTrue about the answers themselves.
AnswersAgree ==
  /\ \A i, j \in 1..Len(answers) :
       Status(i) = 201 /\ Status(j) = 201 /\ RowOf(i).username = RowOf(j).username => i = j
  /\ \A k \in 1..Len(answers) :
       /\ Status(k) \in {200, 201} => RowOf(k) \in rows
       /\ Status(k) = 409 => answers[k].failed \/ Taken(RowOf(k))

\* SeesEarlier for the statements that have been executed, and the order of
\* the answers.
SeesSoFar ==
  /\ \A w \in Workers : call[w] # None => call[w].since <= Len(answers)
  /\ \A k \in 1..Len(answers) : answers[k].since < k
  /\ \A w \in Workers : outcome[w] \in {"done", "refused"} =>
       \A i \in 1..call[w].since :
         Status(i) = 201 /\ RowOf(i).username = Mine(w).username =>
           outcome[w] = IF ~Registers(call[w].request) /\ Mine(w) = RowOf(i)
                        THEN "done" ELSE "refused"

ServiceInv ==
  /\ PoolInv /\ ServiceTypeOK /\ Pending
  /\ Ledger /\ AnswersAgree /\ SeesSoFar /\ SeesEarlier

-----------------------------------------------------------------------------
\* Only the two paths reach the service.
LEMMA TwoPaths ==
  ASSUME NEW r \in Requests
  PROVE  r.method = "POST" /\ HasBoth(r) /\ r.path.text \in {"/register", "/login"}
  BY ServiceAssumption DEF Requests, Handles, Asks, Text

\* What the client is told.
LEMMA RouteStatus ==
  ASSUME NEW r \in Requests, NEW ok \in BOOLEAN
  PROVE  Route(r, ok).status = IF Registers(r) THEN IF ok THEN 201 ELSE 409
                                               ELSE IF ok THEN 200 ELSE 401
  BY TwoPaths DEF Route, Asks, Page, Registers

\* The steps of the pool keep every call where the service left it.
QuietStep == MainStep \/ OtherStep \/ \E t \in Threads : ThreadStep(t)

LEMMA QuietFrame ==
  ASSUME TypeOK, QuietStep
  PROVE  /\ PoolNext /\ UNCHANGED <<rows, lost, faults, call, outcome, answers>>
         /\ \A w \in Workers :
              /\ pc[w] = "query" => pc'[w] = "query"
              /\ pc'[w] \in {"acquire", "waiting", "query"}
                   <=> pc[w] \in {"acquire", "waiting", "query"}
  <1>1. PoolNext
    BY DEF QuietStep, MainStep, InitStep, OtherStep, ThreadStep, Use, PoolNext, Threads
  <1>2. UNCHANGED <<rows, lost, faults, call, outcome, answers>>
    BY DEF QuietStep, MainStep, OtherStep, ThreadStep, service, table
  <1>3. ASSUME NEW w \in Workers
        PROVE  /\ pc[w] = "query" => pc'[w] = "query"
               /\ pc'[w] \in {"acquire", "waiting", "query"}
                    <=> pc[w] \in {"acquire", "waiting", "query"}
    <2>0. w \in Threads /\ w # Main /\ pc \in [Threads -> {"idle", "acquire", "waiting",
                                          "query", "release", "notify"}]
      BY DatabaseAssumption DEF Threads, TypeOK
    <2>1. CASE UNCHANGED pc
      BY <2>1
    <2>2. CASE Schema \/ Query(Main)
      BY <2>0, <2>2 DEF Schema, Query, Goto
    <2>3. ASSUME NEW t \in Threads, Acquire(t) \/ Sleep(t) \/ Spurious(t)
          PROVE  /\ pc[w] = "query" => pc'[w] = "query"
                 /\ pc'[w] \in {"acquire", "waiting", "query"}
                      <=> pc[w] \in {"acquire", "waiting", "query"}
      BY <2>0, <2>3 DEF Acquire, Sleep, Spurious, Goto
    <2>4. ASSUME NEW t \in Threads, Release(t)
          PROVE  /\ pc[w] = "query" => pc'[w] = "query"
                 /\ pc'[w] \in {"acquire", "waiting", "query"}
                      <=> pc[w] \in {"acquire", "waiting", "query"}
      BY <2>0, <2>4 DEF Release, Notifies, Goto
    <2>5. ASSUME NEW t \in Threads, Notify(t)
          PROVE  /\ pc[w] = "query" => pc'[w] = "query"
                 /\ pc'[w] \in {"acquire", "waiting", "query"}
                      <=> pc[w] \in {"acquire", "waiting", "query"}
      BY <2>0, <2>5 DEF Notify, Woken, Waiting, Goto
    <2> QED
      BY <2>1, <2>2, <2>3, <2>4, <2>5
      DEF QuietStep, MainStep, InitStep, OtherStep, ThreadStep, Use, Connect,
          ConnectFails, Destroy
  <1> QED
    BY <1>1, <1>2, <1>3

\* What the service says follows from its own variables and its workers'.
LEMMA ServiceFrame ==
  ASSUME Pending, Ledger, AnswersAgree, SeesSoFar, SeesEarlier,
         UNCHANGED <<rows, call, outcome, answers>>
  PROVE  Ledger' /\ AnswersAgree' /\ SeesSoFar' /\ SeesEarlier'
  BY DEF Ledger, AnswersAgree, SeesSoFar, SeesEarlier, Claims, Mine, Taken, Path,
         Status, RowOf

\* The initial state satisfies the invariant.
LEMMA ServiceInitially == ServiceInit => ServiceInv
  <1> SUFFICES ASSUME ServiceInit
               PROVE  ServiceInv
    OBVIOUS
  <1>1. PoolInv
    BY PoolInitially DEF ServiceInit
  <1>2. TypeOK
    BY <1>1 DEF PoolInv
  <1>3. ServiceTypeOK
    <2>1. \A w \in Workers : pc[w] = "idle"
      BY DEF ServiceInit, Init, Threads
    <2> QED
      BY <1>2, <2>1, ServiceAssumption DEF ServiceInit, ServiceTypeOK
  <1>4. Pending /\ Ledger /\ AnswersAgree /\ SeesSoFar /\ SeesEarlier
    BY ServiceAssumption DEF ServiceInit, Pending, Ledger, AnswersAgree, SeesSoFar,
       SeesEarlier, Claims
  <1> QED
    BY <1>1, <1>3, <1>4 DEF ServiceInv

-----------------------------------------------------------------------------
\* A call brings a new request; it sees the answers that are there.
LEMMA AskStep ==
  ASSUME ServiceInv, NEW w \in Workers, Ask(w)
  PROVE  ServiceInv'
  <1> USE DEF ServiceInv
  <1> DEFINE r == [request |-> Calls[w], since |-> Len(answers)]
  <1>1. /\ Begin(w) /\ call' = [call EXCEPT ![w] = r]
        /\ UNCHANGED <<rows, lost, faults, outcome, answers>>
    BY DEF Ask, table
  <1>2. Calls[w] \in Requests /\ Len(answers) \in Nat /\ w \in Threads
    BY DEF ServiceTypeOK, Requests, Threads
  <1>3. r # None /\ r.request = Calls[w] /\ r.since = Len(answers)
    <2>1. r \in [request: Requests, since: Nat]
      BY <1>2
    <2>2. None \notin [request: Requests, since: Nat]
      BY ServiceAssumption DEF Requests
    <2> QED
      BY <2>1, <2>2
  <1>4. PoolInv'
    BY <1>1, <1>2, PoolStep DEF PoolNext
  <1>5. /\ pc[w] = "idle" /\ pc' = [pc EXCEPT ![w] = "acquire"]
        /\ pc \in [Threads -> {"idle", "acquire", "waiting", "query", "release", "notify"}]
    BY <1>1 DEF Begin, Goto, PoolInv, TypeOK
  <1>6. outcome[w] = None
    BY <1>5 DEF Pending
  <1> HIDE DEF r
  <1>7. ServiceTypeOK'
    <2>1. call' \in [Workers -> [request: Requests, since: Nat] \cup {None}]
      BY <1>1, <1>2, <1>3 DEF ServiceTypeOK, r
    <2>2. \A v \in Workers : call'[v] # None <=> pc'[v] \in {"acquire", "waiting", "query"}
      BY <1>1, <1>3, <1>5 DEF ServiceTypeOK, Threads
    <2> QED
      BY <1>1, <1>4, <2>1, <2>2 DEF ServiceTypeOK, PoolInv
  <1>8. Pending'
    BY <1>1, <1>5, <1>6 DEF Pending, Threads
  <1>9. \A v \in Workers : v # w => call'[v] = call[v]
    BY <1>1 DEF ServiceTypeOK
  <1>10. \A v \in Workers : outcome'[v] # None => call'[v] = call[v]
    BY <1>1, <1>6, <1>9
  <1>11. UNCHANGED <<rows, answers, outcome>>
    BY <1>1
  <1>12. Ledger'
    <2>1. \A v \in Workers : outcome[v] \in {"done", "refused"} => call'[v] = call[v]
      BY <1>6, <1>9, ServiceAssumption
    <2> QED
      BY <1>11, <2>1 DEF Ledger, Claims, Mine, Path, Status, RowOf, Taken
  <1>13. AnswersAgree' /\ SeesEarlier'
    BY <1>11 DEF AnswersAgree, SeesEarlier, Path, Status, RowOf, Taken
  <1>14. SeesSoFar'
    <2>1. \A v \in Workers : call'[v] # None => call'[v].since <= Len(answers)
      BY <1>1, <1>2, <1>3, <1>9 DEF SeesSoFar, ServiceTypeOK
    <2>2. \A v \in Workers : outcome[v] \in {"done", "refused"} => call'[v] = call[v]
      BY <1>6, <1>9, ServiceAssumption
    <2> QED
      BY <1>11, <2>1, <2>2 DEF SeesSoFar, Mine, Path, Status, RowOf
  <1> QED
    BY <1>4, <1>7, <1>8, <1>12, <1>13, <1>14

\* A worker that is at its statement has a call and a handle.
LEMMA AtQuery ==
  ASSUME ServiceInv, NEW w \in Workers, pc[w] = "query"
  PROVE  /\ call[w] \in [request: Requests, since: Nat]
         /\ call[w].request \in Requests /\ call[w].since \in Nat
         /\ lease[w] \in Dbs
  <1>1. call[w] \in [request: Requests, since: Nat]
    BY DEF ServiceInv, ServiceTypeOK
  <1>2. lease[w] \in Dbs
    BY DEF ServiceInv, PoolInv, Leases, TypeOK, Threads
  <1> QED
    BY <1>1, <1>2

\* The server executes one statement.
LEMMA ExecuteStep ==
  ASSUME ServiceInv, NEW w \in Workers, Execute(w)
  PROVE  ServiceInv'
  <1> USE DEF ServiceInv
  <1> DEFINE r == call[w].request
  <1>1. /\ pc[w] = "query" /\ outcome[w] = None
        /\ outcome' = [outcome EXCEPT ![w] = Effect(r)[1]] /\ rows' = Effect(r)[2]
        /\ UNCHANGED <<vars, lost, faults, call, answers>>
    BY DEF Execute
  <1>2. r \in Requests /\ Row(r) = Mine(w)
    BY <1>1, AtQuery DEF Mine
  <1>3. PoolInv'
    BY <1>1, PoolFrame
  <1>4. /\ Effect(r)[1] = IF (IF Registers(r) THEN ~Taken(Row(r)) ELSE Row(r) \in rows)
                          THEN "done" ELSE "refused"
        /\ Effect(r)[2] = IF Registers(r) /\ ~Taken(Row(r)) THEN rows \cup {Row(r)} ELSE rows
    BY DEF Effect, Insert, Select, Registers
  <1>5. \A v \in Workers : outcome'[v] = IF v = w THEN Effect(r)[1] ELSE outcome[v]
    BY <1>1 DEF ServiceTypeOK
  <1>6. UNCHANGED <<pc, call, answers>>
    BY <1>1 DEF vars
  <1>7. ServiceTypeOK'
    BY <1>1, <1>2, <1>3, <1>4, <1>6 DEF ServiceTypeOK, PoolInv
  <1>8. Pending'
    BY <1>1, <1>5, <1>6 DEF Pending
  <1>9. rows \subseteq rows' /\ \A row : Taken(row) => Taken(row)'
    BY <1>1, <1>4 DEF Taken
  <1>10. \A v \in Workers : Mine(v)' = Mine(v)
    BY <1>6 DEF Mine
  <1>11. \A v \in Workers : Claims(v)' <=>
           IF v = w THEN Registers(r) /\ ~Taken(Row(r)) ELSE Claims(v)
    BY <1>4, <1>5, <1>6 DEF Claims
  <1> HIDE DEF r
  <1>12. \A k \in 1..Len(answers) :
           Path(k)' = Path(k) /\ Status(k)' = Status(k) /\ RowOf(k)' = RowOf(k)
    BY <1>6 DEF Path, Status, RowOf
  <1>13. \A k \in 1..Len(answers) : Status(k) = 201 => RowOf(k) \in rows
    BY DEF AnswersAgree
  <1>14. AnswersAgree'
    BY <1>6, <1>9, <1>12 DEF AnswersAgree
  <1>15. SeesEarlier'
    BY <1>6 DEF SeesEarlier, Path, Status, RowOf
  <1>16. SeesSoFar'
    <2>1. ASSUME NEW v \in Workers, outcome'[v] \in {"done", "refused"},
                 NEW i \in 1..call[v].since, Status(i) = 201,
                 RowOf(i).username = Mine(v).username
          PROVE  outcome'[v] = IF ~Registers(call[v].request) /\ Mine(v) = RowOf(i)
                               THEN "done" ELSE "refused"
      <3>1. CASE v # w
        BY <1>5, <2>1, <3>1 DEF SeesSoFar
      <3>2. CASE v = w
        <4>1. i \in 1..Len(answers)
          BY <1>1, <2>1, <3>2, AtQuery DEF SeesSoFar, ServiceTypeOK
        <4>2. RowOf(i) \in rows /\ Taken(Mine(w))
          BY <1>13, <2>1, <3>2, <4>1 DEF Taken
        <4>3. Mine(w) \in rows <=> Mine(w) = RowOf(i)
          BY <2>1, <3>2, <4>2 DEF Ledger
        <4>4. r = call[w].request
          BY DEF r
        <4> QED
          BY <1>2, <1>4, <1>5, <3>2, <4>2, <4>3, <4>4
      <3> QED
        BY <3>1, <3>2
    <2>2. \A v \in Workers : call[v] # None => call[v].since <= Len(answers)
      BY DEF SeesSoFar
    <2>3. ASSUME NEW v \in Workers, outcome'[v] \in {"done", "refused"}
          PROVE  call[v].since \in Nat /\ call[v].since <= Len(answers)
      <3>1. pc[v] = "query"
        BY <1>6, <1>8, <2>3, ServiceAssumption DEF Pending
      <3>2. call[v] # None
        BY <3>1 DEF ServiceTypeOK
      <3> QED
        BY <2>2, <3>1, <3>2, AtQuery
    <2>4. \A v \in Workers : outcome'[v] \in {"done", "refused"} =>
            \A i \in 1..call[v].since : i \in 1..Len(answers)
      BY <2>3 DEF ServiceTypeOK
    <2>5. \A k \in 1..Len(answers) : answers[k].since < k
      BY DEF SeesSoFar
    <2> QED
      BY <1>6, <1>10, <1>12, <2>1, <2>2, <2>4, <2>5 DEF SeesSoFar
  <1>17. Ledger'
    <2>1. \A row, other \in rows' : row.username = other.username => row = other
      BY <1>1, <1>4 DEF Ledger, Taken
    <2>2. \A v \in Workers : outcome'[v] = "done" => Mine(v) \in rows'
      BY <1>1, <1>2, <1>4, <1>5, <1>9 DEF Ledger
    <2>3. \A v \in Workers : outcome'[v] = "refused" /\ Registers(call[v].request) =>
            Taken(Mine(v))'
      <3>1. r = call[w].request
        BY DEF r
      <3>2. CASE ~Registers(r) \/ Taken(Row(r))
        BY <1>2, <1>4, <1>5, <1>9, <1>10, <3>1, <3>2 DEF Ledger, Taken
      <3>3. CASE Registers(r) /\ ~Taken(Row(r))
        BY <1>4, <1>5, <1>9, <1>10, <3>1, <3>3 DEF Ledger, Taken
      <3> QED
        BY <3>2, <3>3
    <2>4. \A v \in Workers : Claims(v) => Mine(v) \in rows
      BY DEF Ledger, Claims
    <2>5. \A u, v \in Workers :
            Claims(u)' /\ Claims(v)' /\ Mine(u).username = Mine(v).username => u = v
      <3>1. \A v \in Workers : Claims(v) /\ Mine(v).username = Row(r).username => Taken(Row(r))
        BY <2>4 DEF Taken
      <3>2. \A u, v \in Workers :
              Claims(u) /\ Claims(v) /\ Mine(u).username = Mine(v).username => u = v
        BY DEF Ledger
      <3> QED
        BY <1>2, <1>11, <3>1, <3>2
    <2>6. \A v \in Workers : \A k \in 1..Len(answers) :
            Claims(v)' /\ Status(k) = 201 => Mine(v).username # RowOf(k).username
      <3>1. \A k \in 1..Len(answers) :
              Status(k) = 201 /\ RowOf(k).username = Row(r).username => Taken(Row(r))
        BY <1>13 DEF Taken
      <3>2. \A v \in Workers : \A k \in 1..Len(answers) :
              Claims(v) /\ Status(k) = 201 => Mine(v).username # RowOf(k).username
        BY DEF Ledger
      <3> QED
        BY <1>2, <1>11, <3>1, <3>2
    <2>7. ASSUME NEW row \in rows'
          PROVE  \/ \E k \in 1..Len(answers) : /\ Path(k) = "/register" /\ RowOf(k) = row
                                               /\ Status(k) = 201 \/ answers[k].failed
                 \/ \E v \in Workers : Claims(v)' /\ Mine(v) = row
      <3>1. CASE row \in rows
        <4>1. ~Claims(w)
          BY <1>1, ServiceAssumption DEF Claims
        <4> QED
          BY <1>11, <3>1, <4>1 DEF Ledger
      <3>2. CASE row \notin rows
        BY <1>1, <1>2, <1>4, <1>11, <2>7, <3>2
      <3> QED
        BY <3>1, <3>2
    <2> QED
      BY <1>6, <1>10, <1>12, <2>1, <2>2, <2>3, <2>5, <2>6, <2>7 DEF Ledger
  <1> QED
    BY <1>3, <1>7, <1>8, <1>14, <1>15, <1>16, <1>17

\* A statement fails or a connection is lost: nothing happens to the table.
LEMMA FaultStep ==
  ASSUME ServiceInv, NEW w \in Workers, Fail(w) \/ Lose(w)
  PROVE  ServiceInv'
  <1> USE DEF ServiceInv
  <1>1. /\ pc[w] = "query" /\ faults > 0 /\ faults' = faults - 1
        /\ UNCHANGED <<vars, rows, call, answers>>
    BY DEF Fail, Lose
  <1>2. PoolInv' /\ UNCHANGED pc
    BY <1>1, PoolFrame DEF vars
  <1>3. /\ \/ outcome' = outcome
           \/ outcome[w] = None /\ outcome' = [outcome EXCEPT ![w] = "failed"]
        /\ lost' \subseteq Dbs
    BY <1>1, AtQuery DEF Fail, Lose, ServiceTypeOK
  <1>4. ServiceTypeOK'
    <2>1. outcome' \in [Workers -> {"done", "refused", "failed", None}]
      BY <1>3 DEF ServiceTypeOK
    <2>2. faults' \in 0..MaxFaults
      BY <1>1, ServiceAssumption DEF ServiceTypeOK
    <2> QED
      BY <1>1, <1>2, <1>3, <2>1, <2>2 DEF ServiceTypeOK, PoolInv
  <1>5. Pending'
    BY <1>1, <1>2, <1>3 DEF Pending, ServiceTypeOK
  <1>6. \A v \in Workers : \A o \in {"done", "refused"} : outcome'[v] = o <=> outcome[v] = o
    BY <1>3, ServiceAssumption DEF ServiceTypeOK
  <1>7. UNCHANGED <<rows, call, answers>>
    BY <1>1
  <1>8. \A v \in Workers : Claims(v)' <=> Claims(v)
    BY <1>6, <1>7 DEF Claims
  <1>9. Ledger'
    BY <1>6, <1>7, <1>8 DEF Ledger, Mine, Taken, Path, Status, RowOf
  <1>10. AnswersAgree' /\ SeesEarlier'
    BY <1>7 DEF AnswersAgree, SeesEarlier, Taken, Path, Status, RowOf
  <1>11. SeesSoFar'
    BY <1>6, <1>7 DEF SeesSoFar, Mine, Path, Status, RowOf
  <1> QED
    BY <1>2, <1>4, <1>5, <1>9, <1>10, <1>11

\* What the client is answered when its statement is over.
LEMMA Returned ==
  ASSUME ServiceInv, NEW w \in Workers, Return(w)
  PROVE  \E a \in Answer :
           /\ answers' = Append(answers, a)
           /\ a.request = call[w].request /\ a.since = call[w].since
           /\ a.failed <=> Failed(w)
           /\ a.status = IF Registers(a.request) THEN IF Succeeds(w) THEN 201 ELSE 409
                                                 ELSE IF Succeeds(w) THEN 200 ELSE 401
  <1> DEFINE r == call[w].request
             a == [request |-> r, since |-> call[w].since,
                   status |-> Route(r, Succeeds(w)).status, failed |-> Failed(w)]
  <1>1. answers' = Append(answers, a)
    BY DEF Return
  <1>2. pc[w] = "query"
    BY DEF Return, Query
  <1>3. r \in Requests /\ call[w].since \in Nat
    BY <1>2, AtQuery
  <1>4. Succeeds(w) \in BOOLEAN /\ Failed(w) \in BOOLEAN
    BY DEF Succeeds, Failed
  <1>5. Route(r, Succeeds(w)).status = IF Registers(r) THEN IF Succeeds(w) THEN 201 ELSE 409
                                       ELSE IF Succeeds(w) THEN 200 ELSE 401
    BY <1>3, <1>4, RouteStatus
  <1>6. a \in Answer
    BY <1>3, <1>4, <1>5 DEF Answer
  <1> QED
    BY <1>1, <1>5, <1>6

\* A statement is over and its client is answered.
LEMMA ReturnStep ==
  ASSUME ServiceInv, NEW w \in Workers, Return(w)
  PROVE  ServiceInv'
  <1> USE DEF ServiceInv
  <1> PICK a \in Answer :
        /\ answers' = Append(answers, a)
        /\ a.request = call[w].request /\ a.since = call[w].since
        /\ a.failed <=> Failed(w)
        /\ a.status = IF Registers(a.request) THEN IF Succeeds(w) THEN 201 ELSE 409
                                              ELSE IF Succeeds(w) THEN 200 ELSE 401
    BY Returned
  <1> DEFINE n == Len(answers)
  <1>1. /\ Query(w)
        /\ outcome[w] # None \/ lease[w] \in lost
        /\ call' = [call EXCEPT ![w] = None] /\ outcome' = [outcome EXCEPT ![w] = None]
        /\ UNCHANGED <<rows, lost, faults>>
    BY DEF Return, table
  <1>2. /\ w \in Threads /\ w # Main /\ pc[w] = "query"
        /\ pc' = [pc EXCEPT ![w] = "release"]
    BY <1>1, DatabaseAssumption DEF Query, Goto, Threads
  <1>3. PoolInv'
    BY <1>1, <1>2, PoolStep DEF PoolNext
  <1>4. /\ n \in Nat /\ Len(answers') = n + 1 /\ answers' \in Seq(Answer)
        /\ \A k \in 1..n : answers'[k] = answers[k]
        /\ answers'[n + 1] = a
    BY QueueAppend DEF ServiceTypeOK
  <1>5. /\ \A v \in Workers : outcome'[v] = IF v = w THEN None ELSE outcome[v]
        /\ \A v \in Workers : call'[v] = IF v = w THEN None ELSE call[v]
    BY <1>1 DEF ServiceTypeOK
  <1>6. ServiceTypeOK'
    <2>1. \A v \in Workers : call'[v] # None <=> pc'[v] \in {"acquire", "waiting", "query"}
      BY <1>2, <1>5 DEF ServiceTypeOK, PoolInv, TypeOK, Threads
    <2> QED
      BY <1>1, <1>3, <1>4, <2>1 DEF ServiceTypeOK, PoolInv
  <1>7. Pending'
    BY <1>2, <1>5 DEF Pending, PoolInv, TypeOK, Threads
  <1>8. /\ \A v \in Workers : v # w => Mine(v)' = Mine(v) /\ (Claims(v)' <=> Claims(v))
        /\ ~Claims(w)'
    BY <1>5, ServiceAssumption DEF Mine, Claims
  <1>9. /\ \A k \in 1..n : Path(k)' = Path(k) /\ Status(k)' = Status(k) /\ RowOf(k)' = RowOf(k)
        /\ \A k : k = n + 1 => /\ Status(k)' = a.status /\ RowOf(k)' = Mine(w)
                               /\ Path(k)' = call[w].request.path.text
    BY <1>4 DEF Path, Status, RowOf, Mine
  <1>10. rows' = rows /\ \A row : Taken(row)' <=> Taken(row)
    BY <1>1 DEF Taken
  <1>11. /\ a.status = 201 <=> Registers(call[w].request) /\ Succeeds(w)
         /\ a.status = 409 <=> Registers(call[w].request) /\ ~Succeeds(w)
         /\ a.status = 200 <=> ~Registers(call[w].request) /\ Succeeds(w)
         /\ a.status = 401 <=> ~Registers(call[w].request) /\ ~Succeeds(w)
    OBVIOUS
  <1>12. /\ Succeeds(w) => outcome[w] = "done"
         /\ ~Failed(w) => outcome[w] \in {"done", "refused"} /\ (Succeeds(w) <=> outcome[w] = "done")
    BY <1>1 DEF Succeeds, Failed, ServiceTypeOK
  <1>13. a.status = 201 => Claims(w)
    BY <1>11, <1>12 DEF Claims
  <1>14. call[w] # None /\ call[w].since \in Nat /\ call[w].since <= n
    BY <1>2, AtQuery DEF ServiceTypeOK, SeesSoFar
  <1>15. call[w].request.path.text \in {"/register", "/login"}
    BY <1>2, AtQuery, TwoPaths
  <1> HIDE DEF n
  <1>16. Ledger'
    <2>1. \A row, other \in rows' : row.username = other.username => row = other
      BY <1>10 DEF Ledger
    <2>2. \A v \in Workers :
            /\ outcome'[v] = "done" => Mine(v)' \in rows'
            /\ outcome'[v] = "refused" /\ Registers(call'[v].request) => Taken(Mine(v))'
      <3> SUFFICES ASSUME NEW v \in Workers, v # w
                   PROVE  /\ outcome'[v] = "done" => Mine(v)' \in rows'
                          /\ outcome'[v] = "refused" /\ Registers(call'[v].request)
                               => Taken(Mine(v))'
        BY <1>5, ServiceAssumption
      <3> QED
        BY <1>5, <1>8, <1>10 DEF Ledger
    <2>3. \A u, v \in Workers : Claims(u)' /\ Claims(v)'
            /\ Mine(u)'.username = Mine(v)'.username => u = v
      BY <1>8 DEF Ledger
    <2>4. \A v \in Workers : \A k \in 1..(n + 1) :
            Claims(v)' /\ Status(k)' = 201 => Mine(v)'.username # RowOf(k)'.username
      <3> SUFFICES ASSUME NEW v \in Workers, NEW k \in 1..(n + 1), Claims(v)', Status(k)' = 201
                   PROVE  Mine(v)'.username # RowOf(k)'.username
        OBVIOUS
      <3>1. CASE k \in 1..n
        BY <1>8, <1>9, <3>1 DEF Ledger, n
      <3>2. CASE k = n + 1
        BY <1>8, <1>9, <1>13, <3>2 DEF Ledger
      <3> QED
        BY <1>4, <3>1, <3>2
    <2>5. ASSUME NEW row \in rows
          PROVE  \/ \E k \in 1..(n + 1) : /\ Path(k)' = "/register" /\ RowOf(k)' = row
                                          /\ Status(k)' = 201 \/ answers'[k].failed
                 \/ \E v \in Workers : Claims(v)' /\ Mine(v)' = row
      <3>1. CASE \E k \in 1..n : /\ Path(k) = "/register" /\ RowOf(k) = row
                                 /\ Status(k) = 201 \/ answers[k].failed
        <4>1. PICK k \in 1..n : /\ Path(k) = "/register" /\ RowOf(k) = row
                                /\ Status(k) = 201 \/ answers[k].failed
          BY <3>1
        <4>2. k \in 1..(n + 1) /\ answers'[k] = answers[k]
          BY <1>4, <4>1
        <4>3. Path(k)' = "/register" /\ RowOf(k)' = row
          BY <1>9, <4>1
        <4>4. Status(k)' = 201 \/ answers'[k].failed
          BY <1>9, <4>1, <4>2
        <4> QED
          BY <4>2, <4>3, <4>4
      <3>2. CASE \E v \in Workers : v # w /\ Claims(v) /\ Mine(v) = row
        BY <1>8, <3>2
      <3>3. CASE Claims(w) /\ Mine(w) = row
        <4>1. outcome[w] = "done" /\ Registers(call[w].request)
          BY <3>3 DEF Claims
        <4>2. a.status = 201 \/ a.failed
          BY <1>11, <4>1 DEF Succeeds, Failed
        <4>3. n + 1 \in 1..(n + 1)
          BY <1>4
        <4>4. \A k : k = n + 1 => /\ Path(k)' = "/register" /\ RowOf(k)' = row
                                  /\ Status(k)' = 201 \/ answers'[k].failed
          BY <1>4, <1>9, <3>3, <4>1, <4>2 DEF Registers
        <4>5. PICK k : k = n + 1
          OBVIOUS
        <4>6. /\ k \in 1..(n + 1)
              /\ Path(k)' = "/register" /\ RowOf(k)' = row
              /\ Status(k)' = 201 \/ answers'[k].failed
          BY <4>3, <4>4, <4>5
        <4> QED
          BY <4>6
      <3> QED
        BY <3>1, <3>2, <3>3 DEF Ledger, n
    <2> QED
      BY <1>4, <1>10, <2>1, <2>2, <2>3, <2>4, <2>5 DEF Ledger
  <1>17. AnswersAgree'
    <2>1. ASSUME NEW k \in 1..(n + 1)
          PROVE  /\ Status(k)' \in {200, 201} => RowOf(k)' \in rows
                 /\ Status(k)' = 409 => answers'[k].failed \/ Taken(RowOf(k)')
      <3>1. CASE k \in 1..n
        BY <1>4, <1>9, <3>1 DEF AnswersAgree, n
      <3>2. CASE k = n + 1
        BY <1>4, <1>9, <1>11, <1>12, <3>2 DEF Ledger
      <3> QED
        BY <1>4, <3>1, <3>2
    <2>2. \A i \in 1..n : Status(i) = 201 /\ a.status = 201 => RowOf(i).username # Mine(w).username
      BY <1>13 DEF Ledger, n
    <2>3. \A i, j \in 1..(n + 1) :
            Status(i)' = 201 /\ Status(j)' = 201 /\ RowOf(i)'.username = RowOf(j)'.username => i = j
      <3> SUFFICES ASSUME NEW i \in 1..(n + 1), NEW j \in 1..(n + 1),
                          Status(i)' = 201, Status(j)' = 201,
                          RowOf(i)'.username = RowOf(j)'.username
                   PROVE  i = j
        OBVIOUS
      <3>1. CASE i \in 1..n /\ j \in 1..n
        BY <1>9, <3>1 DEF AnswersAgree, n
      <3>2. CASE i = n + 1 /\ j \in 1..n
        BY <1>9, <2>2, <3>2
      <3>3. CASE i \in 1..n /\ j = n + 1
        BY <1>9, <2>2, <3>3
      <3> QED
        BY <1>4, <3>1, <3>2, <3>3
    <2> QED
      BY <1>4, <1>10, <2>1, <2>3 DEF AnswersAgree
  <1>18. SeesSoFar'
    <2>1. \A v \in Workers : call'[v] # None => call'[v].since <= n + 1
      <3> SUFFICES ASSUME NEW v \in Workers, v # w, call[v] # None
                   PROVE  call[v].since <= n + 1
        BY <1>5
      <3>1. call[v] \in [request: Requests, since: Nat]
        BY DEF ServiceTypeOK
      <3>2. call[v].since \in Nat /\ call[v].since <= n
        BY <3>1 DEF SeesSoFar, n
      <3> QED
        BY <1>4, <3>2
    <2>2. \A k \in 1..(n + 1) : answers'[k].since < k
      <3> SUFFICES ASSUME NEW k \in 1..(n + 1)
                   PROVE  answers'[k].since < k
        OBVIOUS
      <3>1. CASE k \in 1..n
        BY <1>4, <3>1 DEF SeesSoFar, n
      <3>2. CASE k = n + 1
        BY <1>4, <1>14, <3>2
      <3> QED
        BY <1>4, <3>1, <3>2
    <2>3. ASSUME NEW v \in Workers, outcome'[v] \in {"done", "refused"},
                 NEW i \in 1..call'[v].since, Status(i)' = 201,
                 RowOf(i)'.username = Mine(v)'.username
          PROVE  outcome'[v] = IF ~Registers(call'[v].request) /\ Mine(v)' = RowOf(i)'
                               THEN "done" ELSE "refused"
      <3>1. v # w /\ outcome[v] \in {"done", "refused"} /\ call'[v] = call[v]
        BY <1>5, <2>3, ServiceAssumption
      <3>2. pc[v] = "query"
        BY <3>1, ServiceAssumption DEF Pending
      <3>3. call[v] # None /\ call[v].since \in Nat
        BY <3>2, AtQuery DEF ServiceTypeOK
      <3>4. i \in 1..n
        BY <1>4, <2>3, <3>1, <3>3 DEF SeesSoFar, n
      <3>5. Status(i) = 201 /\ RowOf(i)' = RowOf(i) /\ Mine(v)' = Mine(v)
        BY <1>8, <1>9, <2>3, <3>1, <3>4
      <3> QED
        BY <1>5, <2>3, <3>1, <3>5 DEF SeesSoFar
    <2> QED
      BY <1>4, <2>1, <2>2, <2>3 DEF SeesSoFar
  <1>19. SeesEarlier'
    <2> SUFFICES ASSUME NEW k \in 1..(n + 1), NEW i \in 1..answers'[k].since,
                        Status(i)' = 201, RowOf(i)'.username = RowOf(k)'.username,
                        ~answers'[k].failed
                 PROVE  \/ Path(k)' = "/register" /\ Status(k)' = 409
                        \/ /\ Path(k)' = "/login"
                           /\ Status(k)' = (IF RowOf(k)' = RowOf(i)' THEN 200 ELSE 401)
      BY <1>4 DEF SeesEarlier
    <2>1. CASE k \in 1..n
      <3>1. answers[k] \in Answer /\ answers[k].since < k
        BY <2>1 DEF ServiceTypeOK, SeesSoFar, n
      <3>2. answers[k].since \in Nat
        BY <3>1 DEF Answer
      <3>3. i \in 1..n /\ i \in 1..answers[k].since
        BY <1>4, <2>1, <3>1, <3>2
      <3> QED
        BY <1>4, <1>9, <2>1, <3>3 DEF SeesEarlier, n
    <2>2. CASE k = n + 1
      <3>1. i \in 1..call[w].since /\ i \in 1..n
        BY <1>4, <1>14, <2>2
      <3>2. outcome[w] \in {"done", "refused"} /\ (Succeeds(w) <=> outcome[w] = "done")
        BY <1>4, <1>12, <2>2
      <3>3. outcome[w] = IF ~Registers(call[w].request) /\ Mine(w) = RowOf(i)
                         THEN "done" ELSE "refused"
        BY <1>9, <2>2, <3>1, <3>2 DEF SeesSoFar
      <3> QED
        BY <1>9, <1>11, <1>15, <2>2, <3>1, <3>2, <3>3 DEF Registers
    <2> QED
      BY <1>4, <2>1, <2>2
  <1> QED
    BY <1>3, <1>6, <1>7, <1>16, <1>17, <1>18, <1>19

-----------------------------------------------------------------------------
\* Every step of the service keeps the invariant.
LEMMA ServiceStep == ServiceInv /\ [ServiceNext]_serviceVars => ServiceInv'
  <1> SUFFICES ASSUME ServiceInv, [ServiceNext]_serviceVars
               PROVE  ServiceInv'
    OBVIOUS
  <1>1. CASE QuietStep
    <2>1. PoolInv'
      BY <1>1, QuietFrame, PoolStep DEF ServiceInv, PoolInv
    <2>2. ServiceTypeOK' /\ Pending'
      BY <1>1, <2>1, QuietFrame DEF ServiceInv, PoolInv, ServiceTypeOK, Pending
    <2>3. Ledger' /\ AnswersAgree' /\ SeesSoFar' /\ SeesEarlier'
      BY <1>1, QuietFrame, ServiceFrame DEF ServiceInv, PoolInv
    <2> QED
      BY <2>1, <2>2, <2>3 DEF ServiceInv
  <1>2. CASE \E w \in Workers : Ask(w) \/ Execute(w) \/ Fail(w) \/ Lose(w) \/ Return(w)
    BY <1>2, AskStep, ExecuteStep, FaultStep, ReturnStep
  <1>3. CASE UNCHANGED serviceVars
    <2>1. PoolInv'
      BY <1>3, PoolFrame DEF ServiceInv, serviceVars
    <2>2. UNCHANGED <<pc, rows, lost, faults, call, outcome, answers>>
      BY <1>3 DEF serviceVars, table, vars
    <2>3. ServiceTypeOK' /\ Pending'
      BY <2>1, <2>2 DEF ServiceInv, PoolInv, ServiceTypeOK, Pending
    <2>4. Ledger' /\ AnswersAgree' /\ SeesSoFar' /\ SeesEarlier'
      BY <2>2, ServiceFrame DEF ServiceInv
    <2> QED
      BY <2>1, <2>3, <2>4 DEF ServiceInv
  <1> QED
    BY <1>1, <1>2, <1>3 DEF ServiceNext, QuietStep

THEOREM ServiceInvariance == ServiceSpec => []ServiceInv
  <1>1. ServiceInit => ServiceInv
    BY ServiceInitially
  <1>2. ServiceInv /\ [ServiceNext]_serviceVars => ServiceInv'
    BY ServiceStep
  <1> QED
    BY <1>1, <1>2, PTL DEF ServiceSpec

\* Every reachable state is well typed.
THEOREM ServiceTypeCorrect == ServiceSpec => []ServiceTypeOK
  <1>1. ServiceInv => ServiceTypeOK
    BY DEF ServiceInv
  <1> QED
    BY <1>1, ServiceInvariance, PTL

\* No two threads ever speak on one MySQL connection, and none is lost.
THEOREM OneLease == ServiceSpec => []LeaseExclusive
  <1>1. ServiceInv => LeaseExclusive
    BY PoolExclusive DEF ServiceInv
  <1> QED
    BY <1>1, ServiceInvariance, PTL

\* Nobody sleeps in acquire() beside a handle that no one is coming for.
THEOREM NotifiedEnough == ServiceSpec => []EnoughNotified
  <1>1. ServiceInv => EnoughNotified
    BY DEF ServiceInv, PoolInv
  <1> QED
    BY <1>1, ServiceInvariance, PTL

\* A failed init() and the destructor leave no connection open.
THEOREM NothingLeaks == ServiceSpec => []NoHandleLeak
  <1>1. ServiceInv => NoHandleLeak
    BY PoolLeaksNothing DEF ServiceInv
  <1> QED
    BY <1>1, ServiceInvariance, PTL

\* What clients are told agrees with the table, and a row that nobody was
\* told of belongs to a call that failed or is still under way.
THEOREM AnswersAreTrue == ServiceSpec => []AnswersTrue
  <1>1. ServiceInv => AnswersTrue
    <2> SUFFICES ASSUME ServiceInv
                 PROVE  AnswersTrue
      OBVIOUS
    <2>1. \A w \in Workers : Claims(w) => call[w] # None /\ outcome[w] = "done"
      BY ServiceAssumption DEF ServiceInv, Pending, ServiceTypeOK, Claims
    <2>2. \A row \in rows : Announced(row)
      BY <2>1 DEF ServiceInv, Ledger, Announced, Mine
    <2> QED
      BY <2>2 DEF ServiceInv, AnswersAgree, AnswersTrue
  <1> QED
    BY <1>1, ServiceInvariance, PTL

\* A client that was told of its registration is believed from then on.
THEOREM RegistrationsCount == ServiceSpec => []SeesEarlier
  <1>1. ServiceInv => SeesEarlier
    BY DEF ServiceInv
  <1> QED
    BY <1>1, ServiceInvariance, PTL
=============================================================================
