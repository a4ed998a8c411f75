-------------------------- MODULE TimerHeapProofs --------------------------
(* TimerHeap for every set of descriptors, of time points and any heap size. *)
EXTENDS TimerHeap, TLAPS

\* Inside the loop of popExpired(), what it has already answered is erased:
\* a second node of the same descriptor is stale.
Erased ==
  now # None => \A i \in 1..Len(expired) : ~Has(expired[i])

IInv == TypeOK /\ LiveNode /\ Erased /\ NoDoubleExpiry

-----------------------------------------------------------------------------
\* None marks an absent entry unambiguously, because it is no time point.
LEMMA EntryOrNot ==
  ASSUME TypeOK, NEW f \in Fds
  PROVE  /\ Has(f) <=> latest[f] \in Entry
         /\ Has(f) <=> latest[f].at # None
         /\ Has(f) => latest[f].at \in Int /\ latest[f].version \in Nat
  <1>1. latest[f] \in Entry \/ latest[f] = NoEntry
    BY DEF TypeOK
  <1>2. CASE latest[f] = NoEntry
    <2>1. latest[f].at = None
      BY <1>2 DEF NoEntry
    <2>2. latest[f] \notin Entry
      BY <2>1, TimerAssumption DEF Entry
    <2> QED
      BY <1>2, <2>1, <2>2 DEF Has
  <1>3. CASE latest[f] \in Entry
    <2>1. latest[f].at \in Times /\ latest[f].version \in Nat
      BY <1>3 DEF Entry
    <2>2. latest[f].at \in Int /\ latest[f].at # None
      BY <2>1, TimerAssumption
    <2>3. latest[f] # NoEntry
      BY <2>2 DEF NoEntry
    <2> QED
      BY <1>3, <2>1, <2>2, <2>3 DEF Has
  <1> QED
    BY <1>1, <1>2, <1>3

\* The initial state satisfies the inductive invariant.
LEMMA Initially == Init => IInv
  BY DEF Init, IInv, TypeOK, LiveNode, Erased, NoDoubleExpiry, Has, NoEntry, Entry

\* Every step keeps the inductive invariant.
LEMMA Step == IInv /\ [Next]_vars => IInv'
  <1> SUFFICES ASSUME IInv, [Next]_vars
               PROVE  IInv'
    OBVIOUS
  <1> USE DEF IInv
  <1>1. ASSUME NEW f \in Fds, NEW t \in Times, AddOrUpdate(f, t)
        PROVE  IInv'
    <2> DEFINE v == IF Has(f) THEN NextVersion(f) ELSE 1
               e == [at |-> t, version |-> v]
               n == [at |-> t, fd |-> f, version |-> v]
    <2>1. v \in Nat
      BY EntryOrNot DEF NextVersion
    <2>2. e \in Entry /\ n \in Node
      BY <2>1 DEF Entry, Node
    <2>3. /\ latest' = [latest EXCEPT ![f] = e]
          /\ heap' = heap \cup {n}
          /\ now = None /\ now' = None /\ expired' = expired
      BY <1>1 DEF AddOrUpdate, Pushed
    <2> HIDE DEF v
    <2>4. TypeOK'
      BY <2>2, <2>3 DEF TypeOK
    <2>5. LiveNode'
      <3> SUFFICES ASSUME NEW g \in Fds, Has(g)'
                   PROVE  NodeOf(g)' \in heap'
        BY DEF LiveNode
      <3>1. CASE g = f
        BY <2>3, <3>1 DEF NodeOf, TypeOK
      <3>2. CASE g # f
        BY <2>3, <3>2 DEF NodeOf, Has, LiveNode, TypeOK
      <3> QED
        BY <3>1, <3>2
    <2>6. Erased'
      BY <2>3 DEF Erased
    <2>7. NoDoubleExpiry'
      BY <2>3 DEF NoDoubleExpiry
    <2> QED
      BY <2>4, <2>5, <2>6, <2>7
  <1>2. ASSUME NEW f \in Fds, Remove(f)
        PROVE  IInv'
    <2>1. TypeOK'
      BY <1>2 DEF Remove, TypeOK
    <2>2. LiveNode'
      BY <1>2 DEF Remove, LiveNode, Has, NodeOf, TypeOK
    <2>3. Erased' /\ NoDoubleExpiry'
      BY <1>2 DEF Remove, Erased, NoDoubleExpiry
    <2> QED
      BY <2>1, <2>2, <2>3
  <1>3. ASSUME NEW n \in Times, PopExpired(n)
        PROVE  IInv'
    <2>1. TypeOK' /\ LiveNode'
      BY <1>3 DEF PopExpired, TypeOK, LiveNode, Has, NodeOf
    <2>2. Erased' /\ NoDoubleExpiry'
      BY <1>3 DEF PopExpired, Erased, NoDoubleExpiry
    <2> QED
      BY <2>1, <2>2
  <1>4. ASSUME PopTop
        PROVE  IInv'
    <2>1. PICK n \in heap :
            /\ heap' = heap \ {n}
            /\ IF Stale(n)
               THEN UNCHANGED <<latest, expired>>
               ELSE /\ expired' = Append(expired, n.fd)
                    /\ latest' = [latest EXCEPT ![n.fd] = NoEntry]
      BY <1>4 DEF PopTop
    <2>2. now # None /\ now' = now
      BY <1>4 DEF PopTop
    <2>3. n \in Node /\ n.fd \in Fds
      BY DEF TypeOK, Node
    <2>4. CASE Stale(n)
      <3>1. LiveNode'
        <4> SUFFICES ASSUME NEW f \in Fds, Has(f)
                     PROVE  NodeOf(f) # n
          BY <2>1, <2>4 DEF LiveNode, Has, NodeOf
        <4> QED
          BY <2>4 DEF Stale, NodeOf
      <3> QED
        BY <2>1, <2>2, <2>4, <3>1 DEF TypeOK, Erased, NoDoubleExpiry, Has
    <2>5. CASE ~Stale(n)
      <3>1. Has(n.fd)
        BY <2>5 DEF Stale
      <3>2. /\ expired' = Append(expired, n.fd)
            /\ latest' = [latest EXCEPT ![n.fd] = NoEntry]
        BY <2>1, <2>5
      <3>3. TypeOK'
        BY <2>1, <2>2, <2>3, <3>2 DEF TypeOK
      <3>4. LiveNode'
        <4> SUFFICES ASSUME NEW f \in Fds, Has(f)'
                     PROVE  NodeOf(f)' \in heap'
          BY DEF LiveNode
        <4>1. f # n.fd /\ latest'[f] = latest[f]
          BY <2>3, <3>2 DEF Has, TypeOK
        <4>2. NodeOf(f) \in heap /\ NodeOf(f).fd = f
          BY <4>1 DEF LiveNode, Has, NodeOf
        <4> QED
          BY <2>1, <4>1, <4>2 DEF NodeOf
      <3>5. \A i \in 1..Len(expired) : expired[i] # n.fd
        BY <2>2, <3>1 DEF Erased
      <3>6. /\ Len(expired') = Len(expired) + 1
            /\ \A i \in 1..Len(expired) : expired'[i] = expired[i]
            /\ expired'[Len(expired) + 1] = n.fd
        BY <2>3, <3>2 DEF TypeOK
      <3>7. Len(expired) \in Nat
        BY DEF TypeOK
      <3>8. NoDoubleExpiry'
        BY <3>5, <3>6, <3>7 DEF NoDoubleExpiry
      <3>9. Erased'
        <4> SUFFICES ASSUME NEW i \in 1..Len(expired')
                     PROVE  ~Has(expired[i])'
          BY <2>2 DEF Erased
        <4>1. \A f \in Fds : ~Has(f) => ~Has(f)'
          BY <2>3, <3>2 DEF Has, TypeOK
        <4>2. ~Has(n.fd)'
          BY <2>3, <3>2 DEF Has, TypeOK
        <4>3. CASE i = Len(expired) + 1
          BY <3>6, <4>2, <4>3 DEF Has
        <4>4. CASE i # Len(expired) + 1
          <5>1. i \in 1..Len(expired)
            BY <3>6, <3>7, <4>4
          <5>2. expired[i] \in Fds /\ ~Has(expired[i]) /\ expired'[i] = expired[i]
            BY <2>2, <3>6, <5>1 DEF Erased, TypeOK
          <5> QED
            BY <4>1, <5>2 DEF Has
        <4> QED
          BY <4>3, <4>4
      <3> QED
        BY <3>3, <3>4, <3>8, <3>9
    <2> QED
      BY <2>4, <2>5
  <1>5. ASSUME Return
        PROVE  IInv'
    BY <1>5 DEF Return, TypeOK, LiveNode, Erased, NoDoubleExpiry, Has, NodeOf
  <1>6. ASSUME UNCHANGED vars
        PROVE  IInv'
    BY <1>6 DEF vars, TypeOK, LiveNode, Erased, NoDoubleExpiry, Has, NodeOf
  <1> QED
    BY <1>1, <1>2, <1>3, <1>4, <1>5, <1>6 DEF Next

THEOREM Invariance == Spec => []IInv
  <1>1. Init => IInv
    BY Initially
  <1>2. IInv /\ [Next]_vars => IInv'
    BY Step
  <1> QED
    BY <1>1, <1>2, PTL DEF Spec

\* Every reachable state is well typed.
THEOREM TypeCorrect == Spec => []TypeOK
  <1>1. IInv => TypeOK
    BY DEF IInv
  <1> QED
    BY <1>1, Invariance, PTL

\* The live node of an entry is never dropped with the stale ones.
THEOREM NeverLost == Spec => []LiveNode
  <1>1. IInv => LiveNode
    BY DEF IInv
  <1> QED
    BY <1>1, Invariance, PTL

\* popExpired() never names a descriptor twice.
THEOREM ExpiresOnce == Spec => []NoDoubleExpiry
  <1>1. IInv => NoDoubleExpiry
    BY DEF IInv
  <1> QED
    BY <1>1, Invariance, PTL

-----------------------------------------------------------------------------
\* The heap with its stale nodes implements one deadline per descriptor:
\* popExpired() answers exactly the deadlines that have passed.
THEOREM Implementation == Spec => ImplementsTimers
  <1> DEFINE deadline == [f \in Fds |-> IF ToPop(f) THEN None ELSE latest[f].at]
             due == Range(expired) \cup {f \in Fds : ToPop(f)}
  <1>1. Init => Timers!Init
    BY TimerAssumption DEF Init, Timers!Init, ToPop, Has, NoEntry, Range
  <1>2. IInv /\ IInv' /\ [Next]_vars => [Timers!Next]_<<deadline, due>>
    <2> SUFFICES ASSUME IInv, IInv', [Next]_vars
                 PROVE  Timers!Next \/ (deadline' = deadline /\ due' = due)
      OBVIOUS
    <2> USE DEF IInv
    <2>1. ASSUME NEW f \in Fds, NEW t \in Times, AddOrUpdate(f, t)
          PROVE  Timers!Set(f, t)
      <3>1. /\ now = None /\ now' = None /\ expired' = expired
            /\ \E v : latest' = [latest EXCEPT ![f] = [at |-> t, version |-> v]]
        BY <2>1 DEF AddOrUpdate, Pushed
      <3> PICK v : latest' = [latest EXCEPT ![f] = [at |-> t, version |-> v]]
        BY <3>1
      <3>2. due' = due
        BY <3>1 DEF ToPop, Range
      <3>3. \A g \in Fds : latest'[g].at = IF g = f THEN t ELSE latest[g].at
        BY DEF TypeOK
      <3>4. deadline' = [deadline EXCEPT ![f] = t]
        BY <3>1, <3>3 DEF ToPop
      <3> QED
        BY <3>2, <3>4 DEF Timers!Set
    <2>2. ASSUME NEW f \in Fds, Remove(f)
          PROVE  Timers!Cancel(f)
      <3>1. due' = due
        BY <2>2 DEF Remove, ToPop, Range
      <3>2. deadline' = [deadline EXCEPT ![f] = None]
        BY <2>2 DEF Remove, ToPop, TypeOK, NoEntry
      <3> QED
        BY <3>1, <3>2 DEF Timers!Cancel
    <2>3. ASSUME NEW n \in Times, PopExpired(n)
          PROVE  Timers!Expire(n)
      <3>1. now = None /\ now' = n /\ n # None /\ latest' = latest /\ expired' = <<>>
        BY <2>3, TimerAssumption DEF PopExpired
      <3>2. deadline = [f \in Fds |-> latest[f].at]
        BY <3>1 DEF ToPop
      <3>3. \A f \in Fds : ToPop(f)' <=> Has(f) /\ latest[f].at <= n
        BY <3>1 DEF ToPop, Has
      <3>4. \A f \in Fds : Has(f) <=> latest[f].at # None
        BY EntryOrNot
      <3>5. Timers!Passed(n) = {f \in Fds : ToPop(f)'}
        BY <3>2, <3>3, <3>4 DEF Timers!Passed
      <3>6. due' = {f \in Fds : ToPop(f)'}
        BY <3>1 DEF Range
      <3>7. deadline' = [f \in Fds |-> IF f \in Timers!Passed(n)
                                      THEN None ELSE deadline[f]]
        BY <3>1, <3>2, <3>5
      <3> QED
        BY <3>5, <3>6, <3>7 DEF Timers!Expire
    <2>4. ASSUME PopTop
          PROVE  deadline' = deadline /\ due' = due
      <3>1. PICK n \in heap :
              /\ n.at <= now
              /\ IF Stale(n)
                 THEN UNCHANGED <<latest, expired>>
                 ELSE /\ expired' = Append(expired, n.fd)
                      /\ latest' = [latest EXCEPT ![n.fd] = NoEntry]
        BY <2>4 DEF PopTop
      <3>2. now # None /\ now' = now
        BY <2>4 DEF PopTop
      <3>3. CASE Stale(n)
        BY <3>1, <3>2, <3>3 DEF ToPop, Has, Range
      <3>4. CASE ~Stale(n)
        <4>1. n.fd \in Fds /\ ToPop(n.fd)
          BY <3>1, <3>2, <3>4 DEF Stale, ToPop, TypeOK, Node
        <4>2. /\ expired' = Append(expired, n.fd)
              /\ latest' = [latest EXCEPT ![n.fd] = NoEntry]
          BY <3>1, <3>4
        <4>3. \A f \in Fds : ToPop(f)' <=> ToPop(f) /\ f # n.fd
          BY <3>2, <4>1, <4>2 DEF ToPop, Has, TypeOK
        <4>4. Range(expired)' = Range(expired) \cup {n.fd}
          <5>1. /\ Len(expired) \in Nat /\ Len(expired') = Len(expired) + 1
                /\ \A i \in 1..Len(expired) : expired'[i] = expired[i]
                /\ expired'[Len(expired) + 1] = n.fd
            BY <4>1, <4>2 DEF TypeOK
          <5> QED
            BY <5>1 DEF Range
        <4>5. due' = due
          BY <4>1, <4>3, <4>4
        <4>6. ASSUME NEW f \in Fds
              PROVE  (IF ToPop(f)' THEN None ELSE latest'[f].at)
                       = (IF ToPop(f) THEN None ELSE latest[f].at)
          <5>1. CASE f = n.fd
            BY <4>1, <4>2, <4>3, <5>1 DEF TypeOK, NoEntry
          <5>2. CASE f # n.fd
            BY <4>1, <4>2, <4>3, <5>2 DEF TypeOK
          <5> QED
            BY <5>1, <5>2
        <4> QED
          BY <4>5, <4>6
      <3> QED
        BY <3>3, <3>4
    <2>5. ASSUME Return
          PROVE  deadline' = deadline /\ due' = due
      <3>1. ASSUME NEW f \in Fds
            PROVE  ~ToPop(f)
        <4> SUFFICES ASSUME Has(f), now # None, latest[f].at <= now
                     PROVE  FALSE
          BY DEF ToPop
        <4>1. NodeOf(f) \in heap /\ NodeOf(f).at = latest[f].at
          BY DEF LiveNode, NodeOf
        <4>2. latest[f].at > now
          BY <2>5, <4>1 DEF Return
        <4> QED
          BY <4>2, EntryOrNot, TimerAssumption DEF TypeOK
      <3>2. \A f \in Fds : ~ToPop(f)'
        BY <2>5 DEF Return, ToPop
      <3> QED
        BY <2>5, <3>1, <3>2 DEF Return, Range
    <2>6. ASSUME UNCHANGED vars
          PROVE  deadline' = deadline /\ due' = due
      BY <2>6 DEF vars, ToPop, Has, Range
    <2> QED
      BY <2>1, <2>2, <2>3, <2>4, <2>5, <2>6 DEF Next, Timers!Next
  <1> QED
    BY <1>1, <1>2, Invariance, PTL DEF Spec, ImplementsTimers, Timers!Spec
=============================================================================
