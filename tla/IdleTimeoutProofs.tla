-------------------------- MODULE IdleTimeoutProofs --------------------------
(* IdleTimeout for any descriptors, timeout, clock bound and heap size. *)
EXTENDS IdleTimeout, TimerHeapProofs

\* An entry's deadline is the last touch of the descriptor plus the timeout.
DeadlineKept ==
  \A f \in Fds : Has(f) => latest[f].at = touched[f] + Timeout

\* What popExpired() has answered so far had its time, and nobody can touch a
\* timer while it runs.
AnsweredInTime ==
  now # None => \A i \in 1..Len(expired) : touched[expired[i]] + Timeout <= now

\* An open connection has a timer, unless popExpired() has just answered it
\* or closeIdleConnections() is about to close it.
Watched ==
  \A f \in Fds : serving[f] # "closed" =>
    \/ Has(f)
    \/ now # None /\ f \in Range(expired)
    \/ f \in Range(todo)

IdleInv == IInv /\ IdleTypeOK /\ DeadlineKept /\ AnsweredInTime /\ Watched

-----------------------------------------------------------------------------
LEMMA IdleInitially == IdleInit => IdleInv
  <1> SUFFICES ASSUME IdleInit
               PROVE  IdleInv
    OBVIOUS
  <1>1. Init /\ IInv
    BY Initially DEF IdleInit
  <1>2. IdleTypeOK
    <2>1. TypeOK /\ now = None
      BY <1>1 DEF IInv, Init
    <2>2. clock = 0 /\ 0 \in 0..MaxClock
      BY IdleAssumption DEF IdleInit
    <2>3. /\ serving \in [Fds -> {"closed", "in", "out"} \cup Busy]
          /\ touched \in [Fds -> 0..MaxClock] /\ active \in [Fds -> 0..MaxClock]
      BY <2>2 DEF IdleInit
    <2>4. late \subseteq Fds /\ todo \in Seq(Fds)
      BY DEF IdleInit
    <2> QED
      BY <2>1, <2>2, <2>3, <2>4 DEF IdleTypeOK
  <1>3. DeadlineKept /\ AnsweredInTime /\ Watched
    BY <1>1 DEF IdleInit, Init, DeadlineKept, AnsweredInTime, Watched, Has
  <1> QED
    BY <1>1, <1>2, <1>3 DEF IdleInv

\* A time point of the clock, and what is Timeout later, are integers and no
\* absent value.
LEMMA ClockTimes ==
  ASSUME NEW c \in 0..MaxClock
  PROVE  c \in Times /\ c + Timeout \in Times /\ c \in Int /\ c # None
  BY IdleAssumption, TimerAssumption

\* The timer calls of an idle step are one step of the timer heap.
LEMMA HeapMoves ==
  ASSUME IdleTypeOK, [IdleNext]_idleVars
  PROVE  [Next]_vars
  <1>1. clock \in Times /\ clock + Timeout \in Times
    BY ClockTimes DEF IdleTypeOK
  <1>2. \A f \in Fds : Touch(f) => Next
    BY <1>1 DEF Touch, Next
  <1>3. \A f \in Fds : \A others : CloseConnection(f, others) => Next \/ UNCHANGED vars
    BY DEF CloseConnection, Next, timers
  <1>4. ASSUME NEW f \in Fds,
               \/ Accept(f) \/ HangUp(f)
               \/ BeginRead(f) \/ BeginWrite(f) \/ Progress(f) \/ Finish(f)
               \/ Blocked(f) \/ Leave(f) \/ LateTouch(f) \/ LateEnd(f)
        PROVE  Next \/ UNCHANGED vars
    <2>1. CASE Accept(f) \/ Finish(f) \/ LateTouch(f)
      BY <1>2, <2>1 DEF Accept, Finish, LateTouch
    <2>2. CASE HangUp(f) \/ LateEnd(f)
      BY <1>3, <2>2 DEF HangUp, LateEnd, timers
    <2>3. CASE Leave(f)
      BY <2>3 DEF Leave, Next
    <2>4. CASE BeginRead(f) \/ BeginWrite(f) \/ Progress(f) \/ Blocked(f)
      BY <2>4 DEF BeginRead, BeginWrite, Progress, Blocked, timers
    <2> QED
      BY <1>4, <2>1, <2>2, <2>3, <2>4
  <1>5. CASE CloseNext
    <2>1. Head(todo) \in Fds
      BY <1>5 DEF CloseNext, IdleTypeOK
    <2> QED
      BY <1>3, <1>5, <2>1 DEF CloseNext
  <1>6. CASE CloseIdle \/ Popping \/ Popped
    BY <1>1, <1>6 DEF CloseIdle, Popping, Popped, Next
  <1>7. CASE Tick \/ UNCHANGED idleVars
    BY <1>7 DEF Tick, idleVars, timers
  <1> QED
    BY <1>4, <1>5, <1>6, <1>7 DEF IdleNext

\* A step without a timer call.
LEMMA NoCall ==
  ASSUME IdleInv, UNCHANGED <<timers, touched>>
  PROVE  /\ DeadlineKept' /\ AnsweredInTime'
         /\ now' = now /\ expired' = expired
         /\ \A f \in Fds : Has(f)' <=> Has(f)
  BY DEF IdleInv, DeadlineKept, AnsweredInTime, Has, timers, vars

\* timers_.addOrUpdate() gives the descriptor its time from now on.
LEMMA TouchCall ==
  ASSUME IdleInv, NEW f \in Fds, Touch(f)
  PROVE  /\ DeadlineKept' /\ AnsweredInTime'
         /\ now = None /\ now' = None /\ expired' = expired
         /\ touched' \in [Fds -> 0..MaxClock]
         /\ Has(f)' /\ \A g \in Fds : Has(g) => Has(g)'
  <1>1. /\ latest \in [Fds -> Entry \cup {NoEntry}]
        /\ clock \in 0..MaxClock /\ touched \in [Fds -> 0..MaxClock]
    BY DEF IdleInv, IdleTypeOK, TypeOK
  <1>2. /\ now = None /\ now' = None /\ expired' = expired
        /\ touched' = [touched EXCEPT ![f] = clock]
        /\ \E v : latest' = [latest EXCEPT ![f] = [at |-> clock + Timeout, version |-> v]]
    BY DEF Touch, AddOrUpdate
  <1>3. PICK v : latest' = [latest EXCEPT ![f] = [at |-> clock + Timeout, version |-> v]]
    BY <1>2
  <1>4. /\ latest'[f] = [at |-> clock + Timeout, version |-> v]
        /\ \A g \in Fds \ {f} : latest'[g] = latest[g]
    BY <1>1, <1>3
  <1>5. latest'[f].at = clock + Timeout
    BY <1>4
  <1>6. clock + Timeout # None
    BY <1>1, ClockTimes, TimerAssumption, IdleAssumption
  <1>7. Has(f)'
    BY <1>5, <1>6 DEF Has, NoEntry
  <1>8. \A g \in Fds \ {f} : Has(g)' <=> Has(g)
    BY <1>4 DEF Has
  <1>9. DeadlineKept'
    BY <1>1, <1>2, <1>4, <1>5, <1>8 DEF IdleInv, DeadlineKept
  <1> QED
    BY <1>1, <1>2, <1>7, <1>8, <1>9 DEF AnsweredInTime

\* timers_.remove() touches the entry of its descriptor and nothing else.
LEMMA RemoveCall ==
  ASSUME IdleInv, NEW f \in Fds, Remove(f), UNCHANGED touched
  PROVE  /\ DeadlineKept' /\ AnsweredInTime'
         /\ now = None /\ now' = None /\ expired' = expired
         /\ \A g \in Fds \ {f} : Has(g)' <=> Has(g)
  <1>1. /\ latest \in [Fds -> Entry \cup {NoEntry}]
        /\ latest' = [latest EXCEPT ![f] = NoEntry]
        /\ now = None /\ now' = None /\ expired' = expired
    BY DEF Remove, IdleInv, IdleTypeOK, TypeOK
  <1>2. latest'[f] = NoEntry /\ \A g \in Fds \ {f} : latest'[g] = latest[g]
    BY <1>1
  <1> QED
    BY <1>1, <1>2 DEF IdleInv, DeadlineKept, AnsweredInTime, Has

\* A step that opens no connection without a timer, and takes no timer from
\* an open one.
LEMMA WatchedFrame ==
  ASSUME Watched, now' = now, expired' = expired, todo' = todo,
         \A g \in Fds : serving'[g] # "closed" =>
           Has(g)' \/ (serving[g] # "closed" /\ (Has(g) => Has(g)'))
  PROVE  Watched'
  <1>1. Range(expired)' = Range(expired) /\ Range(todo)' = Range(todo)
    BY DEF Range
  <1> QED
    BY <1>1 DEF Watched

\* closeConnection() closes its descriptor and disturbs no other.
LEMMA CloseCall ==
  ASSUME IdleInv, NEW f \in Fds, NEW others \in SUBSET Fds, CloseConnection(f, others),
         UNCHANGED touched
  PROVE  /\ DeadlineKept' /\ AnsweredInTime'
         /\ now' = now /\ expired' = expired
         /\ late' \subseteq Fds
         /\ serving' \in [Fds -> {"closed", "in", "out"} \cup Busy]
         /\ \A g \in Fds : serving'[g] # "closed" =>
              serving[g] # "closed" /\ g # f /\ (Has(g)' <=> Has(g))
  <1>0. serving \in [Fds -> {"closed", "in", "out"} \cup Busy]
    BY DEF IdleInv, IdleTypeOK
  <1>1. CASE serving[f] = "closed"
    <2>1. late' = others /\ UNCHANGED <<timers, serving>>
      BY <1>1 DEF CloseConnection
    <2> QED
      BY <1>0, <1>1, <2>1, NoCall
  <1>2. CASE serving[f] # "closed"
    <2>1. /\ Remove(f) /\ serving' = [serving EXCEPT ![f] = "closed"]
          /\ late' \subseteq Fds
      BY <1>2 DEF CloseConnection, Become
    <2> QED
      BY <1>0, <2>1, RemoveCall
  <1> QED
    BY <1>1, <1>2

\* Every step of a connection, its worker or Main's events keeps the invariant.
LEMMA ConnectionStep ==
  ASSUME IdleInv, IInv', NEW f \in Fds,
         \/ Accept(f) \/ HangUp(f)
         \/ BeginRead(f) \/ BeginWrite(f) \/ Progress(f) \/ Finish(f)
         \/ Blocked(f) \/ Leave(f) \/ LateTouch(f) \/ LateEnd(f)
  PROVE  IdleInv'
  <1>1. /\ TypeOK' /\ clock \in 0..MaxClock
        /\ serving \in [Fds -> {"closed", "in", "out"} \cup Busy]
        /\ late \subseteq Fds /\ todo \in Seq(Fds)
        /\ touched \in [Fds -> 0..MaxClock] /\ active \in [Fds -> 0..MaxClock]
        /\ now # None => now <= clock /\ todo = <<>>
        /\ Watched
    BY DEF IdleInv, IdleTypeOK, IInv
  <1>2. CASE Accept(f) \/ Finish(f) \/ LateTouch(f)
    <2>1. /\ Touch(f) /\ clock' = clock /\ todo' = todo /\ late' \subseteq late
          /\ active' = active \/ active' = [active EXCEPT ![f] = clock]
          /\ \/ serving' = serving \/ serving' = [serving EXCEPT ![f] = "in"]
             \/ serving' = [serving EXCEPT ![f] = "out"]
      BY <1>2 DEF Accept, Finish, LateTouch, Become
    <2>2. IdleTypeOK'
      BY <1>1, <2>1, TouchCall DEF IdleTypeOK
    <2>3. \A g \in Fds \ {f} : serving'[g] = serving[g]
      BY <1>1, <2>1
    <2>4. Watched'
      BY <1>1, <2>1, <2>3, TouchCall, WatchedFrame
    <2> QED
      BY <2>1, <2>2, <2>4, TouchCall DEF IdleInv
  <1>3. CASE BeginRead(f) \/ BeginWrite(f) \/ Progress(f) \/ Blocked(f)
    <2>1. /\ UNCHANGED <<timers, touched>> /\ clock' = clock /\ todo' = todo /\ late' = late
          /\ active' = active \/ active' = [active EXCEPT ![f] = clock]
          /\ serving' \in [Fds -> {"closed", "in", "out"} \cup Busy]
          /\ serving[f] # "closed"
          /\ \A g \in Fds \ {f} : serving'[g] = serving[g]
      BY <1>1, <1>3 DEF BeginRead, BeginWrite, Progress, Blocked, Become, Transfer, Busy,
        history
    <2>2. IdleTypeOK'
      BY <1>1, <2>1, NoCall DEF IdleTypeOK
    <2>3. Watched'
      BY <1>1, <2>1, NoCall, WatchedFrame
    <2> QED
      BY <2>1, <2>2, <2>3, NoCall DEF IdleInv
  <1>4. CASE HangUp(f) \/ LateEnd(f) \/ Leave(f)
    <2>1. CASE late' = late \ {f} /\ UNCHANGED <<timers, serving, clock, todo, history>>
      <3>1. UNCHANGED <<timers, touched>>
        BY <2>1 DEF history
      <3>2. IdleTypeOK'
        BY <1>1, <2>1, <3>1, NoCall DEF IdleTypeOK, history
      <3>3. Watched'
        BY <1>1, <2>1, <3>1, NoCall, WatchedFrame
      <3> QED
        BY <3>1, <3>2, <3>3, NoCall DEF IdleInv
    <2>2. ASSUME NEW others \in SUBSET Fds, CloseConnection(f, others),
                 UNCHANGED <<clock, todo, history>>
          PROVE  IdleInv'
      <3>1. UNCHANGED touched /\ UNCHANGED active
        BY <2>2 DEF history
      <3>2. IdleTypeOK'
        BY <1>1, <2>2, <3>1, CloseCall DEF IdleTypeOK
      <3>3. Watched'
        BY <1>1, <2>2, <3>1, CloseCall, WatchedFrame
      <3> QED
        BY <2>2, <3>1, <3>2, <3>3, CloseCall DEF IdleInv
    <2>3. CASE Leave(f)
      <3>1. /\ Remove(f) /\ serving' = [serving EXCEPT ![f] = "closed"]
            /\ UNCHANGED <<clock, late, todo, touched, active>>
        BY <2>3 DEF Leave, Become, history
      <3>2. IdleTypeOK'
        BY <1>1, <3>1, RemoveCall DEF IdleTypeOK
      <3>3. Watched'
        BY <1>1, <3>1, RemoveCall, WatchedFrame
      <3> QED
        BY <3>1, <3>2, <3>3, RemoveCall DEF IdleInv
    <2> QED
      BY <1>1, <1>4, <2>1, <2>2, <2>3 DEF HangUp, LateEnd
  <1> QED
    BY <1>2, <1>3, <1>4

\* Every step of Main's clean-up, and of the clock, keeps the invariant.
LEMMA CleanupStep ==
  ASSUME IdleInv, IInv', Tick \/ CloseIdle \/ Popping \/ Popped \/ CloseNext
  PROVE  IdleInv'
  <1>1. /\ TypeOK /\ TypeOK' /\ clock \in 0..MaxClock
        /\ serving \in [Fds -> {"closed", "in", "out"} \cup Busy]
        /\ late \subseteq Fds /\ todo \in Seq(Fds)
        /\ touched \in [Fds -> 0..MaxClock] /\ active \in [Fds -> 0..MaxClock]
        /\ now # None => now <= clock /\ todo = <<>>
        /\ Watched /\ DeadlineKept /\ AnsweredInTime
    BY DEF IdleInv, IdleTypeOK, IInv
  <1>2. CASE Tick
    <2>1. /\ UNCHANGED <<timers, touched>> /\ clock' = clock + 1 /\ clock' \in 0..MaxClock
          /\ UNCHANGED <<serving, late, todo, touched, active>>
      BY <1>1, <1>2, IdleAssumption DEF Tick, history
    <2>2. IdleTypeOK'
      BY <1>1, <2>1, NoCall, IdleAssumption, TimerAssumption DEF IdleTypeOK, TypeOK
    <2>3. Watched'
      BY <1>1, <2>1, NoCall, WatchedFrame
    <2> QED
      BY <2>1, <2>2, <2>3, NoCall DEF IdleInv
  <1>3. CASE CloseIdle
    <2>1. /\ now = None /\ todo = <<>> /\ now' = clock /\ expired' = <<>>
          /\ UNCHANGED <<heap, latest, clock, serving, late, todo, touched, active>>
      BY <1>3 DEF CloseIdle, AtEvents, PopExpired, history
    <2>2. IdleTypeOK'
      BY <1>1, <2>1, IdleAssumption DEF IdleTypeOK
    <2>3. \A f \in Fds : Has(f)' <=> Has(f)
      BY <2>1 DEF Has
    <2>4. Watched'
      BY <1>1, <2>1, <2>3 DEF Watched, Range
    <2>5. DeadlineKept' /\ AnsweredInTime'
      BY <1>1, <2>1, <2>3 DEF DeadlineKept, AnsweredInTime
    <2> QED
      BY <2>2, <2>4, <2>5 DEF IdleInv
  <1>4. CASE Popping
    <2>1. /\ now # None /\ now' = now /\ todo = <<>>
          /\ UNCHANGED <<clock, serving, late, todo, touched, active>>
      BY <1>1, <1>4 DEF Popping, PopTop, history
    <2>2. IdleTypeOK'
      BY <1>1, <2>1 DEF IdleTypeOK
    <2>3. PICK n \in heap :
            /\ n.at <= now
            /\ IF Stale(n)
               THEN UNCHANGED <<latest, expired>>
               ELSE /\ expired' = Append(expired, n.fd)
                    /\ latest' = [latest EXCEPT ![n.fd] = NoEntry]
      BY <1>4 DEF Popping, PopTop
    <2>4. CASE Stale(n)
      <3>1. latest' = latest /\ expired' = expired
        BY <2>3, <2>4
      <3> QED
        BY <1>1, <2>1, <2>2, <3>1
        DEF IdleInv, DeadlineKept, AnsweredInTime, Watched, Has, Range
    <2>5. CASE ~Stale(n)
      <3>1. /\ n.fd \in Fds /\ Has(n.fd) /\ latest[n.fd].at = n.at
            /\ expired' = Append(expired, n.fd)
            /\ latest' = [latest EXCEPT ![n.fd] = NoEntry]
        BY <1>1, <2>3, <2>5 DEF Stale, TypeOK, Node
      <3>2. /\ Len(expired) \in Nat /\ Len(expired') = Len(expired) + 1
            /\ \A i \in 1..Len(expired) : expired'[i] = expired[i]
            /\ expired'[Len(expired) + 1] = n.fd
        BY <1>1, <3>1 DEF TypeOK
      <3>3. /\ latest'[n.fd] = NoEntry
            /\ \A f \in Fds \ {n.fd} : latest'[f] = latest[f]
        BY <1>1, <3>1 DEF TypeOK
      <3>4. touched[n.fd] + Timeout <= now
        BY <1>1, <2>3, <3>1 DEF DeadlineKept
      <3>5. AnsweredInTime'
        <4>1. ASSUME NEW i \in 1..Len(expired')
              PROVE  touched[expired'[i]] + Timeout <= now
          <5>1. CASE i \in 1..Len(expired)
            BY <1>1, <2>1, <3>2, <5>1 DEF AnsweredInTime
          <5>2. CASE i = Len(expired) + 1
            BY <3>2, <3>4, <5>2
          <5> QED
            BY <3>2, <5>1, <5>2
        <4> QED
          BY <2>1, <4>1 DEF AnsweredInTime
      <3>6. DeadlineKept'
        BY <1>1, <2>1, <3>3 DEF DeadlineKept, Has
      <3>7. Range(expired)' = Range(expired) \cup {n.fd}
        BY <3>2 DEF Range
      <3>8. \A f \in Fds \ {n.fd} : Has(f)' <=> Has(f)
        BY <3>3 DEF Has
      <3>9. Watched'
        BY <1>1, <2>1, <3>7, <3>8 DEF Watched
      <3> QED
        BY <2>2, <3>5, <3>6, <3>9 DEF IdleInv
    <2> QED
      BY <2>4, <2>5
  <1>5. CASE Popped
    <2>1. /\ now # None /\ now' = None /\ todo = <<>> /\ todo' = expired
          /\ UNCHANGED <<heap, latest, expired, clock, serving, late, touched, active>>
      BY <1>1, <1>5 DEF Popped, Return, history
    <2>2. IdleTypeOK'
      BY <1>1, <2>1 DEF IdleTypeOK, TypeOK
    <2>3. \A f \in Fds : Has(f)' <=> Has(f)
      BY <2>1 DEF Has
    <2>4. Range(todo) = {}
      BY <2>1 DEF Range
    <2>5. Range(todo)' = Range(expired)
      BY <2>1 DEF Range
    <2>6. Watched'
      BY <1>1, <2>1, <2>3, <2>4, <2>5 DEF Watched
    <2>7. DeadlineKept' /\ AnsweredInTime'
      BY <1>1, <2>1, <2>3 DEF DeadlineKept, AnsweredInTime
    <2> QED
      BY <2>2, <2>6, <2>7 DEF IdleInv
  <1>6. CASE CloseNext
    <2>1. /\ todo # <<>> /\ todo' = Tail(todo) /\ now = None
          /\ CloseConnection(Head(todo), late) /\ clock' = clock
          /\ UNCHANGED <<touched, active>>
      BY <1>1, <1>6 DEF CloseNext, history
    <2>2. /\ Len(todo) \in Nat /\ Len(todo) > 0 /\ Head(todo) = todo[1] /\ Head(todo) \in Fds
          /\ Tail(todo) \in Seq(Fds) /\ Len(todo') = Len(todo) - 1
          /\ \A i \in 1..Len(todo') : todo'[i] = todo[i + 1]
      BY <1>1, <2>1
    <2>3. IdleTypeOK'
      BY <1>1, <2>1, <2>2, CloseCall DEF IdleTypeOK
    <2>4. ASSUME NEW f \in Range(todo), f # Head(todo)
          PROVE  f \in Range(todo')
      <3>1. PICK i \in 1..Len(todo) : todo[i] = f
        BY DEF Range
      <3>2. i - 1 \in 1..Len(todo') /\ todo'[i - 1] = f
        BY <2>2, <2>4, <3>1
      <3> QED
        BY <3>2 DEF Range
    <2>5. Watched'
      BY <1>1, <2>1, <2>2, <2>4, CloseCall DEF Watched
    <2>6. DeadlineKept' /\ AnsweredInTime'
      BY <1>1, <2>1, <2>2, CloseCall
    <2> QED
      BY <2>3, <2>5, <2>6 DEF IdleInv
  <1> QED
    BY <1>2, <1>3, <1>4, <1>5, <1>6

LEMMA IdleStep == IdleInv /\ [IdleNext]_idleVars => IdleInv'
  <1> SUFFICES ASSUME IdleInv, [IdleNext]_idleVars
               PROVE  IdleInv'
    OBVIOUS
  <1>1. IInv'
    BY HeapMoves, Step DEF IdleInv
  <1>2. CASE UNCHANGED idleVars
    <2>1. /\ UNCHANGED <<timers, touched>>
          /\ UNCHANGED <<clock, serving, late, todo, touched, active>>
      BY <1>2 DEF idleVars, history
    <2>2. IdleTypeOK'
      BY <1>1, <2>1, NoCall DEF IdleInv, IdleTypeOK, IInv
    <2>3. Watched'
      BY <2>1, NoCall, WatchedFrame DEF IdleInv
    <2> QED
      BY <1>1, <2>1, <2>2, <2>3, NoCall DEF IdleInv
  <1> QED
    BY <1>1, <1>2, ConnectionStep, CleanupStep DEF IdleNext

-----------------------------------------------------------------------------
(* The theorems *)

\* The invariant of the server's timers and of the clean-up of idle connections.
THEOREM IdleInvariance == IdleSpec => []IdleInv
  <1> QED
    BY IdleInitially, IdleStep, PTL DEF IdleSpec

\* Every reachable state is well typed: popExpired() runs on a time of the
\* past, when no earlier answer is left to close.
THEOREM IdleTypeCorrect == IdleSpec => []IdleTypeOK
  <1>1. IdleInv => IdleTypeOK
    BY DEF IdleInv
  <1> QED
    BY <1>1, IdleInvariance, PTL

\* The server's calls are a behaviour of the timer heap by itself, so that
\* what is proved of the heap holds in the server.
THEOREM ServerUsesHeap == IdleSpec => Spec
  <1>1. IdleInit => Init
    BY DEF IdleInit
  <1>2. IdleInv /\ [IdleNext]_idleVars => [Next]_vars
    BY HeapMoves DEF IdleInv
  <1> QED
    BY <1>1, <1>2, IdleInvariance, PTL DEF IdleSpec, Spec

\* closeIdleConnections() is given a descriptor once.
THEOREM ClosedOnce == IdleSpec => []NoDoubleExpiry
  <1> QED
    BY ServerUsesHeap, ExpiresOnce, PTL

\* In the server, the heap behaves as one deadline per descriptor.
THEOREM ServerImplementsTimers == IdleSpec => ImplementsTimers
  <1> QED
    BY ServerUsesHeap, Implementation

\* popExpired() answers an open connection exactly when its last touch is
\* Timeout seconds ago, and no descriptor that was touched later.
THEOREM ExpiresWhatIsIdle == IdleSpec => ExactlyIdle
  <1> DEFINE Exact == now # None /\ now' = None =>
        \A f \in Fds :
          LET passed == touched[f] + Timeout <= now IN
          /\ f \in Range(todo') => passed
          /\ serving[f] # "closed" /\ passed => f \in Range(todo')
  <1>1. IdleInv /\ [IdleNext]_idleVars => [Exact]_idleVars
    <2> SUFFICES ASSUME IdleInv, IdleNext, now # None, now' = None, NEW f \in Fds
                 PROVE  /\ f \in Range(todo') => touched[f] + Timeout <= now
                        /\ serving[f] # "closed" /\ touched[f] + Timeout <= now =>
                             f \in Range(todo')
      OBVIOUS
    <2>1. Popped
      BY DEF IdleNext, Tick, CloseIdle, Popping, CloseNext, Accept, HangUp, BeginRead,
        BeginWrite, Progress, Finish, Blocked, Leave, LateTouch, LateEnd, Touch,
        CloseConnection, AddOrUpdate, Remove, PopExpired, PopTop, timers, vars
    <2>2. todo' = expired /\ todo = <<>> /\ \A n \in heap : n.at > now
      BY <2>1 DEF Popped, Return, IdleInv, IdleTypeOK
    <2>3. ASSUME f \in Range(todo')
          PROVE  touched[f] + Timeout <= now
      BY <2>2, <2>3 DEF IdleInv, AnsweredInTime, Range
    <2>4. ASSUME serving[f] # "closed", touched[f] + Timeout <= now, f \notin Range(expired)
          PROVE  FALSE
      <3>1. Has(f)
        BY <2>2, <2>4 DEF IdleInv, Watched, Range
      <3>2. latest[f].at <= now
        BY <2>4, <3>1 DEF IdleInv, DeadlineKept
      <3>3. NodeOf(f) \in heap /\ NodeOf(f).at = latest[f].at
        BY <3>1 DEF IdleInv, IInv, LiveNode, NodeOf
      <3> QED
        BY <2>2, <3>1, <3>2, <3>3, EntryOrNot, TimerAssumption DEF IdleInv, IInv, TypeOK
    <2> QED
      BY <2>2, <2>3, <2>4
  <1> QED
    BY <1>1, IdleInvariance, PTL DEF IdleSpec, ExactlyIdle
=============================================================================
