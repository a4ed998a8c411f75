--------------------------- MODULE LifecycleProofs ---------------------------
(* Lifecycle for any number of workers, tasks and log lines. *)
EXTENDS Lifecycle, ThreadPoolProofs

Late == {"logger", "close", "destroy", "exit", "gone"}

\* ThreadPool's invariant, but for a pool that stop() or ~ThreadPool() finds
\* without threads: there stopping_ is set while no worker was ever started.
PoolSound ==
  /\ TypeOK /\ OnePlace
  /\ IInv \/ (owner = "start" /\ main \in Late)

\* Where Main is tells how far the pool is.
PoolStages ==
  /\ main \in Starting \cup Serving \cup {"stop", "workers"} \cup Late
  /\ main \in Starting \cup {"spawn"} => owner = "start"
  /\ main \in Serving \ {"spawn"} => owner = "running"
  /\ main = "stop" => owner \in {"start", "running"}
  /\ main \in Late => owner \in {"start", "stopped"}
  /\ owner = "start" /\ main # "spawn" =>
       tasks = <<>> /\ \A w \in Workers : pc[w] = "none"
  /\ calling[Main] = "notify" => main = "iterate"

\* It tells how far the logger is; the writer leaves an empty queue, and
\* nobody is left to log.
LogStages ==
  /\ keeper = "init" <=> main = "begin"
  /\ keeper \in {"notify", "join"} => main \in {"logger", "exit"}
  /\ keeper = "done" => main \in Late /\ writer = "gone"
  /\ main \in {"close", "gone"} => keeper = "done"
  /\ logging <=> keeper = "running"
  /\ writer = "gone" => ~logging /\ main \in Late /\ queue = <<>>

\* It tells which descriptors are open.
SocketStages ==
  /\ running \in BOOLEAN /\ sockets \subseteq {"listen", "client"}
  /\ main \in {"listen", "add", "arm", "spawn"} => "listen" \in sockets
  /\ owner # "start" /\ "listen" \notin sockets => main \in {"destroy", "exit", "gone"}
  /\ "client" \in sockets => owner # "start"
  /\ main \in {"destroy", "exit", "gone"} => sockets = {}

Ascends(s) == \A i, j \in 1..Len(s) : i < j => s[i] < s[j]
Precedes(s, t) == \A i \in 1..Len(s) : \A j \in 1..Len(t) : s[i] < t[j]
Below(s) == \A i \in 1..Len(s) : s[i] <= logged
In(n, s) == \E i \in 1..Len(s) : s[i] = n

LogTyped == Log!TypeOK /\ (writer = "none" <=> keeper = "init")

\* WrittenInOrder part by part, and where each line is.
LogSound ==
  /\ LogTyped
  /\ Ascends(file) /\ Ascends(batch) /\ Ascends(queue)
  /\ Precedes(file, batch) /\ Precedes(file, queue) /\ Precedes(batch, queue)
  /\ Below(file) /\ Below(batch) /\ Below(queue)
  /\ \A n \in 1..logged : In(n, queue) \/ In(n, batch) \/ Log!Out(n)

LifecycleInv == PoolSound /\ PoolStages /\ LogStages /\ SocketStages /\ LogSound

-----------------------------------------------------------------------------
(* The access log by itself *)

\* What the type invariant says of a sequence of lines.
LEMMA LineNumbers ==
  ASSUME NEW s \in Seq(1..MaxLines)
  PROVE  Len(s) \in Nat /\ \A i \in 1..Len(s) : s[i] \in 1..MaxLines /\ s[i] \in Nat
  <1>1. \A i \in 1..Len(s) : s[i] \in 1..MaxLines
    BY ElementOfSeq
  <1> QED
    BY <1>1, LenProperties

\* A step of the log that moves no line.
LEMMA LogFrame ==
  ASSUME LogSound, LogTyped', UNCHANGED <<queue, batch, file, dropped, logged>>
  PROVE  LogSound'
  BY DEF LogSound, Ascends, Precedes, Below, In, Log!Out

\* The push of a line that is greater than all before it.
LEMMA PushStep ==
  ASSUME LogSound, NEW c \in Threads, Log!Enqueue(c)
  PROVE  LogSound'
  <1> DEFINE k == logged + 1
  <1>1. /\ logged < MaxLines /\ logged' = k /\ queue' = Append(queue, k)
        /\ saying' = [saying EXCEPT ![c] = "notify"]
        /\ UNCHANGED <<logging, batch, file, dropped, writer, keeper>>
    BY DEF Log!Enqueue, Log!disk
  <1>2. /\ logged \in 0..MaxLines /\ queue \in Seq(1..MaxLines)
        /\ batch \in Seq(1..MaxLines) /\ file \in Seq(1..MaxLines)
        /\ saying \in [Threads -> {"idle", "notify"}]
    BY DEF LogSound, LogTyped, Log!TypeOK
  <1>3. k \in 1..MaxLines /\ logged \in Nat /\ k = logged + 1
    BY <1>1, <1>2, LifecycleAssumption
  <1> HIDE DEF k
  <1>4. /\ queue' \in Seq(1..MaxLines) /\ Len(queue) \in Nat
        /\ Len(queue') = Len(queue) + 1
        /\ \A i \in 1..Len(queue) : queue'[i] = queue[i]
        /\ queue'[Len(queue) + 1] = k
    BY <1>1, <1>2, <1>3
  <1>5. /\ Len(file) \in Nat /\ \A i \in 1..Len(file) : file[i] \in Nat
        /\ Len(batch) \in Nat /\ \A i \in 1..Len(batch) : batch[i] \in Nat
        /\ \A i \in 1..Len(queue) : queue[i] \in Nat
    BY <1>2, LineNumbers
  <1>6. LogTyped'
    BY <1>1, <1>2, <1>3, <1>4 DEF LogSound, LogTyped, Log!TypeOK
  <1>7. Ascends(queue')
    <2> SUFFICES ASSUME NEW i \in 1..Len(queue'), NEW j \in 1..Len(queue'), i < j
                 PROVE  queue'[i] < queue'[j]
      BY DEF Ascends
    <2>1. CASE j \in 1..Len(queue)
      BY <1>4, <2>1 DEF LogSound, Ascends
    <2>2. CASE j = Len(queue) + 1
      <3>1. i \in 1..Len(queue) /\ queue'[i] = queue[i] /\ queue'[j] = k
        BY <1>4, <2>2
      <3> QED
        BY <1>3, <1>5, <3>1 DEF LogSound, Below
    <2> QED
      BY <1>4, <2>1, <2>2
  <1>8. \A i \in 1..Len(queue') : i \in 1..Len(queue) \/ i = Len(queue) + 1
    BY <1>4
  <1>9. Precedes(file, queue') /\ Precedes(batch, queue')
    <2>1. /\ \A i \in 1..Len(file) : file[i] < k
          /\ \A i \in 1..Len(batch) : batch[i] < k
      BY <1>3, <1>5 DEF LogSound, Below
    <2>2. Precedes(file, queue')
      BY <1>4, <1>8, <2>1 DEF LogSound, Precedes
    <2>3. Precedes(batch, queue')
      BY <1>4, <1>8, <2>1 DEF LogSound, Precedes
    <2> QED
      BY <2>2, <2>3
  <1>10. /\ Below(file)' /\ Below(batch)' /\ Below(queue)'
    BY <1>1, <1>3, <1>4, <1>5, <1>8 DEF LogSound, Below
  <1>11. \A n \in 1..k : In(n, queue)' \/ In(n, batch)' \/ Log!Out(n)'
    <2> SUFFICES ASSUME NEW n \in 1..k
                 PROVE  In(n, queue)' \/ In(n, batch)' \/ Log!Out(n)'
      OBVIOUS
    <2>1. CASE n = k
      BY <1>4, <2>1 DEF In
    <2>2. CASE n \in 1..logged
      <3>1. In(n, queue) => In(n, queue)'
        BY <1>4 DEF In
      <3>2. /\ In(n, batch) => In(n, batch)'
            /\ Log!Out(n) => Log!Out(n)'
        BY <1>1 DEF In, Log!Out
      <3> QED
        BY <2>2, <3>1, <3>2 DEF LogSound
    <2> QED
      BY <1>3, <2>1, <2>2
  <1> QED
    BY <1>1, <1>6, <1>7, <1>9, <1>10, <1>11 DEF LogSound, Ascends, Precedes

\* batch.swap(queue_): the batch was empty.
LEMMA SwapStep ==
  ASSUME LogSound, Log!Swap
  PROVE  LogSound'
  <1>1. /\ batch' = queue /\ queue' = <<>> /\ queue # <<>> /\ writer' = "open"
        /\ writer = "lock"
        /\ UNCHANGED <<logging, file, dropped, saying, keeper, logged>>
    BY DEF Log!Swap, Log!Swapped, Log!Ready, Log!disk
  <1>2. batch = <<>>
    BY <1>1 DEF LogSound, LogTyped, Log!TypeOK
  <1>3. LogTyped'
    BY <1>1 DEF LogSound, LogTyped, Log!TypeOK
  <1>4. Len(queue') = 0 /\ Len(batch) = 0
    BY <1>1, <1>2
  <1> QED
    BY <1>1, <1>3, <1>4 DEF LogSound, Ascends, Precedes, Below, In, Log!Out

\* The file did not open: the batch leaves a gap.
LEMMA OpenStep ==
  ASSUME LogSound, Log!Open
  PROVE  LogSound'
  <1>1. CASE writer' = "write" /\ UNCHANGED <<batch, dropped>>
    <2>1. LogTyped'
      BY <1>1 DEF LogSound, LogTyped, Log!Open, Log!TypeOK
    <2> QED
      BY <1>1, <2>1, LogFrame DEF Log!Open
  <1>2. CASE /\ writer' = "lock" /\ batch' = <<>>
             /\ dropped' = dropped \cup {batch[i] : i \in 1..Len(batch)}
    <2>1. UNCHANGED <<logging, queue, file, saying, keeper, logged>>
      BY DEF Log!Open
    <2>2. {batch[i] : i \in 1..Len(batch)} \subseteq 1..MaxLines
      BY LineNumbers DEF LogSound, LogTyped, Log!TypeOK
    <2>3. LogTyped'
      <3>1. writer = "open" /\ dropped' \subseteq 1..MaxLines
        BY <1>2, <2>2 DEF Log!Open, LogSound, LogTyped, Log!TypeOK
      <3> QED
        BY <1>2, <2>1, <3>1 DEF LogSound, LogTyped, Log!TypeOK
    <2>4. Len(batch') = 0
      BY <1>2
    <2>5. \A n : In(n, batch) \/ Log!Out(n) => Log!Out(n)'
      BY <1>2, <2>1 DEF In, Log!Out
    <2>6. \A n : In(n, queue)' <=> In(n, queue)
      BY <2>1 DEF In
    <2> QED
      BY <2>1, <2>3, <2>4, <2>5, <2>6 DEF LogSound, Ascends, Precedes, Below
  <1> QED
    BY <1>1, <1>2 DEF Log!Open

\* The first n lines of the batch go to the file.
LEMMA WriteStep ==
  ASSUME LogSound, NEW n, Log!Write(n)
  PROVE  LogSound'
  <1>1. /\ writer = "write" /\ n \in 1..Len(batch)
        /\ file' = file \o SubSeq(batch, 1, n)
        /\ batch' = SubSeq(batch, n + 1, Len(batch))
        /\ writer' = IF n = Len(batch) THEN "lock" ELSE "write"
        /\ UNCHANGED <<logging, queue, dropped, saying, keeper, logged>>
    BY DEF Log!Write
  <1>2. /\ batch \in Seq(1..MaxLines) /\ file \in Seq(1..MaxLines)
        /\ queue \in Seq(1..MaxLines)
    BY DEF LogSound, LogTyped, Log!TypeOK
  <1> DEFINE m == Len(file)  part == SubSeq(batch, 1, n)
  <1>3. /\ Len(batch) \in Nat /\ \A i \in 1..Len(batch) : batch[i] \in 1..MaxLines
        /\ m \in Nat /\ n \in Nat /\ n >= 1 /\ n <= Len(batch)
    BY <1>1, <1>2, LineNumbers
  <1>4. /\ part \in Seq(1..MaxLines) /\ Len(part) = n
        /\ \A i \in 1..n : part[i] = batch[i]
    BY <1>1, <1>2, <1>3, SubSeqProperties
  <1>5. /\ batch' \in Seq(1..MaxLines) /\ Len(batch') = Len(batch) - n
        /\ \A i \in 1..(Len(batch) - n) : batch'[i] = batch[n + i]
    <2>1. \A i \in (n + 1)..Len(batch) : batch[i] \in 1..MaxLines
      BY <1>3
    <2>2. /\ batch' \in Seq(1..MaxLines)
          /\ Len(batch') = IF n + 1 <= Len(batch) THEN Len(batch) - (n + 1) + 1 ELSE 0
          /\ \A i \in 1..(Len(batch) - (n + 1) + 1) : batch'[i] = batch[n + 1 + i - 1]
      BY <1>1, <1>3, <2>1, SubSeqProperties
    <2> QED
      BY <1>3, <2>2
  <1>6. /\ file' \in Seq(1..MaxLines) /\ Len(file') = m + n
        /\ \A i \in 1..(m + n) : file'[i] = IF i <= m THEN file[i] ELSE part[i - m]
    BY <1>1, <1>2, <1>4, ConcatProperties
  <1>7. \A i \in 1..(m + n) : \/ i \in 1..m /\ file'[i] = file[i]
                              \/ i - m \in 1..n /\ file'[i] = batch[i - m]
    BY <1>3, <1>4, <1>6
  <1>8. \A i \in 1..Len(batch') : n + i \in 1..Len(batch) /\ batch'[i] = batch[n + i]
    BY <1>3, <1>5
  <1>9. batch' # <<>> <=> n # Len(batch)
    BY <1>3, <1>5, EmptySeq
  <1>10. LogTyped'
    BY <1>1, <1>5, <1>6, <1>9 DEF LogSound, LogTyped, Log!TypeOK
  <1>11. /\ \A i \in 1..m : file[i] \in Nat
         /\ \A i \in 1..Len(queue) : queue[i] \in Nat
         /\ \A i \in 1..Len(batch) : batch[i] \in Nat
         /\ logged \in Nat
    BY <1>2, LineNumbers, LifecycleAssumption DEF LogSound, LogTyped, Log!TypeOK
  <1>12. /\ \A i, j \in 1..m : i < j => file[i] < file[j]
         /\ \A i, j \in 1..Len(batch) : i < j => batch[i] < batch[j]
         /\ \A i \in 1..m : \A j \in 1..Len(batch) : file[i] < batch[j]
    BY DEF LogSound, Ascends, Precedes
  <1> HIDE DEF m, part
  <1>13. Ascends(file')
    <2> SUFFICES ASSUME NEW i \in 1..(m + n), NEW j \in 1..(m + n), i < j
                 PROVE  file'[i] < file'[j]
      BY <1>6 DEF Ascends
    <2>1. CASE i \in 1..m /\ j \in 1..m
      BY <1>3, <1>7, <1>12, <2>1
    <2>2. CASE i \in 1..m /\ j - m \in 1..n /\ file'[j] = batch[j - m]
      BY <1>3, <1>7, <1>12, <2>2
    <2>3. CASE i - m \in 1..n /\ j - m \in 1..n
      BY <1>3, <1>7, <1>12, <2>3
    <2> QED
      BY <1>3, <1>7, <2>1, <2>2, <2>3
  <1>14. Ascends(batch')
    <2> SUFFICES ASSUME NEW i \in 1..Len(batch'), NEW j \in 1..Len(batch'), i < j
                 PROVE  batch'[i] < batch'[j]
      BY DEF Ascends
    <2>1. n + i < n + j
      BY <1>3, <1>5
    <2> QED
      BY <1>8, <1>12, <2>1
  <1>15. Precedes(file', batch')
    <2> SUFFICES ASSUME NEW i \in 1..(m + n), NEW j \in 1..Len(batch')
                 PROVE  file'[i] < batch'[j]
      BY <1>6 DEF Precedes
    <2>1. n + j \in 1..Len(batch) /\ batch'[j] = batch[n + j]
      BY <1>8
    <2>2. CASE i \in 1..m /\ file'[i] = file[i]
      BY <1>12, <2>1, <2>2
    <2>3. CASE i - m \in 1..n /\ file'[i] = batch[i - m]
      <3>1. i - m \in 1..Len(batch) /\ i - m < n + j
        BY <1>3, <1>5, <2>3
      <3> QED
        BY <1>12, <2>1, <2>3, <3>1
    <2> QED
      BY <1>7, <2>2, <2>3
  <1>16. Precedes(file', queue) /\ Precedes(batch', queue)
    <2>1. /\ \A i \in 1..m : \A j \in 1..Len(queue) : file[i] < queue[j]
          /\ \A i \in 1..Len(batch) : \A j \in 1..Len(queue) : batch[i] < queue[j]
      BY DEF LogSound, Precedes, m
    <2>2. Precedes(batch', queue)
      BY <1>8, <2>1 DEF Precedes
    <2>3. \A i \in 1..n : i \in 1..Len(batch)
      BY <1>3
    <2>4. Precedes(file', queue)
      BY <1>6, <1>7, <2>1, <2>3 DEF Precedes
    <2> QED
      BY <2>2, <2>4
  <1>17. Below(file)' /\ Below(batch)' /\ Below(queue)'
    BY <1>1, <1>3, <1>6, <1>7, <1>8 DEF LogSound, Below, m
  <1>18. ASSUME NEW k \in 1..logged
         PROVE  In(k, queue)' \/ In(k, batch)' \/ Log!Out(k)'
    <2>1. CASE In(k, queue)
      BY <1>1, <2>1 DEF In
    <2>2. CASE In(k, batch)
      <3>1. PICK i \in 1..Len(batch) : batch[i] = k
        BY <2>2 DEF In
      <3>2. CASE i \in 1..n
        <4>1. /\ m + i \in 1..(m + n) /\ (m + i) - m = i /\ ~(m + i <= m)
          BY <1>3, <3>2
        <4>2. file'[m + i] = k
          BY <1>4, <1>6, <3>1, <3>2, <4>1
        <4> QED
          BY <1>6, <4>1, <4>2 DEF Log!Out
      <3>3. CASE i \notin 1..n
        <4>1. i - n \in 1..(Len(batch) - n) /\ n + (i - n) = i
          BY <1>3, <3>3
        <4>2. i - n \in 1..Len(batch') /\ batch'[i - n] = k
          BY <1>5, <3>1, <4>1
        <4> QED
          BY <4>2 DEF In
      <3> QED
        BY <3>2, <3>3
    <2>3. CASE Log!Out(k)
      <3>1. CASE k \in dropped
        BY <1>1, <3>1 DEF Log!Out
      <3>2. CASE \E i \in 1..m : file[i] = k
        <4>1. PICK i \in 1..m : file[i] = k
          BY <3>2
        <4>2. i \in 1..(m + n) /\ i <= m
          BY <1>3
        <4>3. file'[i] = k
          BY <1>6, <4>1, <4>2
        <4> QED
          BY <1>6, <4>2, <4>3 DEF Log!Out
      <3> QED
        BY <2>3, <3>1, <3>2 DEF Log!Out, m
    <2> QED
      BY <2>1, <2>2, <2>3 DEF LogSound
  <1> QED
    BY <1>1, <1>10, <1>13, <1>14, <1>15, <1>16, <1>17, <1>18
    DEF LogSound, Ascends, Precedes

\* Every step of the log keeps its lines in order and loses none.
LEMMA LogStep ==
  ASSUME LogSound, Log!Next \/ UNCHANGED log
  PROVE  LogSound'
  <1>1. ASSUME NEW c \in Threads, Log!Enqueue(c)
        PROVE  LogSound'
    BY <1>1, PushStep
  <1>2. ASSUME Log!Swap
        PROVE  LogSound'
    BY <1>2, SwapStep
  <1>3. ASSUME Log!Open
        PROVE  LogSound'
    BY <1>3, OpenStep
  <1>4. ASSUME NEW n, Log!Write(n)
        PROVE  LogSound'
    BY <1>4, WriteStep
  <1>5. CASE \/ Log!Start \/ Log!Shutdown \/ Log!NotifyAll \/ Log!Join
             \/ (\E c \in Threads : Log!NotifyOne(c))
             \/ Log!Sleep \/ Log!Leave \/ Log!Spurious
             \/ UNCHANGED log
    <2>1. UNCHANGED <<queue, batch, file, dropped, logged>>
      BY <1>5 DEF log, Log!Start, Log!Shutdown, Log!NotifyAll, Log!Join,
                  Log!NotifyOne, Log!Sleep, Log!Leave, Log!Spurious, Log!disk
    <2>2. logging' \in BOOLEAN /\ keeper' \in {"init", "running", "notify", "join", "done"}
      BY <1>5 DEF LogSound, LogTyped, Log!TypeOK, log, Log!Start, Log!Shutdown, Log!NotifyAll,
                  Log!Join, Log!NotifyOne, Log!Sleep, Log!Leave, Log!Spurious
    <2>3. /\ writer' \in {"none", "lock", "waiting", "open", "write", "gone"}
          /\ writer' \in {"open", "write"} <=> writer \in {"open", "write"}
          /\ writer' = "none" <=> keeper' = "init"
      BY <1>5 DEF LogSound, LogTyped, Log!TypeOK, log, Log!Start, Log!Shutdown, Log!NotifyAll,
                  Log!Join, Log!NotifyOne, Log!Sleep, Log!Leave, Log!Spurious, Log!Woken
    <2>4. saying' \in [Threads -> {"idle", "notify"}]
      BY <1>5 DEF LogSound, LogTyped, Log!TypeOK, log, Log!Start, Log!Shutdown, Log!NotifyAll,
                  Log!Join, Log!NotifyOne, Log!Sleep, Log!Leave, Log!Spurious
    <2>5. LogTyped'
      BY <2>1, <2>2, <2>3, <2>4 DEF LogSound, LogTyped, Log!TypeOK
    <2> QED
      BY <2>1, <2>5, LogFrame
  <1> QED
    BY <1>1, <1>2, <1>3, <1>4, <1>5 DEF Log!Next, Log!WorkerStep, Log!vars, Log!disk, log

-----------------------------------------------------------------------------
(* The pool, the log and the server together *)

\* The stages of stop() and of the destructors, one after the other.
LEMMA Stages ==
  /\ After("workers") = "logger" /\ After("logger") = "close"
  /\ After("close") = "destroy" /\ After("destroy") = "exit" /\ After("exit") = "gone"
  /\ {Order[i] : i \in 1..Len(Order)} = {"workers"} \cup Late
  /\ Head(Order) = "workers"
  <1>1. /\ Len(Order) = 6
        /\ Order[1] = "workers" /\ Order[2] = "logger" /\ Order[3] = "close"
        /\ Order[4] = "destroy" /\ Order[5] = "exit" /\ Order[6] = "gone"
    BY DEF Order
  <1>2. 1..Len(Order) = {1, 2, 3, 4, 5, 6}
    BY <1>1
  <1>3. ASSUME NEW n \in 1..5
        PROVE  After(Order[n]) = Order[n + 1]
    <2> DEFINE At(i) == Order[i] = Order[n]
               k == CHOOSE i \in 1..Len(Order) : At(i)
    <2>1. \E i \in 1..Len(Order) : At(i)
      BY <1>1
    <2>2. k \in 1..Len(Order) /\ At(k)
      BY <2>1
    <2>3. \A i \in 1..Len(Order) : At(i) => i = n
      BY <1>1, <1>2
    <2>4. k = n
      BY <2>2, <2>3
    <2>5. After(Order[n]) = Order[1 + k]
      BY Zenon DEF After
    <2> HIDE DEF k
    <2> QED
      BY <2>4, <2>5
  <1>4. {Order[i] : i \in 1..Len(Order)} = {"workers"} \cup Late
    BY <1>1, <1>2 DEF Late
  <1>5. Head(Order) = "workers"
    BY DEF Order
  <1> QED
    BY <1>1, <1>3, <1>4, <1>5

\* What each step is for the access log.
LEMMA LogMoves == [LifecycleNext]_lifecycleVars => Log!Next \/ UNCHANGED log
  <1> SUFFICES ASSUME [LifecycleNext]_lifecycleVars, ~UNCHANGED log
               PROVE  Log!Next
    OBVIOUS
  <1>1. CASE MainStep
    BY <1>1 DEF MainStep, StartStep, LoopStep, StopStep, InitLogger, InitDatabase,
      CheckEpoll, Socket, Listen, AddListener, Arm, Spawn, TestRunning, EpollWait,
      Accept, Dispatch, DispatchNotify, HangUp, LogIdle, CloseIdle, NextIteration,
      Halt, StopWorkers, StopLogger, CloseSockets, Log!Next, Threads
  <1>2. CASE Signal \/ WriterStep \/ SpuriousWakeup
    BY <1>2 DEF Signal, WriterStep, SpuriousWakeup, Log!Next
  <1>3. CASE \E w \in Workers : TaskStep(w)
    BY <1>3 DEF TaskStep, PoolStep, LogAccess, FinishLogged, Finish, Log!Next, Threads
  <1>4. UNCHANGED lifecycleVars => UNCHANGED log
    BY DEF lifecycleVars
  <1> QED
    BY <1>1, <1>2, <1>3, <1>4 DEF LifecycleNext

\* stop() of a pool that has no threads sets stopping_ and nothing else.
NothingSpawned ==
  /\ owner = "start" /\ main' \in Late /\ stopping' \in BOOLEAN
  /\ UNCHANGED <<tasks, pc, holds, calling, owner, accepted, refused, ran>>

\* What each step is for the worker pool.
LEMMA PoolMoves ==
  ASSUME LifecycleInv, [LifecycleNext]_lifecycleVars
  PROVE  (IInv /\ [Next]_vars) \/ NothingSpawned
  <1>1. /\ PoolSound /\ PoolStages /\ TypeOK /\ stopping \in BOOLEAN
        /\ Main \in Callers
    BY LifecycleAssumption DEF LifecycleInv, PoolSound, TypeOK
  <1>2. CASE UNCHANGED vars /\ (main \in Late => main' \in Late)
    BY <1>1, <1>2 DEF PoolSound, NothingSpawned, vars
  <1>3. ASSUME NEW w \in Workers, Spawn(w)
        PROVE  IInv /\ Next
    BY <1>1, <1>3 DEF Spawn, PoolSound, Late, Next, OwnerStep
  <1>4. ASSUME Dispatch
        PROVE  IInv /\ Next
    BY <1>1, <1>4 DEF Dispatch, PoolSound, Late, Next, CallerStep
  <1>5. ASSUME DispatchNotify
        PROVE  IInv /\ Next
    <2>1. NotifyOne(Main) /\ calling[Main] = "notify"
      BY <1>5 DEF DispatchNotify, NotifyOne
    <2> QED
      BY <1>1, <2>1 DEF PoolSound, PoolStages, Late, Next, CallerStep
  <1>6. ASSUME NEW w \in Workers, TaskStep(w)
        PROVE  (IInv /\ Next) \/ (UNCHANGED vars /\ UNCHANGED main)
    <2>1. CASE LogAccess(w)
      BY <2>1 DEF LogAccess, pool, server
    <2>2. CASE WorkerStep(w) /\ UNCHANGED main
      <3>1. pc[w] # "none"
        BY <2>2 DEF WorkerStep, Sleep, Leave, Take, Run
      <3>2. ~(owner = "start" /\ main \in Late)
        BY <1>1, <3>1 DEF PoolStages, Late
      <3> QED
        BY <1>1, <2>2, <3>2 DEF PoolSound, Next
    <2> QED
      BY <1>6, <2>1, <2>2
      DEF TaskStep, PoolStep, FinishLogged, Finish, WorkerStep, server
  <1>7. ASSUME SpuriousWakeup
        PROVE  (IInv /\ Next) \/ (UNCHANGED vars /\ UNCHANGED main)
    <2>1. CASE Log!Spurious /\ UNCHANGED <<pool, server>>
      BY <2>1 DEF pool, server
    <2>2. ASSUME NEW w \in Workers, Spurious(w)
          PROVE  IInv /\ Next
      <3>1. pc[w] # "none"
        BY <2>2 DEF Spurious
      <3>2. ~(owner = "start" /\ main \in Late)
        BY <1>1, <3>1 DEF PoolStages, Late
      <3> QED
        BY <1>1, <2>2, <3>2 DEF PoolSound, Next
    <2> QED
      BY <1>7, <2>1, <2>2 DEF SpuriousWakeup
  <1>8. ASSUME StopWorkers
        PROVE  (IInv /\ [Next]_vars) \/ NothingSpawned
    <2>1. CASE Stop \/ NotifyAll \/ Join
      <3>1. owner # "start"
        BY <2>1 DEF Stop, NotifyAll, Join
      <3> QED
        BY <1>1, <2>1, <3>1 DEF PoolSound, Next, OwnerStep
    <2>2. CASE /\ owner \in {"start", "stopped"} /\ Go(After(main))
               /\ stopping' = TRUE
               /\ UNCHANGED <<tasks, pc, holds, calling, owner, accepted, refused, ran>>
      <3>1. CASE owner = "start"
        BY <1>8, <2>2, <3>1, Stages DEF StopWorkers, NothingSpawned, Go, Late
      <3>2. CASE owner = "stopped"
        <4>1. IInv
          BY <1>1, <3>2 DEF PoolSound
        <4>2. stopping = TRUE
          BY <1>1, <3>2, <4>1 DEF IInv, Phases
        <4> QED
          BY <2>2, <4>1, <4>2 DEF vars
      <3> QED
        BY <2>2, <3>1, <3>2
    <2> QED
      BY <1>8, <2>1, <2>2 DEF StopWorkers
  <1>9. CASE \/ InitLogger \/ InitDatabase \/ CheckEpoll \/ Socket \/ Listen
             \/ AddListener \/ Arm \/ TestRunning \/ EpollWait \/ Accept
             \/ HangUp \/ LogIdle \/ CloseIdle \/ NextIteration \/ Halt
    <2>1. UNCHANGED vars /\ main \notin Late
      BY <1>9 DEF InitLogger, InitDatabase, CheckEpoll, Socket, Listen, AddListener,
        Arm, TestRunning, EpollWait, Accept, HangUp, LogIdle, CloseIdle,
        NextIteration, Halt, pool, Late
    <2> QED
      BY <1>2, <2>1
  <1>10. CASE StopLogger \/ CloseSockets
    <2>1. UNCHANGED vars /\ main' \in Late
      BY <1>10, Stages DEF StopLogger, CloseSockets, Go, pool, Late
    <2> QED
      BY <1>2, <2>1
  <1>11. CASE Signal \/ WriterStep \/ UNCHANGED lifecycleVars
    <2>1. UNCHANGED vars /\ UNCHANGED main
      BY <1>11 DEF Signal, WriterStep, lifecycleVars, pool, server
    <2> QED
      BY <1>2, <2>1
  <1> QED
    BY <1>2, <1>3, <1>4, <1>5, <1>6, <1>7, <1>8, <1>9, <1>10, <1>11
    DEF LifecycleNext, MainStep, StartStep, LoopStep, StopStep

\* Every step keeps the pool's invariant, and every task in one place.
LEMMA PoolStays ==
  ASSUME LifecycleInv, [LifecycleNext]_lifecycleVars
  PROVE  PoolSound'
  <1>1. CASE IInv /\ [Next]_vars
    <2>1. IInv' /\ OnePlace'
      BY <1>1, Step, OnceStep DEF LifecycleInv, PoolSound
    <2> QED
      BY <2>1 DEF PoolSound, IInv
  <1>2. CASE NothingSpawned
    <2>1. TypeOK' /\ OnePlace'
      BY <1>2, OnceFrame DEF NothingSpawned, LifecycleInv, PoolSound, TypeOK
    <2> QED
      BY <1>2, <2>1 DEF NothingSpawned, PoolSound
  <1> QED
    BY <1>1, <1>2, PoolMoves

StagesOK == PoolStages /\ LogStages /\ SocketStages

\* The steps of start().
LEMMA StartStages == LifecycleInv /\ StartStep => StagesOK'
  <1> SUFFICES ASSUME LifecycleInv, StartStep
               PROVE  StagesOK'
    OBVIOUS
  <1>1. StagesOK /\ TypeOK
    BY DEF LifecycleInv, StagesOK, PoolSound
  <1>2. CASE InitLogger
    BY <1>1, <1>2 DEF InitLogger, Log!Start, Log!disk, Go, StagesOK, PoolStages, LogStages,
      SocketStages, Starting, Serving, Late, pool, vars
  <1>3. CASE InitDatabase \/ CheckEpoll \/ Socket \/ Listen \/ AddListener \/ Arm
    <2>1. /\ main \in {"database", "epoll", "socket", "listen", "add", "arm"}
          /\ main' \in {"epoll", "socket", "listen", "add", "arm", "spawn", "stop"}
          /\ UNCHANGED vars /\ UNCHANGED log
          /\ running' \in BOOLEAN /\ sockets' \subseteq {"listen", "client"}
          /\ main' \in {"listen", "add", "arm", "spawn"} => "listen" \in sockets'
          /\ "client" \in sockets' => "client" \in sockets
      BY <1>1, <1>3 DEF InitDatabase, CheckEpoll, Socket, Listen, AddListener, Arm, Go,
        StagesOK, SocketStages, pool
    <2> QED
      BY <1>1, <2>1 DEF StagesOK, PoolStages, LogStages, SocketStages, Starting, Serving,
        Late, vars, log
  <1>4. ASSUME NEW w \in Workers, Spawn(w)
        PROVE  StagesOK'
    <2>1. /\ main = "spawn" /\ owner = "start" /\ tasks' = tasks /\ calling' = calling
          /\ \/ owner' = "running" /\ main' = "loop"
             \/ owner' = "start" /\ main' = "spawn"
          /\ UNCHANGED <<log, running, sockets>>
      BY <1>1, <1>4 DEF Spawn, Start, Go, StagesOK, PoolStages
    <2> QED
      BY <1>1, <2>1 DEF StagesOK, PoolStages, LogStages, SocketStages, Starting, Serving,
        Late, log
  <1> QED
    BY <1>2, <1>3, <1>4 DEF StartStep

\* The steps of eventLoop().
LEMMA LoopStages == LifecycleInv /\ LoopStep => StagesOK'
  <1> SUFFICES ASSUME LifecycleInv, LoopStep
               PROVE  StagesOK'
    OBVIOUS
  <1>1. StagesOK /\ TypeOK /\ Main \in Callers
    BY LifecycleAssumption DEF LifecycleInv, StagesOK, PoolSound
  <1>2. CASE TestRunning \/ EpollWait \/ Accept \/ HangUp \/ NextIteration
    <2>1. /\ main \in {"loop", "wait", "iterate"}
          /\ main' \in {"loop", "wait", "iterate", "stop"}
          /\ calling[Main] = "notify" => main' = main
          /\ UNCHANGED vars /\ UNCHANGED log /\ UNCHANGED running
          /\ sockets' \subseteq {"listen", "client"}
          /\ "listen" \in sockets' <=> "listen" \in sockets
      BY <1>1, <1>2 DEF TestRunning, EpollWait, Accept, HangUp, NextIteration, MayClose,
        Go, StagesOK, PoolStages, SocketStages, pool
    <2> QED
      BY <1>1, <2>1 DEF StagesOK, PoolStages, LogStages, SocketStages, Starting, Serving,
        Late, vars, log
  <1>3. CASE Dispatch \/ DispatchNotify
    <2>1. /\ main = "iterate" /\ UNCHANGED owner /\ UNCHANGED log /\ UNCHANGED server
      BY <1>1, <1>3 DEF Dispatch, DispatchNotify, Enqueue, NotifyOne, StagesOK, PoolStages
    <2> QED
      BY <1>1, <2>1 DEF StagesOK, PoolStages, LogStages, SocketStages, Starting, Serving,
        Late, server, log
  <1>4. CASE LogIdle \/ CloseIdle
    <2>1. /\ \/ main = "iterate" /\ main' = "idle" /\ calling[Main] = "idle"
             \/ main = "idle" /\ main' = "iterate"
          /\ UNCHANGED vars /\ UNCHANGED <<logging, keeper, running>>
          /\ writer' = "gone" => writer = "gone"
          /\ sockets' \subseteq {"listen", "client"}
          /\ "listen" \in sockets' <=> "listen" \in sockets
      BY <1>1, <1>4 DEF LogIdle, CloseIdle, Log!Enqueue, Log!NotifyOne, Log!Woken, MayClose,
        Go, StagesOK, SocketStages, pool
    <2> QED
      BY <1>1, <2>1 DEF StagesOK, PoolStages, LogStages, SocketStages, Starting, Serving,
        Late, vars
  <1> QED
    BY <1>2, <1>3, <1>4 DEF LoopStep

\* The steps of the other threads.
LEMMA ThreadStages ==
  ASSUME LifecycleInv,
         Signal \/ WriterStep \/ SpuriousWakeup \/ \E w \in Workers : TaskStep(w)
  PROVE  StagesOK'
  <1>1. StagesOK /\ TypeOK
    BY DEF LifecycleInv, StagesOK, PoolSound
  <1>2. CASE Signal
    BY <1>1, <1>2 DEF Signal, StagesOK, PoolStages, LogStages, SocketStages, pool, vars, log
  <1>3. CASE WriterStep \/ (Log!Spurious /\ UNCHANGED <<pool, server>>)
    <2>1. UNCHANGED vars /\ UNCHANGED <<main, running, sockets, logging, keeper>>
      BY <1>3 DEF WriterStep, pool, server, Log!WorkerStep, Log!Sleep, Log!Leave,
        Log!Swap, Log!Open, Log!Write, Log!Spurious
    <2>2. writer' = "gone" => ~logging /\ queue = <<>> /\ queue' = <<>>
      BY <1>1, <1>3 DEF WriterStep, Log!WorkerStep, Log!Sleep, Log!Leave, Log!MayLeave,
        Log!Swap, Log!Open, Log!Write, Log!Spurious
    <2>3. writer # "gone"
      BY <1>3 DEF WriterStep, Log!WorkerStep, Log!Sleep, Log!Leave, Log!Swap, Log!Open,
        Log!Write, Log!Spurious
    <2>4. writer # "none"
      BY <1>3 DEF WriterStep, Log!WorkerStep, Log!Sleep, Log!Leave, Log!Swap, Log!Open,
        Log!Write, Log!Spurious
    <2>5. ~logging => main \in Late
      BY <1>1, <2>4 DEF StagesOK, LogStages, Late, LifecycleInv, LogSound, LogTyped,
        Log!TypeOK
    <2> QED
      BY <1>1, <2>1, <2>2, <2>3, <2>5
      DEF StagesOK, PoolStages, LogStages, SocketStages, vars
  <1>4. ASSUME NEW w \in Workers, Spurious(w), UNCHANGED <<log, server>>
        PROVE  StagesOK'
    <2>1. pc[w] # "none" /\ UNCHANGED <<owner, calling>>
      BY <1>4 DEF Spurious
    <2>2. ~(owner = "start" /\ main # "spawn")
      BY <1>1, <2>1 DEF StagesOK, PoolStages
    <2> QED
      BY <1>1, <1>4, <2>1, <2>2
      DEF StagesOK, PoolStages, LogStages, SocketStages, log, server
  <1>5. ASSUME NEW w \in Workers, TaskStep(w)
        PROVE  StagesOK'
    <2>1. pc[w] \notin {"none", "gone"}
      BY <1>5 DEF TaskStep, PoolStep, Sleep, Leave, Take, Run, LogAccess, FinishLogged,
        Finish
    <2>2. ~(owner = "start" /\ main # "spawn")
      BY <1>1, <2>1 DEF StagesOK, PoolStages
    <2>3. main \notin Late
      <3>1. CASE owner = "start"
        BY <2>2, <3>1 DEF Late
      <3>2. CASE owner = "stopped"
        BY <2>1, <3>2 DEF LifecycleInv, PoolSound, IInv, DrainedAtStop
      <3> QED
        BY <1>1, <3>1, <3>2 DEF StagesOK, PoolStages
    <2>4. /\ UNCHANGED <<owner, calling, main, running, logging, keeper>>
          /\ writer' = "gone" => writer = "gone"
          /\ sockets' \subseteq sockets
          /\ "listen" \in sockets => "listen" \in sockets'
      BY <1>5 DEF TaskStep, PoolStep, Sleep, Leave, Take, Run, LogAccess, FinishLogged,
        Finish, MayClose, Log!Enqueue, Log!NotifyOne, Log!Woken, pool, vars, log, server
    <2> QED
      BY <1>1, <2>2, <2>3, <2>4
      DEF StagesOK, PoolStages, LogStages, SocketStages
  <1> QED
    BY <1>2, <1>3, <1>4, <1>5 DEF SpuriousWakeup

\* The steps of stop() and of the end of the process.
LEMMA StopStages == LifecycleInv /\ StopStep => StagesOK'
  <1> SUFFICES ASSUME LifecycleInv, StopStep
               PROVE  StagesOK'
    OBVIOUS
  <1>1. StagesOK /\ TypeOK
    BY DEF LifecycleInv, StagesOK, PoolSound
  <1>2. CASE Halt
    <2>1. /\ main = "stop" /\ UNCHANGED vars /\ UNCHANGED log /\ UNCHANGED sockets
          /\ \/ main' = "destroy" /\ "listen" \notin sockets
             \/ main' = "workers"
          /\ running' \in BOOLEAN
      BY <1>1, <1>2, Stages DEF Halt, NothingToStop, Go, pool, StagesOK, SocketStages
    <2>2. main' = "destroy" => sockets = {} /\ owner = "start"
      BY <1>1, <2>1 DEF StagesOK, SocketStages
    <2> QED
      BY <1>1, <2>1, <2>2 DEF StagesOK, PoolStages, LogStages, SocketStages, Starting,
        Serving, Late, vars, log
  <1>3. CASE StopWorkers
    <2>1. CASE (Stop \/ NotifyAll) /\ UNCHANGED main
      <3>1. /\ main \in {"workers", "destroy"} /\ owner \in {"running", "notify"}
            /\ owner' \in {"notify", "join"} /\ calling' = calling
            /\ UNCHANGED log /\ UNCHANGED <<running, sockets>>
        BY <1>3, <2>1 DEF StopWorkers, Stop, NotifyAll
      <3> QED
        BY <1>1, <2>1, <3>1 DEF StagesOK, PoolStages, LogStages, SocketStages, Starting,
          Serving, Late, log
    <2>2. CASE Join /\ Go(After(main))
      <3>1. /\ main \in {"workers", "destroy"} /\ owner = "join"
            /\ owner' = "stopped" /\ calling' = calling
            /\ UNCHANGED log /\ UNCHANGED <<running, sockets>>
        BY <1>3, <2>2 DEF StopWorkers, Join
      <3>2. main = "workers" /\ main' = "logger"
        BY <1>1, <2>2, <3>1, Stages DEF StagesOK, PoolStages, Late, Go
      <3> QED
        BY <1>1, <3>1, <3>2 DEF StagesOK, PoolStages, LogStages, SocketStages, Starting,
          Serving, Late, log
    <2>3. CASE /\ owner \in {"start", "stopped"} /\ Go(After(main))
               /\ UNCHANGED <<tasks, pc, calling, owner>>
      <3>1. /\ \/ main = "workers" /\ main' = "logger"
               \/ main = "destroy" /\ main' = "exit"
            /\ UNCHANGED log /\ UNCHANGED <<running, sockets>>
        BY <1>3, <2>3, Stages DEF StopWorkers, Go
      <3> QED
        BY <1>1, <2>3, <3>1 DEF StagesOK, PoolStages, LogStages, SocketStages, Starting,
          Serving, Late, log
    <2> QED
      BY <1>3, <2>1, <2>2, <2>3 DEF StopWorkers
  <1>4. CASE StopLogger
    <2>1. /\ UNCHANGED vars /\ UNCHANGED <<running, sockets>>
          /\ \/ main = "logger" /\ main' \in {"logger", "close"}
             \/ main = "exit" /\ main' \in {"exit", "gone"}
          /\ queue' = queue
      BY <1>4, Stages DEF StopLogger, Go, pool, log, Log!Shutdown, Log!NotifyAll, Log!Join
    <2>2. CASE Log!Shutdown /\ UNCHANGED main
      BY <1>1, <2>1, <2>2 DEF Log!Shutdown, StagesOK, PoolStages, LogStages, SocketStages,
        Starting, Serving, Late, vars
    <2>3. CASE Log!NotifyAll /\ UNCHANGED main
      BY <1>1, <2>1, <2>3 DEF Log!NotifyAll, Log!Woken, StagesOK, PoolStages, LogStages,
        SocketStages, Starting, Serving, Late, vars
    <2>4. CASE Log!Join /\ main' = After(main)
      <3>1. \/ main = "logger" /\ main' = "close"
            \/ main = "exit" /\ main' = "gone"
        BY <2>1, <2>4, Stages
      <3> QED
        BY <1>1, <2>1, <2>4, <3>1 DEF Log!Join, StagesOK, PoolStages, LogStages,
          SocketStages, Starting, Serving, Late, vars
    <2>5. CASE keeper = "done" /\ UNCHANGED log
      BY <1>1, <2>1, <2>5 DEF StagesOK, PoolStages, LogStages, SocketStages, Starting,
        Serving, Late, vars, log
    <2> QED
      BY <1>4, <2>2, <2>3, <2>4, <2>5 DEF StopLogger, Go
  <1>5. CASE CloseSockets
    <2>1. /\ main = "close" /\ main' = "destroy" /\ sockets' = {}
          /\ UNCHANGED vars /\ UNCHANGED log /\ UNCHANGED running
      BY <1>5, Stages DEF CloseSockets, Go, pool
    <2> QED
      BY <1>1, <2>1 DEF StagesOK, PoolStages, LogStages, SocketStages, Starting,
        Serving, Late, vars, log
  <1> QED
    BY <1>2, <1>3, <1>4, <1>5 DEF StopStep

-----------------------------------------------------------------------------
(* The theorems *)

\* Two ascending sequences, the first below the second, one after the other.
LEMMA OrderedConcat ==
  ASSUME NEW s \in Seq(1..MaxLines), NEW t \in Seq(1..MaxLines),
         Ascends(s), Ascends(t), Precedes(s, t)
  PROVE  /\ s \o t \in Seq(1..MaxLines) /\ Ascends(s \o t)
         /\ \A u : Precedes(s, u) /\ Precedes(t, u) => Precedes(s \o t, u)
  <1> DEFINE m == Len(s)  n == Len(t)  st == s \o t
  <1>1. m \in Nat /\ n \in Nat
    BY LenProperties
  <1>2. /\ st \in Seq(1..MaxLines) /\ Len(st) = m + n
        /\ \A i \in 1..(m + n) : st[i] = IF i <= m THEN s[i] ELSE t[i - m]
    BY ConcatProperties
  <1>3. /\ \A i, j \in 1..m : i < j => s[i] < s[j]
        /\ \A i, j \in 1..n : i < j => t[i] < t[j]
        /\ \A i \in 1..m : \A j \in 1..n : s[i] < t[j]
    BY DEF Ascends, Precedes
  <1> HIDE DEF m, n, st
  <1>4. \A i \in 1..(m + n) : \/ i \in 1..m /\ st[i] = s[i]
                              \/ i > m /\ i - m \in 1..n /\ st[i] = t[i - m]
    BY <1>1, <1>2
  <1>5. ASSUME NEW i \in 1..(m + n), NEW j \in 1..(m + n), i < j
        PROVE  st[i] < st[j]
    <2>1. CASE j \in 1..m /\ st[j] = s[j]
      <3>1. i \in 1..m /\ st[i] = s[i]
        BY <1>1, <1>4, <1>5, <2>1
      <3> QED
        BY <1>3, <1>5, <2>1, <3>1
    <2>2. CASE j > m /\ j - m \in 1..n /\ st[j] = t[j - m]
      <3>1. CASE i \in 1..m /\ st[i] = s[i]
        BY <1>3, <2>2, <3>1
      <3>2. CASE i > m /\ i - m \in 1..n /\ st[i] = t[i - m]
        <4>1. i - m < j - m
          BY <1>1, <1>5
        <4> QED
          BY <1>3, <2>2, <3>2, <4>1
      <3> QED
        BY <1>4, <3>1, <3>2
    <2> QED
      BY <1>4, <2>1, <2>2
  <1>6. Ascends(st)
    BY <1>2, <1>5 DEF Ascends
  <1>7. ASSUME NEW u, Precedes(s, u), Precedes(t, u)
        PROVE  Precedes(st, u)
    BY <1>2, <1>4, <1>7 DEF Precedes, m, n
  <1> QED
    BY <1>2, <1>6, <1>7 DEF st

LEMMA LifecycleInitially == LifecycleInit => LifecycleInv
  <1> SUFFICES ASSUME LifecycleInit
               PROVE  LifecycleInv
    OBVIOUS
  <1>1. Init /\ Log!Init /\ main = "begin" /\ running = FALSE /\ sockets = {}
    BY DEF LifecycleInit
  <1>2. PoolSound
    <2>1. OnePlace
      BY <1>1, PoolAssumption DEF Init, OnePlace, Queued, HeldBy
    <2> QED
      BY <1>1, <2>1, Initially DEF PoolSound, IInv
  <1>3. PoolStages /\ LogStages /\ SocketStages
    BY <1>1, LifecycleAssumption DEF Init, Log!Init, PoolStages, LogStages, SocketStages,
      Starting, Serving, Late
  <1>4. LogTyped
    <2>1. saying \in [Threads -> {"idle", "notify"}]
      BY <1>1 DEF Log!Init
    <2>2. <<>> \in Seq(1..MaxLines)
      BY EmptySeq
    <2>3. /\ logging = FALSE /\ queue = <<>> /\ batch = <<>> /\ file = <<>>
          /\ dropped = {} /\ writer = "none" /\ keeper = "init" /\ logged = 0
      BY <1>1 DEF Log!Init
    <2>4. logged \in 0..MaxLines
      BY <2>3, LifecycleAssumption
    <2> QED
      BY <2>1, <2>2, <2>3, <2>4 DEF LogTyped, Log!TypeOK
  <1>5. /\ Len(file) = 0 /\ Len(batch) = 0 /\ Len(queue) = 0 /\ logged = 0
    BY <1>1 DEF Log!Init
  <1> QED
    BY <1>2, <1>3, <1>4, <1>5
    DEF LifecycleInv, LogSound, Ascends, Precedes, Below, In, Log!Out

LEMMA LifecycleStep == LifecycleInv /\ [LifecycleNext]_lifecycleVars => LifecycleInv'
  <1> SUFFICES ASSUME LifecycleInv, [LifecycleNext]_lifecycleVars
               PROVE  LifecycleInv'
    OBVIOUS
  <1>1. PoolSound'
    BY PoolStays
  <1>2. LogSound'
    BY LogMoves, LogStep DEF LifecycleInv
  <1>3. StagesOK'
    <2>1. CASE UNCHANGED lifecycleVars
      <3>1. UNCHANGED <<main, running, sockets, owner, tasks, pc, calling, keeper, logging,
                        writer, queue>>
        BY <2>1 DEF lifecycleVars, pool, log, server, vars
      <3> QED
        BY <3>1 DEF LifecycleInv, StagesOK, PoolStages, LogStages, SocketStages
    <2> QED
      BY <2>1, StartStages, LoopStages, ThreadStages, StopStages
      DEF LifecycleNext, MainStep
  <1> QED
    BY <1>1, <1>2, <1>3 DEF LifecycleInv, StagesOK

\* The invariant of the process, from main() to its end.
THEOREM LifecycleInvariance == LifecycleSpec => []LifecycleInv
  <1> QED
    BY LifecycleInitially, LifecycleStep, PTL DEF LifecycleSpec

\* Every reachable state is well typed, and no pool is started before start()
\* has come that far.
THEOREM LifecycleTypeCorrect == LifecycleSpec => []LifecycleTypeOK
  <1>1. LifecycleInv => LifecycleTypeOK
    BY Stages DEF LifecycleInv, PoolSound, PoolStages, SocketStages, LogSound, LogTyped,
      LifecycleTypeOK, Starting
  <1> QED
    BY <1>1, LifecycleInvariance, PTL

\* However the server is stopped, each task it accepted is in one place: the
\* queue, one worker's hands, or done.
THEOREM ServedOnce == LifecycleSpec => []ExactlyOnce
  <1>1. LifecycleInv => ExactlyOnce
    BY OnePlaceCounts DEF LifecycleInv, PoolSound
  <1> QED
    BY <1>1, LifecycleInvariance, PTL

\* A task that the event loop has queued has a worker or a notification on its
\* way to it, in every stage of the process.
THEOREM ServedSoon == LifecycleSpec => []NoLostWakeup
  <1>1. LifecycleInv => NoLostWakeup
    BY DEF LifecycleInv, PoolSound, PoolStages, IInv, NoLostWakeup, Late
  <1> QED
    BY <1>1, LifecycleInvariance, PTL

\* The lines of the access log reach the file in the order of the calls.
THEOREM LinesInOrder == LifecycleSpec => []WrittenInOrder
  <1>1. LifecycleInv => WrittenInOrder
    <2> SUFFICES ASSUME LifecycleInv
                 PROVE  WrittenInOrder
      OBVIOUS
    <2>1. /\ file \in Seq(1..MaxLines) /\ batch \in Seq(1..MaxLines)
          /\ queue \in Seq(1..MaxLines)
      BY DEF LifecycleInv, LogSound, LogTyped, Log!TypeOK
    <2>2. /\ Ascends(file) /\ Ascends(batch) /\ Ascends(queue)
          /\ Precedes(file, batch) /\ Precedes(file, queue) /\ Precedes(batch, queue)
      BY DEF LifecycleInv, LogSound
    <2>3. /\ file \o batch \in Seq(1..MaxLines) /\ Ascends(file \o batch)
          /\ Precedes(file \o batch, queue)
      BY <2>1, <2>2, OrderedConcat
    <2>4. Ascends((file \o batch) \o queue)
      BY <2>1, <2>2, <2>3, OrderedConcat
    <2> QED
      BY <2>4 DEF WrittenInOrder, Log!WrittenInOrder, Ascends
  <1> QED
    BY <1>1, LifecycleInvariance, PTL

\* When the process ends, every line is in the file, but for those of a batch
\* for which it did not open: whoever could log was joined before shutdown().
THEOREM LogComplete == LifecycleSpec => []AllOut
  <1>1. LifecycleInv => AllOut
    <2> SUFFICES ASSUME LifecycleInv, main = "gone", NEW n \in 1..logged
                 PROVE  Log!Out(n)
      BY DEF AllOut
    <2>1. writer = "gone" /\ queue = <<>>
      BY DEF LifecycleInv, LogStages
    <2>2. batch = <<>>
      BY <2>1 DEF LifecycleInv, LogSound, LogTyped, Log!TypeOK
    <2>3. Len(queue) = 0 /\ Len(batch) = 0
      BY <2>1, <2>2
    <2> QED
      BY <2>3 DEF LifecycleInv, LogSound, In
  <1> QED
    BY <1>1, LifecycleInvariance, PTL

\* stop() closes the descriptors after the last task, and whatever ended the
\* server, the process ends with everything closed and every thread joined.
THEOREM ExitIsClean == LifecycleSpec => []CleanExit
  <1>1. LifecycleInv => CleanExit
    BY DEF LifecycleInv, PoolSound, PoolStages, LogStages, SocketStages, IInv,
      DrainedAtStop, CleanExit, Late
  <1> QED
    BY <1>1, LifecycleInvariance, PTL
=============================================================================
