-------------------------- MODULE ServerStreamsProofs --------------------------
(***************************************************************************)
(* The connection engine when idle deadlines pass only on descriptors that *)
(* nobody works on (IdleExpiry # "any"): a descriptor is in one pair of    *)
(* hands, and each client gets the responses to its own requests in order. *)
(* QuietInv says the first for every state; StreamInv counts, for every    *)
(* connection in the map, what was read, extracted and answered.           *)
(***************************************************************************)
EXTENDS HttpServerProofs, FiniteSetTheorems

\* The worker works on descriptor f.
Has(w, f) == Busy(w) /\ fdOf[w] = f

\* epoll may report it.
Armed(f) == interest[f] \in {"in", "out"}

\* The event loop works on descriptor f.
MainOn(f) ==
  pc[Main] \in Kinds \cup ClosePcs \cup {"insert", "add"} /\ fdOf[Main] = f

\* One thing at a time has descriptor f.
Alone(f) ==
  /\ \A w, u \in Workers : Has(w, f) /\ Has(u, f) => w = u
  /\ \A i, j \in 1..Len(tasks) : tasks[i].fd = f /\ tasks[j].fd = f => i = j
  /\ Queued(f) => \A w \in Workers : ~Has(w, f)
  /\ Held(f) => /\ sock[f] # None /\ ~Armed(f)
                /\ f \notin expired /\ ~MainOn(f)
  /\ \A d, e \in batch : d.fd = f /\ e.fd = f => d = e
  /\ \A e \in batch : e.fd = f =>
       sock[f] # None /\ ~Armed(f) /\ ~Held(f) /\ ~MainOn(f)
  /\ MainOn(f) /\ Armed(f) => f \in expired

\* It has a Connection that only its owner will close.
Kept(f) ==
  /\ Queued(f) => conns[f] # None
  /\ \A e \in batch : e.fd = f => conns[f] # None
  /\ pc[Main] \in Kinds /\ fdOf[Main] = f => conns[f] # None
  /\ \A w \in Workers : Has(w, f) /\ pc[w] \notin {"mark", "del", "close"} =>
       conns[f] # None /\ (pc[w] \in ConnPcs => connOf[w] = conns[f])

\* The first invariant of this module.
QuietInv == \A f \in Fds : Alone(f) /\ Kept(f)

\* Where a worker is while all that was extracted is answered, and while an
\* answer is on its way.
ReadPcs  == {"handleRead", "read", "append", "touchProcess", "process",
             "extract", "touchRearm", "finishIn", "modIn"}
WritePcs == {"finishOut", "modOut", "handleWrite", "check", "writev",
             "consume", "clear"}

\* Whatever happens next to f is a read, or a write.
Reading(f) ==
  \/ interest[f] = "in"
  \/ \E e \in batch : e.fd = f /\ e.ev = "in"
  \/ pc[Main] \in {"dispatchRead", "add"} /\ fdOf[Main] = f
  \/ \E i \in 1..Len(tasks) : tasks[i].fd = f /\ tasks[i].kind = "dispatchRead"
  \/ \E w \in Workers : fdOf[w] = f /\ pc[w] \in ReadPcs

Writing(f) ==
  \/ interest[f] = "out"
  \/ \E e \in batch : e.fd = f /\ e.ev = "out"
  \/ pc[Main] = "dispatchWrite" /\ fdOf[Main] = f
  \/ \E i \in 1..Len(tasks) : tasks[i].fd = f /\ tasks[i].kind = "dispatchWrite"
  \/ \E w \in Workers : fdOf[w] = f /\ pc[w] \in WritePcs

\* A segment is between read() and readBuf_, or units between writev() and
\* writeOffset_.
Appending(f) == \E w \in Workers : fdOf[w] = f /\ pc[w] = "append"
Consuming(f) == \E w \in Workers : fdOf[w] = f /\ pc[w] = "consume"

\* What the first b segments asked for is what the first d units answer, or
\* that and one request more.
Even(b, d)  == \E n \in Nat : b = SegsPerRequest * n /\ d = RespLen * n
Ahead(b, d) == \E n \in Nat : b = SegsPerRequest * n + SegsPerRequest
                              /\ d = RespLen * n

\* The segments of a read buffer whose first b were extracted.
Numbered(s, b) == \A i \in 1..Len(s) : s[i].no = b + i

\* The first b segments of c have been extracted; d units answer those of them
\* that were answered in full.
Account(f, c, b, d) ==
  /\ taken[c] = b + Len(readBuf[c]) + (IF Appending(f) THEN 1 ELSE 0)
  /\ Numbered(readBuf[c], b)
  /\ Reading(f) => Even(b, d) /\ writeBuf[c] = None /\ Len(got[c]) = d
  /\ Writing(f) =>
       /\ Ahead(b, d) /\ writeBuf[c] # None /\ writeBuf[c].no = b
       /\ writeOffset[c] <= RespLen
       /\ Consuming(f) \/ Len(got[c]) = d + writeOffset[c]
  /\ \A w \in Workers : fdOf[w] = f =>
       /\ pc[w] = "append" => seg[w].no = taken[c]
       /\ pc[w] = "respond" =>
            /\ Ahead(b, d) /\ writeBuf[c] = None /\ seg[w].no = b
            /\ Len(got[c]) = d
       /\ pc[w] = "writev" => /\ seg[w] = writeBuf[c]
                              /\ count[w] = writeOffset[c] /\ count[w] < RespLen
       /\ pc[w] = "consume" => /\ writeOffset[c] + count[w] <= RespLen
                               /\ Len(got[c]) = d + writeOffset[c] + count[w]
       /\ pc[w] = "clear" => writeOffset[c] = RespLen

\* A Connection that the map has not held yet is as the constructor leaves it.
Untouched ==
  \A c \in Conns : Fresh(c) =>
    taken[c] = 0 /\ readBuf[c] = <<>> /\ writeBuf[c] = None /\ got[c] = <<>>

\* The second invariant of this module.
StreamInv ==
  /\ Untouched
  /\ \A f \in Fds, c \in Conns : conns[f] = c =>
       \E b, d \in Nat : Account(f, c, b, d)
-----------------------------------------------------------------------------
USE DEF kernel, server, objects, threads, net, output, loc, Goto

\* A worker that has a descriptor may do with it what it likes: it arms it, or
\* frees it, only as it lets go.
LEMMA WorkerQuiet ==
  ASSUME ServerAssumption, QuietInv, NEW w \in Workers, OnlyMoves(w),
         Busy(w), fdOf[w] \in Fds,
         UNCHANGED <<tasks, batch, expired>>,
         \A f \in Fds : f # fdOf[w] =>
           sock'[f] = sock[f] /\ interest'[f] = interest[f] /\ conns'[f] = conns[f],
         Busy(w)' => /\ fdOf'[w] = fdOf[w]
                     /\ sock'[fdOf[w]] = sock[fdOf[w]]
                     /\ interest'[fdOf[w]] \notin {"in", "out"},
         Busy(w)' /\ pc'[w] \notin {"mark", "del", "close"} =>
           /\ conns'[fdOf[w]] # None
           /\ pc'[w] \in ConnPcs => connOf'[w] = conns'[fdOf[w]]
  PROVE  QuietInv'
<1>1. /\ pc'[Main] = pc[Main] /\ fdOf'[Main] = fdOf[Main]
  BY DEF OnlyMoves, ServerAssumption, Threads
<1>2. \A u \in Workers \ {w} : /\ pc'[u] = pc[u] /\ fdOf'[u] = fdOf[u]
                               /\ connOf'[u] = connOf[u]
  BY DEF OnlyMoves, Threads
<1>3. \A u \in Workers \ {w}, f \in Fds : Has(u, f)' <=> Has(u, f)
  BY <1>2 DEF Has, Busy
<1>4. \A f \in Fds : Has(w, f)' => f = fdOf[w] /\ Has(w, f)
  BY DEF Has, Busy
<1>5. \A f \in Fds : MainOn(f)' <=> MainOn(f)
  BY <1>1 DEF MainOn
<1>6. \A f \in Fds : Queued(f)' <=> Queued(f)
  BY DEF Queued
<1>7. \A f \in Fds : Held(f)' => Held(f)
  BY <1>3, <1>4 DEF Held, Has
<1> SUFFICES ASSUME NEW f \in Fds
             PROVE  Alone(f)' /\ Kept(f)'
  BY DEF QuietInv
<1>8. Alone(f) /\ Kept(f)
  BY DEF QuietInv
<1>9. CASE f # fdOf[w]
  <2>1. ~Has(w, f)'
    BY <1>4, <1>9
  <2>2. Alone(f)'
    BY <1>3, <1>5, <1>6, <1>7, <1>8, <1>9, <2>1 DEF Alone, Armed
  <2>3. Kept(f)'
    BY <1>1, <1>2, <1>3, <1>6, <1>8, <1>9, <2>1 DEF Kept
  <2> QED BY <2>2, <2>3
<1>10. CASE f = fdOf[w]
  <2>1. Has(w, f) /\ Held(f)
    BY <1>10 DEF Has, Held
  <2>2. /\ \A u \in Workers \ {w} : ~Has(u, f)'
        /\ ~Queued(f)' /\ ~MainOn(f)' /\ f \notin expired'
        /\ \A e \in batch' : e.fd # f
    BY <1>3, <1>5, <1>6, <1>8, <2>1 DEF Alone
  <2>3. Held(f)' => Busy(w)'
    BY <2>2 DEF Held, Has, Queued
  <2>4. ~Queued(f)' => \A i \in 1..Len(tasks') : tasks'[i].fd # f
    BY DEF Queued
  <2>5. Alone(f)'
    BY <1>8, <1>10, <2>1, <2>2, <2>3, <2>4 DEF Alone, Armed
  <2>6. pc'[Main] \in Kinds => fdOf'[Main] # f
    BY <2>2 DEF MainOn
  <2>7. Kept(f)'
    BY <1>10, <2>2, <2>6 DEF Kept, Has
  <2> QED BY <2>5, <2>7
<1> QED BY <1>9, <1>10

\* What the event loop must respect: it leaves alone what a worker or a task
\* has, and offers a descriptor in one way at a time.
LEMMA MainQuiet ==
  ASSUME ServerAssumption, QuietInv, OnlyMoves(Main), UNCHANGED tasks,
         \A f \in Fds :
           /\ Held(f) => /\ sock'[f] # None /\ conns'[f] = conns[f]
                         /\ interest'[f] \notin {"in", "out"}
                         /\ f \notin expired' /\ ~MainOn(f)'
           /\ \A d, e \in batch' : d.fd = f /\ e.fd = f => d = e
           /\ \A e \in batch' : e.fd = f =>
                /\ sock'[f] # None /\ conns'[f] # None
                /\ interest'[f] \notin {"in", "out"}
                /\ ~Held(f) /\ ~MainOn(f)'
           /\ MainOn(f)' /\ interest'[f] \in {"in", "out"} => f \in expired'
           /\ pc'[Main] \in Kinds /\ fdOf'[Main] = f => conns'[f] # None
  PROVE  QuietInv'
<1>1. \A w \in Workers : /\ pc'[w] = pc[w] /\ fdOf'[w] = fdOf[w]
                         /\ connOf'[w] = connOf[w]
  BY DEF OnlyMoves, Threads, ServerAssumption
<1>2. \A w \in Workers, f \in Fds : Has(w, f)' <=> Has(w, f)
  BY <1>1 DEF Has, Busy
<1>3. \A f \in Fds : (Queued(f)' <=> Queued(f)) /\ (Held(f)' <=> Held(f))
  BY <1>1 DEF Queued, Held, Busy
<1> SUFFICES ASSUME NEW f \in Fds
             PROVE  Alone(f)' /\ Kept(f)'
  BY DEF QuietInv
<1>4. Alone(f) /\ Kept(f)
  BY DEF QuietInv
<1>5. Alone(f)'
  BY <1>2, <1>3, <1>4 DEF Alone, Armed
<1>6. Kept(f)'
  <2>1. /\ Queued(f) => Held(f)
        /\ \A w \in Workers : Has(w, f) => Held(f)
    BY DEF Queued, Held, Has
  <2> QED BY <1>1, <1>2, <1>3, <1>4, <2>1 DEF Kept
<1> QED BY <1>5, <1>6

\* Types and what a worker's pc says, in the form the steps below use.
LEMMA Known ==
  ASSUME ServerAssumption, IInv
  PROVE  /\ Main \in Threads /\ \A w \in Workers : w \in Threads
         /\ pc \in [Threads -> MainPcs \cup WorkerPcs \cup ClosePcs]
         /\ fdOf \in [Threads -> Fds \cup {None}]
         /\ connOf \in [Threads -> Conns \cup {None}]
         /\ seg \in [Threads -> Segment \cup {None}]
         /\ count \in [Threads -> Nat]
         /\ conns \in [Fds -> Conns \cup {None}]
         /\ sock \in [Fds -> Conns \cup {None}]
         /\ interest \in [Fds -> {"none", "idle", "in", "out"}]
         /\ tasks \in Seq(Task)
         /\ \A t \in Threads : /\ pc[t] \in FdPcs => fdOf[t] \in Fds
                               /\ pc[t] \in ConnPcs => connOf[t] \in Conns
BY DEF IInv, Typing, TypeOK, ThreadTypes, ServerTypes, KernelTypes, Threads,
       Locals, LocalsOf

\* While idle deadlines pass only on quiet descriptors, every step keeps a
\* descriptor in one pair of hands.
LEMMA QuietStep ==
  ASSUME ServerAssumption, IdleExpiry # "any", IInv, MovingInv, QuietInv,
         [Next]_vars
  PROVE  QuietInv'
<1> USE DEF ServerAssumption
<1>1. /\ Main \in Threads /\ \A w \in Workers : w \in Threads
      /\ pc \in [Threads -> MainPcs \cup WorkerPcs \cup ClosePcs]
      /\ fdOf \in [Threads -> Fds \cup {None}]
      /\ connOf \in [Threads -> Conns \cup {None}]
      /\ seg \in [Threads -> Segment \cup {None}]
      /\ count \in [Threads -> Nat]
      /\ conns \in [Fds -> Conns \cup {None}]
      /\ sock \in [Fds -> Conns \cup {None}]
      /\ interest \in [Fds -> {"none", "idle", "in", "out"}]
      /\ tasks \in Seq(Task)
  BY Known
<1>2. \A t \in Threads : /\ pc[t] \in FdPcs => fdOf[t] \in Fds
                         /\ pc[t] \in ConnPcs => connOf[t] \in Conns
  BY Known
<1>3. \A f \in Fds : Alone(f) /\ Kept(f)
  BY DEF QuietInv
<1>4. \A f \in Fds : /\ interest[f] # "none" => sock[f] # None
                     /\ conns[f] # None => conns[f] = sock[f] /\ ~closed[conns[f]]
  BY DEF IInv, Registered, Owning, FdOwnership
<1>5. ASSUME NEW w \in Workers,
             \/ Read(w) \/ AppendRead(w) \/ Touch(w) \/ Check(w) \/ WriteSome(w)
             \/ WriteNone(w) \/ Consume(w) \/ Clear(w) \/ FinishProcessing(w)
      PROVE  QuietInv'
  <2>1. /\ OnlyMoves(w)
        /\ UNCHANGED <<tasks, batch, expired, conns, sock, interest, fdOf, connOf>>
        /\ pc[w] \in ConnPcs /\ pc[w] \in WorkerPcs \ {"idle"}
        /\ pc'[w] \in ConnPcs \cup {"find"}
    <3>1. CASE Read(w)
      BY <1>1, <3>1
         DEF Read, OnlyMoves, ConnPcs, FdPcs, WorkerPcs, ClosePcs
    <3>2. CASE AppendRead(w)
      BY <1>1, <3>2
         DEF AppendRead, OnlyMoves, ConnPcs, FdPcs, WorkerPcs, ClosePcs
    <3>3. CASE Touch(w)
      BY <1>1, <3>3
         DEF Touch, OnlyMoves, ConnPcs, FdPcs, WorkerPcs, ClosePcs
    <3>4. CASE Check(w)
      BY <1>1, <3>4
         DEF Check, OnlyMoves, ConnPcs, FdPcs, WorkerPcs, ClosePcs, HasWriteData
    <3>5. CASE WriteSome(w)
      BY <1>1, <3>5
         DEF WriteSome, OnlyMoves, ConnPcs, FdPcs, WorkerPcs, ClosePcs
    <3>6. CASE WriteNone(w)
      BY <1>1, <3>6
         DEF WriteNone, OnlyMoves, ConnPcs, FdPcs, WorkerPcs, ClosePcs
    <3>7. CASE Consume(w)
      BY <1>1, <3>7
         DEF Consume, OnlyMoves, ConnPcs, FdPcs, WorkerPcs, ClosePcs
    <3>8. CASE Clear(w)
      BY <1>1, <3>8
         DEF Clear, OnlyMoves, ConnPcs, FdPcs, WorkerPcs, ClosePcs, HasPendingRead
    <3>9. CASE FinishProcessing(w)
      BY <1>1, <3>9
         DEF FinishProcessing, OnlyMoves, ConnPcs, FdPcs, WorkerPcs, ClosePcs
    <3> QED BY <1>5, <3>1, <3>2, <3>3, <3>4, <3>5, <3>6, <3>7, <3>8, <3>9
  <2>2. fdOf[w] \in Fds /\ Busy(w)
    BY <1>1, <1>2, <2>1 DEF FdPcs, Busy
  <2>3. ~Armed(fdOf[w]) /\ conns[fdOf[w]] # None /\ connOf[w] = conns[fdOf[w]]
    BY <1>3, <2>1, <2>2 DEF Alone, Kept, Held, Has, WorkerPcs
  <2> QED BY <2>1, <2>2, <2>3, WorkerQuiet DEF Armed
<1>6. ASSUME NEW w \in Workers, GetConnection(w) PROVE QuietInv'
  <2>1. /\ OnlyMoves(w) /\ Busy(w)
        /\ UNCHANGED <<tasks, batch, expired, conns, sock, interest>>
        /\ pc[w] \in {"handleRead", "handleWrite", "process"}
    BY <1>1, <1>6 DEF GetConnection, Return, OnlyMoves, Busy
  <2>2. fdOf[w] \in Fds
    BY <1>1, <1>2, <2>1 DEF FdPcs, WorkerPcs
  <2>3. ~Armed(fdOf[w]) /\ conns[fdOf[w]] # None
    BY <1>3, <2>1, <2>2 DEF Alone, Kept, Held, Has
  <2>4. fdOf'[w] = fdOf[w] /\ connOf'[w] = conns[fdOf[w]]
    BY <1>1, <1>6, <2>3 DEF GetConnection
  <2> QED BY <2>1, <2>2, <2>3, <2>4, WorkerQuiet DEF Armed
<1>7. ASSUME NEW w \in Workers, Extract(w) \/ Respond(w) PROVE QuietInv'
  <2>1. /\ OnlyMoves(w) /\ Busy(w)
        /\ UNCHANGED <<tasks, batch, expired, conns, sock>>
        /\ pc[w] \in {"extract", "respond"}
    BY <1>1, <1>7 DEF Extract, Respond, Return, OnlyMoves, Busy
  <2>2. fdOf[w] \in Fds
    BY <1>1, <1>2, <2>1 DEF FdPcs, WorkerPcs
  <2>3. /\ ~Armed(fdOf[w]) /\ conns[fdOf[w]] # None
        /\ connOf[w] = conns[fdOf[w]]
    BY <1>3, <2>1, <2>2
       DEF Alone, Kept, Held, Has, ConnPcs, FdPcs, WorkerPcs
  <2>4. /\ Busy(w)' => fdOf' = fdOf /\ connOf' = connOf /\ interest' = interest
        /\ \A f \in Fds : f # fdOf[w] => interest'[f] = interest[f]
    BY <1>1, <1>7, <2>2 DEF Extract, Respond, Return, Busy, Mod
  <2> QED BY <2>1, <2>2, <2>3, <2>4, WorkerQuiet DEF Armed
<1>8. ASSUME NEW w \in Workers, Rearm(w) PROVE QuietInv'
  <2>1. /\ OnlyMoves(w) /\ Busy(w) /\ ~Busy(w)'
        /\ UNCHANGED <<tasks, batch, expired, conns, sock>>
        /\ pc[w] \in {"modIn", "modOut"}
    BY <1>1, <1>8 DEF Rearm, Return, OnlyMoves, Busy
  <2>2. fdOf[w] \in Fds
    BY <1>1, <1>2, <2>1 DEF FdPcs, WorkerPcs
  <2>3. \A f \in Fds : f # fdOf[w] => interest'[f] = interest[f]
    BY <1>1, <1>8, <2>2 DEF Rearm, Mod
  <2> QED BY <2>1, <2>2, <2>3, WorkerQuiet
<1>9. ASSUME NEW w \in Workers, CloseStep(w) PROVE QuietInv'
  <2>1. w # Main /\ w \in Threads /\ pc[w] \in ClosePcs
    BY <1>1, <1>9 DEF CloseStep, Find, Mark, Del, Close, ClosePcs
  <2>2. fdOf[w] \in Fds /\ Busy(w)
    BY <1>2, <2>1 DEF FdPcs, ClosePcs, Busy
  <2>3. Alone(fdOf[w]) /\ Held(fdOf[w]) /\ ~Armed(fdOf[w])
    BY <1>3, <2>2 DEF Alone, Held
  <2>4. CASE Find(w)
    <3>1. /\ UNCHANGED <<tasks, batch, expired, sock, interest>>
          /\ OnlyMoves(w)
          /\ Busy(w)' => pc'[w] = "mark" /\ fdOf' = fdOf
          /\ \A f \in Fds : f # fdOf[w] => conns'[f] = conns[f]
      BY <1>1, <2>1, <2>2, <2>4
         DEF Find, Return, Erase, OnlyMoves, Busy
    <3> QED BY <2>2, <2>3, <3>1, WorkerQuiet DEF Armed
  <2>5. CASE Mark(w)
    <3>1. /\ UNCHANGED <<tasks, batch, expired, sock, interest, conns, fdOf>>
          /\ OnlyMoves(w) /\ pc'[w] = "del"
      BY <1>1, <2>1, <2>5 DEF Mark, OnlyMoves
    <3> QED BY <2>2, <2>3, <3>1, WorkerQuiet DEF Armed
  <2>6. CASE Del(w)
    <3>1. /\ UNCHANGED <<tasks, batch, expired, sock, conns, fdOf>>
          /\ OnlyMoves(w) /\ pc'[w] = "close"
          /\ interest' = [interest EXCEPT ![fdOf[w]] = "none"]
      BY <1>1, <2>1, <2>6 DEF Del, OnlyMoves
    <3>2. /\ interest'[fdOf[w]] = "none"
          /\ \A f \in Fds : f # fdOf[w] => interest'[f] = interest[f]
      BY <1>1, <2>2, <3>1
    <3> QED BY <2>2, <3>1, <3>2, WorkerQuiet
  <2>7. CASE Close(w)
    <3>1. /\ UNCHANGED <<tasks, batch, expired, conns>>
          /\ OnlyMoves(w) /\ ~Busy(w)'
          /\ \A f \in Fds : f # fdOf[w] =>
               sock'[f] = sock[f] /\ interest'[f] = interest[f]
      BY <1>1, <2>1, <2>2, <2>7 DEF Close, Return, OnlyMoves, Busy
    <3> QED BY <2>2, <3>1, WorkerQuiet
  <2> QED BY <1>9, <2>4, <2>5, <2>6, <2>7 DEF CloseStep
<1>10. ASSUME NEW w \in Workers, Take(w) PROVE QuietInv'
  <2> DEFINE g == Head(tasks).fd
  <2>1. /\ OnlyMoves(w) /\ pc[w] = "idle"
        /\ pc'[w] \in {"handleRead", "handleWrite"} /\ fdOf'[w] = g
        /\ tasks # <<>> /\ tasks' = Tail(tasks)
        /\ UNCHANGED <<batch, expired, conns, sock, interest>>
    BY <1>1, <1>10 DEF Take, Pop, OnlyMoves
  <2>2. /\ pc'[Main] = pc[Main] /\ fdOf'[Main] = fdOf[Main]
    BY <1>1, <2>1 DEF OnlyMoves
  <2>3. /\ Len(tasks) \in Nat \ {0} /\ Len(tasks') = Len(tasks) - 1
        /\ 1 \in 1..Len(tasks) /\ tasks[1].fd = g
        /\ \A i \in 1..Len(tasks') :
             i + 1 \in 1..Len(tasks) /\ tasks'[i] = tasks[i + 1]
    BY <1>1, <2>1
  <2> SUFFICES ASSUME NEW f \in Fds
               PROVE  Alone(f)' /\ Kept(f)'
    BY DEF QuietInv
  <2>4. Alone(f) /\ Kept(f)
    BY <1>3
  <2>5. \A u \in Workers \ {w} : /\ Has(u, f)' <=> Has(u, f)
                                 /\ pc'[u] = pc[u] /\ connOf'[u] = connOf[u]
    BY <2>1 DEF OnlyMoves, Threads, Has, Busy
  <2>6. /\ Has(w, f)' <=> f = g
        /\ ~Has(w, f)
    BY <2>1 DEF Has, Busy
  <2>7. f = g => Queued(f)
    BY <2>3 DEF Queued
  <2>8. /\ Queued(f)' => Queued(f)
        /\ Queued(f)' => f # g
    <3>1. ASSUME NEW i \in 1..Len(tasks'), tasks'[i].fd = f
          PROVE  Queued(f) /\ f # g
      <4>1. i + 1 \in 1..Len(tasks) /\ tasks[i + 1].fd = f /\ i + 1 # 1
        BY <2>3, <3>1
      <4>2. f # g
        BY <2>3, <2>4, <4>1 DEF Alone
      <4> QED BY <4>1, <4>2 DEF Queued
    <3> QED BY <3>1 DEF Queued
  <2>9. Held(f)' => Held(f)
    BY <2>5, <2>6, <2>7, <2>8 DEF Held, Has, Queued
  <2>10. MainOn(f)' <=> MainOn(f)
    BY <2>2 DEF MainOn
  <2>11. Alone(f)'
    <3>1. \A i, j \in 1..Len(tasks') :
            tasks'[i].fd = f /\ tasks'[j].fd = f => i = j
      <4> SUFFICES ASSUME NEW i \in 1..Len(tasks'), NEW j \in 1..Len(tasks'),
                          tasks'[i].fd = f, tasks'[j].fd = f
                   PROVE  i = j
        OBVIOUS
      <4>1. i + 1 \in 1..Len(tasks) /\ j + 1 \in 1..Len(tasks)
            /\ tasks[i + 1].fd = f /\ tasks[j + 1].fd = f
        BY <2>3
      <4>2. i + 1 = j + 1
        BY <2>4, <4>1 DEF Alone
      <4> QED BY <2>3, <4>2
    <3>2. \A u, v \in Workers : Has(u, f)' /\ Has(v, f)' => u = v
      BY <2>4, <2>5, <2>6, <2>7 DEF Alone
    <3>3. Queued(f)' => \A u \in Workers : ~Has(u, f)'
      BY <2>4, <2>5, <2>6, <2>8 DEF Alone
    <3> QED BY <2>1, <2>4, <2>9, <2>10, <3>1, <3>2, <3>3 DEF Alone, Armed
  <2>12. Kept(f)'
    BY <2>1, <2>2, <2>4, <2>5, <2>6, <2>7, <2>8
       DEF Kept, ConnPcs, FdPcs, WorkerPcs, ClosePcs, Kinds
  <2> QED BY <2>11, <2>12
<1>11. ASSUME EpollWait PROVE QuietInv'
  <2>1. PICK W \in SUBSET OutArmed :
          /\ batch' \subseteq Ready(W)
          /\ interest' = [f \in Fds |-> IF \E e \in batch' : e.fd = f
                                        THEN "idle" ELSE interest[f]]
    BY <1>11 DEF EpollWait
  <2>2. /\ OnlyMoves(Main) /\ pc[Main] = "wait" /\ pc'[Main] = "events"
        /\ UNCHANGED <<sock, conns, tasks, expired>>
        /\ batch = {} /\ expired = {}
    BY <1>1, <1>11 DEF EpollWait, OnlyMoves, MovingInv, Emptied, IInv, Reaping
  <2>3. \A d, e \in Ready(W), f \in Fds : d.fd = f /\ e.fd = f =>
          d = e /\ interest[f] \in {"in", "out"}
    BY DEF Ready, HupReady, InReady, OutArmed, Listen, ServerAssumption
  <2>4. ASSUME NEW f \in Fds, interest[f] \in {"in", "out"}
        PROVE  sock[f] # None /\ conns[f] # None /\ ~Held(f)
    <3>1. sock[f] # None /\ ~Held(f)
      BY <1>3, <1>4, <2>4 DEF Alone, Armed
    <3>2. ~Accepting(f) /\ Closing(f) = {}
      BY <2>2, <3>1 DEF Accepting, Closing, Held, Busy, Threads
    <3> QED BY <3>1, <3>2 DEF IInv, Owning, FdOwnership
  <2>5. \A f \in Fds : ~MainOn(f)'
    BY <2>2 DEF MainOn, Kinds, ClosePcs
  <2>6. ASSUME NEW f \in Fds
        PROVE  /\ Held(f) => interest'[f] \notin {"in", "out"} /\ sock[f] # None
               /\ \A d, e \in batch' : d.fd = f /\ e.fd = f => d = e
               /\ \A e \in batch' : e.fd = f =>
                    sock[f] # None /\ conns[f] # None /\ ~Held(f)
                    /\ interest'[f] = "idle"
    <3>1. Held(f) => interest'[f] \notin {"in", "out"} /\ sock[f] # None
      BY <1>3, <2>1 DEF Alone, Armed
    <3>2. \A d, e \in batch' : d.fd = f /\ e.fd = f => d = e
      BY <2>1, <2>3
    <3>3. \A e \in batch' : e.fd = f =>
            interest[f] \in {"in", "out"} /\ interest'[f] = "idle"
      BY <2>1, <2>3
    <3> QED BY <2>4, <3>1, <3>2, <3>3
  <2> QED BY <2>2, <2>5, <2>6, MainQuiet DEF Kinds
<1>12. ASSUME HandleEvent PROVE QuietInv'
  <2>1. PICK e \in batch :
          /\ batch' = batch \ {e}
          /\ \/ e = Listen /\ Goto(Main, "accept") /\ UNCHANGED <<fdOf, connOf>>
             \/ /\ e.ev = "hup"
                /\ fdOf' = [fdOf EXCEPT ![Main] = e.fd]
                /\ Goto(Main, "find") /\ UNCHANGED connOf
             \/ /\ e.ev \in {"in", "out"} /\ conns[e.fd] = None
                /\ UNCHANGED <<pc, fdOf, connOf>>
             \/ /\ e.ev \in {"in", "out"} /\ conns[e.fd] # None
                /\ fdOf' = [fdOf EXCEPT ![Main] = e.fd]
                /\ connOf' = [connOf EXCEPT ![Main] = conns[e.fd]]
                /\ Goto(Main, IF e.ev = "in" THEN "dispatchRead"
                                             ELSE "dispatchWrite")
    BY <1>12 DEF HandleEvent
  <2>2. /\ pc[Main] = "events" /\ expired = {}
        /\ UNCHANGED <<sock, interest, conns, tasks, expired, seg>>
    BY <1>12 DEF HandleEvent, IInv, Reaping
  <2>3. e = Listen \/ (e.ev \in {"hup", "in", "out"} /\ e.fd \in Fds)
    BY DEF IInv, Typing, TypeOK, ServerTypes, Events
  <2>4. OnlyMoves(Main)
    BY <1>1, <2>1, <2>2 DEF OnlyMoves
  <2>5. \A f \in Fds : MainOn(f)' => f = e.fd
    BY <1>1, <2>1, <2>2, <2>3 DEF MainOn, Kinds, ClosePcs
  <2>6. pc'[Main] \in Kinds => conns[fdOf'[Main]] # None
    BY <1>1, <2>1, <2>2, <2>3 DEF Kinds, Listen
  <2>7. ASSUME NEW f \in Fds
        PROVE  /\ Held(f) => /\ sock'[f] # None /\ conns'[f] = conns[f]
                             /\ interest'[f] \notin {"in", "out"}
                             /\ f \notin expired' /\ ~MainOn(f)'
               /\ \A c, d \in batch' : c.fd = f /\ d.fd = f => c = d
               /\ \A d \in batch' : d.fd = f =>
                    /\ sock'[f] # None /\ conns'[f] # None
                    /\ interest'[f] \notin {"in", "out"}
                    /\ ~Held(f) /\ ~MainOn(f)'
               /\ MainOn(f)' => interest'[f] \notin {"in", "out"}
    BY <1>3, <2>1, <2>2, <2>5 DEF Alone, Kept, Armed
  <2> QED BY <2>2, <2>4, <2>6, <2>7, MainQuiet
<1>13. ASSUME Dispatch PROVE QuietInv'
  <2> DEFINE c == connOf[Main]
             g == fdOf[Main]
  <2>1. /\ pc[Main] \in Kinds /\ OnlyMoves(Main)
        /\ UNCHANGED <<sock, interest, conns, batch, expired>>
        /\ pc' = [pc EXCEPT ![Main] = IF expired = {} THEN "events" ELSE "reap"]
    BY <1>1, <1>13 DEF Dispatch, Return, OnlyMoves
  <2>2. g \in Fds /\ MainOn(g)
    BY <1>1, <1>2, <2>1 DEF FdPcs, Kinds, MainOn
  <2>3. expired = {} /\ pc'[Main] = "events"
    BY <1>1, <2>1 DEF IInv, Reaping, Kinds
  <2>4. \A f \in Fds : ~MainOn(f)'
    BY <2>3 DEF MainOn, Kinds, ClosePcs
  <2>5. CASE ~MayBegin(c)
    <3>1. UNCHANGED tasks
      BY <1>13, <2>5 DEF Dispatch
    <3> QED BY <1>3, <2>1, <2>3, <2>4, <3>1, MainQuiet
            DEF Alone, Kept, Armed, Kinds
  <2>6. CASE MayBegin(c)
    <3>1. tasks' = Append(tasks, [kind |-> pc[Main], fd |-> g])
      BY <1>13, <2>6 DEF Dispatch
    <3>2. /\ Len(tasks) \in Nat /\ Len(tasks') = Len(tasks) + 1
          /\ \A i \in 1..Len(tasks) : tasks'[i] = tasks[i]
          /\ tasks'[Len(tasks) + 1].fd = g
      <4>1. [kind |-> pc[Main], fd |-> g] \in Task
        BY <2>1, <2>2 DEF Task
      <4> QED BY <1>1, <3>1, <4>1
    <3> SUFFICES ASSUME NEW f \in Fds
                 PROVE  Alone(f)' /\ Kept(f)'
      BY DEF QuietInv
    <3>3. /\ \A w \in Workers : /\ Has(w, f)' <=> Has(w, f)
                                /\ pc'[w] = pc[w] /\ connOf'[w] = connOf[w]
      BY <2>1 DEF OnlyMoves, Threads, Has, Busy, ServerAssumption
    <3>4. Queued(f)' <=> Queued(f) \/ f = g
      <4>1. Queued(f)' => Queued(f) \/ f = g
        BY <3>2 DEF Queued
      <4>2. Queued(f) => Queued(f)'
        BY <3>2 DEF Queued
      <4>3. Len(tasks) + 1 \in 1..Len(tasks')
        BY <3>2
      <4>4. f = g => Queued(f)'
        BY <3>2, <4>3 DEF Queued
      <4> QED BY <4>1, <4>2, <4>4
    <3>5. Held(f)' <=> Held(f) \/ f = g
      <4>1. Held(f) <=> Queued(f) \/ \E w \in Workers : Has(w, f)
        BY DEF Held, Queued, Has
      <4>2. Held(f)' <=> Queued(f)' \/ \E w \in Workers : Has(w, f)'
        BY DEF Held, Queued, Has
      <4> QED BY <3>3, <3>4, <4>1, <4>2
    <3>6. Alone(f) /\ Kept(f) /\ Alone(g) /\ Kept(g)
      BY <1>3, <2>2
    <3>7. /\ ~Held(g) /\ ~Armed(g) /\ conns[g] # None /\ sock[g] # None
          /\ \A e \in batch : e.fd # g
      BY <1>4, <2>1, <2>2, <2>3, <3>6 DEF Alone, Kept
    <3>8. /\ Queued(g) => Held(g)
          /\ \A w \in Workers : Has(w, g) => Held(g)
      BY DEF Held, Queued, Has
    <3>9. \A i \in 1..Len(tasks) : tasks[i].fd # g
      BY <3>7, <3>8 DEF Queued
    <3>10. Alone(f)'
      <4>1. \A i, j \in 1..Len(tasks') :
              tasks'[i].fd = f /\ tasks'[j].fd = f => i = j
        <5>1. \A i \in 1..Len(tasks') : i \in 1..Len(tasks) \/ i = Len(tasks) + 1
          BY <3>2
        <5> QED BY <3>2, <3>6, <3>9, <5>1 DEF Alone
      <4>2. \A w, u \in Workers : Has(w, f)' /\ Has(u, f)' => w = u
        BY <3>3, <3>6 DEF Alone
      <4>3. Queued(f)' => \A w \in Workers : ~Has(w, f)'
        BY <3>3, <3>4, <3>6, <3>7, <3>8 DEF Alone
      <4>4. Held(f)' => /\ sock[f] # None /\ ~Armed(f) /\ f \notin expired
                        /\ \A e \in batch : e.fd # f
        BY <2>3, <3>5, <3>6, <3>7 DEF Alone
      <4> QED BY <2>1, <2>4, <3>6, <4>1, <4>2, <4>3, <4>4 DEF Alone, Armed
    <3>11. Kept(f)'
      BY <2>1, <2>3, <3>3, <3>4, <3>6, <3>7 DEF Kept, Kinds
    <3> QED BY <3>10, <3>11
  <2> QED BY <2>5, <2>6
<1>14. ASSUME Accept PROVE QuietInv'
  <2>1. /\ OnlyMoves(Main) /\ pc[Main] = "accept"
        /\ UNCHANGED <<interest, conns, tasks, batch, expired>>
        /\ expired = {}
    BY <1>1, <1>14 DEF Accept, OnlyMoves, IInv, Reaping
  <2>2. \A f \in Fds : ~MainOn(f)
    BY <2>1 DEF MainOn, Kinds, ClosePcs
  <2>3. CASE UNCHANGED sock /\ pc'[Main] = "events"
    BY <1>3, <2>1, <2>3, MainQuiet DEF Alone, Kept, Armed, MainOn, Kinds, ClosePcs
  <2>4. CASE pc'[Main] = "insert" /\ \E c \in backlog, f \in Fds :
               /\ sock[f] = None
               /\ sock' = [sock EXCEPT ![f] = c]
               /\ backlog' = backlog \ {c}
               /\ fdOf' = [fdOf EXCEPT ![Main] = f]
    <3>1. PICK c \in backlog, g \in Fds : /\ sock[g] = None
                                          /\ sock' = [sock EXCEPT ![g] = c]
                                          /\ fdOf' = [fdOf EXCEPT ![Main] = g]
      BY <2>4
    <3>2. c # None
      BY DEF IInv, Typing, TypeOK, KernelTypes, ServerAssumption
    <3>3. \A f \in Fds : /\ MainOn(f)' => f = g
                         /\ sock[f] # None => sock'[f] # None
      BY <1>1, <3>1, <3>2 DEF MainOn
    <3>4. interest[g] = "none" /\ ~Held(g) /\ \A e \in batch : e.fd # g
      BY <1>3, <1>4, <3>1 DEF Alone
    <3> QED BY <1>3, <2>1, <2>4, <3>3, <3>4, MainQuiet
            DEF Alone, Kept, Armed, Kinds
  <2> QED BY <1>1, <1>14, <2>3, <2>4 DEF Accept
<1>15. ASSUME Insert PROVE QuietInv'
  <2> DEFINE g == fdOf[Main]
  <2>1. /\ OnlyMoves(Main) /\ pc[Main] = "insert" /\ pc'[Main] = "add"
        /\ UNCHANGED <<interest, sock, tasks, batch, expired, fdOf>>
        /\ conns' = [conns EXCEPT ![g] = connOf[Main]]
    BY <1>1, <1>15 DEF Insert, OnlyMoves
  <2>2. g \in Fds /\ MainOn(g)
    BY <1>1, <1>2, <2>1 DEF FdPcs, MainOn
  <2>3. \A f \in Fds : /\ MainOn(f)' <=> MainOn(f)
                       /\ ~MainOn(f) => conns'[f] = conns[f]
    BY <1>1, <2>1, <2>2 DEF MainOn
  <2> QED BY <1>3, <2>1, <2>3, MainQuiet DEF Alone, Kept, Armed, Kinds
<1>16. ASSUME Add PROVE QuietInv'
  <2> DEFINE g == fdOf[Main]
  <2>1. /\ OnlyMoves(Main) /\ pc[Main] = "add" /\ pc'[Main] = "accept"
        /\ UNCHANGED <<conns, sock, tasks, batch, expired>>
        /\ expired = {} /\ g \in Fds
    BY <1>1, <1>2, <1>16
       DEF Add, AfterAdd, OnlyMoves, IInv, Reaping, FdPcs
  <2>2. MainOn(g) /\ \A f \in Fds : f # g => interest'[f] = interest[f]
    BY <1>1, <1>16, <2>1 DEF Add, MainOn
  <2>3. \A f \in Fds : /\ ~MainOn(f)'
                       /\ ~MainOn(f) => interest'[f] = interest[f]
    BY <2>1, <2>2 DEF MainOn, Kinds, ClosePcs
  <2> QED BY <1>3, <2>1, <2>3, MainQuiet DEF Alone, Kept, Armed, Kinds
<1>17. ASSUME PopExpired PROVE QuietInv'
  <2>1. /\ OnlyMoves(Main) /\ pc[Main] = "events" /\ pc'[Main] = "reap"
        /\ UNCHANGED <<interest, conns, sock, tasks, batch>>
        /\ batch = {}
        /\ \A f \in expired' : MayExpire(f)
    BY <1>1, <1>17 DEF PopExpired, OnlyMoves
  <2>2. \A f \in expired' : ~Held(f)
    BY <2>1 DEF MayExpire
  <2>3. \A f \in Fds : ~MainOn(f)'
    BY <2>1 DEF MainOn, Kinds, ClosePcs
  <2> QED BY <1>3, <2>1, <2>2, <2>3, MainQuiet DEF Alone, Armed, Kinds
<1>18. ASSUME Reap PROVE QuietInv'
  <2>1. /\ OnlyMoves(Main) /\ pc'[Main] \in {"wait", "find"}
        /\ UNCHANGED <<interest, conns, sock, tasks, batch, expired>>
        /\ batch = {}
        /\ pc'[Main] = "find" => fdOf'[Main] \in expired
    BY <1>1, <1>18 DEF Reap, OnlyMoves, MovingInv, Emptied
  <2>2. \A f \in Fds : MainOn(f)' => f \in expired
    BY <2>1 DEF MainOn, Kinds, ClosePcs
  <2> QED BY <1>3, <2>1, <2>2, MainQuiet DEF Alone, Armed, Kinds
<1>19. ASSUME LeaveLoop \/ Join PROVE QuietInv'
  <2>1. /\ OnlyMoves(Main) /\ pc'[Main] \in {"join", "closeAll"}
        /\ UNCHANGED <<interest, conns, sock, tasks, batch, expired>>
        /\ batch = {}
    BY <1>1, <1>19 DEF LeaveLoop, Join, OnlyMoves, MovingInv, Emptied
  <2>2. \A f \in Fds : ~MainOn(f)'
    BY <2>1 DEF MainOn, Kinds, ClosePcs
  <2> QED BY <1>3, <2>1, <2>2, MainQuiet DEF Alone, Armed, Kinds
<1>20. ASSUME CloseAll PROVE QuietInv'
  <2>1. /\ OnlyMoves(Main) /\ pc[Main] = "closeAll" /\ pc'[Main] = "stopped"
        /\ UNCHANGED <<tasks, batch, expired>>
        /\ batch = {}
    BY <1>1, <1>20 DEF CloseAll, OnlyMoves, MovingInv, Emptied
  <2>2. \A f \in Fds : ~Held(f) /\ ~MainOn(f)'
    BY <2>1 DEF MainOn, Kinds, ClosePcs, IInv, Quiesced, Drained, Held
  <2> QED BY <2>1, <2>2, MainQuiet DEF Kinds
<1>21. ASSUME CloseStep(Main) PROVE QuietInv'
  <2>0. PICK g : g = fdOf[Main]
    OBVIOUS
  <2>1. pc[Main] \in ClosePcs /\ g \in Fds /\ MainOn(g)
    <3>1. pc[Main] \in ClosePcs
      BY <1>21 DEF CloseStep, Find, Mark, Del, Close, ClosePcs
    <3> QED BY <1>1, <1>2, <2>0, <3>1 DEF FdPcs, MainOn
  <2>2. /\ UNCHANGED <<tasks, batch>>
        /\ expired' = expired \/ (expired' = expired \ {g} /\ ~MainOn(g)')
        /\ \A f \in Fds : f # g => /\ conns'[f] = conns[f] /\ sock'[f] = sock[f]
                                   /\ interest'[f] = interest[f]
        /\ interest'[g] \in {interest[g], "none"}
        /\ OnlyMoves(Main)
        /\ pc'[Main] \in {"mark", "del", "close", "events", "reap"}
        /\ pc'[Main] \in ClosePcs => fdOf'[Main] = g
    <3>1. CASE Find(Main)
      BY <1>1, <2>0, <2>1, <3>1
         DEF Find, Return, Erase, OnlyMoves, MainOn, Kinds, ClosePcs,
             ServerAssumption
    <3>2. CASE Mark(Main)
      BY <1>1, <2>0, <2>1, <3>2 DEF Mark, OnlyMoves, ClosePcs
    <3>3. CASE Del(Main)
      BY <1>1, <2>0, <2>1, <3>3 DEF Del, OnlyMoves, ClosePcs
    <3>4. CASE Close(Main)
      BY <1>1, <2>0, <2>1, <3>4
         DEF Close, Return, OnlyMoves, MainOn, Kinds, ClosePcs, ServerAssumption
    <3> QED BY <1>21, <3>1, <3>2, <3>3, <3>4 DEF CloseStep
  <2>3. \A f \in Fds : /\ MainOn(f)' => f = g
                       /\ Held(f) \/ (\E e \in batch : e.fd = f) => f # g
    BY <1>3, <2>1, <2>2 DEF MainOn, Kinds, ClosePcs, Alone
  <2>4. Alone(g) /\ (MainOn(g)' => expired' = expired)
    BY <1>3, <2>1, <2>2
  <2>5. MainOn(g)' /\ interest'[g] \in {"in", "out"} => g \in expired'
    BY <2>1, <2>2, <2>4 DEF Alone, Armed
  <2>6. pc'[Main] \notin Kinds
    BY <2>2 DEF Kinds
  <2>7. ASSUME NEW f \in Fds
        PROVE  /\ Held(f) => /\ sock'[f] # None /\ conns'[f] = conns[f]
                             /\ interest'[f] \notin {"in", "out"}
                             /\ f \notin expired' /\ ~MainOn(f)'
               /\ \A d, e \in batch' : d.fd = f /\ e.fd = f => d = e
               /\ \A e \in batch' : e.fd = f =>
                    /\ sock'[f] # None /\ conns'[f] # None
                    /\ interest'[f] \notin {"in", "out"}
                    /\ ~Held(f) /\ ~MainOn(f)'
               /\ MainOn(f)' /\ interest'[f] \in {"in", "out"} => f \in expired'
    BY <1>3, <2>2, <2>3, <2>5 DEF Alone, Kept, Armed
  <2> QED BY <2>2, <2>6, <2>7, MainQuiet
<1>22. ASSUME \/ \E w \in Workers : SigPipe(w)
              \/ \E c \in Conns : ClientStep(c)
              \/ RequestStop \/ UNCHANGED vars
       PROVE  QuietInv'
  <2>1. UNCHANGED <<threads, tasks, batch, expired, conns, sock, interest>>
    BY <1>22 DEF SigPipe, ClientStep, Connect, Send, Shut, Reset, RequestStop,
                 vars
  <2> QED BY <2>1 DEF QuietInv, Alone, Kept, Has, Busy, Queued, Held, MainOn,
                      Armed
<1>23. QED
  BY <1>5, <1>6, <1>7, <1>8, <1>9, <1>10, <1>11, <1>12, <1>13, <1>14, <1>15,
     <1>16, <1>17, <1>18, <1>19, <1>20, <1>21, <1>22
     DEF Next, MainStep, WorkerStep

-----------------------------------------------------------------------------
(* What has been read, extracted and answered *)

\* Account, in the words of the one worker that has the descriptor.
Share(w, c, b, d) ==
  /\ taken[c] = b + Len(readBuf[c]) + (IF pc[w] = "append" THEN 1 ELSE 0)
  /\ Numbered(readBuf[c], b)
  /\ pc[w] \in ReadPcs => Even(b, d) /\ writeBuf[c] = None /\ Len(got[c]) = d
  /\ pc[w] \in WritePcs =>
       /\ Ahead(b, d) /\ writeBuf[c] # None /\ writeBuf[c].no = b
       /\ writeOffset[c] <= RespLen
       /\ pc[w] # "consume" => Len(got[c]) = d + writeOffset[c]
  /\ pc[w] = "append" => seg[w].no = taken[c]
  /\ pc[w] = "respond" => /\ Ahead(b, d) /\ writeBuf[c] = None /\ seg[w].no = b
                          /\ Len(got[c]) = d
  /\ pc[w] = "writev" => /\ seg[w] = writeBuf[c]
                         /\ count[w] = writeOffset[c] /\ count[w] < RespLen
  /\ pc[w] = "consume" => /\ writeOffset[c] + count[w] <= RespLen
                          /\ Len(got[c]) = d + writeOffset[c] + count[w]
  /\ pc[w] = "clear" => writeOffset[c] = RespLen

\* The two say the same of a descriptor that a worker has.
LEMMA ShareNow ==
  ASSUME NEW f \in Fds, NEW w \in Workers, Has(w, f), Alone(f),
         NEW c, NEW b, NEW d, Account(f, c, b, d)
  PROVE  Share(w, c, b, d)
<1>1. fdOf[w] = f
  BY DEF Has
<1>2. /\ \A u \in Workers : fdOf[u] = f /\ pc[u] # "idle" => u = w
      /\ Appending(f) <=> pc[w] = "append"
      /\ Consuming(f) <=> pc[w] = "consume"
  BY <1>1 DEF Alone, Has, Busy, Appending, Consuming
<1>3. /\ pc[w] \in ReadPcs => Reading(f)
      /\ pc[w] \in WritePcs => Writing(f)
  BY <1>1 DEF Reading, Writing
<1> QED BY <1>1, <1>2, <1>3 DEF Account, Share

\* And so they do in the next state.
LEMMA ShareNext ==
  ASSUME NEW f \in Fds, NEW w \in Workers, Has(w, f)', Alone(f)',
         NEW c, NEW b, NEW d, Share(w, c, b, d)'
  PROVE  Account(f, c, b, d)'
<1>1. fdOf'[w] = f
  BY DEF Has
<1>2. /\ \A u \in Workers : fdOf'[u] = f /\ pc'[u] # "idle" => u = w
      /\ Appending(f)' <=> pc'[w] = "append"
      /\ Consuming(f)' <=> pc'[w] = "consume"
  BY <1>1 DEF Alone, Has, Busy, Appending, Consuming
<1>3. /\ ~Queued(f)' /\ ~Armed(f)' /\ ~MainOn(f)'
      /\ \A e \in batch' : e.fd # f
  <2>1. Held(f)'
    BY DEF Held, Has
  <2> QED BY <2>1 DEF Alone
<1>4. /\ Reading(f)' => pc'[w] \in ReadPcs
      /\ Writing(f)' => pc'[w] \in WritePcs
  BY <1>1, <1>2, <1>3
     DEF Reading, Writing, Queued, Armed, MainOn, Kinds, ReadPcs, WritePcs
<1> QED BY <1>1, <1>2, <1>4 DEF Account, Share, WritePcs

\* A step that neither touches the connection nor brings anybody to it.
LEMMA AccountKept ==
  ASSUME NEW f \in Fds, NEW c, NEW b, NEW d, Account(f, c, b, d),
         /\ taken'[c] = taken[c] /\ readBuf'[c] = readBuf[c]
         /\ writeBuf'[c] = writeBuf[c] /\ writeOffset'[c] = writeOffset[c]
         /\ got'[c] = got[c],
         Reading(f)' => Reading(f), Writing(f)' => Writing(f),
         \A w \in Workers :
           LET P == {"append", "respond", "writev", "consume", "clear"} IN
           (fdOf[w] = f /\ pc[w] \in P) \/ (fdOf'[w] = f /\ pc'[w] \in P) =>
             /\ pc'[w] = pc[w] /\ fdOf'[w] = fdOf[w]
             /\ seg'[w] = seg[w] /\ count'[w] = count[w]
  PROVE  Account(f, c, b, d)'
<1>1. (Appending(f)' <=> Appending(f)) /\ (Consuming(f)' <=> Consuming(f))
  BY DEF Appending, Consuming
<1> QED BY <1>1 DEF Account

\* A worker's step is about its own descriptor's connection only.
LEMMA WorkerStream ==
  ASSUME ServerAssumption, IInv, QuietInv, QuietInv', StreamInv,
         NEW w \in Workers, OnlyMoves(w), Busy(w),
         \A u \in Workers \ {w} : count'[u] = count[u],
         NEW g \in Fds, g = fdOf[w], fdOf'[w] \in {g, None},
         UNCHANGED <<tasks, batch, peer, backlog>>,
         \A f \in Fds : f # g =>
           interest'[f] = interest[f] /\ conns'[f] = conns[f],
         \A c \in Conns : c # sock[g] =>
           /\ taken'[c] = taken[c] /\ readBuf'[c] = readBuf[c]
           /\ writeBuf'[c] = writeBuf[c] /\ writeOffset'[c] = writeOffset[c]
           /\ got'[c] = got[c],
         conns'[g] # None => conns'[g] = conns[g],
         \A c \in Conns, b, d \in Nat :
           conns[g] = c /\ conns'[g] = c /\ Share(w, c, b, d) =>
             \E x, y \in Nat : Account(g, c, x, y)'
  PROVE  StreamInv'
<1>1. /\ pc'[Main] = pc[Main] /\ fdOf'[Main] = fdOf[Main]
      /\ connOf'[Main] = connOf[Main]
  BY DEF OnlyMoves, ServerAssumption, Threads
<1>2. Has(w, g) /\ Held(g) /\ Alone(g)
  BY DEF Has, Held, QuietInv
<1>3. \A f \in Fds : conns[f] # None => conns[f] = sock[f] /\ conns[f] \in Conns
  BY Known DEF IInv, Owning, FdOwnership
<1>4. ASSUME NEW c \in Conns, Fresh(c)'
      PROVE  Fresh(c) /\ c # sock[g]
  <2>1. Fresh(c)
    BY <1>1, <1>4 DEF Fresh
  <2>2. Accepting(g) => FALSE
    BY <1>2 DEF Accepting, Alone, MainOn
  <2>3. pc[Main] = "insert" => Accepting(fdOf[Main]) /\ fdOf[Main] \in Fds
    BY Known DEF Accepting, FdPcs
  <2> QED BY <2>1, <2>2, <2>3
          DEF Fresh, IInv, Owning, Sockets, FdOwnership
<1>5. Untouched'
  BY <1>4 DEF StreamInv, Untouched
<1>6. ASSUME NEW f \in Fds, NEW c \in Conns, conns'[f] = c
      PROVE  \E b, d \in Nat : Account(f, c, b, d)'
  <2>1. conns[f] = c
    BY <1>6 DEF ServerAssumption
  <2>2. PICK b \in Nat, d \in Nat : Account(f, c, b, d)
    BY <2>1 DEF StreamInv
  <2>3. CASE f = g
    <3>1. Share(w, c, b, d)
      BY <1>2, <2>2, <2>3, ShareNow
    <3> QED BY <1>6, <2>1, <2>3, <3>1
  <2>4. CASE f # g
    <3>1. c # sock[g]
      BY <1>3, <2>1, <2>4 DEF IInv, Owning, Sockets, ServerAssumption
    <3>2. \A u \in Workers :
            fdOf'[u] = f => /\ u # w /\ fdOf[u] = f /\ pc'[u] = pc[u]
      BY <2>4 DEF OnlyMoves, Threads, ServerAssumption
    <3>3. Reading(f)' => Reading(f)
      BY <1>1, <2>4, <3>2 DEF Reading
    <3>4. Writing(f)' => Writing(f)
      BY <1>1, <2>4, <3>2 DEF Writing
    <3>5. Account(f, c, b, d)'
      BY <2>2, <2>4, <3>1, <3>2, <3>3, <3>4, AccountKept
         DEF OnlyMoves, Threads
    <3> QED BY <3>5
  <2> QED BY <2>3, <2>4
<1> QED BY <1>5, <1>6 DEF StreamInv

\* The event loop hands a descriptor on as what it got it for.
LEMMA MainStream ==
  ASSUME ServerAssumption, IInv, StreamInv, OnlyMoves(Main),
         \A u \in Workers : count'[u] = count[u],
         UNCHANGED <<taken, readBuf, writeBuf, writeOffset, got>>,
         \A c \in Conns : Fresh(c)' => Fresh(c),
         \A f \in Fds : conns'[f] # None =>
           /\ conns'[f] = conns[f]
           /\ Reading(f)' => Reading(f)
           /\ Writing(f)' => Writing(f)
  PROVE  StreamInv'
<1>1. Untouched'
  BY DEF StreamInv, Untouched
<1>2. ASSUME NEW f \in Fds, NEW c \in Conns, conns'[f] = c
      PROVE  \E b, d \in Nat : Account(f, c, b, d)'
  <2>1. conns[f] = c /\ (Reading(f)' => Reading(f)) /\ (Writing(f)' => Writing(f))
    BY <1>2 DEF ServerAssumption
  <2>2. PICK b \in Nat, d \in Nat : Account(f, c, b, d)
    BY <2>1 DEF StreamInv
  <2>3. Account(f, c, b, d)'
    BY <2>1, <2>2, AccountKept DEF OnlyMoves, Threads, ServerAssumption
  <2> QED BY <2>3
<1> QED BY <1>1, <1>2 DEF StreamInv

\* A worker in the middle of a task has its descriptor's live Connection.
LEMMA WorkerOwns ==
  ASSUME ServerAssumption, IInv, QuietInv, NEW w \in Workers, Busy(w),
         pc[w] \in WorkerPcs
  PROVE  /\ fdOf[w] \in Fds /\ Has(w, fdOf[w])
         /\ conns[fdOf[w]] \in Conns
         /\ conns[fdOf[w]] = sock[fdOf[w]] /\ ~closed[conns[fdOf[w]]]
         /\ pc[w] \in ConnPcs => connOf[w] = conns[fdOf[w]]
<1>1. fdOf[w] \in Fds /\ Has(w, fdOf[w])
  BY Known DEF Busy, FdPcs, Has
<1>2. conns[fdOf[w]] # None /\ (pc[w] \in ConnPcs => connOf[w] = conns[fdOf[w]])
  BY <1>1 DEF QuietInv, Kept, WorkerPcs
<1> QED BY <1>1, <1>2, Known DEF IInv, Owning, FdOwnership

\* The types of what belongs to one Connection.
LEMMA KnownObject ==
  ASSUME ServerAssumption, IInv, NEW c \in Conns
  PROVE  /\ taken[c] \in Nat /\ readBuf[c] \in Seq(Segment)
         /\ writeBuf[c] \in Segment \cup {None} /\ writeOffset[c] \in Nat
         /\ got[c] \in Seq(Unit) /\ Len(readBuf[c]) \in Nat /\ Len(got[c]) \in Nat
         /\ taken \in [Conns -> Nat] /\ readBuf \in [Conns -> Seq(Segment)]
         /\ writeBuf \in [Conns -> Segment \cup {None}]
         /\ writeOffset \in [Conns -> Nat] /\ got \in [Conns -> Seq(Unit)]
BY DEF IInv, Typing, TypeOK, KernelTypes, ObjectTypes

\* A read buffer that gets the next segment.
LEMMA NumberedAppend ==
  ASSUME NEW s \in Seq(Segment), NEW e \in Segment, NEW b \in Nat,
         Numbered(s, b), e.no = b + Len(s) + 1
  PROVE  /\ Len(Append(s, e)) = Len(s) + 1
         /\ Numbered(Append(s, e), b)
<1> DEFINE t == Append(s, e)
<1>1. /\ Len(s) \in Nat /\ Len(t) = Len(s) + 1
      /\ \A i \in 1..Len(s) : t[i] = s[i]
      /\ t[Len(s) + 1] = e
  OBVIOUS
<1>2. ASSUME NEW i \in 1..Len(t)
      PROVE  t[i].no = b + i
  <2>1. CASE i \in 1..Len(s)
    BY <1>1, <2>1 DEF Numbered
  <2>2. CASE i = Len(s) + 1
    BY <1>1, <2>2
  <2> HIDE DEF t
  <2> QED BY <1>1, <2>1, <2>2
<1> QED BY <1>1, <1>2 DEF Numbered

\* A read buffer that loses its first request.
LEMMA NumberedRest ==
  ASSUME NEW s \in Seq(Segment), NEW n \in Nat \ {0}, n <= Len(s), NEW b \in Nat,
         Numbered(s, b)
  PROVE  /\ Len(SubSeq(s, n + 1, Len(s))) = Len(s) - n
         /\ Numbered(SubSeq(s, n + 1, Len(s)), b + n)
         /\ s[n] \in Segment /\ s[n].no = b + n
<1> DEFINE t == SubSeq(s, n + 1, Len(s))
<1>1. Len(s) \in Nat /\ n + 1 \in 1..Len(s) + 1 /\ n \in 1..Len(s)
  OBVIOUS
<1>2. t = [i \in 1..(Len(s) - n) |-> s[n + i]]
  BY <1>1
<1>3. Len(t) = Len(s) - n
  BY <1>1
<1>4. ASSUME NEW i \in 1..(Len(s) - n)
      PROVE  t[i].no = b + n + i
  <2>1. t[i] = s[n + i]
    BY <1>2
  <2>2. n + i \in 1..Len(s)
    BY <1>1
  <2> HIDE DEF t
  <2> QED BY <2>1, <2>2 DEF Numbered
<1>5. s[n] \in Segment /\ s[n].no = b + n
  BY <1>1 DEF Numbered
<1> HIDE DEF t
<1>6. Numbered(t, b + n)
  BY <1>3, <1>4 DEF Numbered
<1> QED BY <1>3, <1>5, <1>6 DEF t

\* The units of one writev().
LEMMA UnitsOf ==
  ASSUME NEW s \in Segment, NEW k \in Nat, NEW n \in Nat
  PROVE  /\ [i \in 1..n |-> [resp |-> s, unit |-> k + i]] \in Seq(Unit)
         /\ Len([i \in 1..n |-> [resp |-> s, unit |-> k + i]]) = n
<1>1. \A i \in 1..n : [resp |-> s, unit |-> k + i] \in Unit
  BY DEF Unit
<1>2. [i \in 1..n |-> [resp |-> s, unit |-> k + i]] \in [1..n -> Unit]
  BY <1>1
<1>3. DOMAIN [i \in 1..n |-> [resp |-> s, unit |-> k + i]] = 1..n
  OBVIOUS
<1> QED BY <1>2, <1>3

\* Extracting one more request, and answering it.
LEMMA Tally ==
  ASSUME ServerAssumption, NEW b \in Nat, NEW d \in Nat
  PROVE  /\ Even(0, 0)
         /\ Even(b, d) => Ahead(b + SegsPerRequest, d)
         /\ Ahead(b, d) => Even(b, d + RespLen)
<1>1. Even(0, 0)
  <2>1. SegsPerRequest * 0 = 0 /\ RespLen * 0 = 0
    BY DEF ServerAssumption
  <2> QED BY <2>1 DEF Even
<1>2. \A k, n \in Nat : k * (n + 1) = k * n + k
  OBVIOUS
<1>3. ASSUME NEW n \in Nat
      PROVE  /\ n + 1 \in Nat
             /\ SegsPerRequest * (n + 1) = SegsPerRequest * n + SegsPerRequest
             /\ RespLen * (n + 1) = RespLen * n + RespLen
  BY <1>2 DEF ServerAssumption
<1>4. Even(b, d) => Ahead(b + SegsPerRequest, d)
  BY DEF Even, Ahead
<1>5. Ahead(b, d) => Even(b, d + RespLen)
  BY <1>3 DEF Even, Ahead
<1> QED BY <1>1, <1>4, <1>5


\* A worker that lets go of a descriptor arms it for what it leaves to do.
LEMMA LetGo ==
  ASSUME ServerAssumption, IInv, QuietInv,
         NEW w \in Workers, NEW g \in Fds, Has(w, g), OnlyMoves(w),
         pc'[w] = "idle", UNCHANGED <<tasks, batch>>,
         NEW c \in Conns, NEW b \in Nat, NEW d \in Nat, Share(w, c, b, d),
         pc[w] # "append",
         UNCHANGED <<taken, readBuf, writeBuf, writeOffset, got>>,
         interest'[g] = "in" => pc[w] \in ReadPcs,
         interest'[g] = "out" => pc[w] \in WritePcs /\ pc[w] # "consume"
  PROVE  Account(g, c, b, d)'
<1>1. Held(g) /\ Alone(g) /\ Main \in Threads /\ Main # w
  BY DEF QuietInv, Has, Held, Threads, ServerAssumption
<1>2. ~Queued(g) /\ ~MainOn(g) /\ \A e \in batch : e.fd # g
  BY <1>1 DEF Alone
<1>3. \A u \in Workers : fdOf'[u] = g => pc'[u] = "idle"
  <2>1. \A u \in Workers : Has(u, g) => u = w
    BY <1>1 DEF Alone
  <2> QED BY <2>1 DEF Has, Busy, OnlyMoves, Threads
<1>4. pc'[Main] = pc[Main] /\ fdOf'[Main] = fdOf[Main]
  BY <1>1 DEF OnlyMoves
<1>5. ~Appending(g)' /\ ~Consuming(g)'
  BY <1>3 DEF Appending, Consuming
<1>6. \A u \in Workers : fdOf'[u] = g => pc'[u] \notin ReadPcs \cup WritePcs
  BY <1>3 DEF ReadPcs, WritePcs
<1>7. Reading(g)' => pc[w] \in ReadPcs
  BY <1>2, <1>4, <1>6 DEF Reading, Queued, MainOn, Kinds
<1>8. Writing(g)' => pc[w] \in WritePcs /\ pc[w] # "consume"
  BY <1>2, <1>4, <1>6 DEF Writing, Queued, MainOn, Kinds
<1>9. taken'[c] = b + Len(readBuf'[c]) + 0
  BY DEF Share
<1> QED BY <1>3, <1>5, <1>7, <1>8, <1>9 DEF Share, Account
\* Every step keeps count of what is read, extracted and answered.
LEMMA StreamStep ==
  ASSUME ServerAssumption, IInv, MovingInv, QuietInv, QuietInv', StreamInv,
         [Next]_vars
  PROVE  StreamInv'
<1> USE DEF ServerAssumption
<1>1. /\ Main \in Threads /\ \A w \in Workers : w \in Threads
      /\ pc \in [Threads -> MainPcs \cup WorkerPcs \cup ClosePcs]
      /\ fdOf \in [Threads -> Fds \cup {None}]
      /\ connOf \in [Threads -> Conns \cup {None}]
      /\ seg \in [Threads -> Segment \cup {None}]
      /\ count \in [Threads -> Nat]
      /\ conns \in [Fds -> Conns \cup {None}]
      /\ sock \in [Fds -> Conns \cup {None}]
      /\ interest \in [Fds -> {"none", "idle", "in", "out"}]
      /\ tasks \in Seq(Task)
  BY Known
<1>2. \A f \in Fds : Alone(f)'
  BY DEF QuietInv
<1>3. ASSUME NEW w \in Workers, Read(w) PROVE StreamInv'
  <2>1. PICK g : g = fdOf[w]
    OBVIOUS
  <2>2. /\ OnlyMoves(w) /\ pc[w] = "read"
        /\ pc'[w] \in {"append", "find", "touchProcess"}
        /\ count' = count /\ fdOf' = fdOf
        /\ UNCHANGED <<peer, backlog, tasks, batch, interest, conns, readBuf,
                       writeBuf, writeOffset, got>>
    BY <1>1, <1>3 DEF Read, OnlyMoves
  <2>3. /\ g \in Fds /\ conns[g] \in Conns /\ conns[g] = sock[g] /\ Busy(w)
        /\ Has(w, g)'
    BY <2>1, <2>2, WorkerOwns
       DEF Busy, WorkerPcs, ConnPcs, FdPcs, Has
  <2>4. PICK c \in Conns : c = sock[g]
    BY <2>3
  <2>5. /\ pc'[w] = "append" => /\ taken' = [taken EXCEPT ![c] = @ + 1]
                                /\ seg'[w].no = taken[c] + 1
        /\ pc'[w] # "append" => taken' = taken
    BY <1>1, <1>3, <2>1, <2>4 DEF Read
  <2>6. ASSUME NEW b \in Nat, NEW d \in Nat, Share(w, c, b, d)
        PROVE  Share(w, c, b, d)'
    <3>1. /\ taken'[c] = taken[c] + IF pc'[w] = "append" THEN 1 ELSE 0
          /\ pc'[w] = "append" => seg'[w].no = taken'[c]
      BY <2>5, KnownObject
    <3>2. taken[c] \in Nat /\ Len(readBuf[c]) \in Nat
      BY KnownObject
    <3>3. /\ pc[w] \in ReadPcs /\ pc[w] # "append"
          /\ pc'[w] \notin WritePcs \cup {"respond"}
      BY <2>2 DEF ReadPcs, WritePcs
    <3>4. taken'[c] = b + Len(readBuf[c]) + (IF pc'[w] = "append" THEN 1 ELSE 0)
      BY <2>6, <3>1, <3>2, <3>3 DEF Share
    <3> QED BY <2>2, <2>6, <3>1, <3>3, <3>4 DEF Share, WritePcs
  <2>7. \A b, d \in Nat : Share(w, c, b, d) => Account(g, c, b, d)'
    BY <1>2, <2>3, <2>6, ShareNext
  <2>8. \A e \in Conns : e # c => taken'[e] = taken[e]
    BY <2>5, KnownObject
  <2> QED BY <2>1, <2>2, <2>3, <2>4, <2>7, <2>8, WorkerStream
<1>4. ASSUME NEW w \in Workers, AppendRead(w) PROVE StreamInv'
  <2>1. PICK g : g = fdOf[w]
    OBVIOUS
  <2>2. /\ OnlyMoves(w) /\ pc[w] = "append" /\ pc'[w] = "read"
        /\ count' = count /\ fdOf' = fdOf
        /\ UNCHANGED <<peer, backlog, tasks, batch, interest, conns, taken,
                       writeBuf, writeOffset, got>>
    BY <1>1, <1>4 DEF AppendRead, OnlyMoves
  <2>3. /\ g \in Fds /\ conns[g] \in Conns /\ conns[g] = sock[g] /\ Busy(w)
        /\ Has(w, g)' /\ connOf[w] = sock[g] /\ ~closed[sock[g]]
    BY <2>1, <2>2, WorkerOwns
       DEF Busy, WorkerPcs, ConnPcs, FdPcs, Has
  <2>4. PICK c \in Conns : c = sock[g]
    BY <2>3
  <2>5. /\ readBuf' = [readBuf EXCEPT ![c] = Append(@, seg[w])]
        /\ seg[w] \in Segment
    BY <1>1, <1>4, <2>2, <2>3, <2>4
       DEF AppendRead, Appended, IInv, Typing, Locals, LocalsOf, SegPcs
  <2>6. ASSUME NEW b \in Nat, NEW d \in Nat, Share(w, c, b, d)
        PROVE  Share(w, c, b, d)'
    <3>1. readBuf'[c] = Append(readBuf[c], seg[w])
      BY <2>5, KnownObject
    <3>2. taken[c] \in Nat /\ Len(readBuf[c]) \in Nat
      BY KnownObject
    <3>3. /\ taken[c] = b + Len(readBuf[c]) + 1 /\ seg[w].no = taken[c]
          /\ Numbered(readBuf[c], b)
      BY <2>2, <2>6 DEF Share
    <3>4. Len(readBuf'[c]) = Len(readBuf[c]) + 1 /\ Numbered(readBuf'[c], b)
      BY <2>5, <3>1, <3>3, KnownObject, NumberedAppend
    <3>5. taken'[c] = b + Len(readBuf'[c])
      BY <2>2, <3>2, <3>3, <3>4
    <3> QED BY <2>2, <2>6, <3>4, <3>5 DEF Share, ReadPcs, WritePcs
  <2>7. \A b, d \in Nat : Share(w, c, b, d) => Account(g, c, b, d)'
    BY <1>2, <2>3, <2>6, ShareNext
  <2>8. \A e \in Conns : e # c => readBuf'[e] = readBuf[e]
    BY <2>5, KnownObject
  <2> QED BY <2>1, <2>2, <2>3, <2>4, <2>7, <2>8, WorkerStream
<1>5. ASSUME NEW w \in Workers, Touch(w) \/ GetConnection(w) PROVE StreamInv'
  <2>1. PICK g : g = fdOf[w]
    OBVIOUS
  <2>2. pc[w] \in {"touchProcess", "touchRearm", "handleRead", "handleWrite",
                   "process"}
    BY <1>5 DEF Touch, GetConnection
  <2>3. /\ g \in Fds /\ conns[g] \in Conns /\ conns[g] = sock[g] /\ Busy(w)
    BY <2>1, <2>2, WorkerOwns DEF Busy, WorkerPcs
  <2>4. /\ OnlyMoves(w) /\ pc'[w] = IF pc[w] = "touchProcess" THEN "process"
                              ELSE IF pc[w] = "touchRearm" THEN "finishIn"
                              ELSE IF pc[w] = "handleRead" THEN "read"
                              ELSE IF pc[w] = "handleWrite" THEN "check"
                              ELSE "extract"
        /\ count' = count /\ fdOf' = fdOf
        /\ UNCHANGED <<peer, backlog, tasks, batch, interest, conns, taken,
                       readBuf, writeBuf, writeOffset, got>>
    BY <1>1, <1>5, <2>1, <2>3 DEF Touch, GetConnection, OnlyMoves
  <2>5. Has(w, g)'
    BY <2>1, <2>2, <2>4 DEF Has, Busy
  <2>6. ASSUME NEW c \in Conns, NEW b \in Nat, NEW d \in Nat, Share(w, c, b, d)
        PROVE  Account(g, c, b, d)'
    <3>1. Share(w, c, b, d)'
      BY <2>2, <2>4, <2>6 DEF Share, ReadPcs, WritePcs
    <3> QED BY <1>2, <2>3, <2>5, <3>1, ShareNext
  <2> QED BY <2>1, <2>3, <2>4, <2>6, WorkerStream
<1>6. ASSUME NEW w \in Workers, Extract(w) PROVE StreamInv'
  <2>1. PICK g : g = fdOf[w]
    OBVIOUS
  <2>2. /\ OnlyMoves(w) /\ pc[w] = "extract"
        /\ UNCHANGED <<peer, backlog, tasks, batch, conns, taken,
                       writeBuf, writeOffset, got>>
        /\ fdOf'[w] \in {g, None}
        /\ \A u \in Workers \ {w} : count'[u] = count[u]
    BY <1>1, <1>6, <2>1 DEF Extract, Return, OnlyMoves
  <2>3. /\ g \in Fds /\ conns[g] \in Conns /\ conns[g] = sock[g] /\ Busy(w)
        /\ connOf[w] = sock[g] /\ ~closed[sock[g]] /\ Has(w, g)
    BY <2>1, <2>2, WorkerOwns DEF Busy, WorkerPcs, ConnPcs, FdPcs
  <2>4. PICK c \in Conns : c = sock[g]
    BY <2>3
  <2>5. CASE Len(readBuf[c]) < SegsPerRequest
    <3>1. /\ readBuf' = readBuf /\ pc'[w] = "idle" /\ fdOf'[w] = None
          /\ interest' = [interest EXCEPT ![g] = IF @ = "none" THEN @ ELSE "in"]
      BY <1>1, <1>6, <2>1, <2>3, <2>4, <2>5 DEF Extract, Return, Mod
    <3>2. ASSUME NEW b \in Nat, NEW d \in Nat, Share(w, c, b, d)
          PROVE  Account(g, c, b, d)'
      <4>1. "extract" \in ReadPcs /\ Alone(g)
        BY <1>1, <2>3, <3>1 DEF ReadPcs, QuietInv
      <4>2. interest[g] # "out"
        BY <2>3, <4>1 DEF Alone, Armed, Held, Has
      <4>3. interest'[g] # "out"
        BY <1>1, <2>3, <3>1, <4>2
      <4> QED BY <2>2, <2>3, <3>1, <3>2, <4>1, <4>3, LetGo
    <3>3. \A f \in Fds : f # g => interest'[f] = interest[f]
      BY <1>1, <2>3, <3>1
    <3> QED BY <2>1, <2>2, <2>3, <2>4, <3>1, <3>2, <3>3, WorkerStream
  <2>6. CASE ~(Len(readBuf[c]) < SegsPerRequest)
    <3>1. /\ readBuf' = [readBuf EXCEPT ![c] =
                           SubSeq(@, SegsPerRequest + 1, Len(@))]
          /\ seg'[w] = readBuf[c][SegsPerRequest]
          /\ pc'[w] = "respond"
          /\ UNCHANGED <<interest, fdOf>>
      BY <1>1, <1>6, <2>1, <2>3, <2>4, <2>6 DEF Extract
    <3>2. Has(w, g)'
      BY <2>3, <3>1 DEF Has, Busy
    <3>3. ASSUME NEW b \in Nat, NEW d \in Nat, Share(w, c, b, d)
          PROVE  Account(g, c, b + SegsPerRequest, d)'
      <4>1. /\ taken[c] = b + Len(readBuf[c]) /\ Numbered(readBuf[c], b)
            /\ Even(b, d) /\ writeBuf[c] = None /\ Len(got[c]) = d
        BY <2>2, <3>3 DEF Share, ReadPcs
      <4>2. taken[c] \in Nat /\ Len(readBuf[c]) \in Nat
            /\ SegsPerRequest <= Len(readBuf[c])
        BY <2>6, KnownObject
      <4>3. readBuf'[c] = SubSeq(readBuf[c], SegsPerRequest + 1, Len(readBuf[c]))
        BY <3>1, KnownObject
      <4>4. /\ Len(readBuf'[c]) = Len(readBuf[c]) - SegsPerRequest
            /\ Numbered(readBuf'[c], b + SegsPerRequest)
            /\ seg'[w].no = b + SegsPerRequest
        <5>1. PICK s \in Seq(Segment) : s = readBuf[c]
          BY KnownObject
        <5>2. PICK n \in Nat \ {0} : n = SegsPerRequest
          OBVIOUS
        <5>3. /\ Len(SubSeq(s, n + 1, Len(s))) = Len(s) - n
              /\ Numbered(SubSeq(s, n + 1, Len(s)), b + n)
              /\ s[n].no = b + n
          BY <4>1, <4>2, <5>1, <5>2, NumberedRest
        <5> QED BY <3>1, <4>3, <5>1, <5>2, <5>3
      <4>5. taken'[c] = b + SegsPerRequest + Len(readBuf'[c])
        BY <2>2, <4>1, <4>2, <4>4
      <4>6. Ahead(b + SegsPerRequest, d)
        BY <4>1, Tally
      <4>7. Share(w, c, b + SegsPerRequest, d)'
        <5>1. pc'[w] = "respond" /\ "respond" \notin ReadPcs \cup WritePcs
          BY <3>1 DEF ReadPcs, WritePcs
        <5>2. taken'[c] = b + SegsPerRequest + Len(readBuf'[c]) + 0
          BY <4>2, <4>4, <4>5
        <5> QED BY <2>2, <4>1, <4>4, <4>6, <5>1, <5>2 DEF Share
      <4> QED BY <1>2, <2>3, <3>2, <4>7, ShareNext
    <3>4. \A e \in Conns : e # c => readBuf'[e] = readBuf[e]
      BY <3>1, KnownObject
    <3>5. \A b \in Nat : b + SegsPerRequest \in Nat
      OBVIOUS
    <3> QED BY <2>1, <2>2, <2>3, <2>4, <3>1, <3>3, <3>4, <3>5, WorkerStream
  <2> QED BY <2>5, <2>6
<1>7. ASSUME NEW w \in Workers, Respond(w) PROVE StreamInv'
  <2>1. PICK g : g = fdOf[w]
    OBVIOUS
  <2>2. pc[w] = "respond"
    BY <1>7 DEF Respond
  <2>3. /\ g \in Fds /\ conns[g] \in Conns /\ conns[g] = sock[g] /\ Busy(w)
        /\ connOf[w] = sock[g] /\ ~closed[sock[g]]
    BY <2>1, <2>2, WorkerOwns DEF Busy, WorkerPcs, ConnPcs, FdPcs
  <2>4. PICK c \in Conns : c = sock[g]
    BY <2>3
  <2>5. /\ OnlyMoves(w) /\ pc'[w] = "finishOut"
        /\ writeBuf' = [writeBuf EXCEPT ![c] = seg[w]]
        /\ writeOffset' = [writeOffset EXCEPT ![c] = 0]
        /\ UNCHANGED <<peer, backlog, tasks, batch, conns, taken, interest,
                       readBuf, got, fdOf, count>>
    BY <1>1, <1>7, <2>3, <2>4 DEF Respond, OnlyMoves
  <2>6. /\ writeBuf'[c] = seg[w] /\ writeOffset'[c] = 0 /\ seg[w] # None
        /\ \A e \in Conns : e # c => /\ writeBuf'[e] = writeBuf[e]
                                     /\ writeOffset'[e] = writeOffset[e]
    <3>1. seg[w] \in Segment
      BY <1>1, <2>2 DEF IInv, Typing, Locals, LocalsOf, SegPcs
    <3> QED BY <2>5, <3>1, KnownObject DEF Segment
  <2>7. Has(w, g)'
    BY <2>1, <2>5 DEF Has, Busy
  <2>8. ASSUME NEW b \in Nat, NEW d \in Nat, Share(w, c, b, d)
        PROVE  Account(g, c, b, d)'
    <3>1. pc'[w] = "finishOut" /\ "finishOut" \notin ReadPcs
      BY <2>5 DEF ReadPcs
    <3>2. Share(w, c, b, d)'
      BY <2>2, <2>5, <2>6, <2>8, <3>1 DEF Share
    <3> QED BY <1>2, <2>3, <2>7, <3>2, ShareNext
  <2> QED BY <2>1, <2>3, <2>4, <2>5, <2>6, <2>8, WorkerStream
<1>8. ASSUME NEW w \in Workers, FinishProcessing(w) PROVE StreamInv'
  <2>1. PICK g : g = fdOf[w]
    OBVIOUS
  <2>2. /\ OnlyMoves(w) /\ pc[w] \in {"finishOut", "finishIn"}
        /\ pc'[w] = IF pc[w] = "finishOut" THEN "modOut" ELSE "modIn"
        /\ UNCHANGED <<peer, backlog, tasks, batch, interest, conns, taken, readBuf,
                       writeBuf, writeOffset, got, fdOf, count>>
    BY <1>1, <1>8 DEF FinishProcessing, OnlyMoves
  <2>3. /\ g \in Fds /\ conns[g] \in Conns /\ conns[g] = sock[g] /\ Busy(w)
        /\ Has(w, g)'
    BY <2>1, <2>2, WorkerOwns DEF Busy, WorkerPcs, Has
  <2>4. ASSUME NEW c \in Conns, NEW b \in Nat, NEW d \in Nat, Share(w, c, b, d)
        PROVE  Account(g, c, b, d)'
    <3>1. Share(w, c, b, d)'
      BY <2>2, <2>4 DEF Share, ReadPcs, WritePcs
    <3> QED BY <1>2, <2>3, <3>1, ShareNext
  <2> QED BY <2>1, <2>2, <2>3, <2>4, WorkerStream
<1>9. ASSUME NEW w \in Workers, Rearm(w) PROVE StreamInv'
  <2>1. PICK g : g = fdOf[w]
    OBVIOUS
  <2>2. /\ OnlyMoves(w) /\ pc[w] \in {"modOut", "modIn"}
        /\ pc'[w] = "idle" /\ fdOf'[w] = None
        /\ \A u \in Workers \ {w} : count'[u] = count[u]
        /\ UNCHANGED <<peer, backlog, tasks, batch, conns, taken, readBuf,
                       writeBuf, writeOffset, got>>
        /\ interest' = [interest EXCEPT ![g] =
             IF @ = "none" THEN @ ELSE IF pc[w] = "modOut" THEN "out" ELSE "in"]
    BY <1>1, <1>9, <2>1 DEF Rearm, Return, Mod, Wanted, OnlyMoves
  <2>3. /\ g \in Fds /\ conns[g] \in Conns /\ conns[g] = sock[g] /\ Busy(w)
        /\ Has(w, g)
    BY <2>1, <2>2, WorkerOwns DEF Busy, WorkerPcs
  <2>4. /\ interest'[g] = "in" => pc[w] \in ReadPcs
        /\ interest'[g] = "out" => pc[w] \in WritePcs /\ pc[w] # "consume"
        /\ \A f \in Fds : f # g => interest'[f] = interest[f]
    BY <1>1, <2>2, <2>3 DEF ReadPcs, WritePcs
  <2>5. ASSUME NEW c \in Conns, NEW b \in Nat, NEW d \in Nat, Share(w, c, b, d)
        PROVE  Account(g, c, b, d)'
    BY <2>2, <2>3, <2>4, <2>5, LetGo
  <2> QED BY <2>1, <2>2, <2>3, <2>4, <2>5, WorkerStream
<1>10. ASSUME NEW w \in Workers, Check(w) PROVE StreamInv'
  <2>1. PICK g : g = fdOf[w]
    OBVIOUS
  <2>2. /\ OnlyMoves(w) /\ pc[w] = "check" /\ pc'[w] \in {"clear", "writev"}
        /\ UNCHANGED <<peer, backlog, tasks, batch, interest, conns, taken, readBuf,
                       writeBuf, writeOffset, got, fdOf>>
        /\ \A u \in Workers \ {w} : count'[u] = count[u]
    BY <1>1, <1>10 DEF Check, OnlyMoves
  <2>3. /\ g \in Fds /\ conns[g] \in Conns /\ conns[g] = sock[g] /\ Busy(w)
        /\ connOf[w] = sock[g] /\ ~closed[sock[g]] /\ Has(w, g)'
    BY <2>1, <2>2, WorkerOwns DEF Busy, WorkerPcs, ConnPcs, FdPcs, Has
  <2>4. PICK c \in Conns : c = sock[g]
    BY <2>3
  <2>5. /\ pc'[w] = "clear" => ~HasWriteData(c)
        /\ pc'[w] = "writev" => /\ HasWriteData(c) /\ seg'[w] = writeBuf[c]
                                /\ count'[w] = writeOffset[c]
    BY <1>1, <1>10, <2>3, <2>4 DEF Check
  <2>6. ASSUME NEW b \in Nat, NEW d \in Nat, Share(w, c, b, d)
        PROVE  Account(g, c, b, d)'
    <3>1. /\ pc[w] = "check" /\ pc[w] \in WritePcs
          /\ pc'[w] \notin ReadPcs \cup {"append", "respond", "consume"}
      BY <2>2 DEF ReadPcs, WritePcs
    <3>2. writeOffset[c] \in Nat /\ RespLen \in Nat
      BY KnownObject
    <3>3. Share(w, c, b, d)'
      BY <2>2, <2>5, <2>6, <3>1, <3>2 DEF Share, HasWriteData
    <3> QED BY <1>2, <2>3, <3>3, ShareNext
  <2> QED BY <2>1, <2>2, <2>3, <2>4, <2>6, WorkerStream
<1>11. ASSUME NEW w \in Workers, WriteSome(w) PROVE StreamInv'
  <2>1. PICK g : g = fdOf[w]
    OBVIOUS
  <2>2. pc[w] = "writev"
    BY <1>11 DEF WriteSome
  <2>3. /\ g \in Fds /\ conns[g] \in Conns /\ conns[g] = sock[g] /\ Busy(w)
    BY <2>1, <2>2, WorkerOwns DEF Busy, WorkerPcs, ConnPcs, FdPcs
  <2>4. PICK c \in Conns : c = sock[g]
    BY <2>3
  <2>10. \A n \in 1..(RespLen - count[w]) : n \in Nat
    BY <1>1
  <2>5. PICK n \in 1..(RespLen - count[w]) :
          /\ n \in Nat
          /\ got' = [got EXCEPT ![c] = @ \o
               [i \in 1..n |-> [resp |-> seg[w], unit |-> count[w] + i]]]
          /\ count' = [count EXCEPT ![w] = n]
    BY <1>11, <2>1, <2>4, <2>10 DEF WriteSome
  <2>6. /\ OnlyMoves(w) /\ pc'[w] = "consume"
        /\ UNCHANGED <<peer, backlog, tasks, batch, conns, taken, interest,
                       readBuf, writeBuf, writeOffset, fdOf>>
    BY <1>1, <1>11 DEF WriteSome, OnlyMoves
  <2>7. /\ count'[w] = n /\ \A u \in Workers \ {w} : count'[u] = count[u]
        /\ \A e \in Conns : e # c => got'[e] = got[e]
        /\ Has(w, g)'
    BY <1>1, <2>1, <2>5, <2>6, KnownObject DEF Has, Busy
  <2>8. n \in Nat /\ Len(got'[c]) = Len(got[c]) + n
    <3>1. n \in Nat /\ [i \in 1..n |-> [resp |-> seg[w], unit |-> count[w] + i]]
                       \in Seq(Unit)
      <4>1. seg[w] \in Segment /\ count[w] \in Nat
        BY <1>1, <2>2 DEF IInv, Typing, Locals, LocalsOf, SegPcs
      <4>2. n \in Nat
        BY <2>5
      <4> QED BY <4>1, <4>2, UnitsOf
    <3>2. Len([i \in 1..n |-> [resp |-> seg[w], unit |-> count[w] + i]]) = n
      BY <3>1
    <3>3. got'[c] = got[c] \o
            [i \in 1..n |-> [resp |-> seg[w], unit |-> count[w] + i]]
      BY <2>5, KnownObject
    <3> QED BY <3>1, <3>2, <3>3, KnownObject
  <2>9. ASSUME NEW b \in Nat, NEW d \in Nat, Share(w, c, b, d)
        PROVE  Account(g, c, b, d)'
    <3>1. /\ pc[w] \in WritePcs /\ pc'[w] \in WritePcs
          /\ pc'[w] \notin ReadPcs \cup {"append", "respond", "writev", "clear"}
      BY <2>2, <2>6 DEF ReadPcs, WritePcs
    <3>2. /\ Len(got'[c]) = d + writeOffset[c] + n
          /\ writeOffset[c] + n <= RespLen
      <4>1. /\ Len(got[c]) = d + writeOffset[c] /\ count[w] = writeOffset[c]
        BY <2>2, <2>9, <3>1 DEF Share
      <4>2. writeOffset[c] \in Nat /\ RespLen \in Nat
        BY KnownObject
      <4> QED BY <2>5, <2>8, <4>1, <4>2
    <3>3. Share(w, c, b, d)'
      BY <2>2, <2>6, <2>7, <2>9, <3>1, <3>2 DEF Share
    <3> QED BY <1>2, <2>3, <2>7, <3>3, ShareNext
  <2> QED BY <2>1, <2>3, <2>4, <2>6, <2>7, <2>9, WorkerStream
<1>12. ASSUME NEW w \in Workers, WriteNone(w) PROVE StreamInv'
  <2>1. PICK g : g = fdOf[w]
    OBVIOUS
  <2>2. /\ OnlyMoves(w) /\ pc[w] = "writev" /\ pc'[w] \in {"find", "finishOut"}
        /\ UNCHANGED <<peer, backlog, tasks, batch, interest, conns, taken, readBuf,
                       writeBuf, writeOffset, got, fdOf>>
        /\ \A u \in Workers \ {w} : count'[u] = count[u]
    BY <1>1, <1>12 DEF WriteNone, OnlyMoves
  <2>3. /\ g \in Fds /\ conns[g] \in Conns /\ conns[g] = sock[g] /\ Busy(w)
        /\ Has(w, g)'
    BY <2>1, <2>2, WorkerOwns DEF Busy, WorkerPcs, Has
  <2>4. ASSUME NEW c \in Conns, NEW b \in Nat, NEW d \in Nat, Share(w, c, b, d)
        PROVE  Account(g, c, b, d)'
    <3>1. /\ pc[w] \in WritePcs
          /\ pc'[w] \notin ReadPcs \cup
               {"append", "respond", "writev", "consume", "clear"}
      BY <2>2 DEF ReadPcs, WritePcs
    <3>2. Share(w, c, b, d)'
      BY <2>2, <2>4, <3>1 DEF Share
    <3> QED BY <1>2, <2>3, <3>2, ShareNext
  <2> QED BY <2>1, <2>2, <2>3, <2>4, WorkerStream
<1>13. ASSUME NEW w \in Workers, Consume(w) PROVE StreamInv'
  <2>1. PICK g : g = fdOf[w]
    OBVIOUS
  <2>2. /\ OnlyMoves(w) /\ pc[w] = "consume" /\ pc'[w] = "check"
        /\ UNCHANGED <<peer, backlog, tasks, batch, interest, conns, taken, readBuf,
                       writeBuf, got, fdOf>>
        /\ \A u \in Workers \ {w} : count'[u] = count[u]
    BY <1>1, <1>13 DEF Consume, OnlyMoves
  <2>3. /\ g \in Fds /\ conns[g] \in Conns /\ conns[g] = sock[g] /\ Busy(w)
        /\ connOf[w] = sock[g] /\ Has(w, g)'
    BY <2>1, <2>2, WorkerOwns DEF Busy, WorkerPcs, ConnPcs, FdPcs, Has
  <2>4. PICK c \in Conns : c = sock[g]
    BY <2>3
  <2>5. /\ writeBuf[c] # None => writeOffset'[c] = Consumed(c, count[w])
        /\ \A e \in Conns : e # c => writeOffset'[e] = writeOffset[e]
    BY <1>13, <2>3, <2>4, KnownObject DEF Consume
  <2>6. ASSUME NEW b \in Nat, NEW d \in Nat, Share(w, c, b, d)
        PROVE  Account(g, c, b, d)'
    <3>1. /\ pc[w] \in WritePcs /\ pc'[w] \in WritePcs
          /\ pc'[w] \notin ReadPcs \cup
               {"append", "respond", "writev", "consume", "clear"}
      BY <2>2 DEF ReadPcs, WritePcs
    <3>2. /\ writeOffset'[c] <= RespLen
          /\ Len(got[c]) = d + writeOffset'[c]
      <4>1. /\ writeBuf[c] # None /\ writeOffset[c] + count[w] <= RespLen
            /\ Len(got[c]) = d + writeOffset[c] + count[w]
        BY <2>2, <2>6, <3>1 DEF Share
      <4>2. writeOffset[c] \in Nat /\ RespLen \in Nat /\ count[w] \in Nat
        BY <1>1, KnownObject
      <4>3. writeOffset'[c] = writeOffset[c] + count[w]
        <5>1. Consumed(c, count[w]) = writeOffset[c] + count[w]
          BY <4>1, <4>2, SMTT(30) DEF Consumed
        <5> QED BY <2>5, <4>1, <5>1, Zenon
      <4>4. PICK x \in Nat, y \in Nat : x = writeOffset[c] /\ y = count[w]
        BY <4>2
      <4>5. x + y <= RespLen /\ Len(got[c]) = d + (x + y)
        BY <4>1, <4>4
      <4> QED BY <4>3, <4>4, <4>5, Zenon
    <3>3. Share(w, c, b, d)'
      BY <2>2, <2>6, <3>1, <3>2 DEF Share
    <3> QED BY <1>2, <2>3, <3>3, ShareNext
  <2> QED BY <2>1, <2>2, <2>3, <2>4, <2>5, <2>6, WorkerStream
<1>14. ASSUME NEW w \in Workers, Clear(w) PROVE StreamInv'
  <2>1. PICK g : g = fdOf[w]
    OBVIOUS
  <2>2. /\ OnlyMoves(w) /\ pc[w] = "clear"
        /\ pc'[w] \in {"find", "touchProcess", "touchRearm"}
        /\ UNCHANGED <<peer, backlog, tasks, batch, interest, conns, taken, readBuf,
                       got, fdOf, count>>
    BY <1>1, <1>14 DEF Clear, OnlyMoves
  <2>3. /\ g \in Fds /\ conns[g] \in Conns /\ conns[g] = sock[g] /\ Busy(w)
        /\ connOf[w] = sock[g] /\ Has(w, g)'
    BY <2>1, <2>2, WorkerOwns DEF Busy, WorkerPcs, ConnPcs, FdPcs, Has
  <2>4. PICK c \in Conns : c = sock[g]
    BY <2>3
  <2>5. /\ writeBuf'[c] = None /\ writeOffset'[c] = 0
        /\ \A e \in Conns : e # c => /\ writeBuf'[e] = writeBuf[e]
                                     /\ writeOffset'[e] = writeOffset[e]
    BY <1>14, <2>3, <2>4, KnownObject DEF Clear
  <2>6. ASSUME NEW b \in Nat, NEW d \in Nat, Share(w, c, b, d)
        PROVE  Account(g, c, b, d + RespLen)'
    <3>1. /\ pc[w] \in WritePcs
          /\ pc'[w] \notin WritePcs \cup {"append", "respond"}
      BY <2>2 DEF WritePcs
    <3>2. Len(got[c]) = d + RespLen /\ Even(b, d + RespLen)
      BY <2>2, <2>6, <3>1, Tally DEF Share
    <3>3. Share(w, c, b, d + RespLen)'
      BY <2>2, <2>5, <2>6, <3>1, <3>2 DEF Share, WritePcs
    <3> QED BY <1>2, <2>3, <3>3, ShareNext
  <2>7. \A d \in Nat : d + RespLen \in Nat
    OBVIOUS
  <2> QED BY <2>1, <2>2, <2>3, <2>4, <2>5, <2>6, <2>7, WorkerStream
<1>15. ASSUME NEW w \in Workers, CloseStep(w) PROVE StreamInv'
  <2>1. PICK g : g = fdOf[w]
    OBVIOUS
  <2>2. /\ w # Main /\ w \in Threads /\ pc[w] \in ClosePcs /\ Busy(w)
    BY <1>1, <1>15 DEF CloseStep, Find, Mark, Del, Close, ClosePcs, Busy
  <2>3. g \in Fds /\ Has(w, g) /\ Kept(g)
    BY <2>1, <2>2, Known DEF FdPcs, ClosePcs, Has, QuietInv
  <2>4. /\ OnlyMoves(w) /\ fdOf'[w] \in {g, None} /\ conns'[g] = None
        /\ \A u \in Workers \ {w} : count'[u] = count[u]
        /\ UNCHANGED <<peer, backlog, tasks, batch, taken, readBuf, writeBuf,
                       writeOffset, got>>
        /\ \A f \in Fds : f # g =>
             interest'[f] = interest[f] /\ conns'[f] = conns[f]
    <3>1. CASE Find(w)
      <4>1. conns[g] # None
        BY <2>3, <3>1 DEF Kept, Find
      <4> QED BY <1>1, <2>1, <2>2, <2>3, <3>1, <4>1 DEF Find, Erase, OnlyMoves
    <3>2. CASE ~Find(w)
      <4>1. pc[w] \in {"mark", "del", "close"}
        BY <1>15, <3>2 DEF CloseStep, Mark, Del, Close
      <4>2. conns[g] = None
        BY <2>1, <2>2, <2>3, <4>1 DEF IInv, Owning, FdOwnership, Closing
      <4>3. CASE Mark(w)
        BY <1>1, <2>1, <2>2, <4>2, <4>3 DEF Mark, OnlyMoves
      <4>4. CASE Del(w)
        BY <1>1, <2>1, <2>2, <4>2, <4>4 DEF Del, OnlyMoves
      <4>5. CASE Close(w)
        BY <1>1, <2>1, <2>2, <4>2, <4>5 DEF Close, Return, OnlyMoves
      <4> QED BY <1>15, <3>2, <4>3, <4>4, <4>5 DEF CloseStep
    <3> QED BY <3>1, <3>2
  <2> QED BY <2>1, <2>2, <2>3, <2>4, WorkerStream
<1>16. ASSUME NEW w \in Workers, Take(w) PROVE StreamInv'
  <2>1. PICK g : g = Head(tasks).fd
    OBVIOUS
  <2>2. /\ OnlyMoves(w) /\ pc[w] = "idle" /\ fdOf'[w] = g
        /\ pc'[w] = IF Head(tasks).kind = "dispatchRead" THEN "handleRead"
                                                         ELSE "handleWrite"
        /\ tasks # <<>> /\ tasks' = Tail(tasks)
        /\ UNCHANGED <<peer, backlog, batch, interest, conns, taken, readBuf,
                       writeBuf, writeOffset, got, count>>
    BY <1>1, <1>16, <2>1 DEF Take, Pop, OnlyMoves
  <2>3. /\ 1 \in 1..Len(tasks) /\ tasks[1] = Head(tasks) /\ tasks[1] \in Task
        /\ \A i \in 1..Len(tasks') :
             i + 1 \in 1..Len(tasks) /\ tasks'[i] = tasks[i + 1]
    BY <1>1, <2>2
  <2>4. /\ pc'[Main] = pc[Main] /\ fdOf'[Main] = fdOf[Main]
        /\ connOf'[Main] = connOf[Main]
    BY <1>1, <2>2 DEF OnlyMoves
  <2>5. \A u \in Workers \ {w} : /\ pc'[u] = pc[u] /\ fdOf'[u] = fdOf[u]
                                 /\ seg'[u] = seg[u]
    BY <2>2 DEF OnlyMoves, Threads
  <2>6. ASSUME NEW f \in Fds
        PROVE  (Reading(f)' => Reading(f)) /\ (Writing(f)' => Writing(f))
    <3>1. /\ Head(tasks).kind \in Kinds
          /\ pc'[w] \in ReadPcs => pc'[w] = "handleRead"
          /\ pc'[w] \in WritePcs => pc'[w] = "handleWrite"
      BY <2>2, <2>3 DEF Task, Kinds, ReadPcs, WritePcs
    <3>2. /\ fdOf'[w] = f /\ pc'[w] \in ReadPcs =>
               tasks[1].fd = f /\ tasks[1].kind = "dispatchRead"
          /\ fdOf'[w] = f /\ pc'[w] \in WritePcs =>
               tasks[1].fd = f /\ tasks[1].kind = "dispatchWrite"
      BY <2>1, <2>2, <2>3, <3>1 DEF Kinds
    <3>3. Reading(f)' => Reading(f)
      BY <2>2, <2>3, <2>4, <2>5, <3>2 DEF Reading
    <3>4. Writing(f)' => Writing(f)
      BY <2>2, <2>3, <2>4, <2>5, <3>2 DEF Writing
    <3> QED BY <3>3, <3>4
  <2>7. ASSUME NEW f \in Fds, NEW c \in Conns, conns'[f] = c
        PROVE  \E b, d \in Nat : Account(f, c, b, d)'
    <3>1. PICK b \in Nat, d \in Nat : Account(f, c, b, d)
      BY <2>2, <2>7 DEF StreamInv
    <3>2. pc'[w] \notin {"append", "respond", "writev", "consume", "clear"}
      BY <2>2
    <3>3. Account(f, c, b, d)'
      BY <2>2, <2>5, <2>6, <3>1, <3>2, AccountKept
    <3> QED BY <3>3
  <2>8. Untouched'
    BY <2>2, <2>4 DEF StreamInv, Untouched, Fresh
  <2> QED BY <2>7, <2>8 DEF StreamInv
<1>17. ASSUME EpollWait PROVE StreamInv'
  <2>1. PICK W \in SUBSET OutArmed :
          /\ batch' \subseteq Ready(W)
          /\ interest' = [f \in Fds |-> IF \E e \in batch' : e.fd = f
                                        THEN "idle" ELSE interest[f]]
    BY <1>17 DEF EpollWait
  <2>2. /\ OnlyMoves(Main) /\ pc'[Main] = "events" /\ pc[Main] = "wait"
        /\ UNCHANGED <<fdOf, count, tasks, conns, peer, backlog, taken, readBuf,
                       writeBuf, writeOffset, got>>
    BY <1>1, <1>17 DEF EpollWait, OnlyMoves
  <2>3. \A f \in Fds : /\ interest'[f] = "in" => interest[f] = "in"
                       /\ interest'[f] = "out" => interest[f] = "out"
    BY <2>1
  <2>4. ASSUME NEW f \in Fds, NEW e \in batch', e.fd = f
        PROVE  /\ e.ev = "in" => interest[f] = "in"
               /\ e.ev = "out" => interest[f] = "out"
    BY <2>1, <2>4 DEF Ready, HupReady, InReady, OutArmed, Listen
  <2>5. \A w \in Workers : fdOf'[w] = fdOf[w] /\ pc'[w] = pc[w]
    BY <2>2 DEF OnlyMoves, Threads
  <2>6. \A f \in Fds : Reading(f)' => Reading(f)
    BY <2>2, <2>3, <2>4, <2>5 DEF Reading
  <2>7. \A f \in Fds : Writing(f)' => Writing(f)
    BY <2>2, <2>3, <2>4, <2>5 DEF Writing
  <2>8. \A c \in Conns : Fresh(c)' => Fresh(c)
    BY <2>2 DEF Fresh
  <2> QED BY <2>2, <2>6, <2>7, <2>8, MainStream
<1>18. ASSUME HandleEvent PROVE StreamInv'
  <2>1. PICK e \in batch :
          /\ batch' = batch \ {e}
          /\ \/ e = Listen /\ Goto(Main, "accept") /\ UNCHANGED <<fdOf, connOf>>
             \/ /\ e.ev = "hup"
                /\ fdOf' = [fdOf EXCEPT ![Main] = e.fd]
                /\ Goto(Main, "find") /\ UNCHANGED connOf
             \/ /\ e.ev \in {"in", "out"} /\ conns[e.fd] = None
                /\ UNCHANGED <<pc, fdOf, connOf>>
             \/ /\ e.ev \in {"in", "out"} /\ conns[e.fd] # None
                /\ fdOf' = [fdOf EXCEPT ![Main] = e.fd]
                /\ connOf' = [connOf EXCEPT ![Main] = conns[e.fd]]
                /\ Goto(Main, IF e.ev = "in" THEN "dispatchRead"
                                             ELSE "dispatchWrite")
    BY <1>18 DEF HandleEvent
  <2>2. /\ pc[Main] = "events"
        /\ UNCHANGED <<seg, count, tasks, conns, interest, peer, backlog, taken,
                       readBuf, writeBuf, writeOffset, got>>
    BY <1>18 DEF HandleEvent
  <2>3. OnlyMoves(Main)
    BY <1>1, <2>1, <2>2 DEF OnlyMoves
  <2>4. /\ pc'[Main] \notin {"add", "insert"}
        /\ pc'[Main] = "dispatchRead" => e.ev = "in" /\ fdOf'[Main] = e.fd
        /\ pc'[Main] = "dispatchWrite" => e.ev = "out" /\ fdOf'[Main] = e.fd
    BY <1>1, <2>1, <2>2
  <2>5. \A w \in Workers : fdOf'[w] = fdOf[w] /\ pc'[w] = pc[w]
    BY <2>3 DEF OnlyMoves, Threads
  <2>6. \A f \in Fds : Reading(f)' => Reading(f)
    BY <2>1, <2>2, <2>4, <2>5 DEF Reading
  <2>7. \A f \in Fds : Writing(f)' => Writing(f)
    BY <2>1, <2>2, <2>4, <2>5 DEF Writing
  <2>8. \A c \in Conns : Fresh(c)' => Fresh(c)
    BY <2>2, <2>4 DEF Fresh
  <2> QED BY <2>2, <2>3, <2>6, <2>7, <2>8, MainStream
<1>19. ASSUME Dispatch PROVE StreamInv'
  <2>1. PICK g : g = fdOf[Main]
    OBVIOUS
  <2>2. /\ pc[Main] \in Kinds /\ OnlyMoves(Main)
        /\ \A w \in Workers : count'[w] = count[w]
        /\ UNCHANGED <<batch, conns, interest, peer, backlog, taken, readBuf,
                       writeBuf, writeOffset, got>>
        /\ pc'[Main] \in {"events", "reap"}
        /\ tasks' \in {tasks, Append(tasks, [kind |-> pc[Main], fd |-> g])}
    BY <1>1, <1>19, <2>1 DEF Dispatch, Return, OnlyMoves
  <2>3. [kind |-> pc[Main], fd |-> g] \in Task
    BY <2>1, <2>2, Known DEF FdPcs, Kinds, Task
  <2>4. \A i \in 1..Len(tasks') :
          \/ i \in 1..Len(tasks) /\ tasks'[i] = tasks[i]
          \/ tasks'[i] = [kind |-> pc[Main], fd |-> g]
    BY <1>1, <2>2, <2>3, SMTT(30)
  <2>5. \A w \in Workers : fdOf'[w] = fdOf[w] /\ pc'[w] = pc[w]
    BY <2>2 DEF OnlyMoves, Threads
  <2>6. \A f \in Fds : Reading(f)' => Reading(f)
    BY <2>1, <2>2, <2>4, <2>5 DEF Reading
  <2>7. \A f \in Fds : Writing(f)' => Writing(f)
    BY <2>1, <2>2, <2>4, <2>5 DEF Writing
  <2>8. \A c \in Conns : Fresh(c)' => Fresh(c)
    BY <2>2 DEF Fresh
  <2> QED BY <2>2, <2>6, <2>7, <2>8, MainStream
<1>20. ASSUME Accept PROVE StreamInv'
  <2>1. /\ OnlyMoves(Main) /\ pc[Main] = "accept"
        /\ pc'[Main] \in {"events", "insert"}
        /\ UNCHANGED <<count, batch, tasks, conns, interest, peer, taken, readBuf,
                       writeBuf, writeOffset, got>>
        /\ backlog' \subseteq backlog
        /\ pc'[Main] = "insert" => connOf'[Main] \in backlog
    BY <1>1, <1>20 DEF Accept, OnlyMoves
  <2>2. \A w \in Workers : fdOf'[w] = fdOf[w] /\ pc'[w] = pc[w]
    BY <2>1 DEF OnlyMoves, Threads
  <2>3. \A f \in Fds : (Reading(f)' => Reading(f)) /\ (Writing(f)' => Writing(f))
    BY <2>1, <2>2 DEF Reading, Writing
  <2>4. \A c \in Conns : Fresh(c)' => Fresh(c)
    BY <2>1 DEF Fresh
  <2> QED BY <2>1, <2>3, <2>4, MainStream
<1>21. ASSUME Insert PROVE StreamInv'
  <2>1. PICK g : g = fdOf[Main]
    OBVIOUS
  <2>2. /\ OnlyMoves(Main) /\ pc[Main] = "insert" /\ pc'[Main] = "add"
        /\ UNCHANGED <<fdOf, count, batch, tasks, interest, peer, backlog, taken,
                       readBuf, writeBuf, writeOffset, got, expired>>
        /\ conns' = [conns EXCEPT ![g] = connOf[Main]]
    BY <1>1, <1>21, <2>1 DEF Insert, OnlyMoves
  <2>3. g \in Fds /\ connOf[Main] \in Conns /\ MainOn(g) /\ Alone(g)
    BY <2>1, <2>2, Known DEF FdPcs, ConnPcs, MainOn, QuietInv
  <2>4. /\ ~Held(g) /\ ~Armed(g) /\ \A e \in batch : e.fd # g
    BY <2>2, <2>3 DEF Alone, IInv, Reaping
  <2>5. \A w \in Workers : /\ fdOf'[w] = fdOf[w] /\ pc'[w] = pc[w]
                           /\ seg'[w] = seg[w] /\ count'[w] = count[w]
    BY <2>2 DEF OnlyMoves, Threads
  <2>6. Untouched'
    BY <2>2 DEF StreamInv, Untouched, Fresh
  <2>7. ASSUME NEW f \in Fds, NEW c \in Conns, conns'[f] = c
        PROVE  \E b, d \in Nat : Account(f, c, b, d)'
    <3>1. CASE f # g
      <4>1. conns[f] = c
        BY <2>2, <2>3, <2>7, <3>1
      <4>2. PICK b \in Nat, d \in Nat : Account(f, c, b, d)
        BY <4>1 DEF StreamInv
      <4>3. (Reading(f)' => Reading(f)) /\ (Writing(f)' => Writing(f))
        BY <2>1, <2>2, <2>5, <3>1 DEF Reading, Writing
      <4>4. Account(f, c, b, d)'
        BY <2>2, <2>5, <4>2, <4>3, AccountKept
      <4> QED BY <4>4
    <3>2. CASE f = g
      <4>1. c = connOf[Main] /\ Fresh(c)
        BY <1>1, <2>2, <2>3, <2>7, <3>2 DEF Fresh
      <4>2. /\ taken'[c] = 0 /\ readBuf'[c] = <<>> /\ writeBuf'[c] = None
            /\ got'[c] = <<>>
        BY <2>2, <4>1 DEF StreamInv, Untouched
      <4>3. \A w \in Workers : fdOf'[w] = g => pc'[w] = "idle"
        BY <2>4, <2>5 DEF Held, Busy
      <4>4. ~Writing(g)'
        BY <2>2, <2>4, <4>3 DEF Writing, Armed, Held, WritePcs
      <4>5. ~Appending(g)'
        BY <4>3 DEF Appending
      <4>6. Account(g, c, 0, 0)'
        <5>1. Len(<<>>) = 0 /\ Numbered(<<>>, 0) /\ Even(0, 0)
          BY Tally DEF Numbered
        <5> QED BY <4>2, <4>3, <4>4, <4>5, <5>1 DEF Account
      <4> QED BY <3>2, <4>6
    <3> QED BY <3>1, <3>2
  <2> QED BY <2>6, <2>7 DEF StreamInv
<1>22. ASSUME Add PROVE StreamInv'
  <2>1. PICK g : g = fdOf[Main]
    OBVIOUS
  <2>2. /\ OnlyMoves(Main) /\ pc[Main] = "add" /\ pc'[Main] = "accept"
        /\ UNCHANGED <<count, batch, tasks, conns, peer, backlog, taken, readBuf,
                       writeBuf, writeOffset, got>>
        /\ \A f \in Fds :
             interest'[f] = interest[f] \/ (f = g /\ interest'[f] = "in")
    BY <1>1, <1>22, <2>1 DEF Add, AfterAdd, OnlyMoves
  <2>3. \A w \in Workers : fdOf'[w] = fdOf[w] /\ pc'[w] = pc[w]
    BY <2>2 DEF OnlyMoves, Threads
  <2>4. \A f \in Fds : (Reading(f)' => Reading(f)) /\ (Writing(f)' => Writing(f))
    BY <2>1, <2>2, <2>3 DEF Reading, Writing
  <2>5. \A c \in Conns : Fresh(c)' => Fresh(c)
    BY <2>2 DEF Fresh
  <2> QED BY <2>2, <2>4, <2>5, MainStream
<1>23. ASSUME PopExpired \/ Reap \/ LeaveLoop \/ Join \/ CloseAll
       PROVE  StreamInv'
  <2>1. /\ OnlyMoves(Main)
        /\ pc'[Main] \in {"reap", "wait", "find", "join", "closeAll", "stopped"}
        /\ UNCHANGED <<count, batch, tasks, peer, backlog, taken, readBuf,
                       writeBuf, writeOffset, got>>
        /\ \A f \in Fds : conns'[f] # None =>
             conns'[f] = conns[f] /\ interest'[f] = interest[f]
    BY <1>1, <1>23 DEF PopExpired, Reap, LeaveLoop, Join, CloseAll, OnlyMoves
  <2>2. \A w \in Workers : fdOf'[w] = fdOf[w] /\ pc'[w] = pc[w]
    BY <2>1 DEF OnlyMoves, Threads
  <2>3. \A f \in Fds : conns'[f] # None =>
          (Reading(f)' => Reading(f)) /\ (Writing(f)' => Writing(f))
    BY <2>1, <2>2 DEF Reading, Writing
  <2>4. \A c \in Conns : Fresh(c)' => Fresh(c)
    BY <2>1 DEF Fresh
  <2> QED BY <2>1, <2>3, <2>4, MainStream
<1>24. ASSUME CloseStep(Main) PROVE StreamInv'
  <2>1. /\ OnlyMoves(Main)
        /\ pc'[Main] \in {"mark", "del", "close", "events", "reap"}
        /\ UNCHANGED <<batch, tasks, peer, backlog, taken, readBuf,
                       writeBuf, writeOffset, got>>
        /\ \A w \in Workers : count'[w] = count[w]
        /\ \A f \in Fds : /\ conns'[f] # None => conns'[f] = conns[f]
                          /\ interest'[f] \in {interest[f], "none"}
    <3>1. CASE Find(Main)
      BY <1>1, <3>1 DEF Find, Return, Erase, OnlyMoves
    <3>2. CASE Mark(Main)
      BY <1>1, <3>2 DEF Mark, OnlyMoves
    <3>3. CASE Del(Main)
      BY <1>1, <3>3 DEF Del, OnlyMoves
    <3>4. CASE Close(Main)
      BY <1>1, <3>4 DEF Close, Return, OnlyMoves
    <3> QED BY <1>24, <3>1, <3>2, <3>3, <3>4 DEF CloseStep
  <2>2. \A w \in Workers : fdOf'[w] = fdOf[w] /\ pc'[w] = pc[w]
    BY <2>1 DEF OnlyMoves, Threads
  <2>3. \A f \in Fds : (Reading(f)' => Reading(f)) /\ (Writing(f)' => Writing(f))
    BY <2>1, <2>2 DEF Reading, Writing
  <2>4. \A c \in Conns : Fresh(c)' => Fresh(c)
    BY <2>1 DEF Fresh
  <2> QED BY <2>1, <2>3, <2>4, MainStream
<1>25. ASSUME \/ \E w \in Workers : SigPipe(w)
              \/ \E c \in Conns : ClientStep(c)
              \/ RequestStop \/ UNCHANGED vars
       PROVE  StreamInv'
  <2>1. /\ UNCHANGED <<pc, fdOf, seg, count, batch, tasks, interest, conns, taken,
                       readBuf, writeBuf, writeOffset, got>>
        /\ \A c \in Conns : Fresh(c)' => Fresh(c)
    BY <1>25
       DEF SigPipe, ClientStep, Connect, Send, Shut, Reset, RequestStop, vars,
           Fresh, IInv, Typing, TypeOK, KernelTypes
  <2>2. Untouched'
    BY <2>1 DEF StreamInv, Untouched
  <2>3. ASSUME NEW f \in Fds, NEW c \in Conns, conns'[f] = c
        PROVE  \E b, d \in Nat : Account(f, c, b, d)'
    <3>1. PICK b \in Nat, d \in Nat : Account(f, c, b, d)
      BY <2>1, <2>3 DEF StreamInv
    <3>2. (Reading(f)' => Reading(f)) /\ (Writing(f)' => Writing(f))
      BY <2>1 DEF Reading, Writing
    <3>3. Account(f, c, b, d)'
      BY <2>1, <3>1, <3>2, AccountKept
    <3> QED BY <3>3
  <2> QED BY <2>2, <2>3 DEF StreamInv
<1>26. QED
  BY <1>3, <1>4, <1>5, <1>6, <1>7, <1>8, <1>9, <1>10, <1>11, <1>12, <1>13,
     <1>14, <1>15, <1>16, <1>17, <1>18, <1>19, <1>20, <1>21, <1>22, <1>23,
     <1>24, <1>25
     DEF Next, MainStep, WorkerStep

\* Arithmetic of the units of a response.
LEMMA Quotient ==
  ASSUME NEW R \in Nat \ {0}, NEW n \in Nat, NEW r \in 0..(R - 1)
  PROVE  (R * n + r) \div R = n /\ (R * n + r) % R = r
OBVIOUS

\* The k-th unit after l of them, which are m responses and j units more.
LEMMA NextUnit ==
  ASSUME NEW R \in Nat \ {0}, NEW m \in Nat, NEW j \in Nat, NEW k \in Nat \ {0},
         j + k <= R, NEW l \in Nat, l = R * m + j
  PROVE  (l + k - 1) \div R = m /\ ((l + k - 1) % R) + 1 = j + k
<1>1. PICK p \in Nat : p = R * m
  OBVIOUS
<1>2. PICK r \in 0..(R - 1) : r = j + k - 1
  OBVIOUS
<1>3. l + k - 1 = p + r /\ r + 1 = j + k
  BY <1>1, <1>2
<1>4. (p + r) \div R = m /\ (p + r) % R = r
  BY <1>1, Quotient
<1> QED BY <1>3, <1>4

\* An element of a concatenation is an element of one of its parts.
LEMMA Joined ==
  ASSUME NEW S, NEW s \in Seq(S), NEW u \in Seq(S), NEW i \in 1..Len(s \o u)
  PROVE  \/ i \in 1..Len(s) /\ (s \o u)[i] = s[i]
         \/ \E k \in 1..Len(u) : i = Len(s) + k /\ (s \o u)[i] = u[k]
<1>1. Len(s) \in Nat /\ Len(u) \in Nat /\ i \in 1..(Len(s) + Len(u))
  OBVIOUS
<1>2. CASE i \in 1..Len(s)
  BY <1>2
<1>3. CASE ~(i \in 1..Len(s))
  <2>4. PICK a \in Nat, e \in Nat : a = Len(s) /\ e = Len(u)
    BY <1>1
  <2>5. i \in 1..(a + e) /\ ~(i \in 1..a)
    BY <1>1, <1>3, <2>4
  <2>6. i - a \in 1..e
    BY <2>5
  <2>1. PICK k \in 1..Len(u) : k = i - Len(s)
    BY <2>4, <2>6
  <2>2. i = Len(s) + k
    BY <1>1, <2>1
  <2>3. (s \o u)[i] = u[i - Len(s)]
    BY <1>1, <1>3
  <2> QED BY <2>1, <2>2, <2>3
<1> QED BY <1>2, <1>3

\* All of it holds throughout, unless deadlines pass at any time.
LEMMA QuietAlways ==
  ASSUME ServerAssumption, IdleExpiry # "any"
  PROVE  Spec => [](IInv /\ MovingInv /\ QuietInv /\ StreamInv)
<1>1. Init => QuietInv
  BY DEF Init, QuietInv, Alone, Kept, Has, Busy, Queued, Held, MainOn, Kinds,
         ClosePcs, Threads, ServerAssumption
<1>2. Init => StreamInv
  BY DEF Init, StreamInv, Untouched, ServerAssumption
<1>3. Init => MovingInv
  BY DEF Init, MovingInv, Unbegun, Current, Emptied, Moves, Threads, Kinds,
         ServerAssumption
<1>4. IInv /\ MovingInv /\ QuietInv /\ StreamInv /\ IInv' /\ [Next]_vars
        => MovingInv' /\ QuietInv' /\ StreamInv'
  BY MovingStep, QuietStep, StreamStep
<1> QED BY <1>1, <1>2, <1>3, <1>4, Invariance, PTL DEF Spec
\* What writev() puts on a socket is the next part of the answer that is due.
LEMMA OrderStep ==
  ASSUME ServerAssumption, IInv, QuietInv, StreamInv, ResponsesInOrder,
         [Next]_vars
  PROVE  ResponsesInOrder'
<1>1. CASE UNCHANGED got
  BY <1>1 DEF ResponsesInOrder, Expected
<1>2. ASSUME NEW w \in Workers, WriteSome(w) PROVE ResponsesInOrder'
  <2>1. PICK g : g = fdOf[w]
    OBVIOUS
  <2>2. pc[w] = "writev"
    BY <1>2 DEF WriteSome
  <2>3. /\ g \in Fds /\ conns[g] \in Conns /\ conns[g] = sock[g] /\ Has(w, g)
    BY <2>1, <2>2, WorkerOwns DEF Busy, WorkerPcs, ConnPcs, FdPcs
  <2>4. PICK c \in Conns : c = sock[g]
    BY <2>3
  <2>5. count[w] \in Nat /\ seg[w] \in Segment
    BY <2>2, Known DEF IInv, Typing, Locals, LocalsOf, SegPcs
  <2>6. /\ RespLen \in Nat \ {0} /\ SegsPerRequest \in Nat
        /\ \A n \in 1..(RespLen - count[w]) : n \in Nat /\ count[w] + n <= RespLen
    BY <2>5 DEF ServerAssumption
  <2>7. PICK n \in 1..(RespLen - count[w]) :
          got' = [got EXCEPT ![c] = @ \o
                   [i \in 1..n |-> [resp |-> seg[w], unit |-> count[w] + i]]]
    BY <1>2, <2>1, <2>4 DEF WriteSome
  <2>8. n \in Nat /\ count[w] + n <= RespLen
    BY <2>6
  <2>9. PICK b \in Nat, d \in Nat : Share(w, c, b, d)
    BY <2>3, <2>4, ShareNow DEF StreamInv, QuietInv
  <2>10. /\ Ahead(b, d) /\ writeBuf[c] # None /\ writeBuf[c].no = b
         /\ Len(got[c]) = d + count[w] /\ seg[w] = writeBuf[c]
    BY <2>2, <2>9 DEF Share, WritePcs
  <2>11. seg[w] = [from |-> c, no |-> b]
    BY <2>5, <2>10 DEF IInv, NoForeignBytes, Segment
  <2>12. PICK m \in Nat : b = SegsPerRequest * m + SegsPerRequest
                          /\ d = RespLen * m
    BY <2>10 DEF Ahead
  <2>13. (m + 1) * SegsPerRequest = b
    <3>1. \A k, l \in Nat : (k + 1) * l = l * k + l
      OBVIOUS
    <3> QED BY <2>6, <2>12, <3>1
  <2>14. ASSUME NEW k \in 1..n
         PROVE  [resp |-> seg[w], unit |-> count[w] + k]
                  = Expected(c, Len(got[c]) + k)
    <3>1. PICK j \in Nat : j = count[w]
      BY <2>5
    <3>2. PICK l \in Nat : l = Len(got[c])
      BY KnownObject
    <3>3. k \in Nat \ {0} /\ j + k <= RespLen
      BY <2>8, <3>1
    <3>4. l = RespLen * m + j
      BY <2>10, <2>12, <3>1, <3>2
    <3>5. (l + k - 1) \div RespLen = m /\ ((l + k - 1) % RespLen) + 1 = j + k
      BY <2>6, <3>3, <3>4, NextUnit
    <3>6. Expected(c, l + k) =
            [resp |-> [from |-> c, no |-> (m + 1) * SegsPerRequest],
             unit |-> j + k]
      <4>1. Expected(c, l + k) =
              [resp |-> [from |-> c, no |->
                           ((l + k - 1) \div RespLen + 1) * SegsPerRequest],
               unit |-> ((l + k - 1) % RespLen) + 1]
        BY DEF Expected
      <4> QED BY <3>5, <4>1
    <3> QED BY <2>11, <2>13, <3>1, <3>2, <3>6
  <2>20. LET v == [i \in 1..n |-> [resp |-> seg[w], unit |-> count[w] + i]]
         IN  v \in Seq(Unit) /\ Len(v) = n
    BY <2>5, <2>8, UnitsOf
  <2>15. PICK u \in Seq(Unit) :
           /\ u = [i \in 1..n |-> [resp |-> seg[w], unit |-> count[w] + i]]
           /\ Len(u) = n
    BY <2>20
  <2>16. got'[c] = got[c] \o u /\ \A e \in Conns : e # c => got'[e] = got[e]
    BY <2>7, <2>15, KnownObject
  <2>17. ASSUME NEW i \in 1..Len(got'[c])
         PROVE  got'[c][i] = Expected(c, i)
    <3>1. got[c] \in Seq(Unit) /\ Len(got[c]) \in Nat
      BY KnownObject
    <3>2. CASE i \in 1..Len(got[c]) /\ got'[c][i] = got[c][i]
      BY <3>2 DEF ResponsesInOrder
    <3>3. CASE \E k \in 1..Len(u) : i = Len(got[c]) + k /\ got'[c][i] = u[k]
      <4>1. PICK k \in 1..n : i = Len(got[c]) + k /\ got'[c][i] = u[k]
        BY <2>15, <3>3
      <4>2. u[k] = [resp |-> seg[w], unit |-> count[w] + k]
        BY <2>15
      <4> QED BY <2>14, <4>1, <4>2
    <3>4. PICK s \in Seq(Unit) : s = got[c]
      BY <3>1
    <3>7. s \in Seq(Unit) /\ u \in Seq(Unit)
      OBVIOUS
    <3>5. i \in 1..Len(s \o u) /\ got'[c] = s \o u
      BY <2>16, <3>4
    <3>6. \/ i \in 1..Len(s) /\ (s \o u)[i] = s[i]
          \/ \E k \in 1..Len(u) : i = Len(s) + k /\ (s \o u)[i] = u[k]
      BY <3>5, <3>7, Joined, SMTT(30)
    <3> QED BY <3>2, <3>3, <3>4, <3>5, <3>6
  <2>18. ASSUME NEW e \in Conns, e # c, NEW i \in 1..Len(got'[e])
         PROVE  got'[e][i] = Expected(e, i)
    BY <2>16, <2>18 DEF ResponsesInOrder
  <2>19. \A e \in Conns : \A i \in 1..Len(got'[e]) : got'[e][i] = Expected(e, i)
    BY <2>17, <2>18, Zenon
  <2>21. \A e \in Conns : \A i \in 1..Len(got'[e]) : Expected(e, i) = Expected(e, i)'
    BY Zenon DEF Expected
  <2> QED BY <2>19, <2>21, Zenon DEF ResponsesInOrder
<1>3. CASE \A w \in Workers : ~WriteSome(w)
  <2>1. UNCHANGED got
    <3>1. CASE MainStep
      BY <3>1
         DEF MainStep, EpollWait, HandleEvent, Dispatch, Accept, Insert, Add,
             PopExpired, Reap, CloseStep, Find, Mark, Del, Close, LeaveLoop,
             Join, CloseAll
    <3>2. ASSUME NEW w \in Workers, WorkerStep(w) PROVE UNCHANGED got
      <4>1. CASE \/ Take(w) \/ GetConnection(w) \/ Read(w) \/ AppendRead(w)
                 \/ Touch(w) \/ Extract(w) \/ Respond(w) \/ FinishProcessing(w)
        BY <4>1
           DEF Take, GetConnection, Read, AppendRead, Touch, Extract, Respond,
               FinishProcessing
      <4>2. CASE \/ Rearm(w) \/ Check(w) \/ WriteNone(w) \/ SigPipe(w)
                 \/ Consume(w) \/ Clear(w) \/ CloseStep(w)
        BY <4>2
           DEF Rearm, Check, WriteNone, SigPipe, Consume, Clear, CloseStep,
               Find, Mark, Del, Close
      <4> QED BY <1>3, <3>2, <4>1, <4>2, Zenon DEF WorkerStep
    <3>3. CASE RequestStop \/ \E e \in Conns : ClientStep(e)
      BY <3>3 DEF RequestStop, ClientStep, Connect, Send, Shut, Reset
    <3>4. CASE UNCHANGED vars
      BY <3>4 DEF vars
    <3> QED BY <1>1, <3>1, <3>2, <3>3, <3>4, Zenon DEF Next
  <2> QED BY <1>1, <2>1
<1> QED BY <1>2, <1>3

\* Each client receives the responses to its own requests, in order, without a
\* gap, a repetition or a byte of another client's, however writev() splits
\* them and however descriptors are reused: as long as no idle deadline passes
\* on a descriptor in use.
THEOREM RightBytes ==
  ASSUME ServerAssumption, IdleExpiry # "any"
  PROVE  Spec => []ResponsesInOrder
<1>1. Init => ResponsesInOrder
  BY DEF Init, ResponsesInOrder
<1>2. IInv /\ QuietInv /\ StreamInv /\ ResponsesInOrder /\ [Next]_vars
        => ResponsesInOrder'
  BY OrderStep
<1> QED BY <1>1, <1>2, QuietAlways, PTL DEF Spec

\* EPOLLONESHOT and processing_ admit one worker or queued task per descriptor
\* as long as no idle deadline passes on a descriptor in use.  The run
\* server_one_worker shows a second one when it does.
THEOREM OneAtATime ==
  ASSUME ServerAssumption, IdleExpiry # "any"
  PROVE  Spec => []OneWorkerPerFd
<1>1. QuietInv /\ IInv => OneWorkerPerFd
  <2> SUFFICES ASSUME QuietInv, IInv, NEW f \in Fds
               PROVE  Cardinality({w \in Workers : Busy(w) /\ fdOf[w] = f})
                        + Cardinality({i \in 1..Len(tasks) : tasks[i].fd = f}) <= 1
    BY DEF OneWorkerPerFd
  <2> DEFINE W == {w \in Workers : Busy(w) /\ fdOf[w] = f}
             T == {i \in 1..Len(tasks) : tasks[i].fd = f}
  <2>1. Alone(f)
    BY DEF QuietInv
  <2>2. ASSUME NEW S, \A x, y \in S : x = y
        PROVE  S = {} \/ \E x : S = {x}
    <3>1. CASE S = {}
      BY <3>1
    <3>2. ASSUME NEW x \in S
          PROVE  S = {x}
      BY <2>2, <3>2
    <3> QED BY <3>1, <3>2
  <2>3. (\A x, y \in W : x = y) /\ (\A x, y \in T : x = y)
    BY <2>1 DEF Alone, Has
  <2>4. W = {} \/ T = {}
    BY <2>1 DEF Alone, Has, Queued
  <2>5. ASSUME NEW S, \A x, y \in S : x = y
        PROVE  Cardinality(S) \in {0, 1}
    <3>1. CASE S = {}
      BY <3>1, FS_EmptySet
    <3>2. ASSUME NEW x, S = {x}
          PROVE  Cardinality(S) = 1
      BY <3>2, FS_Singleton
    <3> QED BY <2>2, <2>5, <3>1, <3>2, FS_EmptySet
  <2>6. Cardinality({}) = 0
    BY FS_EmptySet
  <2> HIDE DEF W, T
  <2>7. Cardinality(W) + Cardinality(T) <= 1
    BY <2>3, <2>4, <2>5, <2>6
  <2> QED BY <2>7 DEF W, T
<1> QED BY <1>1, QuietAlways, PTL DEF Spec
================================================================================
