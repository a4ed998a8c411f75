----------------------------- MODULE HttpServer -----------------------------
(***************************************************************************)
(* The connection engine of http_server.cpp: one event-loop thread (Main)  *)
(* and a pool of workers share connections_, the idle timers, the epoll    *)
(* set and the Connection objects.  A step is one critical section or one  *)
(* system call, so every interleaving the mutexes allow is explored.       *)
(*                                                                         *)
(* Descriptors are reused: accept() may return any number that is free.    *)
(* Tasks and epoll registrations name a connection by its descriptor only. *)
(***************************************************************************)
EXTENDS Naturals, Sequences, FiniteSets

CONSTANTS
  Conns,          \* accepted sockets over the run; one Connection object each
  Fds,            \* descriptor numbers accept() can return (RLIMIT_NOFILE)
  Workers,        \* the threads of workers_
  Main,           \* the thread in eventLoop()
  None,           \* nullptr / no descriptor / no data
  MaxEvents,      \* config_.maxEvents
  MaxSegs,        \* bound: segments one client sends
  SegsPerRequest, \* segments of one complete request
  RespLen,        \* units of one response, as writev() can split it
  IdleExpiry      \* which idle deadlines may pass, see MayExpire

ASSUME ServerAssumption ==
  /\ Main \notin Workers
  /\ None \notin Conns \cup Fds
  /\ None \notin [from: Conns, no: Nat]
  /\ MaxEvents \in Nat \ {0}
  /\ MaxSegs \in Nat
  /\ SegsPerRequest \in Nat \ {0}
  /\ RespLen \in Nat \ {0}
  /\ IdleExpiry \in {"never", "quiet", "any"}

VARIABLES
  \* the kernel and the clients
  sock,       \* the socket behind each open descriptor
  interest,   \* epoll state of each descriptor: "none" = not registered,
              \* "idle" = disarmed by EPOLLONESHOT, else the armed event
  listening,  \* a readiness edge of listenFd_ epoll_wait has not reported
  backlog,    \* connections accept() has not taken
  sent,       \* segments each client has sent
  taken,      \* segments read() has returned
  peer,       \* "new", "open", "eof" after its shutdown, "reset" after a RST
  got,        \* response units that reached each client
  \* members of HttpServer and ThreadPool
  conns,      \* connections_
  timers,     \* descriptors with an entry in timers_
  tasks,      \* workers_.tasks_
  batch,      \* the events of the current epoll_wait not yet handled
  expired,    \* descriptors popped from timers_ and still to be closed
  up,         \* running_, or "killed" by a signal
  \* Connection objects
  processing, \* processing_
  closed,     \* closed_
  readBuf, writeBuf, writeOffset, closeAfterWrite,
  \* threads
  pc,
  fdOf,       \* the descriptor a thread works on
  connOf,     \* its shared_ptr<Connection>
  seg,        \* the segment, request or response in its hands
  count       \* what its iovec leaves out, then what writev() returned

net     == <<sent, taken, peer, got>>
kernel  == <<sock, interest, listening, backlog, net>>
server  == <<conns, timers, tasks, batch, expired, up>>
output  == <<writeBuf, writeOffset, closeAfterWrite>>
objects == <<processing, closed, readBuf, output>>
loc     == <<seg, count>>
threads == <<pc, fdOf, connOf, loc>>
vars == <<kernel, server, objects, threads>>

Threads == Workers \cup {Main}
Segment == [from: Conns, no: Nat]       \* a client's no-th segment
Unit    == [resp: Segment, unit: Nat]   \* a unit of the response to it
Kinds   == {"dispatchRead", "dispatchWrite"}
Task    == [kind: Kinds, fd: Fds]
Listen  == [fd |-> None, ev |-> "listen"]
Events  == [fd: Fds, ev: {"hup", "in", "out"}] \cup {Listen}

ClosePcs  == {"find", "mark", "del", "close"}
MainPcs   == {"wait", "events", "accept", "insert", "add", "reap", "join",
              "closeAll", "stopped"} \cup Kinds
WorkerPcs == {"idle", "handleRead", "read", "append", "touchProcess",
              "process", "extract", "respond", "finishOut", "modOut",
              "handleWrite", "check", "writev", "consume", "clear",
              "touchRearm", "finishIn", "modIn"}

KernelTypes ==
  /\ sock \in [Fds -> Conns \cup {None}]
  /\ interest \in [Fds -> {"none", "idle", "in", "out"}]
  /\ listening \in BOOLEAN
  /\ backlog \subseteq Conns
  /\ sent \in [Conns -> Nat]
  /\ taken \in [Conns -> Nat]
  /\ peer \in [Conns -> {"new", "open", "eof", "reset"}]
  /\ got \in [Conns -> Seq(Unit)]

ServerTypes ==
  /\ conns \in [Fds -> Conns \cup {None}]
  /\ timers \subseteq Fds
  /\ tasks \in Seq(Task)
  /\ batch \subseteq Events
  /\ expired \subseteq Fds
  /\ up \in {"running", "stopping", "killed"}

ObjectTypes ==
  /\ processing \in [Conns -> BOOLEAN]
  /\ closed \in [Conns -> BOOLEAN]
  /\ readBuf \in [Conns -> Seq(Segment)]
  /\ writeBuf \in [Conns -> Segment \cup {None}]
  /\ writeOffset \in [Conns -> Nat]
  /\ closeAfterWrite \in [Conns -> BOOLEAN]

ThreadTypes ==
  /\ pc \in [Threads -> MainPcs \cup WorkerPcs \cup ClosePcs]
  /\ fdOf \in [Threads -> Fds \cup {None}]
  /\ connOf \in [Threads -> Conns \cup {None}]
  /\ seg \in [Threads -> Segment \cup {None}]
  /\ count \in [Threads -> Nat]

TypeOK == KernelTypes /\ ServerTypes /\ ObjectTypes /\ ThreadTypes

Init ==
  /\ sock = [f \in Fds |-> None]
  /\ interest = [f \in Fds |-> "none"]
  /\ listening = FALSE
  /\ backlog = {}
  /\ sent = [c \in Conns |-> 0]
  /\ taken = [c \in Conns |-> 0]
  /\ peer = [c \in Conns |-> "new"]
  /\ got = [c \in Conns |-> <<>>]
  /\ conns = [f \in Fds |-> None]
  /\ timers = {}
  /\ tasks = <<>>
  /\ batch = {}
  /\ expired = {}
  /\ up = "running"
  /\ processing = [c \in Conns |-> FALSE]
  /\ closed = [c \in Conns |-> FALSE]
  /\ readBuf = [c \in Conns |-> <<>>]
  /\ writeBuf = [c \in Conns |-> None]
  /\ writeOffset = [c \in Conns |-> 0]
  /\ closeAfterWrite = [c \in Conns |-> FALSE]
  /\ pc = [t \in Threads |-> IF t = Main THEN "wait" ELSE "idle"]
  /\ fdOf = [t \in Threads |-> None]
  /\ connOf = [t \in Threads |-> None]
  /\ seg = [t \in Threads |-> None]
  /\ count = [t \in Threads |-> 0]

-----------------------------------------------------------------------------
(* Helpers *)

\* epoll_ctl MOD: fails (ENOENT, EBADF) on a descriptor that is not registered.
Mod(f, ev) == interest' = [interest EXCEPT ![f] = IF @ = "none" THEN @ ELSE ev]

\* The operations on one member that several handlers share, each after the
\* mistakes (Mutant...) that the properties below detect.

\* timers_.addOrUpdate(f, now + idleTimeoutSeconds)
MutantTimerLost(f) == timers \ {f}
MutantTimerKey(f) == timers \cup {conns[f]}
AddOrUpdate(f) == timers \cup {f}

\* connections_.erase(it)
MutantErase(f) == conns
Erase(f) == [conns EXCEPT ![f] = None]

\* workers_.tasks_ after front() and pop()
MutantPop == tasks
Pop == Tail(tasks)

\* setProcessing(false)
MutantRelease(c) == processing
Release(c) == [processing EXCEPT ![c] = FALSE]

\* appendReadData(), unless markClosed() came first
MutantAppended(c, s) == [readBuf EXCEPT ![c] = Append(@, s)]
Appended(c, s) ==
  IF closed[c] THEN readBuf ELSE [readBuf EXCEPT ![c] = Append(@, s)]

HasWriteData(c) == writeBuf[c] # None /\ writeOffset[c] < RespLen

MutantPendingRead(c) == FALSE
HasPendingRead(c) == readBuf[c] # <<>>

\* consumeWriteData(n)
MutantConsumed(c, n) == n
Consumed(c, n) ==
  IF writeOffset[c] + n < RespLen THEN writeOffset[c] + n ELSE RespLen

Busy(w) == pc[w] # "idle"

\* A worker or a queued task that will use descriptor f.
Held(f) ==
  \/ \E w \in Workers : Busy(w) /\ fdOf[w] = f
  \/ \E i \in 1..Len(tasks) : tasks[i].fd = f

\* The clock: "any" lets every deadline pass at any time; "quiet" only those
\* of descriptors nobody works on; "never" runs faster than every timeout.
MayExpire(f) == IdleExpiry = "any" \/ (IdleExpiry = "quiet" /\ ~Held(f))

Goto(t, label) == pc' = [pc EXCEPT ![t] = label]

\* Return from a task, or from closeConnection() in the event loop.
Return(t) ==
  /\ pc' = [pc EXCEPT ![t] = IF t \in Workers THEN "idle"
                             ELSE IF expired = {} THEN "events" ELSE "reap"]
  /\ fdOf' = [fdOf EXCEPT ![t] = None]
  /\ connOf' = [connOf EXCEPT ![t] = None]
  /\ seg' = [seg EXCEPT ![t] = None]
  /\ count' = [count EXCEPT ![t] = 0]

-----------------------------------------------------------------------------
(* Clients and the kernel *)

Attached(c) == c \in backlog \/ \E f \in Fds : sock[f] = c

Connect(c) ==
  /\ peer[c] = "new"
  /\ peer' = [peer EXCEPT ![c] = "open"]
  /\ backlog' = backlog \cup {c}
  /\ listening' = TRUE
  /\ UNCHANGED <<sock, interest, sent, taken, got, server, objects, threads>>

Send(c) ==
  /\ Attached(c) /\ peer[c] = "open" /\ sent[c] < MaxSegs
  /\ sent' = [sent EXCEPT ![c] = @ + 1]
  /\ UNCHANGED <<sock, interest, listening, backlog, taken, peer, got,
                 server, objects, threads>>

\* The client shuts its sending side: read() returns 0 after the last segment.
Shut(c) ==
  /\ Attached(c) /\ peer[c] = "open"
  /\ peer' = [peer EXCEPT ![c] = "eof"]
  /\ UNCHANGED <<sock, interest, listening, backlog, sent, taken, got,
                 server, objects, threads>>

\* The client is gone and the kernel has seen a RST.
Reset(c) ==
  /\ Attached(c) /\ peer[c] \in {"open", "eof"}
  /\ peer' = [peer EXCEPT ![c] = "reset"]
  /\ UNCHANGED <<sock, interest, listening, backlog, sent, taken, got,
                 server, objects, threads>>

\* SIGINT or SIGTERM: handle_signal() calls requestStop().
RequestStop ==
  /\ up = "running"
  /\ up' = "stopping"
  /\ UNCHANGED <<kernel, conns, timers, tasks, batch, expired, objects, threads>>

Unread(c) == taken[c] < sent[c]

HupReady == {f \in Fds : /\ interest[f] \in {"in", "out"}
                         /\ peer[sock[f]] = "reset"}
InReady  == {f \in Fds : /\ interest[f] = "in"
                         /\ Unread(sock[f]) \/ peer[sock[f]] = "eof"}
OutArmed == {f \in Fds : interest[f] = "out"}

\* The events epoll_wait() can report when the sockets of W have room.
Ready(W) ==
  [fd: HupReady, ev: {"hup"}] \cup [fd: InReady \ HupReady, ev: {"in"}]
    \cup [fd: W \ HupReady, ev: {"out"}] \cup (IF listening THEN {Listen} ELSE {})

-----------------------------------------------------------------------------
(* eventLoop() *)

\* epoller_.wait(): all that is ready, up to maxEvents; ONESHOT disarms it.
EpollWait ==
  /\ pc[Main] = "wait" /\ up = "running"
  /\ \E W \in SUBSET OutArmed : \E B \in SUBSET Ready(W) :
       /\ Cardinality(B) <= MaxEvents
       /\ B = Ready(W) \/ Cardinality(B) = MaxEvents
       /\ batch' = B
       /\ interest' = [f \in Fds |-> IF \E e \in B : e.fd = f
                                     THEN "idle" ELSE interest[f]]
       /\ listening' = (listening /\ Listen \notin B)
  /\ Goto(Main, "events")
  /\ UNCHANGED <<sock, backlog, net, conns, timers, tasks, expired, up,
                 objects, fdOf, connOf, loc>>

\* One event of the batch: accept, close on HUP or ERR, or look the
\* connection up and go on to dispatchRead() or dispatchWrite().
HandleEvent ==
  /\ pc[Main] = "events"
  /\ \E e \in batch :
       /\ batch' = batch \ {e}
       /\ \/ e = Listen /\ Goto(Main, "accept") /\ UNCHANGED <<fdOf, connOf>>
          \/ /\ e.ev = "hup"
             /\ fdOf' = [fdOf EXCEPT ![Main] = e.fd]
             /\ Goto(Main, "find") /\ UNCHANGED connOf
          \/ /\ e.ev \in {"in", "out"} /\ conns[e.fd] = None
             /\ UNCHANGED <<pc, fdOf, connOf>>
          \/ /\ e.ev \in {"in", "out"} /\ conns[e.fd] # None
             /\ fdOf' = [fdOf EXCEPT ![Main] = e.fd]
             /\ connOf' = [connOf EXCEPT ![Main] = conns[e.fd]]
             /\ Goto(Main, IF e.ev = "in" THEN "dispatchRead"
                                          ELSE "dispatchWrite")
  /\ UNCHANGED <<kernel, conns, timers, tasks, expired, up, objects, loc>>

\* beginProcessing() refuses a closed connection, and one that has a task.
MayBegin(c) == ~closed[c] /\ ~processing[c]

\* beginProcessing() and workers_.enqueue().  No other thread can tell the
\* two apart: only Main reads processing_, and only Main appends to tasks_.
Dispatch ==
  LET c == connOf[Main] IN
  /\ pc[Main] \in Kinds
  /\ IF MayBegin(c)
     THEN /\ processing' = [processing EXCEPT ![c] = TRUE]
          /\ tasks' = Append(tasks, [kind |-> pc[Main], fd |-> fdOf[Main]])
     ELSE UNCHANGED <<processing, tasks>>
  /\ Return(Main)
  /\ UNCHANGED <<kernel, conns, timers, batch, expired, up, closed, readBuf,
                 output>>

\* accept() in handleAccept(): EAGAIN ends the loop, and so does EMFILE when
\* every descriptor is taken.
Accept ==
  /\ pc[Main] = "accept"
  /\ \/ /\ backlog = {} \/ \A f \in Fds : sock[f] # None
        /\ Goto(Main, "events")
        /\ UNCHANGED <<sock, backlog, fdOf, connOf>>
     \/ \E c \in backlog, f \in Fds :
          /\ sock[f] = None
          /\ sock' = [sock EXCEPT ![f] = c]
          /\ backlog' = backlog \ {c}
          /\ fdOf' = [fdOf EXCEPT ![Main] = f]
          /\ connOf' = [connOf EXCEPT ![Main] = c]
          /\ Goto(Main, "insert")
  /\ UNCHANGED <<interest, listening, net, server, objects, loc>>

\* connections_[connFd] = make_shared<Connection>(..) and its idle timer.
Insert ==
  /\ pc[Main] = "insert"
  /\ conns' = [conns EXCEPT ![fdOf[Main]] = connOf[Main]]
  /\ timers' = AddOrUpdate(fdOf[Main])
  /\ Goto(Main, "add")
  /\ UNCHANGED <<kernel, tasks, batch, expired, up, objects, fdOf, connOf, loc>>

\* Mutant: one accept() per event although listenFd_ is edge-triggered.
MutantAccepted == "events"
AfterAdd == "accept"

\* epoller_.add(connFd, ..): EBADF when a worker closed it in between.
Add ==
  /\ pc[Main] = "add"
  /\ interest' = [interest EXCEPT ![fdOf[Main]] =
                    IF sock[fdOf[Main]] = None THEN @ ELSE "in"]
  /\ Goto(Main, AfterAdd)
  /\ fdOf' = [fdOf EXCEPT ![Main] = None]
  /\ connOf' = [connOf EXCEPT ![Main] = None]
  /\ UNCHANGED <<sock, listening, backlog, net, server, objects, loc>>

\* closeIdleConnections(): timers_.popExpired(now) ...
PopExpired ==
  /\ pc[Main] = "events" /\ batch = {}
  /\ \E S \in SUBSET {f \in timers : MayExpire(f)} :
       /\ expired' = S
       /\ timers' = timers \ S
  /\ Goto(Main, "reap")
  /\ UNCHANGED <<kernel, conns, tasks, batch, up, objects, fdOf, connOf, loc>>

\* ... and then closeConnection() for each of them.
Reap ==
  /\ pc[Main] = "reap"
  /\ \/ /\ expired = {}
        /\ Goto(Main, "wait") /\ UNCHANGED fdOf
     \/ \E f \in expired : /\ fdOf' = [fdOf EXCEPT ![Main] = f]
                           /\ Goto(Main, "find")
  /\ UNCHANGED <<kernel, server, objects, connOf, loc>>

-----------------------------------------------------------------------------
(* closeConnection(fd), run by any thread *)

Find(t) ==
  LET f == fdOf[t] IN
  /\ pc[t] = "find"
  /\ IF conns[f] = None
     THEN /\ Return(t)
          /\ expired' = IF t = Main THEN expired \ {f} ELSE expired
          /\ UNCHANGED <<conns, timers>>
     ELSE /\ connOf' = [connOf EXCEPT ![t] = conns[f]]
          /\ conns' = Erase(f)
          /\ timers' = timers \ {f}
          /\ Goto(t, "mark")
          /\ UNCHANGED <<expired, fdOf, loc>>
  /\ UNCHANGED <<kernel, tasks, batch, up, objects>>

Mark(t) ==
  /\ pc[t] = "mark"
  /\ closed' = [closed EXCEPT ![connOf[t]] = TRUE]
  /\ Goto(t, "del")
  /\ UNCHANGED <<kernel, server, processing, readBuf, output, fdOf, connOf, loc>>

Del(t) ==
  /\ pc[t] = "del"
  /\ interest' = [interest EXCEPT ![fdOf[t]] = "none"]
  /\ Goto(t, "close")
  /\ UNCHANGED <<sock, listening, backlog, net, server, objects, fdOf, connOf, loc>>

\* close() also drops whatever registration a late epoll_ctl left behind.
Close(t) ==
  /\ pc[t] = "close"
  /\ sock' = [sock EXCEPT ![fdOf[t]] = None]
  /\ interest' = [interest EXCEPT ![fdOf[t]] = "none"]
  /\ expired' = IF t = Main THEN expired \ {fdOf[t]} ELSE expired
  /\ Return(t)
  /\ UNCHANGED <<listening, backlog, net, conns, timers, tasks, batch, up, objects>>

CloseStep(t) == Find(t) \/ Mark(t) \/ Del(t) \/ Close(t)

-----------------------------------------------------------------------------
(* A worker: workerLoop(), handleRead(), processConnectionTask(), handleWrite() *)

Take(w) ==
  /\ pc[w] = "idle" /\ tasks # <<>>
  /\ tasks' = Pop
  /\ fdOf' = [fdOf EXCEPT ![w] = Head(tasks).fd]
  /\ Goto(w, IF Head(tasks).kind = "dispatchRead" THEN "handleRead"
                                                  ELSE "handleWrite")
  /\ UNCHANGED <<kernel, conns, timers, batch, expired, up, objects, connOf, loc>>

\* getConnection(fd) on entry to each of the three functions.
GetConnection(w) ==
  LET c == conns[fdOf[w]] IN
  /\ pc[w] \in {"handleRead", "handleWrite", "process"}
  /\ IF c = None
     THEN Return(w)
     ELSE /\ connOf' = [connOf EXCEPT ![w] = c]
          /\ Goto(w, IF pc[w] = "handleRead" THEN "read"
                     ELSE IF pc[w] = "handleWrite" THEN "check" ELSE "extract")
          /\ UNCHANGED <<fdOf, loc>>
  /\ UNCHANGED <<kernel, server, objects>>

\* read(fd, ..): a segment, end of file, an error, or EAGAIN.
Read(w) ==
  LET s == sock[fdOf[w]] IN
  /\ pc[w] = "read"
  /\ \/ /\ s # None /\ Unread(s)
        /\ taken' = [taken EXCEPT ![s] = @ + 1]
        /\ seg' = [seg EXCEPT ![w] = [from |-> s, no |-> taken[s] + 1]]
        /\ Goto(w, "append")
     \/ /\ IF s = None THEN TRUE ELSE ~Unread(s) /\ peer[s] # "open"
        /\ Goto(w, "find") /\ UNCHANGED <<taken, seg>>
     \/ /\ s # None /\ ~Unread(s) /\ peer[s] = "open"
        /\ Goto(w, "touchProcess") /\ UNCHANGED <<taken, seg>>
  /\ UNCHANGED <<sock, interest, listening, backlog, sent, peer, got, server,
                 objects, fdOf, connOf, count>>

\* The segment is dropped when the connection was closed meanwhile.
AppendRead(w) ==
  /\ pc[w] = "append"
  /\ readBuf' = Appended(connOf[w], seg[w])
  /\ seg' = [seg EXCEPT ![w] = None]
  /\ Goto(w, "read")
  /\ UNCHANGED <<kernel, server, processing, closed, output, fdOf, connOf, count>>

\* timers_.addOrUpdate(fd, ..), whether or not fd still has a connection.
Touch(w) ==
  /\ pc[w] \in {"touchProcess", "touchRearm"}
  /\ timers' = AddOrUpdate(fdOf[w])
  /\ Goto(w, IF pc[w] = "touchProcess" THEN "process" ELSE "finishIn")
  /\ UNCHANGED <<kernel, conns, tasks, batch, expired, up, objects,
                 fdOf, connOf, loc>>

\* extractOneRequest(), or give up: processing_ = false and wait for input.
Extract(w) ==
  LET c == connOf[w] IN
  /\ pc[w] = "extract"
  /\ IF closed[c] \/ Len(readBuf[c]) < SegsPerRequest
     THEN /\ processing' = Release(c)
          /\ Mod(fdOf[w], "in")
          /\ Return(w)
          /\ UNCHANGED readBuf
     ELSE /\ readBuf' = [readBuf EXCEPT ![c] =
                           SubSeq(@, SegsPerRequest + 1, Len(@))]
          /\ seg' = [seg EXCEPT ![w] = readBuf[c][SegsPerRequest]]
          /\ Goto(w, "respond")
          /\ UNCHANGED <<interest, processing, fdOf, connOf, count>>
  /\ UNCHANGED <<sock, listening, backlog, net, server, closed, output>>

\* The response, named by its request's last segment, replaces writeBuf_.  It
\* is the last one when the request failed to parse or asked to close.
Respond(w) ==
  LET c == connOf[w] IN
  /\ pc[w] = "respond"
  /\ IF closed[c]
     THEN Return(w) /\ UNCHANGED output
     ELSE /\ writeBuf' = [writeBuf EXCEPT ![c] = seg[w]]
          /\ writeOffset' = [writeOffset EXCEPT ![c] = 0]
          /\ \E last \in BOOLEAN :
               closeAfterWrite' = [closeAfterWrite EXCEPT ![c] = last]
          /\ seg' = [seg EXCEPT ![w] = None]
          /\ Goto(w, "finishOut")
          /\ UNCHANGED <<fdOf, connOf, count>>
  /\ UNCHANGED <<kernel, server, processing, closed, readBuf>>

\* finishProcessing(conn) ...
FinishProcessing(w) ==
  LET c == connOf[w] IN
  /\ pc[w] \in {"finishOut", "finishIn"}
  /\ processing' = IF closed[c] THEN processing ELSE Release(c)
  /\ Goto(w, IF pc[w] = "finishOut" THEN "modOut" ELSE "modIn")
  /\ UNCHANGED <<kernel, server, closed, readBuf, output, fdOf, connOf, loc>>

\* ... and then epoller_.mod(fd, ..), the last use of the descriptor.
Wanted(w) == IF pc[w] = "modOut" THEN "out" ELSE "in"

Rearm(w) ==
  /\ pc[w] \in {"modOut", "modIn"}
  /\ Mod(fdOf[w], Wanted(w))
  /\ Return(w)
  /\ UNCHANGED <<sock, listening, backlog, net, server, objects>>

\* Head of the loop in handleWrite(): the iovec points at what is unsent.
Check(w) ==
  LET c == connOf[w] IN
  /\ pc[w] = "check"
  /\ IF closed[c] \/ ~HasWriteData(c)
     THEN Goto(w, "clear") /\ UNCHANGED loc
     ELSE /\ seg' = [seg EXCEPT ![w] = writeBuf[c]]
          /\ count' = [count EXCEPT ![w] = writeOffset[c]]
          /\ Goto(w, "writev")
  /\ UNCHANGED <<kernel, server, objects, fdOf, connOf>>

\* writev(fd, ..) puts some units on the socket behind fd.  The iovec points
\* into writeBuf_, which a second worker of the same descriptor could replace
\* under it; only ResponsesInOrder looks at these units, under "quiet" clocks
\* that never admit a second worker.
WriteSome(w) ==
  LET s == sock[fdOf[w]] IN
  /\ pc[w] = "writev"
  /\ s # None /\ peer[s] # "reset"
  /\ \E n \in 1..(RespLen - count[w]) :
       /\ got' = [got EXCEPT ![s] = @ \o
                    [i \in 1..n |-> [resp |-> seg[w], unit |-> count[w] + i]]]
       /\ count' = [count EXCEPT ![w] = n]
  /\ seg' = [seg EXCEPT ![w] = None]
  /\ Goto(w, "consume")
  /\ UNCHANGED <<sock, interest, listening, backlog, sent, taken, peer, server,
                 objects, fdOf, connOf>>

\* writev(fd, ..) that moves nothing: EAGAIN keeps the rest for later, an
\* error closes.
WriteNone(w) ==
  LET s == sock[fdOf[w]] IN
  /\ pc[w] = "writev"
  /\ Goto(w, IF s = None THEN "find"
             ELSE IF peer[s] = "reset" THEN "find" ELSE "finishOut")
  /\ seg' = [seg EXCEPT ![w] = None]
  /\ count' = [count EXCEPT ![w] = 0]
  /\ UNCHANGED <<kernel, server, objects, fdOf, connOf>>

\* SIGPIPE: no thread ignores it, and writev() has no MSG_NOSIGNAL.
SigPipe(w) ==
  LET s == sock[fdOf[w]] IN
  /\ pc[w] = "writev"
  /\ s # None /\ peer[s] = "reset"
  /\ up' = "killed"
  /\ UNCHANGED <<kernel, conns, timers, tasks, batch, expired, objects, threads>>

Consume(w) ==
  LET c == connOf[w] IN
  /\ pc[w] = "consume"
  /\ writeOffset' = IF writeBuf[c] = None THEN writeOffset
                    ELSE [writeOffset EXCEPT ![c] = Consumed(c, count[w])]
  /\ count' = [count EXCEPT ![w] = 0]
  /\ Goto(w, "check")
  /\ UNCHANGED <<kernel, server, processing, closed, readBuf, writeBuf,
                 closeAfterWrite, fdOf, connOf, seg>>

\* After the loop: clearWriteData(), then close, next request, or wait.
Clear(w) ==
  LET c == connOf[w] IN
  /\ pc[w] = "clear"
  /\ writeBuf' = [writeBuf EXCEPT ![c] = None]
  /\ writeOffset' = [writeOffset EXCEPT ![c] = 0]
  /\ Goto(w, IF closeAfterWrite[c] THEN "find"
             ELSE IF HasPendingRead(c) THEN "touchProcess" ELSE "touchRearm")
  /\ UNCHANGED <<kernel, server, processing, closed, readBuf, closeAfterWrite,
                 fdOf, connOf, loc>>

-----------------------------------------------------------------------------
(* stop(): from the destructor, once the event loop has returned *)

LeaveLoop ==
  /\ pc[Main] = "wait" /\ up = "stopping"
  /\ Goto(Main, "join")
  /\ UNCHANGED <<kernel, server, objects, fdOf, connOf, loc>>

\* workers_.stop() returns when the queue is drained and every worker left.
MutantDrained == tasks = <<>>
Drained == tasks = <<>> /\ \A w \in Workers : ~Busy(w)

Join ==
  /\ pc[Main] = "join" /\ Drained
  /\ Goto(Main, "closeAll")
  /\ UNCHANGED <<kernel, server, objects, fdOf, connOf, loc>>

CloseAll ==
  LET open == {f \in Fds : conns[f] # None} IN
  /\ pc[Main] = "closeAll"
  /\ closed' = [c \in Conns |-> closed[c] \/ \E f \in open : conns[f] = c]
  /\ sock' = [f \in Fds |-> IF f \in open THEN None ELSE sock[f]]
  /\ interest' = [f \in Fds |-> IF f \in open THEN "none" ELSE interest[f]]
  /\ conns' = [f \in Fds |-> None]
  /\ Goto(Main, "stopped")
  /\ UNCHANGED <<listening, backlog, net, timers, tasks, batch, expired, up,
                 processing, readBuf, output, fdOf, connOf, loc>>

-----------------------------------------------------------------------------
MainStep ==
  \/ EpollWait \/ HandleEvent \/ Dispatch \/ Accept \/ Insert \/ Add
  \/ PopExpired \/ Reap \/ CloseStep(Main) \/ LeaveLoop \/ Join \/ CloseAll

WorkerStep(w) ==
  \/ Take(w) \/ GetConnection(w) \/ Read(w) \/ AppendRead(w) \/ Touch(w)
  \/ Extract(w) \/ Respond(w) \/ FinishProcessing(w) \/ Rearm(w) \/ Check(w)
  \/ WriteSome(w) \/ WriteNone(w) \/ SigPipe(w) \/ Consume(w) \/ Clear(w)
  \/ CloseStep(w)

ClientStep(c) == Connect(c) \/ Send(c) \/ Shut(c) \/ Reset(c)

\* The process is gone: stop() has returned, or a signal killed it.
Over == pc[Main] = "stopped" \/ up = "killed"

Next ==
  \/ /\ up # "killed"
     /\ \/ MainStep
        \/ \E w \in Workers : WorkerStep(w)
        \/ \E c \in Conns : ClientStep(c)
        \/ RequestStop
  \/ Over /\ UNCHANGED vars

Spec == Init /\ [][Next]_vars
-----------------------------------------------------------------------------
(* Safety *)

Closing(f) == {t \in Threads : pc[t] \in {"mark", "del", "close"} /\ fdOf[t] = f}
Accepting(f) == pc[Main] = "insert" /\ fdOf[Main] = f

\* Every open descriptor has exactly one owner that will close it: the map,
\* the accept loop that has just received it, or one thread inside
\* closeConnection().  A descriptor is never closed twice and never leaks,
\* and the owner's Connection is the one accepted on that very socket.
FdOwnership ==
  \A f \in Fds :
    /\ sock[f] = None <=> conns[f] = None /\ ~Accepting(f) /\ Closing(f) = {}
    /\ conns[f] # None => /\ ~Accepting(f) /\ Closing(f) = {}
                          /\ conns[f] = sock[f] /\ ~closed[conns[f]]
    /\ Accepting(f) => Closing(f) = {} /\ connOf[Main] = sock[f]
    /\ \A t, u \in Closing(f) : t = u /\ connOf[t] = sock[f]

\* A connection in the map always has a deadline, or has been popped and is
\* about to be closed: no thread's removal takes the timer of a later
\* connection with the same descriptor.
TimerCoverage ==
  \A f \in Fds : conns[f] # None => f \in timers \cup expired

\* What a worker read from a reused descriptor never ends up in the buffers
\* of another client's Connection.
NoForeignBytes ==
  \A c \in Conns :
    /\ \A i \in 1..Len(readBuf[c]) : readBuf[c][i].from = c
    /\ writeBuf[c] # None => writeBuf[c].from = c

\* Somebody still has f on its list.
InHands(f) ==
  \/ Held(f)
  \/ fdOf[Main] = f
  \/ f \in expired
  \/ \E e \in batch : e.fd = f

\* A connection in the map can always make progress: a task, a worker or the
\* event loop has it, or else it is armed in epoll and the next event will be
\* dispatched instead of swallowed by beginProcessing().
NoStuck ==
  \A f \in Fds :
    conns[f] # None /\ ~InHands(f) =>
      interest[f] \in {"in", "out"} /\ ~processing[conns[f]]

\* stop() leaves no descriptor open and no live Connection.
CleanStop ==
  pc[Main] = "stopped" =>
    \A f \in Fds : sock[f] = None /\ interest[f] = "none" /\ conns[f] = None

\* EPOLLONESHOT and processing_: one worker or queued task per descriptor.
OneWorkerPerFd ==
  \A f \in Fds :
    Cardinality({w \in Workers : Busy(w) /\ fdOf[w] = f})
      + Cardinality({i \in 1..Len(tasks) : tasks[i].fd = f}) <= 1

\* The unit at position i of a client's correct response stream.
Expected(c, i) ==
  [resp |-> [from |-> c, no |-> ((i - 1) \div RespLen + 1) * SegsPerRequest],
   unit |-> ((i - 1) % RespLen) + 1]

\* Each client receives the responses to its own requests, in order, without
\* a gap, a repetition or a byte of another client's.
ResponsesInOrder ==
  \A c \in Conns : \A i \in 1..Len(got[c]) : got[c][i] = Expected(c, i)

-----------------------------------------------------------------------------
(* Progress *)

\* Threads are scheduled, and epoll_wait() returns every second.
ThreadsRun == WF_vars(MainStep) /\ \A w \in Workers : WF_vars(WorkerStep(w))

\* A ready descriptor is eventually reported.
Reported(f) == EpollWait /\ \E e \in batch' : e.fd = f

\* A client eventually drains its socket.
ClientsRead == \A w \in Workers : SF_vars(WriteSome(w))

\* A deadline that is in the past is popped.
TimersFire == \A f \in Fds : SF_vars(PopExpired /\ f \in expired')

FairSpec ==
  Spec /\ ThreadsRun /\ ClientsRead /\ \A f \in Fds \cup {None} : SF_vars(Reported(f))

\* Only the listening socket has to be reported.
IdleSpec == Spec /\ ThreadsRun /\ TimersFire /\ SF_vars(Reported(None))

\* The idle timer closes every descriptor of a client that has fallen silent,
\* whatever the workers and the stale tasks do.  One that goes on sending
\* renews its deadline and is not closed; TimersFire, which takes every
\* deadline to pass in the end, is about the silent ones, and the clients of
\* the run send nothing.
IdleReclaimed ==
  \A f \in Fds : sock[f] # None ~> sock[f] = None \/ up = "killed"

Gone(c) == peer[c] # "open" \/ up # "running" \/ ~Attached(c)

\* The clients stop sending at some time.  Nothing else ends handleRead(): it
\* reads until EAGAIN and looks neither at running_ nor at what it has got, so
\* a client that never pauses holds a worker, and stop(), for ever.
ClientsPause == <>[][sent' = sent]_vars

\* If the clients pause, a complete request is answered in full, unless the
\* client leaves, the server stops or the connection is closed after an
\* earlier response.
Answered ==
  ClientsPause =>
    \A c \in Conns : \A k \in 1..(MaxSegs \div SegsPerRequest) :
      sent[c] >= k * SegsPerRequest ~> Len(got[c]) >= k * RespLen \/ Gone(c)

\* If the clients pause, stop() returns after a signal, whatever is queued or
\* half done: the loop ends, the queue drains, and no worker is held up by a
\* socket.  (HttpServer has no condition variable; Ends is about that.)
Stopped ==
  ClientsPause => (up = "stopping" ~> pc[Main] = "stopped" \/ up = "killed")

\* A client that connects is accepted.
Accepted ==
  \A c \in Conns : c \in backlog ~> c \notin backlog \/ up # "running"
=============================================================================
