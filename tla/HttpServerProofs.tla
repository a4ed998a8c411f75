-------------------------- MODULE HttpServerProofs --------------------------
(***************************************************************************)
(* Proofs about HttpServer, for any number of clients, descriptors and     *)
(* workers, any bounds and any choice of IdleExpiry.  The invariant is     *)
(* built in three layers, each proved with the help of those below it:     *)
(*   Typing  what the variables hold and what each pc implies;             *)
(*   Owning  who is responsible for each descriptor (FdOwnership);         *)
(*   the safety properties that follow from ownership.                     *)
(* On top of it, MovingInv: who still has each connection of the map.      *)
(***************************************************************************)
EXTENDS HttpServer, SequenceTheorems, TLAPS

\* Program counters at which a thread has a descriptor, a Connection, or a
\* segment in its hands.
FdPcs   == (WorkerPcs \ {"idle"}) \cup ClosePcs \cup Kinds \cup {"insert", "add"}
ConnPcs == FdPcs \ {"find", "handleRead", "handleWrite"}
SegPcs  == {"append", "respond", "writev"}

LocalsOf(t) ==
  /\ t = Main => pc[t] \in MainPcs \cup ClosePcs
  /\ t \in Workers => pc[t] \in WorkerPcs \cup ClosePcs
  /\ pc[t] \in FdPcs => fdOf[t] \in Fds
  /\ pc[t] \in ConnPcs => connOf[t] \in Conns
  /\ pc[t] \in SegPcs => seg[t] \in Segment

Locals == \A t \in Threads : LocalsOf(t)

Typing == TypeOK /\ Locals

\* A socket is behind at most one descriptor, and a Connection is marked
\* closed only once its descriptor is being closed.
Sockets ==
  /\ \A f, g \in Fds : sock[f] = sock[g] /\ sock[f] # None => f = g
  /\ \A c \in Conns : c \in backlog \/ peer[c] = "new" =>
       ~closed[c] /\ \A f \in Fds : sock[f] # c
  /\ \A c \in Conns : c \in backlog => peer[c] # "new"
  /\ \A f \in Fds : Accepting(f) => ~closed[sock[f]]
  /\ \A t \in Threads : pc[t] \in {"del", "close"} => closed[connOf[t]]

Owning == Sockets /\ FdOwnership

\* A worker's Connection is the one behind its descriptor, or is closed, and
\* a segment it is about to append, or to answer, is that Connection's own.
HoldsOwn(w) ==
  /\ pc[w] \in ConnPcs => sock[fdOf[w]] = connOf[w] \/ closed[connOf[w]]
  /\ pc[w] = "append" => seg[w].from = connOf[w] \/ closed[connOf[w]]
  /\ pc[w] = "respond" => seg[w].from = connOf[w]

HoldOwn == \A w \in Workers : HoldsOwn(w)

\* Only a registration that epoll still has can be armed.
Registered == \A f \in Fds : interest[f] # "none" => sock[f] # None

\* stop() closes the connections only after the workers have left.
Quiesced == pc[Main] \in {"closeAll", "stopped"} => Drained

\* stop() empties the map.
Unmapped == pc[Main] = "stopped" => \A f \in Fds : conns[f] = None

\* Expired descriptors are pending only while the event loop reaps them.
Reaping ==
  expired # {} => pc[Main] \in {"reap", "find", "mark", "del", "close"}
-----------------------------------------------------------------------------
USE DEF kernel, server, objects, threads, net, output, loc, Goto

\* A step of thread t leaves the other threads where they were.
OnlyMoves(t) ==
  \A u \in Threads \ {t} : /\ pc'[u] = pc[u] /\ fdOf'[u] = fdOf[u]
                           /\ connOf'[u] = connOf[u] /\ seg'[u] = seg[u]

LEMMA LocalsMove ==
  ASSUME Locals, NEW t \in Threads, OnlyMoves(t), LocalsOf(t)' PROVE Locals'
BY DEF Locals, LocalsOf, OnlyMoves

\* Every step of the server keeps the types and the threads' locals.
LEMMA TypingStep == ASSUME ServerAssumption, Typing, [Next]_vars PROVE Typing'
<1> USE DEF Typing, ServerAssumption
<1>1. ASSUME EpollWait PROVE Typing'
  <2>1. Main \in Threads
    BY <1>1 DEF Threads
  <2>2. TypeOK'
    <3>5. \A W \in SUBSET OutArmed : Ready(W) \subseteq Events
      BY <1>1, <2>1 DEF Ready, HupReady, InReady, OutArmed, Events
    <3>1. KernelTypes'
      BY <1>1, <2>1, <3>5, SMTT(20) DEF TypeOK, KernelTypes, EpollWait
    <3>2. ServerTypes'
      BY <1>1, <2>1, <3>5, SMTT(20) DEF TypeOK, ServerTypes, EpollWait
    <3>3. ObjectTypes'
      BY <1>1, <2>1, <3>5, SMTT(20) DEF TypeOK, ObjectTypes, EpollWait
    <3>4. ThreadTypes'
      BY <1>1, <2>1, <3>5, SMTT(20) DEF TypeOK, ThreadTypes, MainPcs, EpollWait
    <3> QED BY <3>1, <3>2, <3>3, <3>4 DEF TypeOK
  <2>3. LocalsOf(Main)'
    BY <1>1, <2>1, SMTT(20)
       DEF LocalsOf, Kinds, ClosePcs, WorkerPcs, MainPcs, FdPcs, ConnPcs,
           SegPcs, EpollWait
  <2>4. OnlyMoves(Main)
    BY <1>1, <2>1 DEF OnlyMoves, EpollWait
  <2> QED BY <2>1, <2>2, <2>3, <2>4, LocalsMove
<1>2. ASSUME HandleEvent PROVE Typing'
  <2>1. Main \in Threads
    BY <1>2
       DEF Threads, Locals, LocalsOf, Kinds, ClosePcs, WorkerPcs, MainPcs,
           FdPcs, ConnPcs, SegPcs, HandleEvent
  <2>2. TypeOK'
    <3>5. PICK e \in batch :
             \/ e = Listen /\ Goto(Main, "accept") /\ UNCHANGED <<fdOf, connOf>>
             \/ /\ e.ev = "hup"
                /\ fdOf' = [fdOf EXCEPT ![Main] = e.fd]
                /\ Goto(Main, "find") /\ UNCHANGED connOf
             \/ /\ e.ev \in {"in", "out"} /\ conns[e.fd] = None
                /\ UNCHANGED <<pc, fdOf, connOf>>
             \/ /\ e.ev \in {"in", "out"} /\ conns[e.fd] # None
                /\ fdOf' = [fdOf EXCEPT ![Main] = e.fd]
                /\ connOf' = [connOf EXCEPT ![Main] = conns[e.fd]]
                /\ Goto(Main, IF e.ev = "in" THEN "dispatchRead"
                                             ELSE "dispatchWrite")
      BY <1>2 DEF HandleEvent
    <3>6. e.ev \in {"hup", "in", "out"} => e.fd \in Fds /\ conns[e.fd] \in Conns \cup {None}
      BY DEF TypeOK, ServerTypes, Events, Listen
    <3>1. KernelTypes'
      BY <1>2, <2>1, <3>5, SMTT(20) DEF TypeOK, KernelTypes, HandleEvent
    <3>2. ServerTypes'
      BY <1>2, <2>1, <3>5, SMTT(20) DEF TypeOK, ServerTypes, HandleEvent
    <3>3. ObjectTypes'
      BY <1>2, <2>1, <3>5, SMTT(20) DEF TypeOK, ObjectTypes, HandleEvent
    <3>4. ThreadTypes'
      BY <1>2, <2>1, <3>5, <3>6
         DEF TypeOK, ThreadTypes, Kinds, ClosePcs, MainPcs, HandleEvent
    <3> QED BY <3>1, <3>2, <3>3, <3>4 DEF TypeOK
  <2>3. LocalsOf(Main)'
    BY <1>2, <2>1, SMTT(20)
       DEF TypeOK, ThreadTypes, ServerTypes, LocalsOf, Kinds, ClosePcs,
           WorkerPcs, MainPcs, FdPcs, ConnPcs, SegPcs, HandleEvent, Events,
           Listen
  <2>4. OnlyMoves(Main)
    BY <1>2, <2>1 DEF OnlyMoves, TypeOK, ThreadTypes, HandleEvent, Events
  <2> QED BY <2>1, <2>2, <2>3, <2>4, LocalsMove
<1>3. ASSUME Dispatch PROVE Typing'
  <2>1. Main \in Threads /\ fdOf[Main] \in Fds /\ connOf[Main] \in Conns
    BY <1>3
       DEF Threads, Locals, LocalsOf, Kinds, ClosePcs, WorkerPcs, MainPcs,
           FdPcs, ConnPcs, SegPcs, Dispatch, MayBegin
  <2>2. TypeOK'
    <3>5. Append(tasks, [kind |-> pc[Main], fd |-> fdOf[Main]]) \in Seq(Task)
      BY <1>3, <2>1 DEF TypeOK, ServerTypes, Task, Dispatch
    <3>1. KernelTypes'
      BY <1>3, <2>1, <3>5, SMTT(20) DEF TypeOK, KernelTypes, Dispatch
    <3>2. ServerTypes'
      <4>1. \/ tasks' = tasks
            \/ tasks' = Append(tasks, [kind |-> pc[Main], fd |-> fdOf[Main]])
        BY <1>3 DEF Dispatch
      <4>2. tasks' \in Seq(Task)
        BY <3>5, <4>1 DEF TypeOK, ServerTypes
      <4> QED BY <1>3, <4>2 DEF TypeOK, ServerTypes, Dispatch
    <3>3. ObjectTypes'
      <4>1. processing' \in [Conns -> BOOLEAN]
        BY <1>3, <2>1 DEF TypeOK, ObjectTypes, Dispatch
      <4> QED BY <1>3, <4>1 DEF TypeOK, ObjectTypes, Dispatch
    <3>4. ThreadTypes'
      BY <1>3, <2>1, <3>5, SMTT(20)
         DEF TypeOK, ThreadTypes, MainPcs, Dispatch, Return
    <3> QED BY <3>1, <3>2, <3>3, <3>4 DEF TypeOK
  <2>3. LocalsOf(Main)'
    BY <1>3, <2>1, SMTT(20)
       DEF TypeOK, ThreadTypes, LocalsOf, Kinds, ClosePcs, WorkerPcs, MainPcs,
           FdPcs, ConnPcs, SegPcs, Dispatch, Return
  <2>4. OnlyMoves(Main)
    BY <1>3, <2>1 DEF OnlyMoves, Dispatch, Return
  <2> QED BY <2>1, <2>2, <2>3, <2>4, LocalsMove
<1>4. ASSUME Accept PROVE Typing'
  <2>1. Main \in Threads
    BY <1>4
       DEF Threads, Locals, LocalsOf, Kinds, ClosePcs, WorkerPcs, MainPcs,
           FdPcs, ConnPcs, SegPcs, Accept
  <2>2. TypeOK'
    <3>5. backlog \subseteq Conns
      BY <1>4, <2>1 DEF TypeOK, KernelTypes
    <3>1. KernelTypes'
      <4>1. CASE UNCHANGED <<sock, backlog>>
        BY <1>4, <4>1 DEF TypeOK, KernelTypes, Accept
      <4>2. CASE \E c \in backlog, f \in Fds : sock' = [sock EXCEPT ![f] = c]
                                            /\ backlog' = backlog \ {c}
        BY <1>4, <3>5, <4>2 DEF TypeOK, KernelTypes, Accept
      <4> QED BY <1>4, <4>1, <4>2 DEF Accept
    <3>2. ServerTypes'
      BY <1>4, <2>1, <3>5, SMTT(20) DEF TypeOK, ServerTypes, Accept
    <3>3. ObjectTypes'
      BY <1>4, <2>1, <3>5, SMTT(20) DEF TypeOK, ObjectTypes, Accept
    <3>4. ThreadTypes'
      BY <1>4, <2>1, <3>5, SMTT(20) DEF TypeOK, ThreadTypes, MainPcs, Accept
    <3> QED BY <3>1, <3>2, <3>3, <3>4 DEF TypeOK
  <2>3. LocalsOf(Main)'
    BY <1>4, <2>1, SMTT(20)
       DEF TypeOK, ThreadTypes, KernelTypes, LocalsOf, Kinds, ClosePcs,
           WorkerPcs, MainPcs, FdPcs, ConnPcs, SegPcs, Accept
  <2>4. OnlyMoves(Main)
    BY <1>4, <2>1 DEF OnlyMoves, TypeOK, ThreadTypes, Accept
  <2> QED BY <2>1, <2>2, <2>3, <2>4, LocalsMove
<1>5. ASSUME Insert PROVE Typing'
  <2>1. Main \in Threads /\ fdOf[Main] \in Fds /\ connOf[Main] \in Conns
    BY <1>5
       DEF Threads, Locals, LocalsOf, Kinds, ClosePcs, WorkerPcs, MainPcs,
           FdPcs, ConnPcs, SegPcs, Insert
  <2>2. TypeOK'
    BY <1>5, <2>1, SMTT(20)
       DEF TypeOK, KernelTypes, ServerTypes, ObjectTypes, ThreadTypes,
           WorkerPcs, MainPcs, Insert, AddOrUpdate
  <2>3. LocalsOf(Main)'
    BY <1>5, <2>1, SMTT(20) DEF LocalsOf, MainPcs, SegPcs, Insert
  <2>4. OnlyMoves(Main)
    BY <1>5, <2>1 DEF OnlyMoves, Insert
  <2> QED BY <2>1, <2>2, <2>3, <2>4, LocalsMove
<1>6. ASSUME Add PROVE Typing'
  <2>1. Main \in Threads /\ fdOf[Main] \in Fds /\ connOf[Main] \in Conns
    BY <1>6
       DEF Threads, Locals, LocalsOf, Kinds, ClosePcs, WorkerPcs, MainPcs,
           FdPcs, ConnPcs, SegPcs, Add
  <2>2. TypeOK'
    BY <1>6, <2>1, SMTT(20)
       DEF TypeOK, KernelTypes, ServerTypes, ObjectTypes, ThreadTypes,
           ClosePcs, WorkerPcs, MainPcs, Add, AfterAdd
  <2>3. LocalsOf(Main)'
    BY <1>6, <2>1, SMTT(20)
       DEF TypeOK, ThreadTypes, LocalsOf, Kinds, ClosePcs, WorkerPcs, MainPcs,
           FdPcs, ConnPcs, SegPcs, Add, AfterAdd
  <2>4. OnlyMoves(Main)
    BY <1>6, <2>1 DEF OnlyMoves, Add
  <2> QED BY <2>1, <2>2, <2>3, <2>4, LocalsMove
<1>7. ASSUME PopExpired PROVE Typing'
  <2>1. Main \in Threads
    BY <1>7
       DEF Threads, Locals, LocalsOf, Kinds, ClosePcs, WorkerPcs, MainPcs,
           FdPcs, ConnPcs, SegPcs, PopExpired
  <2>2. TypeOK'
    BY <1>7, <2>1, SMTT(20)
       DEF TypeOK, KernelTypes, ServerTypes, ObjectTypes, ThreadTypes, MainPcs,
           PopExpired
  <2>3. LocalsOf(Main)'
    BY <1>7, <2>1, SMTT(20)
       DEF LocalsOf, Kinds, ClosePcs, WorkerPcs, MainPcs, FdPcs, ConnPcs,
           SegPcs, PopExpired
  <2>4. OnlyMoves(Main)
    BY <1>7, <2>1 DEF OnlyMoves, PopExpired
  <2> QED BY <2>1, <2>2, <2>3, <2>4, LocalsMove
<1>8. ASSUME Reap PROVE Typing'
  <2>1. Main \in Threads
    BY <1>8
       DEF Threads, Locals, LocalsOf, Kinds, ClosePcs, WorkerPcs, MainPcs,
           FdPcs, ConnPcs, SegPcs, Reap
  <2>2. TypeOK'
    <3>5. expired \subseteq Fds
      BY <1>8, <2>1 DEF TypeOK, ServerTypes
    <3>1. KernelTypes'
      BY <1>8, <2>1, <3>5, SMTT(20) DEF TypeOK, KernelTypes, Reap
    <3>2. ServerTypes'
      BY <1>8, <2>1, <3>5, SMTT(20) DEF TypeOK, ServerTypes, Reap
    <3>3. ObjectTypes'
      BY <1>8, <2>1, <3>5, SMTT(20) DEF TypeOK, ObjectTypes, Reap
    <3>4. ThreadTypes'
      BY <1>8, <2>1, <3>5, SMTT(20)
         DEF TypeOK, ThreadTypes, ClosePcs, MainPcs, Reap
    <3> QED BY <3>1, <3>2, <3>3, <3>4 DEF TypeOK
  <2>3. LocalsOf(Main)'
    BY <1>8, <2>1, SMTT(20)
       DEF TypeOK, ThreadTypes, ServerTypes, LocalsOf, Kinds, ClosePcs,
           WorkerPcs, MainPcs, FdPcs, ConnPcs, SegPcs, Reap
  <2>4. OnlyMoves(Main)
    BY <1>8, <2>1 DEF OnlyMoves, TypeOK, ThreadTypes, Reap
  <2> QED BY <2>1, <2>2, <2>3, <2>4, LocalsMove
<1>9. ASSUME LeaveLoop PROVE Typing'
  <2>1. Main \in Threads
    BY <1>9
       DEF Threads, Locals, LocalsOf, Kinds, ClosePcs, WorkerPcs, MainPcs,
           FdPcs, ConnPcs, SegPcs, LeaveLoop
  <2>2. TypeOK'
    BY <1>9, <2>1, SMTT(20)
       DEF TypeOK, KernelTypes, ServerTypes, ObjectTypes, ThreadTypes, MainPcs,
           LeaveLoop
  <2>3. LocalsOf(Main)'
    BY <1>9, <2>1, SMTT(20)
       DEF LocalsOf, Kinds, ClosePcs, WorkerPcs, MainPcs, FdPcs, ConnPcs,
           SegPcs, LeaveLoop
  <2>4. OnlyMoves(Main)
    BY <1>9, <2>1 DEF OnlyMoves, LeaveLoop
  <2> QED BY <2>1, <2>2, <2>3, <2>4, LocalsMove
<1>10. ASSUME Join PROVE Typing'
  <2>1. Main \in Threads
    BY <1>10
       DEF Threads, Locals, LocalsOf, Kinds, ClosePcs, WorkerPcs, MainPcs,
           FdPcs, ConnPcs, SegPcs, Join
  <2>2. TypeOK'
    BY <1>10, <2>1, SMTT(20)
       DEF TypeOK, KernelTypes, ServerTypes, ObjectTypes, ThreadTypes, MainPcs,
           Join
  <2>3. LocalsOf(Main)'
    BY <1>10, <2>1, SMTT(20)
       DEF LocalsOf, Kinds, ClosePcs, WorkerPcs, MainPcs, FdPcs, ConnPcs,
           SegPcs, Join
  <2>4. OnlyMoves(Main)
    BY <1>10, <2>1 DEF OnlyMoves, Join
  <2> QED BY <2>1, <2>2, <2>3, <2>4, LocalsMove
<1>11. ASSUME CloseAll PROVE Typing'
  <2>1. Main \in Threads
    BY <1>11
       DEF Threads, Locals, LocalsOf, Kinds, ClosePcs, WorkerPcs, MainPcs,
           FdPcs, ConnPcs, SegPcs, CloseAll
  <2>2. TypeOK'
    BY <1>11, <2>1, SMTT(20)
       DEF TypeOK, KernelTypes, ServerTypes, ObjectTypes, ThreadTypes, MainPcs,
           CloseAll
  <2>3. LocalsOf(Main)'
    BY <1>11, <2>1, SMTT(20)
       DEF LocalsOf, Kinds, ClosePcs, WorkerPcs, MainPcs, FdPcs, ConnPcs,
           SegPcs, CloseAll
  <2>4. OnlyMoves(Main)
    BY <1>11, <2>1 DEF OnlyMoves, CloseAll
  <2> QED BY <2>1, <2>2, <2>3, <2>4, LocalsMove
<1>12. ASSUME NEW t \in Threads, Find(t) PROVE Typing'
  <2>1. t \in Threads /\ fdOf[t] \in Fds
    BY <1>12
       DEF Threads, Locals, LocalsOf, Kinds, ClosePcs, WorkerPcs, MainPcs,
           FdPcs, ConnPcs, SegPcs, Find
  <2>2. TypeOK'
    <3>5. conns[fdOf[t]] \in Conns \cup {None}
      BY <1>12, <2>1 DEF TypeOK, ServerTypes
    <3>1. KernelTypes'
      BY <1>12, <2>1, <3>5, SMTT(20) DEF TypeOK, KernelTypes, Find
    <3>2. ServerTypes'
      BY <1>12, <2>1, <3>5, SMTT(20) DEF TypeOK, ServerTypes, Find, Erase
    <3>3. ObjectTypes'
      BY <1>12, <2>1, <3>5, SMTT(20) DEF TypeOK, ObjectTypes, Find
    <3>4. ThreadTypes'
      BY <1>12, <2>1, <3>5, SMTT(20)
         DEF TypeOK, ThreadTypes, ClosePcs, WorkerPcs, MainPcs, Find, Return
    <3> QED BY <3>1, <3>2, <3>3, <3>4 DEF TypeOK
  <2>3. LocalsOf(t)'
    BY <1>12, <2>1, SMTT(20)
       DEF TypeOK, ThreadTypes, ServerTypes, LocalsOf, Kinds, ClosePcs,
           WorkerPcs, MainPcs, FdPcs, ConnPcs, SegPcs, Find, Return
  <2>4. OnlyMoves(t)
    BY <1>12, <2>1 DEF OnlyMoves, TypeOK, ThreadTypes, Find, Return
  <2> QED BY <2>1, <2>2, <2>3, <2>4, LocalsMove
<1>13. ASSUME NEW t \in Threads, Mark(t) PROVE Typing'
  <2>1. t \in Threads /\ fdOf[t] \in Fds /\ connOf[t] \in Conns
    BY <1>13
       DEF Threads, Locals, LocalsOf, Kinds, ClosePcs, WorkerPcs, MainPcs,
           FdPcs, ConnPcs, SegPcs, Mark
  <2>2. TypeOK'
    BY <1>13, <2>1, SMTT(20)
       DEF TypeOK, KernelTypes, ServerTypes, ObjectTypes, ThreadTypes,
           ClosePcs, WorkerPcs, Mark
  <2>3. LocalsOf(t)'
    BY <1>13, <2>1, SMTT(20) DEF LocalsOf, ClosePcs, SegPcs, Mark
  <2>4. OnlyMoves(t)
    BY <1>13, <2>1 DEF OnlyMoves, Mark
  <2> QED BY <2>1, <2>2, <2>3, <2>4, LocalsMove
<1>14. ASSUME NEW t \in Threads, Del(t) PROVE Typing'
  <2>1. t \in Threads /\ fdOf[t] \in Fds /\ connOf[t] \in Conns
    BY <1>14
       DEF Threads, Locals, LocalsOf, Kinds, ClosePcs, WorkerPcs, MainPcs,
           FdPcs, ConnPcs, SegPcs, Del
  <2>2. TypeOK'
    BY <1>14, <2>1, SMTT(20)
       DEF TypeOK, KernelTypes, ServerTypes, ObjectTypes, ThreadTypes,
           ClosePcs, Del
  <2>3. LocalsOf(t)'
    BY <1>14, <2>1, SMTT(20) DEF LocalsOf, ClosePcs, SegPcs, Del
  <2>4. OnlyMoves(t)
    BY <1>14, <2>1 DEF OnlyMoves, Del
  <2> QED BY <2>1, <2>2, <2>3, <2>4, LocalsMove
<1>15. ASSUME NEW t \in Threads, Close(t) PROVE Typing'
  <2>1. t \in Threads /\ fdOf[t] \in Fds /\ connOf[t] \in Conns
    BY <1>15
       DEF Threads, Locals, LocalsOf, Kinds, ClosePcs, WorkerPcs, MainPcs,
           FdPcs, ConnPcs, SegPcs, Close
  <2>2. TypeOK'
    BY <1>15, <2>1, SMTT(20)
       DEF TypeOK, KernelTypes, ServerTypes, ObjectTypes, ThreadTypes,
           WorkerPcs, MainPcs, Close, Return
  <2>3. LocalsOf(t)'
    BY <1>15, <2>1, SMTT(20)
       DEF TypeOK, ThreadTypes, LocalsOf, Kinds, ClosePcs, WorkerPcs, MainPcs,
           FdPcs, ConnPcs, SegPcs, Close, Return
  <2>4. OnlyMoves(t)
    BY <1>15, <2>1 DEF OnlyMoves, Close, Return
  <2> QED BY <2>1, <2>2, <2>3, <2>4, LocalsMove
<1>16. ASSUME NEW w \in Workers, Take(w) PROVE Typing'
  <2>1. w \in Threads
    BY <1>16
       DEF Threads, Locals, LocalsOf, Kinds, ClosePcs, WorkerPcs, MainPcs,
           FdPcs, ConnPcs, SegPcs, Take
  <2>5. Head(tasks) \in Task /\ Tail(tasks) \in Seq(Task)
    BY <1>16, HeadTailProperties DEF TypeOK, ServerTypes, Take
  <2>6. Head(tasks).fd \in Fds
    BY <2>5 DEF Task
  <2>2. TypeOK'
    <3>1. KernelTypes'
      BY <1>16, <2>1, <2>5, <2>6, SMTT(20) DEF TypeOK, KernelTypes, Take
    <3>2. ServerTypes'
      BY <1>16, <2>1, <2>5, <2>6, SMTT(20) DEF TypeOK, ServerTypes, Take, Pop
    <3>3. ObjectTypes'
      BY <1>16, <2>1, <2>5, <2>6, SMTT(20) DEF TypeOK, ObjectTypes, Take
    <3>4. ThreadTypes'
      BY <1>16, <2>1, <2>5, <2>6, SMTT(20)
         DEF TypeOK, ThreadTypes, WorkerPcs, Take
    <3> QED BY <3>1, <3>2, <3>3, <3>4 DEF TypeOK
  <2>3. LocalsOf(w)'
    BY <1>16, <2>1, <2>6
       DEF TypeOK, ThreadTypes, LocalsOf, WorkerPcs, ConnPcs, SegPcs, Take
  <2>4. OnlyMoves(w)
    BY <1>16, <2>1 DEF OnlyMoves, Take
  <2> QED BY <2>1, <2>2, <2>3, <2>4, LocalsMove
<1>17. ASSUME NEW w \in Workers, GetConnection(w) PROVE Typing'
  <2>1. w \in Threads /\ fdOf[w] \in Fds
    BY <1>17
       DEF Threads, Locals, LocalsOf, Kinds, ClosePcs, WorkerPcs, MainPcs,
           FdPcs, ConnPcs, SegPcs, GetConnection
  <2>2. TypeOK'
    <3>5. conns[fdOf[w]] \in Conns \cup {None}
      BY <1>17, <2>1 DEF TypeOK, ServerTypes
    <3>1. KernelTypes'
      BY <1>17, <2>1, <3>5, SMTT(20) DEF TypeOK, KernelTypes, GetConnection
    <3>2. ServerTypes'
      BY <1>17, <2>1, <3>5, SMTT(20) DEF TypeOK, ServerTypes, GetConnection
    <3>3. ObjectTypes'
      BY <1>17, <2>1, <3>5, SMTT(20) DEF TypeOK, ObjectTypes, GetConnection
    <3>4. ThreadTypes'
      BY <1>17, <2>1, <3>5, SMTT(20)
         DEF TypeOK, ThreadTypes, WorkerPcs, GetConnection, Return
    <3> QED BY <3>1, <3>2, <3>3, <3>4 DEF TypeOK
  <2>3. LocalsOf(w)'
    BY <1>17, <2>1, SMTT(20)
       DEF TypeOK, ThreadTypes, ServerTypes, LocalsOf, Kinds, ClosePcs,
           WorkerPcs, FdPcs, ConnPcs, SegPcs, GetConnection, Return
  <2>4. OnlyMoves(w)
    BY <1>17, <2>1 DEF OnlyMoves, TypeOK, ThreadTypes, GetConnection, Return
  <2> QED BY <2>1, <2>2, <2>3, <2>4, LocalsMove
<1>18. ASSUME NEW w \in Workers, Read(w) PROVE Typing'
  <2>1. w \in Threads /\ fdOf[w] \in Fds /\ connOf[w] \in Conns
    BY <1>18
       DEF Threads, Locals, LocalsOf, Kinds, ClosePcs, WorkerPcs, MainPcs,
           FdPcs, ConnPcs, SegPcs, Read
  <2>2. TypeOK'
    <3>5. /\ sock[fdOf[w]] \in Conns \cup {None}
         /\ \A c \in Conns : [from |-> c, no |-> taken[c] + 1] \in Segment
      BY <1>18, <2>1 DEF TypeOK, KernelTypes, Segment
    <3>1. KernelTypes'
      BY <1>18, <2>1, <3>5, SMTT(20) DEF TypeOK, KernelTypes, Read
    <3>2. ServerTypes'
      BY <1>18, <2>1, <3>5, SMTT(20) DEF TypeOK, ServerTypes, Read
    <3>3. ObjectTypes'
      BY <1>18, <2>1, <3>5, SMTT(20) DEF TypeOK, ObjectTypes, Read
    <3>4. ThreadTypes'
      BY <1>18, <2>1, <3>5, SMTT(20)
         DEF TypeOK, ThreadTypes, ClosePcs, WorkerPcs, Read
    <3> QED BY <3>1, <3>2, <3>3, <3>4 DEF TypeOK
  <2>3. LocalsOf(w)'
    BY <1>18, <2>1, SMTT(20)
       DEF TypeOK, ThreadTypes, KernelTypes, LocalsOf, ClosePcs, WorkerPcs,
           SegPcs, Read, Segment
  <2>4. OnlyMoves(w)
    BY <1>18, <2>1 DEF OnlyMoves, TypeOK, ThreadTypes, Read
  <2> QED BY <2>1, <2>2, <2>3, <2>4, LocalsMove
<1>19. ASSUME NEW w \in Workers, AppendRead(w) PROVE Typing'
  <2>1. w \in Threads /\ fdOf[w] \in Fds /\ connOf[w] \in Conns /\ seg[w] \in Segment
    BY <1>19
       DEF Threads, Locals, LocalsOf, Kinds, ClosePcs, WorkerPcs, MainPcs,
           FdPcs, ConnPcs, SegPcs, AppendRead
  <2>2. TypeOK'
    BY <1>19, <2>1, SMTT(20)
       DEF TypeOK, KernelTypes, ServerTypes, ObjectTypes, ThreadTypes,
           WorkerPcs, AppendRead, Appended
  <2>3. LocalsOf(w)'
    BY <1>19, <2>1, SMTT(20)
       DEF TypeOK, ThreadTypes, LocalsOf, WorkerPcs, SegPcs, AppendRead
  <2>4. OnlyMoves(w)
    BY <1>19, <2>1 DEF OnlyMoves, AppendRead
  <2> QED BY <2>1, <2>2, <2>3, <2>4, LocalsMove
<1>20. ASSUME NEW w \in Workers, Touch(w) PROVE Typing'
  <2>1. w \in Threads /\ fdOf[w] \in Fds /\ connOf[w] \in Conns
    BY <1>20
       DEF Threads, Locals, LocalsOf, Kinds, ClosePcs, WorkerPcs, MainPcs,
           FdPcs, ConnPcs, SegPcs, Touch
  <2>2. TypeOK'
    BY <1>20, <2>1, SMTT(20)
       DEF TypeOK, KernelTypes, ServerTypes, ObjectTypes, ThreadTypes,
           WorkerPcs, Touch, AddOrUpdate
  <2>3. LocalsOf(w)'
    BY <1>20, <2>1, SMTT(20) DEF LocalsOf, WorkerPcs, SegPcs, Touch
  <2>4. OnlyMoves(w)
    BY <1>20, <2>1 DEF OnlyMoves, Touch
  <2> QED BY <2>1, <2>2, <2>3, <2>4, LocalsMove
<1>21. ASSUME NEW w \in Workers, Extract(w) PROVE Typing'
  <2> DEFINE c == connOf[w]
  <2>1. w \in Threads /\ fdOf[w] \in Fds /\ c \in Conns
    BY <1>21
       DEF Threads, Locals, LocalsOf, Kinds, ClosePcs, WorkerPcs, FdPcs,
           ConnPcs, Extract
  <2>2. CASE closed[c] \/ Len(readBuf[c]) < SegsPerRequest
    <3>1. /\ pc' = [pc EXCEPT ![w] = "idle"] /\ fdOf' = [fdOf EXCEPT ![w] = None]
          /\ connOf' = [connOf EXCEPT ![w] = None] /\ seg' = [seg EXCEPT ![w] = None]
          /\ count' = [count EXCEPT ![w] = 0]
          /\ processing' = [processing EXCEPT ![c] = FALSE]
          /\ interest' = [interest EXCEPT ![fdOf[w]] = IF @ = "none" THEN @ ELSE "in"]
          /\ UNCHANGED <<sock, listening, backlog, net, server, closed, readBuf, output>>
      BY <1>21, <2>2 DEF Extract, Return, Mod, Release
    <3>2. TypeOK'
      BY <2>1, <3>1
         DEF TypeOK, KernelTypes, ServerTypes, ObjectTypes, ThreadTypes,
             WorkerPcs
    <3>3. LocalsOf(w)' /\ OnlyMoves(w)
      BY <2>1, <3>1
         DEF TypeOK, ThreadTypes, LocalsOf, OnlyMoves, Kinds, ClosePcs,
             WorkerPcs, FdPcs, ConnPcs, SegPcs
    <3> QED BY <2>1, <3>2, <3>3, LocalsMove
  <2>3. CASE ~(closed[c] \/ Len(readBuf[c]) < SegsPerRequest)
    <3>1. /\ pc' = [pc EXCEPT ![w] = "respond"]
          /\ readBuf' = [readBuf EXCEPT ![c] =
                           SubSeq(readBuf[c], SegsPerRequest + 1, Len(readBuf[c]))]
          /\ seg' = [seg EXCEPT ![w] = readBuf[c][SegsPerRequest]]
          /\ UNCHANGED <<interest, processing, fdOf, connOf, count>>
          /\ UNCHANGED <<sock, listening, backlog, net, server, closed, output>>
      BY <1>21, <2>3 DEF Extract
    <3>2. /\ SubSeq(readBuf[c], SegsPerRequest + 1, Len(readBuf[c])) \in Seq(Segment)
          /\ readBuf[c][SegsPerRequest] \in Segment
      BY <2>1, <2>3 DEF TypeOK, ObjectTypes
    <3>3. TypeOK'
      BY <2>1, <3>1, <3>2
         DEF TypeOK, KernelTypes, ServerTypes, ObjectTypes, ThreadTypes,
             WorkerPcs
    <3>4. LocalsOf(w)' /\ OnlyMoves(w)
      BY <2>1, <3>1, <3>2
         DEF TypeOK, ThreadTypes, LocalsOf, OnlyMoves, WorkerPcs
    <3> QED BY <2>1, <3>3, <3>4, LocalsMove
  <2> QED BY <2>2, <2>3
<1>22. ASSUME NEW w \in Workers, Respond(w) PROVE Typing'
  <2>1. w \in Threads /\ fdOf[w] \in Fds /\ connOf[w] \in Conns /\ seg[w] \in Segment
    BY <1>22
       DEF Threads, Locals, LocalsOf, Kinds, ClosePcs, WorkerPcs, MainPcs,
           FdPcs, ConnPcs, SegPcs, Respond
  <2>2. TypeOK'
    <3>1. KernelTypes'
      BY <1>22, <2>1, SMTT(20) DEF TypeOK, KernelTypes, Respond
    <3>2. ServerTypes'
      BY <1>22, <2>1, SMTT(20) DEF TypeOK, ServerTypes, Respond
    <3>3. ObjectTypes'
      <4>1. CASE closed[connOf[w]]
        BY <1>22, <4>1 DEF TypeOK, ObjectTypes, Respond
      <4>2. CASE ~closed[connOf[w]]
        <5>1. closeAfterWrite' \in [Conns -> BOOLEAN]
          BY <1>22, <4>2 DEF TypeOK, ObjectTypes, Respond
        <5>2. writeBuf' = [writeBuf EXCEPT ![connOf[w]] = seg[w]]
              /\ writeOffset' = [writeOffset EXCEPT ![connOf[w]] = 0]
              /\ UNCHANGED <<processing, closed, readBuf>>
          BY <1>22, <4>2 DEF Respond
        <5> QED BY <2>1, <5>1, <5>2 DEF TypeOK, ObjectTypes
      <4> QED BY <4>1, <4>2
    <3>4. ThreadTypes'
      BY <1>22, <2>1, SMTT(20)
         DEF TypeOK, ThreadTypes, Kinds, ClosePcs, WorkerPcs, MainPcs, Respond,
             Return
    <3> QED BY <3>1, <3>2, <3>3, <3>4 DEF TypeOK
  <2>3. LocalsOf(w)'
    BY <1>22, <2>1, SMTT(20)
       DEF TypeOK, ThreadTypes, LocalsOf, Kinds, ClosePcs, WorkerPcs, FdPcs,
           ConnPcs, SegPcs, Respond, Return
  <2>4. OnlyMoves(w)
    BY <1>22, <2>1 DEF OnlyMoves, TypeOK, ThreadTypes, Respond, Return
  <2> QED BY <2>1, <2>2, <2>3, <2>4, LocalsMove
<1>23. ASSUME NEW w \in Workers, FinishProcessing(w) PROVE Typing'
  <2>1. w \in Threads /\ fdOf[w] \in Fds /\ connOf[w] \in Conns
    BY <1>23
       DEF Threads, Locals, LocalsOf, Kinds, ClosePcs, WorkerPcs, MainPcs,
           FdPcs, ConnPcs, SegPcs, FinishProcessing
  <2>2. TypeOK'
    BY <1>23, <2>1, SMTT(20)
       DEF TypeOK, KernelTypes, ServerTypes, ObjectTypes, ThreadTypes,
           WorkerPcs, FinishProcessing, Release
  <2>3. LocalsOf(w)'
    BY <1>23, <2>1, SMTT(20) DEF LocalsOf, WorkerPcs, SegPcs, FinishProcessing
  <2>4. OnlyMoves(w)
    BY <1>23, <2>1 DEF OnlyMoves, FinishProcessing
  <2> QED BY <2>1, <2>2, <2>3, <2>4, LocalsMove
<1>24. ASSUME NEW w \in Workers, Rearm(w) PROVE Typing'
  <2>1. w \in Threads /\ fdOf[w] \in Fds /\ connOf[w] \in Conns
    BY <1>24
       DEF Threads, Locals, LocalsOf, Kinds, ClosePcs, WorkerPcs, MainPcs,
           FdPcs, ConnPcs, SegPcs, Rearm
  <2>2. TypeOK'
    BY <1>24, <2>1, SMTT(20)
       DEF TypeOK, KernelTypes, ServerTypes, ObjectTypes, ThreadTypes,
           WorkerPcs, MainPcs, Rearm, Mod, Wanted, Return
  <2>3. LocalsOf(w)'
    BY <1>24, <2>1, SMTT(20)
       DEF TypeOK, ThreadTypes, LocalsOf, Kinds, ClosePcs, WorkerPcs, FdPcs,
           ConnPcs, SegPcs, Rearm, Return
  <2>4. OnlyMoves(w)
    BY <1>24, <2>1 DEF OnlyMoves, Rearm, Return
  <2> QED BY <2>1, <2>2, <2>3, <2>4, LocalsMove
<1>25. ASSUME NEW w \in Workers, Check(w) PROVE Typing'
  <2>1. w \in Threads /\ fdOf[w] \in Fds /\ connOf[w] \in Conns
    BY <1>25
       DEF Threads, Locals, LocalsOf, Kinds, ClosePcs, WorkerPcs, MainPcs,
           FdPcs, ConnPcs, SegPcs, Check
  <2>2. TypeOK'
    <3>5. writeBuf[connOf[w]] \in Segment \cup {None} /\ writeOffset[connOf[w]] \in Nat
      BY <1>25, <2>1 DEF TypeOK, ObjectTypes
    <3>1. KernelTypes'
      BY <1>25, <2>1, <3>5, SMTT(20) DEF TypeOK, KernelTypes, Check
    <3>2. ServerTypes'
      BY <1>25, <2>1, <3>5, SMTT(20) DEF TypeOK, ServerTypes, Check
    <3>3. ObjectTypes'
      BY <1>25, <2>1, <3>5, SMTT(20) DEF TypeOK, ObjectTypes, Check
    <3>4. ThreadTypes'
      BY <1>25, <2>1, <3>5, SMTT(20) DEF TypeOK, ThreadTypes, WorkerPcs, Check
    <3> QED BY <3>1, <3>2, <3>3, <3>4 DEF TypeOK
  <2>3. LocalsOf(w)'
    BY <1>25, <2>1, SMTT(20)
       DEF TypeOK, ThreadTypes, ObjectTypes, LocalsOf, WorkerPcs, SegPcs,
           Check, HasWriteData
  <2>4. OnlyMoves(w)
    BY <1>25, <2>1 DEF OnlyMoves, TypeOK, ThreadTypes, Check
  <2> QED BY <2>1, <2>2, <2>3, <2>4, LocalsMove
<1>26. ASSUME NEW w \in Workers, WriteSome(w) PROVE Typing'
  <2>1. w \in Threads /\ fdOf[w] \in Fds /\ connOf[w] \in Conns /\ seg[w] \in Segment
    BY <1>26
       DEF Threads, Locals, LocalsOf, Kinds, ClosePcs, WorkerPcs, MainPcs,
           FdPcs, ConnPcs, SegPcs, WriteSome
  <2>2. TypeOK'
    <3>5. /\ sock[fdOf[w]] \in Conns \cup {None} /\ count[w] \in Nat
         /\ \A n \in Nat : [i \in 1..n |-> [resp |-> seg[w], unit |-> count[w] + i]] \in Seq(Unit)
      BY <1>26, <2>1 DEF TypeOK, KernelTypes, ThreadTypes, Unit
    <3>1. KernelTypes'
      <4>1. PICK n \in 1..(RespLen - count[w]) :
              got' = [got EXCEPT ![sock[fdOf[w]]] = @ \o
                [i \in 1..n |-> [resp |-> seg[w], unit |-> count[w] + i]]]
        BY <1>26 DEF WriteSome
      <4>2. n \in Nat /\ sock[fdOf[w]] \in Conns
        BY <1>26, <3>5 DEF WriteSome
      <4>3. got[sock[fdOf[w]]] \in Seq(Unit) /\ got \in [Conns -> Seq(Unit)]
        BY <4>2 DEF TypeOK, KernelTypes
      <4>4. got' \in [Conns -> Seq(Unit)]
        BY <3>5, <4>1, <4>2, <4>3, ConcatProperties
      <4> QED BY <1>26, <4>4 DEF TypeOK, KernelTypes, WriteSome
    <3>2. ServerTypes'
      BY <1>26, <2>1, <3>5, SMTT(20) DEF TypeOK, ServerTypes, WriteSome
    <3>3. ObjectTypes'
      BY <1>26, <2>1, <3>5, SMTT(20) DEF TypeOK, ObjectTypes, WriteSome
    <3>4. ThreadTypes'
      BY <1>26, <2>1, <3>5, SMTT(20)
         DEF TypeOK, ThreadTypes, WorkerPcs, WriteSome
    <3> QED BY <3>1, <3>2, <3>3, <3>4 DEF TypeOK
  <2>3. LocalsOf(w)'
    BY <1>26, <2>1, SMTT(20)
       DEF TypeOK, ThreadTypes, LocalsOf, ClosePcs, WorkerPcs, SegPcs,
           WriteSome
  <2>4. OnlyMoves(w)
    BY <1>26, <2>1 DEF OnlyMoves, WriteSome
  <2> QED BY <2>1, <2>2, <2>3, <2>4, LocalsMove
<1>27. ASSUME NEW w \in Workers, WriteNone(w) PROVE Typing'
  <2>1. w \in Threads /\ fdOf[w] \in Fds /\ connOf[w] \in Conns
    BY <1>27
       DEF Threads, Locals, LocalsOf, Kinds, ClosePcs, WorkerPcs, MainPcs,
           FdPcs, ConnPcs, SegPcs, WriteNone
  <2>2. TypeOK'
    BY <1>27, <2>1, SMTT(20)
       DEF TypeOK, KernelTypes, ServerTypes, ObjectTypes, ThreadTypes,
           ClosePcs, WorkerPcs, WriteNone
  <2>3. LocalsOf(w)'
    BY <1>27, <2>1, SMTT(20)
       DEF TypeOK, ThreadTypes, LocalsOf, ClosePcs, WorkerPcs, SegPcs,
           WriteNone
  <2>4. OnlyMoves(w)
    BY <1>27, <2>1 DEF OnlyMoves, WriteNone
  <2> QED BY <2>1, <2>2, <2>3, <2>4, LocalsMove
<1>28. ASSUME NEW w \in Workers, SigPipe(w) PROVE Typing'
  BY <1>28
     DEF TypeOK, KernelTypes, ServerTypes, ObjectTypes, ThreadTypes, Locals,
         LocalsOf, SigPipe
<1>29. ASSUME NEW w \in Workers, Consume(w) PROVE Typing'
  <2>1. w \in Threads /\ fdOf[w] \in Fds /\ connOf[w] \in Conns
    BY <1>29 DEF Threads, Locals, LocalsOf, FdPcs, ConnPcs, Consume
  <2>2. TypeOK'
    BY <1>29, <2>1, SMTT(20)
       DEF TypeOK, KernelTypes, ServerTypes, ObjectTypes, ThreadTypes, Kinds,
           ClosePcs, WorkerPcs, MainPcs, Consume, Consumed
  <2>3. LocalsOf(w)'
    BY <1>29, <2>1, SMTT(20) DEF LocalsOf, WorkerPcs, SegPcs, Consume
  <2>4. OnlyMoves(w)
    BY <1>29, <2>1 DEF OnlyMoves, Consume
  <2> QED BY <2>1, <2>2, <2>3, <2>4, LocalsMove
<1>30. ASSUME NEW w \in Workers, Clear(w) PROVE Typing'
  <2>1. w \in Threads /\ fdOf[w] \in Fds /\ connOf[w] \in Conns
    BY <1>30
       DEF Threads, Locals, LocalsOf, Kinds, ClosePcs, WorkerPcs, MainPcs,
           FdPcs, ConnPcs, SegPcs, Clear
  <2>2. TypeOK'
    BY <1>30, <2>1, SMTT(20)
       DEF TypeOK, KernelTypes, ServerTypes, ObjectTypes, ThreadTypes,
           ClosePcs, WorkerPcs, Clear
  <2>3. LocalsOf(w)'
    BY <1>30, <2>1, SMTT(20) DEF LocalsOf, ClosePcs, WorkerPcs, SegPcs, Clear
  <2>4. OnlyMoves(w)
    BY <1>30, <2>1 DEF OnlyMoves, Clear
  <2> QED BY <2>1, <2>2, <2>3, <2>4, LocalsMove
<1>31. ASSUME NEW c \in Conns, Connect(c) PROVE Typing'
  BY <1>31
     DEF TypeOK, KernelTypes, ServerTypes, ObjectTypes, ThreadTypes, Locals,
         LocalsOf, Connect
<1>32. ASSUME NEW c \in Conns, Send(c) PROVE Typing'
  BY <1>32, SMTT(30)
     DEF TypeOK, KernelTypes, ServerTypes, ObjectTypes, ThreadTypes, Locals,
         LocalsOf, Send
<1>33. ASSUME NEW c \in Conns, Shut(c) PROVE Typing'
  BY <1>33
     DEF TypeOK, KernelTypes, ServerTypes, ObjectTypes, ThreadTypes, Locals,
         LocalsOf, Shut
<1>34. ASSUME NEW c \in Conns, Reset(c) PROVE Typing'
  BY <1>34
     DEF TypeOK, KernelTypes, ServerTypes, ObjectTypes, ThreadTypes, Locals,
         LocalsOf, Reset
<1>35. CASE RequestStop
  BY <1>35
     DEF RequestStop, TypeOK, KernelTypes, ServerTypes, ObjectTypes,
         ThreadTypes, Locals, LocalsOf
<1>36. CASE UNCHANGED vars
  BY <1>36
     DEF vars, TypeOK, KernelTypes, ServerTypes, ObjectTypes, ThreadTypes,
         Locals, LocalsOf
<1>37. QED
  BY <1>1, <1>2, <1>3, <1>4, <1>5, <1>6, <1>7, <1>8, <1>9, <1>10, <1>11, <1>12,
     <1>13, <1>14, <1>15, <1>16, <1>17, <1>18, <1>19, <1>20, <1>21, <1>22,
     <1>23, <1>24, <1>25, <1>26, <1>27, <1>28, <1>29, <1>30, <1>31, <1>32,
     <1>33, <1>34, <1>35, <1>36
     DEF Next, MainStep, WorkerStep, ClientStep, CloseStep, Threads

-----------------------------------------------------------------------------
(* Ownership of the descriptors *)

OwnerPcs == {"mark", "del", "close", "insert"}

\* Thread t neither takes over nor gives up a descriptor.
NoTransfer(t) ==
  /\ pc[t] \notin OwnerPcs /\ pc'[t] \notin OwnerPcs
  /\ OnlyMoves(t)
  /\ UNCHANGED <<sock, conns, closed, backlog, peer>>

LEMMA OwningFrame ==
  ASSUME Owning, NEW t \in Threads, NoTransfer(t) PROVE Owning'
<1>1. \A f \in Fds : Closing(f)' = Closing(f) /\ Accepting(f)' = Accepting(f)
  BY DEF Closing, Accepting, NoTransfer, OnlyMoves, OwnerPcs, Threads
<1>2. \A u \in Threads : pc[u] \in OwnerPcs \/ pc'[u] \in OwnerPcs =>
                           connOf'[u] = connOf[u] /\ pc'[u] = pc[u]
  BY DEF NoTransfer, OnlyMoves
<1>3. Sockets'
  BY <1>1, <1>2 DEF Owning, Sockets, NoTransfer, OwnerPcs
<1>4. FdOwnership'
  BY <1>1, <1>2
     DEF Owning, FdOwnership, NoTransfer, OwnerPcs, Closing, Accepting, Threads
<1> QED BY <1>3, <1>4 DEF Owning

LEMMA OwningStep ==
  ASSUME ServerAssumption, Typing, Owning, [Next]_vars PROVE Owning'
<1> USE DEF ServerAssumption
<1>1. ASSUME EpollWait PROVE Owning'
  <2>1. Main \in Threads /\ NoTransfer(Main)
    BY <1>1 DEF Threads, NoTransfer, OnlyMoves, OwnerPcs, EpollWait
  <2> QED BY <2>1, OwningFrame
<1>2. ASSUME HandleEvent PROVE Owning'
  <2>1. Main \in Threads /\ NoTransfer(Main)
    BY <1>2
       DEF Threads, NoTransfer, OnlyMoves, OwnerPcs, Typing, TypeOK,
           ThreadTypes, HandleEvent
  <2> QED BY <2>1, OwningFrame
<1>3. ASSUME Dispatch PROVE Owning'
  <2>1. Main \in Threads /\ NoTransfer(Main)
    BY <1>3
       DEF Threads, NoTransfer, OnlyMoves, OwnerPcs, Typing, TypeOK,
           ThreadTypes, Dispatch, MayBegin, Return, Kinds
  <2> QED BY <2>1, OwningFrame
<1>4. ASSUME Add PROVE Owning'
  <2>1. Main \in Threads /\ NoTransfer(Main)
    BY <1>4
       DEF Threads, NoTransfer, OnlyMoves, OwnerPcs, Typing, TypeOK,
           ThreadTypes, Add, AfterAdd
  <2> QED BY <2>1, OwningFrame
<1>5. ASSUME PopExpired PROVE Owning'
  <2>1. Main \in Threads /\ NoTransfer(Main)
    BY <1>5
       DEF Threads, NoTransfer, OnlyMoves, OwnerPcs, Typing, TypeOK,
           ThreadTypes, PopExpired
  <2> QED BY <2>1, OwningFrame
<1>6. ASSUME Reap PROVE Owning'
  <2>1. Main \in Threads /\ NoTransfer(Main)
    BY <1>6
       DEF Threads, NoTransfer, OnlyMoves, OwnerPcs, Typing, TypeOK,
           ThreadTypes, Reap
  <2> QED BY <2>1, OwningFrame
<1>7. ASSUME LeaveLoop PROVE Owning'
  <2>1. Main \in Threads /\ NoTransfer(Main)
    BY <1>7
       DEF Threads, NoTransfer, OnlyMoves, OwnerPcs, Typing, TypeOK,
           ThreadTypes, LeaveLoop
  <2> QED BY <2>1, OwningFrame
<1>8. ASSUME Join PROVE Owning'
  <2>1. Main \in Threads /\ NoTransfer(Main)
    BY <1>8
       DEF Threads, NoTransfer, OnlyMoves, OwnerPcs, Typing, TypeOK,
           ThreadTypes, Join
  <2> QED BY <2>1, OwningFrame
<1>9. ASSUME NEW w \in Workers, Take(w) PROVE Owning'
  <2>1. w \in Threads /\ NoTransfer(w)
    BY <1>9
       DEF Threads, NoTransfer, OnlyMoves, OwnerPcs, Typing, TypeOK,
           ThreadTypes, Take, Pop
  <2> QED BY <2>1, OwningFrame
<1>10. ASSUME NEW w \in Workers, GetConnection(w) PROVE Owning'
  <2>1. w \in Threads /\ NoTransfer(w)
    BY <1>10
       DEF Threads, NoTransfer, OnlyMoves, OwnerPcs, Typing, TypeOK,
           ThreadTypes, GetConnection, Return
  <2> QED BY <2>1, OwningFrame
<1>11. ASSUME NEW w \in Workers, Read(w) PROVE Owning'
  <2>1. w \in Threads /\ NoTransfer(w)
    BY <1>11
       DEF Threads, NoTransfer, OnlyMoves, OwnerPcs, Typing, TypeOK,
           ThreadTypes, Read
  <2> QED BY <2>1, OwningFrame
<1>12. ASSUME NEW w \in Workers, AppendRead(w) PROVE Owning'
  <2>1. w \in Threads /\ NoTransfer(w)
    BY <1>12
       DEF Threads, NoTransfer, OnlyMoves, OwnerPcs, Typing, TypeOK,
           ThreadTypes, AppendRead
  <2> QED BY <2>1, OwningFrame
<1>13. ASSUME NEW w \in Workers, Touch(w) PROVE Owning'
  <2>1. w \in Threads /\ NoTransfer(w)
    BY <1>13
       DEF Threads, NoTransfer, OnlyMoves, OwnerPcs, Typing, TypeOK,
           ThreadTypes, Touch, AddOrUpdate
  <2> QED BY <2>1, OwningFrame
<1>14. ASSUME NEW w \in Workers, Extract(w) PROVE Owning'
  <2>1. w \in Threads /\ NoTransfer(w)
    BY <1>14
       DEF Threads, NoTransfer, OnlyMoves, OwnerPcs, Typing, TypeOK,
           ThreadTypes, Extract, Return
  <2> QED BY <2>1, OwningFrame
<1>15. ASSUME NEW w \in Workers, Respond(w) PROVE Owning'
  <2>1. w \in Threads /\ NoTransfer(w)
    BY <1>15
       DEF Threads, NoTransfer, OnlyMoves, OwnerPcs, Typing, TypeOK,
           ThreadTypes, Respond, Return
  <2> QED BY <2>1, OwningFrame
<1>16. ASSUME NEW w \in Workers, FinishProcessing(w) PROVE Owning'
  <2>1. w \in Threads /\ NoTransfer(w)
    BY <1>16
       DEF Threads, NoTransfer, OnlyMoves, OwnerPcs, Typing, TypeOK,
           ThreadTypes, FinishProcessing
  <2> QED BY <2>1, OwningFrame
<1>17. ASSUME NEW w \in Workers, Rearm(w) PROVE Owning'
  <2>1. w \in Threads /\ NoTransfer(w)
    BY <1>17
       DEF Threads, NoTransfer, OnlyMoves, OwnerPcs, Typing, TypeOK,
           ThreadTypes, Rearm, Return
  <2> QED BY <2>1, OwningFrame
<1>18. ASSUME NEW w \in Workers, Check(w) PROVE Owning'
  <2>1. w \in Threads /\ NoTransfer(w)
    BY <1>18
       DEF Threads, NoTransfer, OnlyMoves, OwnerPcs, Typing, TypeOK,
           ThreadTypes, Check
  <2> QED BY <2>1, OwningFrame
<1>19. ASSUME NEW w \in Workers, WriteSome(w) PROVE Owning'
  <2>1. w \in Threads /\ NoTransfer(w)
    BY <1>19
       DEF Threads, NoTransfer, OnlyMoves, OwnerPcs, Typing, TypeOK,
           ThreadTypes, WriteSome
  <2> QED BY <2>1, OwningFrame
<1>20. ASSUME NEW w \in Workers, WriteNone(w) PROVE Owning'
  <2>1. w \in Threads /\ NoTransfer(w)
    BY <1>20
       DEF Threads, NoTransfer, OnlyMoves, OwnerPcs, Typing, TypeOK,
           ThreadTypes, WriteNone
  <2> QED BY <2>1, OwningFrame
<1>21. ASSUME NEW w \in Workers, SigPipe(w) PROVE Owning'
  <2>1. w \in Threads /\ NoTransfer(w)
    BY <1>21
       DEF Threads, NoTransfer, OnlyMoves, OwnerPcs, Typing, TypeOK,
           ThreadTypes, SigPipe
  <2> QED BY <2>1, OwningFrame
<1>22. ASSUME NEW w \in Workers, Consume(w) PROVE Owning'
  <2>1. w \in Threads /\ NoTransfer(w)
    BY <1>22
       DEF Threads, NoTransfer, OnlyMoves, OwnerPcs, Typing, TypeOK,
           ThreadTypes, Consume
  <2> QED BY <2>1, OwningFrame
<1>23. ASSUME NEW w \in Workers, Clear(w) PROVE Owning'
  <2>1. w \in Threads /\ NoTransfer(w)
    BY <1>23
       DEF Threads, NoTransfer, OnlyMoves, OwnerPcs, Typing, TypeOK,
           ThreadTypes, Clear
  <2> QED BY <2>1, OwningFrame
<1>24. ASSUME Accept PROVE Owning'
  <2>1. Main \in Threads
    BY DEF Threads
  <2>2. CASE UNCHANGED <<sock, backlog>> /\ pc' = [pc EXCEPT ![Main] = "events"]
             /\ UNCHANGED <<fdOf, connOf>>
    <3>1. NoTransfer(Main)
      BY <1>24, <2>1, <2>2 DEF Accept, NoTransfer, OnlyMoves, OwnerPcs
    <3> QED BY <2>1, <3>1, OwningFrame
  <2>3. ASSUME NEW c \in backlog, NEW f \in Fds,
               sock[f] = None, sock' = [sock EXCEPT ![f] = c],
               backlog' = backlog \ {c},
               fdOf' = [fdOf EXCEPT ![Main] = f],
               connOf' = [connOf EXCEPT ![Main] = c],
               pc' = [pc EXCEPT ![Main] = "insert"]
        PROVE  Owning'
    <3>1. UNCHANGED <<conns, closed, peer>> /\ pc[Main] = "accept" /\ c \in Conns
      BY <1>24 DEF Accept, Typing, TypeOK, KernelTypes
    <3>2. \A g \in Fds : Closing(g)' = Closing(g) /\ (Accepting(g)' <=> g = f)
                         /\ ~Accepting(g)
      BY <2>1, <2>3, <3>1 DEF Closing, Accepting, Typing, TypeOK, ThreadTypes
    <3>3. Closing(f) = {} /\ conns[f] = None /\ ~closed[c]
      BY <2>3, <3>1 DEF Owning, FdOwnership, Sockets
    <3>4. \A t \in Threads : pc'[t] \in {"mark", "del", "close"} =>
             pc[t] = pc'[t] /\ connOf'[t] = connOf[t] /\ fdOf'[t] = fdOf[t]
      BY <2>1, <2>3 DEF Typing, TypeOK, ThreadTypes
    <3>5. Sockets'
      BY <2>3, <3>1, <3>2, <3>3, <3>4
         DEF Owning, Sockets, Typing, TypeOK, KernelTypes
    <3>6. FdOwnership'
      BY <2>1, <2>3, <3>1, <3>2, <3>3, <3>4
         DEF Owning, FdOwnership, Closing, Typing, TypeOK, KernelTypes,
             ThreadTypes
    <3> QED BY <3>5, <3>6 DEF Owning
  <2> QED BY <1>24, <2>2, <2>3 DEF Accept
<1>25. ASSUME Insert PROVE Owning'
  <2>1. Main \in Threads /\ fdOf[Main] \in Fds /\ connOf[Main] \in Conns
    BY <1>25 DEF Typing, Threads, Locals, LocalsOf, FdPcs, ConnPcs, Insert
  <2>8. Sockets'
    BY <1>25, <2>1, SMTT(30) DEF Owning, Sockets, Accepting, Insert
  <2>9. FdOwnership'
    BY <1>25, <2>1, SMTT(30)
       DEF Owning, Sockets, FdOwnership, Closing, Accepting, Typing, TypeOK,
           ServerTypes, ThreadTypes, Insert
  <2> QED BY <2>8, <2>9 DEF Owning
<1>26. ASSUME CloseAll PROVE Owning'
  <2>1. Main \in Threads /\ pc[Main] = "closeAll" /\ UNCHANGED <<backlog, peer>>
        /\ pc' = [pc EXCEPT ![Main] = "stopped"] /\ UNCHANGED <<fdOf, connOf>>
    BY <1>26 DEF CloseAll, Threads
  <2>2. \A f \in Fds : /\ conns'[f] = None
                       /\ sock'[f] = IF conns[f] # None THEN None ELSE sock[f]
    BY <1>26 DEF CloseAll
  <2>3. \A c \in Conns : closed'[c] = (closed[c] \/ \E f \in Fds : conns[f] # None /\ conns[f] = c)
    BY <1>26 DEF CloseAll
  <2>4. \A f \in Fds : Closing(f)' = Closing(f) /\ ~Accepting(f)' /\ ~Accepting(f)
    BY <2>1 DEF Closing, Accepting
  <2>5. \A t \in Threads : pc'[t] \in {"mark", "del", "close"} => pc[t] = pc'[t]
    BY <2>1 
  <2>6. \A f \in Fds : conns[f] # None => Closing(f) = {} /\ conns[f] = sock[f]
    BY DEF Owning, FdOwnership
  <2>7. \A t \in Threads : pc'[t] \in {"del", "close"} => connOf[t] \in Conns
    BY <2>5 DEF Typing, Locals, LocalsOf, ClosePcs, FdPcs, ConnPcs
  <2>8. Sockets'
    <3>1. \A c \in Conns : c \in backlog \/ peer[c] = "new" => ~closed'[c]
      <4>1. \A c \in Conns : c \in backlog \/ peer[c] = "new" =>
              ~closed[c] /\ ~\E f \in Fds : conns[f] # None /\ conns[f] = c
        BY <2>6 DEF Owning, Sockets
      <4> QED BY <2>3, <4>1
    <3>2. \A t \in Threads : pc'[t] \in {"del", "close"} => closed'[connOf[t]]
      BY <2>3, <2>5, <2>7 DEF Owning, Sockets
    <3>3. \A f \in Fds : sock'[f] = None \/ sock'[f] = sock[f]
      BY <2>2
    <3>4. \A c \in Conns, f \in Fds :
            c \in backlog \/ peer[c] = "new" => sock'[f] # c
      BY <3>3 DEF Owning, Sockets
    <3>5. \A f, g \in Fds : sock'[f] = sock'[g] /\ sock'[f] # None => f = g
      BY <3>3 DEF Owning, Sockets
    <3> QED BY <2>1, <2>4, <3>1, <3>2, <3>4, <3>5 DEF Owning, Sockets
  <2>9. FdOwnership'
    BY <2>1, <2>2, <2>4, <2>6 DEF Owning, FdOwnership
  <2> QED BY <2>8, <2>9 DEF Owning
<1>27. ASSUME NEW t \in Threads, Find(t) PROVE Owning'
  <2>1. fdOf[t] \in Fds /\ pc[t] = "find" /\ UNCHANGED <<sock, closed, backlog, peer>>
    BY <1>27 DEF Typing, Locals, LocalsOf, ClosePcs, FdPcs, Find
  <2>2. CASE conns[fdOf[t]] = None
    <3>1. NoTransfer(t)
      BY <1>27, <2>1, <2>2
         DEF Find, Return, NoTransfer, OnlyMoves, OwnerPcs, Typing, TypeOK,
             ThreadTypes
    <3> QED BY <3>1, OwningFrame
  <2>3. CASE conns[fdOf[t]] # None
    <3>0. PICK f \in Fds : f = fdOf[t]
      BY <2>1
    <3>1. /\ connOf' = [connOf EXCEPT ![t] = conns[f]]
          /\ conns' = [conns EXCEPT ![f] = None]
          /\ pc' = [pc EXCEPT ![t] = "mark"] /\ UNCHANGED fdOf
      BY <3>0, <1>27, <2>3 DEF Find, Erase
    <3>2. Closing(f) = {} /\ ~Accepting(f) /\ conns[f] = sock[f] /\ ~closed[conns[f]]
      BY <3>0, <2>1, <2>3 DEF Owning, FdOwnership
    <3>3. \A g \in Fds : /\ Closing(g)' = IF g = f THEN {t} ELSE Closing(g)
                         /\ Accepting(g)' <=> Accepting(g)
      BY <3>0, <2>1, <3>1, <3>2
         DEF Closing, Accepting, Typing, TypeOK, ThreadTypes
    <3>4. \A u \in Threads : u # t => connOf'[u] = connOf[u] /\ pc'[u] = pc[u]
      BY <3>0, <3>1 
    <3>5. connOf'[t] = sock[f] /\ pc'[t] = "mark" /\ t \in Closing(f)'
      BY <3>0, <2>1, <3>1, <3>2, <3>3 DEF Typing, TypeOK, ThreadTypes
    <3>6. conns' = [g \in Fds |-> IF g = f THEN None ELSE conns[g]]
      BY <3>0, <3>1 DEF Typing, TypeOK, ServerTypes
    <3>7. Sockets'
      BY <3>0, <2>1, <3>3, <3>4, <3>5 DEF Owning, Sockets
    <3>8. \A g \in Fds, u \in Threads : g # f /\ u \in Closing(g) => u # t
      BY <3>0, <2>1 DEF Closing
    <3>9. ~Accepting(f)' /\ sock[f] # None
      BY <3>0, <2>1, <2>3, <3>2, <3>3
    <3>10. \A g \in Fds : Accepting(g)' => g # f /\ connOf'[Main] = connOf[Main]
      BY <3>0, <2>1, <3>1, <3>3, <3>4, <3>9 DEF Accepting, Threads
    <3>11. FdOwnership'
      <4> SUFFICES ASSUME NEW g \in Fds
                   PROVE  /\ sock[g] = None <=> /\ conns'[g] = None
                                                /\ ~Accepting(g)' /\ Closing(g)' = {}
                          /\ conns'[g] # None =>
                               /\ ~Accepting(g)' /\ Closing(g)' = {}
                               /\ conns'[g] = sock[g] /\ ~closed[conns'[g]]
                          /\ Accepting(g)' => Closing(g)' = {} /\ connOf'[Main] = sock[g]
                          /\ \A u, v \in Closing(g)' : u = v /\ connOf'[u] = sock[g]
        BY <3>0, <2>1 DEF FdOwnership
      <4>1. CASE g = f
        BY <3>0, <2>1, <4>1, <3>3, <3>5, <3>6, <3>9
      <4>2. CASE g # f
        <5>1. Closing(g)' = Closing(g) /\ conns'[g] = conns[g]
          BY <3>0, <4>2, <3>3, <3>6
        <5>2. \A u \in Closing(g) : connOf'[u] = connOf[u]
          BY <3>0, <3>4, <3>8, <4>2 DEF Closing
        <5> QED BY <3>0, <3>3, <3>10, <5>1, <5>2 DEF Owning, FdOwnership
      <4> QED BY <3>0, <4>1, <4>2
    <3> QED BY <3>0, <3>7, <3>11 DEF Owning
  <2> QED BY <2>2, <2>3
<1>28. ASSUME NEW t \in Threads, Mark(t) PROVE Owning'
  <2>1. t \in Threads /\ fdOf[t] \in Fds /\ connOf[t] \in Conns
    BY <1>28
       DEF Typing, Threads, Locals, LocalsOf, Kinds, ClosePcs, WorkerPcs,
           MainPcs, FdPcs, ConnPcs, Mark
  <2>8. Sockets'
    BY <1>28, <2>1, SMTT(30)
       DEF Owning, Sockets, FdOwnership, Closing, Accepting, Typing, TypeOK,
           KernelTypes, ObjectTypes, Mark
  <2>9. FdOwnership'
    BY <1>28, <2>1, SMTT(30)
       DEF Owning, Sockets, FdOwnership, Closing, Accepting, Mark
  <2> QED BY <2>8, <2>9 DEF Owning
<1>29. ASSUME NEW t \in Threads, Del(t) PROVE Owning'
  <2>1. t \in Threads /\ fdOf[t] \in Fds /\ connOf[t] \in Conns
    BY <1>29 DEF Typing, Locals, LocalsOf, ClosePcs, FdPcs, ConnPcs, Del
  <2>8. Sockets'
    BY <1>29, <2>1, SMTT(30) DEF Owning, Sockets, Accepting, Del
  <2>9. FdOwnership'
    BY <1>29, <2>1, SMTT(30) DEF Owning, FdOwnership, Closing, Accepting, Del
  <2> QED BY <2>8, <2>9 DEF Owning
<1>30. ASSUME NEW t \in Threads, Close(t) PROVE Owning'
  <2>1. t \in Threads /\ fdOf[t] \in Fds /\ connOf[t] \in Conns
    BY <1>30 DEF Typing, Locals, LocalsOf, ClosePcs, FdPcs, ConnPcs, Close
  <2>8. Sockets'
    BY <1>30, <2>1, SMTT(30)
       DEF Owning, Sockets, FdOwnership, Closing, Accepting, Typing, TypeOK,
           ServerTypes, ThreadTypes, Close, Return
  <2>9. FdOwnership'
    BY <1>30, <2>1, SMTT(30)
       DEF Owning, FdOwnership, Closing, Accepting, Typing, TypeOK,
           KernelTypes, ThreadTypes, Close, Return
  <2> QED BY <2>8, <2>9 DEF Owning
<1>31. ASSUME NEW c \in Conns, Connect(c) PROVE Owning'
  <2>8. Sockets'
    BY <1>31, SMTT(30)
       DEF Owning, Sockets, Accepting, Typing, TypeOK, KernelTypes, Connect
  <2>9. FdOwnership'
    BY <1>31, SMTT(30) DEF Owning, FdOwnership, Closing, Accepting, Connect
  <2> QED BY <2>8, <2>9 DEF Owning
<1>32. ASSUME NEW c \in Conns, Send(c) PROVE Owning'
  <2>8. Sockets'
    BY <1>32, SMTT(30) DEF Owning, Sockets, Accepting, Send
  <2>9. FdOwnership'
    BY <1>32, SMTT(30) DEF Owning, FdOwnership, Closing, Accepting, Send
  <2> QED BY <2>8, <2>9 DEF Owning
<1>33. ASSUME NEW c \in Conns, Shut(c) PROVE Owning'
  <2>8. Sockets'
    BY <1>33, SMTT(30) DEF Owning, Sockets, Accepting, Shut
  <2>9. FdOwnership'
    BY <1>33, SMTT(30) DEF Owning, FdOwnership, Closing, Accepting, Shut
  <2> QED BY <2>8, <2>9 DEF Owning
<1>34. ASSUME NEW c \in Conns, Reset(c) PROVE Owning'
  <2>8. Sockets'
    BY <1>34, SMTT(30) DEF Owning, Sockets, Accepting, Reset
  <2>9. FdOwnership'
    BY <1>34, SMTT(30) DEF Owning, FdOwnership, Closing, Accepting, Reset
  <2> QED BY <2>8, <2>9 DEF Owning
<1>35. ASSUME RequestStop PROVE Owning'
  <2>8. Sockets'
    BY <1>35, SMTT(30) DEF Owning, Sockets, Accepting, RequestStop
  <2>9. FdOwnership'
    BY <1>35, SMTT(30) DEF Owning, FdOwnership, Closing, Accepting, RequestStop
  <2> QED BY <2>8, <2>9 DEF Owning
<1>36. CASE UNCHANGED vars
  BY <1>36 DEF vars, Owning, Sockets, FdOwnership, Closing, Accepting
<1>37. QED
  BY <1>1, <1>2, <1>3, <1>4, <1>5, <1>6, <1>7, <1>8, <1>9, <1>10, <1>11, <1>12,
     <1>13, <1>14, <1>15, <1>16, <1>17, <1>18, <1>19, <1>20, <1>21, <1>22,
     <1>23, <1>24, <1>25, <1>26, <1>27, <1>28, <1>29, <1>30, <1>31, <1>32,
     <1>33, <1>34, <1>35, <1>36
     DEF Next, MainStep, WorkerStep, ClientStep, CloseStep, Threads

-----------------------------------------------------------------------------
(* What follows from ownership *)

LEMMA HoldFrame ==
  ASSUME ServerAssumption, Typing, HoldOwn, NEW t \in Threads, OnlyMoves(t),
         \A c \in Conns : closed[c] => closed'[c],
         \A f \in Fds : sock'[f] = sock[f] \/ sock[f] = None \/ closed'[sock[f]],
         t \in Workers => HoldsOwn(t)'
  PROVE  HoldOwn'
<1> SUFFICES ASSUME NEW w \in Workers, w # t PROVE HoldsOwn(w)'
  BY DEF HoldOwn
<1>1. /\ pc'[w] = pc[w] /\ fdOf'[w] = fdOf[w] /\ connOf'[w] = connOf[w]
      /\ seg'[w] = seg[w]
  BY DEF OnlyMoves, Threads
<1>2. pc[w] \in ConnPcs => fdOf[w] \in Fds /\ connOf[w] \in Conns
  BY DEF Typing, Locals, LocalsOf, Threads, ConnPcs
<1>3. "append" \in ConnPcs /\ "respond" \in ConnPcs
  BY DEF ConnPcs, FdPcs, WorkerPcs
<1> QED BY <1>1, <1>2, <1>3 DEF HoldOwn, HoldsOwn, ServerAssumption

\* What is left of a sequence without its first n elements.
LEMMA RestOf ==
  ASSUME NEW S, NEW s \in Seq(S), NEW n \in Nat
  PROVE  \A i \in 1..Len(SubSeq(s, n + 1, Len(s))) :
           /\ SubSeq(s, n + 1, Len(s))[i] = s[n + i]
           /\ n + i \in 1..Len(s)
<1>1. CASE n <= Len(s)
  <2>1. SubSeq(s, n + 1, Len(s)) = [i \in 1..(Len(s) - n) |-> s[n + i]]
    BY <1>1
  <2>2. Len(SubSeq(s, n + 1, Len(s))) = Len(s) - n
    BY <1>1
  <2> QED BY <1>1, <2>1, <2>2
<1>2. CASE ~(n <= Len(s))
  BY <1>2
<1> QED BY <1>1, <1>2

\* A worker never mixes two clients: every step keeps HoldOwn and NoForeignBytes.
LEMMA BytesStep ==
  ASSUME ServerAssumption, Typing, Owning, HoldOwn, NoForeignBytes, [Next]_vars
  PROVE  HoldOwn' /\ NoForeignBytes'
<1> USE DEF ServerAssumption
<1>1. ASSUME EpollWait PROVE HoldOwn' /\ NoForeignBytes'
  <2>1. Main \in Threads
    BY <1>1 DEF Threads
  <2>2. OnlyMoves(Main)
    BY <1>1, <2>1 DEF OnlyMoves, EpollWait
  <2>3. UNCHANGED <<sock, closed>>
    BY <1>1 DEF EpollWait
  <2>4. Main \notin Workers
    OBVIOUS
  <2>5. HoldOwn'
    BY <2>1, <2>2, <2>3, <2>4, HoldFrame
  <2>6. NoForeignBytes'
    BY <1>1 DEF NoForeignBytes, EpollWait
  <2> QED BY <2>5, <2>6
<1>2. ASSUME HandleEvent PROVE HoldOwn' /\ NoForeignBytes'
  <2>1. Main \in Threads
    BY <1>2
       DEF Threads, Typing, Locals, LocalsOf, Kinds, ClosePcs, WorkerPcs,
           MainPcs, FdPcs, ConnPcs, SegPcs, HandleEvent
  <2>2. OnlyMoves(Main)
    BY <1>2, <2>1 DEF OnlyMoves, Typing, TypeOK, ThreadTypes, HandleEvent
  <2>3. UNCHANGED <<sock, closed>>
    BY <1>2 DEF HandleEvent
  <2>4. Main \notin Workers
    OBVIOUS
  <2>5. HoldOwn'
    BY <2>1, <2>2, <2>3, <2>4, HoldFrame
  <2>6. NoForeignBytes'
    BY <1>2 DEF NoForeignBytes, HandleEvent
  <2> QED BY <2>5, <2>6
<1>3. ASSUME Dispatch PROVE HoldOwn' /\ NoForeignBytes'
  <2>1. Main \in Threads /\ fdOf[Main] \in Fds /\ connOf[Main] \in Conns
    BY <1>3
       DEF Threads, Typing, Locals, LocalsOf, Kinds, ClosePcs, WorkerPcs,
           MainPcs, FdPcs, ConnPcs, SegPcs, Dispatch, MayBegin
  <2>2. OnlyMoves(Main)
    BY <1>3, <2>1 DEF OnlyMoves, Dispatch, Return
  <2>3. UNCHANGED <<sock, closed>>
    BY <1>3 DEF Dispatch
  <2>4. Main \notin Workers
    OBVIOUS
  <2>5. HoldOwn'
    BY <2>1, <2>2, <2>3, <2>4, HoldFrame
  <2>6. NoForeignBytes'
    BY <1>3 DEF NoForeignBytes, Dispatch, MayBegin
  <2> QED BY <2>5, <2>6
<1>4. ASSUME Accept PROVE HoldOwn' /\ NoForeignBytes'
  <2>1. Main \in Threads
    BY <1>4
       DEF Threads, Typing, Locals, LocalsOf, Kinds, ClosePcs, WorkerPcs,
           MainPcs, FdPcs, ConnPcs, SegPcs, Accept
  <2>2. OnlyMoves(Main)
    BY <1>4, <2>1 DEF OnlyMoves, Typing, TypeOK, ThreadTypes, Accept
  <2>3. /\ \A c \in Conns : closed[c] => closed'[c]
        /\ \A f \in Fds : sock'[f] = sock[f] \/ sock[f] = None \/ closed'[sock[f]]
    BY <1>4, <2>1 DEF Typing, TypeOK, KernelTypes, Accept
  <2>4. Main \notin Workers
    OBVIOUS
  <2>5. HoldOwn'
    BY <2>1, <2>2, <2>3, <2>4, HoldFrame
  <2>6. NoForeignBytes'
    BY <1>4 DEF NoForeignBytes, Accept
  <2> QED BY <2>5, <2>6
<1>5. ASSUME Insert PROVE HoldOwn' /\ NoForeignBytes'
  <2>1. Main \in Threads /\ fdOf[Main] \in Fds /\ connOf[Main] \in Conns
    BY <1>5
       DEF Threads, Typing, Locals, LocalsOf, Kinds, ClosePcs, WorkerPcs,
           MainPcs, FdPcs, ConnPcs, SegPcs, Insert
  <2>2. OnlyMoves(Main)
    BY <1>5, <2>1 DEF OnlyMoves, Insert
  <2>3. UNCHANGED <<sock, closed>>
    BY <1>5 DEF Insert
  <2>4. Main \notin Workers
    OBVIOUS
  <2>5. HoldOwn'
    BY <2>1, <2>2, <2>3, <2>4, HoldFrame
  <2>6. NoForeignBytes'
    BY <1>5 DEF NoForeignBytes, Insert
  <2> QED BY <2>5, <2>6
<1>6. ASSUME Add PROVE HoldOwn' /\ NoForeignBytes'
  <2>1. Main \in Threads /\ fdOf[Main] \in Fds /\ connOf[Main] \in Conns
    BY <1>6
       DEF Threads, Typing, Locals, LocalsOf, Kinds, ClosePcs, WorkerPcs,
           MainPcs, FdPcs, ConnPcs, SegPcs, Add
  <2>2. OnlyMoves(Main)
    BY <1>6, <2>1 DEF OnlyMoves, Add
  <2>3. UNCHANGED <<sock, closed>>
    BY <1>6 DEF Add
  <2>4. Main \notin Workers
    OBVIOUS
  <2>5. HoldOwn'
    BY <2>1, <2>2, <2>3, <2>4, HoldFrame
  <2>6. NoForeignBytes'
    BY <1>6 DEF NoForeignBytes, Add
  <2> QED BY <2>5, <2>6
<1>7. ASSUME PopExpired PROVE HoldOwn' /\ NoForeignBytes'
  <2>1. Main \in Threads
    BY <1>7
       DEF Threads, Typing, Locals, LocalsOf, Kinds, ClosePcs, WorkerPcs,
           MainPcs, FdPcs, ConnPcs, SegPcs, PopExpired
  <2>2. OnlyMoves(Main)
    BY <1>7, <2>1 DEF OnlyMoves, PopExpired
  <2>3. UNCHANGED <<sock, closed>>
    BY <1>7 DEF PopExpired
  <2>4. Main \notin Workers
    OBVIOUS
  <2>5. HoldOwn'
    BY <2>1, <2>2, <2>3, <2>4, HoldFrame
  <2>6. NoForeignBytes'
    BY <1>7 DEF NoForeignBytes, PopExpired
  <2> QED BY <2>5, <2>6
<1>8. ASSUME Reap PROVE HoldOwn' /\ NoForeignBytes'
  <2>1. Main \in Threads
    BY <1>8
       DEF Threads, Typing, Locals, LocalsOf, Kinds, ClosePcs, WorkerPcs,
           MainPcs, FdPcs, ConnPcs, SegPcs, Reap
  <2>2. OnlyMoves(Main)
    BY <1>8, <2>1 DEF OnlyMoves, Typing, TypeOK, ThreadTypes, Reap
  <2>3. UNCHANGED <<sock, closed>>
    BY <1>8 DEF Reap
  <2>4. Main \notin Workers
    OBVIOUS
  <2>5. HoldOwn'
    BY <2>1, <2>2, <2>3, <2>4, HoldFrame
  <2>6. NoForeignBytes'
    BY <1>8 DEF NoForeignBytes, Reap
  <2> QED BY <2>5, <2>6
<1>9. ASSUME LeaveLoop PROVE HoldOwn' /\ NoForeignBytes'
  <2>1. Main \in Threads
    BY <1>9
       DEF Threads, Typing, Locals, LocalsOf, Kinds, ClosePcs, WorkerPcs,
           MainPcs, FdPcs, ConnPcs, SegPcs, LeaveLoop
  <2>2. OnlyMoves(Main)
    BY <1>9, <2>1 DEF OnlyMoves, LeaveLoop
  <2>3. UNCHANGED <<sock, closed>>
    BY <1>9 DEF LeaveLoop
  <2>4. Main \notin Workers
    OBVIOUS
  <2>5. HoldOwn'
    BY <2>1, <2>2, <2>3, <2>4, HoldFrame
  <2>6. NoForeignBytes'
    BY <1>9 DEF NoForeignBytes, LeaveLoop
  <2> QED BY <2>5, <2>6
<1>10. ASSUME Join PROVE HoldOwn' /\ NoForeignBytes'
  <2>1. Main \in Threads
    BY <1>10
       DEF Threads, Typing, Locals, LocalsOf, Kinds, ClosePcs, WorkerPcs,
           MainPcs, FdPcs, ConnPcs, SegPcs, Join
  <2>2. OnlyMoves(Main)
    BY <1>10, <2>1 DEF OnlyMoves, Join
  <2>3. UNCHANGED <<sock, closed>>
    BY <1>10 DEF Join
  <2>4. Main \notin Workers
    OBVIOUS
  <2>5. HoldOwn'
    BY <2>1, <2>2, <2>3, <2>4, HoldFrame
  <2>6. NoForeignBytes'
    BY <1>10 DEF NoForeignBytes, Join
  <2> QED BY <2>5, <2>6
<1>11. ASSUME CloseAll PROVE HoldOwn' /\ NoForeignBytes'
  <2>1. Main \in Threads
    BY <1>11
       DEF Threads, Typing, Locals, LocalsOf, Kinds, ClosePcs, WorkerPcs,
           MainPcs, FdPcs, ConnPcs, SegPcs, CloseAll
  <2>2. OnlyMoves(Main)
    BY <1>11, <2>1 DEF OnlyMoves, CloseAll
  <2>3. /\ \A c \in Conns : closed[c] => closed'[c]
        /\ \A f \in Fds : sock'[f] = sock[f] \/ sock[f] = None \/ closed'[sock[f]]
    <3>1. \A c \in Conns : closed'[c] <=> closed[c] \/ \E f \in Fds : conns[f] # None /\ conns[f] = c
      BY <1>11 DEF CloseAll
    <3>2. \A f \in Fds : sock'[f] = IF conns[f] # None THEN None ELSE sock[f]
      BY <1>11 DEF CloseAll
    <3>3. \A f \in Fds : conns[f] # None => conns[f] = sock[f] /\ sock[f] \in Conns
      BY DEF Owning, FdOwnership, Typing, TypeOK, ServerTypes
    <3> QED BY <3>1, <3>2, <3>3
  <2>4. Main \notin Workers
    OBVIOUS
  <2>5. HoldOwn'
    BY <2>1, <2>2, <2>3, <2>4, HoldFrame
  <2>6. NoForeignBytes'
    BY <1>11 DEF NoForeignBytes, CloseAll
  <2> QED BY <2>5, <2>6
<1>12. ASSUME NEW t \in Threads, Find(t) PROVE HoldOwn' /\ NoForeignBytes'
  <2>1. t \in Threads /\ fdOf[t] \in Fds
    BY <1>12
       DEF Threads, Typing, Locals, LocalsOf, Kinds, ClosePcs, WorkerPcs,
           MainPcs, FdPcs, ConnPcs, SegPcs, Find
  <2>2. OnlyMoves(t)
    BY <1>12, <2>1 DEF OnlyMoves, Typing, TypeOK, ThreadTypes, Find, Return
  <2>3. UNCHANGED <<sock, closed>>
    BY <1>12 DEF Find
  <2>4. t \in Workers => HoldsOwn(t)'
    BY <1>12, <2>1, SMTT(20)
       DEF HoldsOwn, Typing, TypeOK, ThreadTypes, Kinds, ClosePcs, FdPcs,
           ConnPcs, Owning, FdOwnership, Find, Return
  <2>5. HoldOwn'
    BY <2>1, <2>2, <2>3, <2>4, HoldFrame
  <2>6. NoForeignBytes'
    BY <1>12 DEF NoForeignBytes, Find
  <2> QED BY <2>5, <2>6
<1>13. ASSUME NEW t \in Threads, Mark(t) PROVE HoldOwn' /\ NoForeignBytes'
  <2>1. t \in Threads /\ fdOf[t] \in Fds /\ connOf[t] \in Conns
    BY <1>13
       DEF Threads, Typing, Locals, LocalsOf, Kinds, ClosePcs, WorkerPcs,
           MainPcs, FdPcs, ConnPcs, SegPcs, Mark
  <2>2. OnlyMoves(t)
    BY <1>13, <2>1 DEF OnlyMoves, Mark
  <2>3. /\ \A c \in Conns : closed[c] => closed'[c]
        /\ \A f \in Fds : sock'[f] = sock[f] \/ sock[f] = None \/ closed'[sock[f]]
    BY <1>13, <2>1 DEF Mark
  <2>4. t \in Workers => HoldsOwn(t)'
    BY <1>13, <2>1, SMTT(20)
       DEF HoldOwn, HoldsOwn, ClosePcs, FdPcs, ConnPcs, Mark
  <2>5. HoldOwn'
    BY <2>1, <2>2, <2>3, <2>4, HoldFrame
  <2>6. NoForeignBytes'
    BY <1>13 DEF NoForeignBytes, Mark
  <2> QED BY <2>5, <2>6
<1>14. ASSUME NEW t \in Threads, Del(t) PROVE HoldOwn' /\ NoForeignBytes'
  <2>1. t \in Threads /\ fdOf[t] \in Fds /\ connOf[t] \in Conns
    BY <1>14
       DEF Threads, Typing, Locals, LocalsOf, Kinds, ClosePcs, WorkerPcs,
           MainPcs, FdPcs, ConnPcs, SegPcs, Del
  <2>2. OnlyMoves(t)
    BY <1>14, <2>1 DEF OnlyMoves, Del
  <2>3. UNCHANGED <<sock, closed>>
    BY <1>14 DEF Del
  <2>4. t \in Workers => HoldsOwn(t)'
    BY <1>14, <2>1, SMTT(20)
       DEF HoldOwn, HoldsOwn, ClosePcs, FdPcs, ConnPcs, Del
  <2>5. HoldOwn'
    BY <2>1, <2>2, <2>3, <2>4, HoldFrame
  <2>6. NoForeignBytes'
    BY <1>14 DEF NoForeignBytes, Del
  <2> QED BY <2>5, <2>6
<1>15. ASSUME NEW t \in Threads, Close(t) PROVE HoldOwn' /\ NoForeignBytes'
  <2>1. t \in Threads /\ fdOf[t] \in Fds /\ connOf[t] \in Conns
    BY <1>15
       DEF Threads, Typing, Locals, LocalsOf, Kinds, ClosePcs, WorkerPcs,
           MainPcs, FdPcs, ConnPcs, SegPcs, Close
  <2>2. OnlyMoves(t)
    BY <1>15, <2>1 DEF OnlyMoves, Close, Return
  <2>3. /\ \A c \in Conns : closed[c] => closed'[c]
        /\ \A f \in Fds : sock'[f] = sock[f] \/ sock[f] = None \/ closed'[sock[f]]
    BY <1>15, <2>1 DEF Owning, FdOwnership, Sockets, Closing, Close
  <2>4. t \in Workers => HoldsOwn(t)'
    BY <1>15, <2>1, SMTT(20)
       DEF HoldsOwn, Typing, TypeOK, ThreadTypes, Kinds, ClosePcs, FdPcs,
           ConnPcs, Close, Return
  <2>5. HoldOwn'
    BY <2>1, <2>2, <2>3, <2>4, HoldFrame
  <2>6. NoForeignBytes'
    BY <1>15 DEF NoForeignBytes, Close
  <2> QED BY <2>5, <2>6
<1>16. ASSUME NEW w \in Workers, Take(w) PROVE HoldOwn' /\ NoForeignBytes'
  <2>1. w \in Threads
    BY <1>16
       DEF Threads, Typing, Locals, LocalsOf, Kinds, ClosePcs, WorkerPcs,
           MainPcs, FdPcs, ConnPcs, SegPcs, Take
  <2>2. OnlyMoves(w)
    BY <1>16, <2>1 DEF OnlyMoves, Take
  <2>3. UNCHANGED <<sock, closed>>
    BY <1>16 DEF Take
  <2>4. w \in Workers => HoldsOwn(w)'
    BY <1>16, <2>1, SMTT(20)
       DEF HoldsOwn, Kinds, ClosePcs, FdPcs, ConnPcs, Take
  <2>5. HoldOwn'
    BY <2>1, <2>2, <2>3, <2>4, HoldFrame
  <2>6. NoForeignBytes'
    BY <1>16 DEF NoForeignBytes, Take
  <2> QED BY <2>5, <2>6
<1>17. ASSUME NEW w \in Workers, GetConnection(w) PROVE HoldOwn' /\ NoForeignBytes'
  <2>1. w \in Threads /\ fdOf[w] \in Fds
    BY <1>17
       DEF Threads, Typing, Locals, LocalsOf, Kinds, ClosePcs, WorkerPcs,
           MainPcs, FdPcs, ConnPcs, SegPcs, GetConnection
  <2>2. OnlyMoves(w)
    BY <1>17, <2>1
       DEF OnlyMoves, Typing, TypeOK, ThreadTypes, GetConnection, Return
  <2>3. UNCHANGED <<sock, closed>>
    BY <1>17 DEF GetConnection
  <2>4. w \in Workers => HoldsOwn(w)'
    BY <1>17, <2>1, SMTT(20)
       DEF HoldsOwn, Typing, TypeOK, ThreadTypes, Kinds, ClosePcs, FdPcs,
           ConnPcs, Owning, FdOwnership, GetConnection, Return
  <2>5. HoldOwn'
    BY <2>1, <2>2, <2>3, <2>4, HoldFrame
  <2>6. NoForeignBytes'
    BY <1>17 DEF NoForeignBytes, GetConnection
  <2> QED BY <2>5, <2>6
<1>18. ASSUME NEW w \in Workers, Read(w) PROVE HoldOwn' /\ NoForeignBytes'
  <2>1. w \in Threads /\ fdOf[w] \in Fds /\ connOf[w] \in Conns
    BY <1>18
       DEF Threads, Typing, Locals, LocalsOf, Kinds, ClosePcs, WorkerPcs,
           MainPcs, FdPcs, ConnPcs, SegPcs, Read
  <2>2. OnlyMoves(w)
    BY <1>18, <2>1 DEF OnlyMoves, Typing, TypeOK, ThreadTypes, Read
  <2>3. UNCHANGED <<sock, closed>>
    BY <1>18 DEF Read
  <2>4. w \in Workers => HoldsOwn(w)'
    BY <1>18, <2>1, SMTT(20)
       DEF HoldOwn, HoldsOwn, Typing, TypeOK, ThreadTypes, MainPcs, FdPcs,
           ConnPcs, Read
  <2>5. HoldOwn'
    BY <2>1, <2>2, <2>3, <2>4, HoldFrame
  <2>6. NoForeignBytes'
    BY <1>18 DEF NoForeignBytes, Read
  <2> QED BY <2>5, <2>6
<1>19. ASSUME NEW w \in Workers, AppendRead(w) PROVE HoldOwn' /\ NoForeignBytes'
  <2>1. w \in Threads /\ fdOf[w] \in Fds /\ connOf[w] \in Conns
    BY <1>19
       DEF Threads, Typing, Locals, LocalsOf, Kinds, ClosePcs, WorkerPcs,
           MainPcs, FdPcs, ConnPcs, SegPcs, AppendRead
  <2>2. OnlyMoves(w)
    BY <1>19, <2>1 DEF OnlyMoves, AppendRead
  <2>3. UNCHANGED <<sock, closed>>
    BY <1>19 DEF AppendRead
  <2>4. w \in Workers => HoldsOwn(w)'
    BY <1>19, <2>1, SMTT(20)
       DEF HoldOwn, HoldsOwn, Typing, TypeOK, ThreadTypes, Threads, MainPcs,
           FdPcs, ConnPcs, AppendRead
  <2>5. HoldOwn'
    BY <2>1, <2>2, <2>3, <2>4, HoldFrame
  <2>6. NoForeignBytes'
    <3>1. UNCHANGED writeBuf
      BY <1>19 DEF AppendRead, output
    <3>2. CASE closed[connOf[w]]
      BY <1>19, <3>1, <3>2 DEF AppendRead, Appended, NoForeignBytes
    <3>3. CASE ~closed[connOf[w]]
      <4>1. readBuf' = [readBuf EXCEPT ![connOf[w]] = Append(readBuf[connOf[w]], seg[w])]
        BY <1>19, <3>3 DEF AppendRead, Appended
      <4>2. seg[w].from = connOf[w]
        BY <1>19, <3>3 DEF AppendRead, HoldOwn, HoldsOwn
      <4> SUFFICES ASSUME NEW c \in Conns, NEW i \in 1..Len(readBuf'[c])
                   PROVE  readBuf'[c][i].from = c
        BY <3>1 DEF NoForeignBytes
      <4>3. CASE c # connOf[w]
        BY <4>1, <4>3 DEF NoForeignBytes
      <4>4. CASE c = connOf[w]
        <5>1. readBuf[c] \in Seq(Segment) /\ readBuf'[c] = Append(readBuf[c], seg[w])
          BY <4>1, <4>4 DEF Typing, TypeOK, ObjectTypes
        <5>2. readBuf'[c][i] = IF i <= Len(readBuf[c]) THEN readBuf[c][i] ELSE seg[w]
          BY <5>1
        <5>3. i <= Len(readBuf[c]) => i \in 1..Len(readBuf[c])
          BY <5>1
        <5> QED BY <4>2, <4>4, <5>2, <5>3 DEF NoForeignBytes
      <4> QED BY <4>3, <4>4
    <3> QED BY <3>2, <3>3
  <2> QED BY <2>5, <2>6
<1>20. ASSUME NEW w \in Workers, Touch(w) PROVE HoldOwn' /\ NoForeignBytes'
  <2>1. w \in Threads /\ fdOf[w] \in Fds /\ connOf[w] \in Conns
    BY <1>20
       DEF Threads, Typing, Locals, LocalsOf, Kinds, ClosePcs, WorkerPcs,
           MainPcs, FdPcs, ConnPcs, SegPcs, Touch
  <2>2. OnlyMoves(w)
    BY <1>20, <2>1 DEF OnlyMoves, Touch
  <2>3. UNCHANGED <<sock, closed>>
    BY <1>20 DEF Touch
  <2>4. w \in Workers => HoldsOwn(w)'
    BY <1>20, <2>1, SMTT(20)
       DEF HoldOwn, HoldsOwn, WorkerPcs, FdPcs, ConnPcs, Touch
  <2>5. HoldOwn'
    BY <2>1, <2>2, <2>3, <2>4, HoldFrame
  <2>6. NoForeignBytes'
    BY <1>20 DEF NoForeignBytes, Touch
  <2> QED BY <2>5, <2>6
<1>21. ASSUME NEW w \in Workers, Extract(w) PROVE HoldOwn' /\ NoForeignBytes'
  <2>1. w \in Threads /\ fdOf[w] \in Fds /\ connOf[w] \in Conns
    BY <1>21
       DEF Threads, Typing, Locals, LocalsOf, Kinds, ClosePcs, WorkerPcs,
           MainPcs, FdPcs, ConnPcs, SegPcs, Extract
  <2>2. OnlyMoves(w)
    BY <1>21, <2>1 DEF OnlyMoves, Typing, TypeOK, ThreadTypes, Extract, Return
  <2>3. UNCHANGED <<sock, closed>>
    BY <1>21 DEF Extract
  <2>4. w \in Workers => HoldsOwn(w)'
    BY <1>21, <2>1, SMTT(20)
       DEF HoldOwn, HoldsOwn, Typing, TypeOK, ThreadTypes, Threads, Kinds,
           ClosePcs, WorkerPcs, MainPcs, FdPcs, ConnPcs, NoForeignBytes,
           Extract, Return
  <2>5. HoldOwn'
    BY <2>1, <2>2, <2>3, <2>4, HoldFrame
  <2>6. NoForeignBytes'
    <3>1. UNCHANGED writeBuf
      BY <1>21 DEF Extract
    <3>2. \A c \in Conns : readBuf[c] \in Seq(Segment)
      BY DEF Typing, TypeOK, ObjectTypes
    <3>3. CASE UNCHANGED readBuf
      BY <3>1, <3>3 DEF NoForeignBytes
    <3>4. CASE readBuf' = [readBuf EXCEPT ![connOf[w]] =
                 SubSeq(readBuf[connOf[w]], SegsPerRequest + 1, Len(readBuf[connOf[w]]))]
      <4> SUFFICES ASSUME NEW c \in Conns, NEW i \in 1..Len(readBuf'[c])
                   PROVE  readBuf'[c][i].from = c
        BY <3>1 DEF NoForeignBytes
      <4>1. CASE c # connOf[w]
        BY <3>4, <4>1 DEF NoForeignBytes
      <4>2. CASE c = connOf[w]
        <5>1. readBuf'[c] = SubSeq(readBuf[c], SegsPerRequest + 1, Len(readBuf[c]))
          BY <3>4, <4>2 DEF Typing, TypeOK, ObjectTypes
        <5>2. /\ readBuf'[c][i] = readBuf[c][SegsPerRequest + i]
              /\ SegsPerRequest + i \in 1..Len(readBuf[c])
          <6>1. PICK s \in Seq(Segment) : s = readBuf[c]
            BY <3>2
          <6>2. i \in 1..Len(SubSeq(s, SegsPerRequest + 1, Len(s)))
            BY <5>1, <6>1
          <6>3. SegsPerRequest \in Nat
            OBVIOUS
          <6>4. /\ SubSeq(s, SegsPerRequest + 1, Len(s))[i] = s[SegsPerRequest + i]
                /\ SegsPerRequest + i \in 1..Len(s)
            BY <6>2, <6>3, RestOf
          <6> QED BY <5>1, <6>1, <6>4
        <5> QED BY <5>2 DEF NoForeignBytes
      <4> QED BY <4>1, <4>2
    <3> QED BY <1>21, <3>3, <3>4 DEF Extract
  <2> QED BY <2>5, <2>6
<1>22. ASSUME NEW w \in Workers, Respond(w) PROVE HoldOwn' /\ NoForeignBytes'
  <2>1. w \in Threads /\ fdOf[w] \in Fds /\ connOf[w] \in Conns /\ seg[w] \in Segment
    BY <1>22
       DEF Threads, Typing, Locals, LocalsOf, Kinds, ClosePcs, WorkerPcs,
           MainPcs, FdPcs, ConnPcs, SegPcs, Respond
  <2>2. OnlyMoves(w)
    BY <1>22, <2>1 DEF OnlyMoves, Typing, TypeOK, ThreadTypes, Respond, Return
  <2>3. UNCHANGED <<sock, closed>>
    BY <1>22 DEF Respond
  <2>4. w \in Workers => HoldsOwn(w)'
    BY <1>22, <2>1, SMTT(20)
       DEF HoldOwn, HoldsOwn, Typing, TypeOK, ThreadTypes, Kinds, ClosePcs,
           MainPcs, FdPcs, ConnPcs, Respond, Return
  <2>5. HoldOwn'
    BY <2>1, <2>2, <2>3, <2>4, HoldFrame
  <2>6. NoForeignBytes'
    BY <1>22, <2>1, SMTT(20)
       DEF NoForeignBytes, Typing, TypeOK, ObjectTypes, Segment, HoldOwn,
           HoldsOwn, Respond, Return
  <2> QED BY <2>5, <2>6
<1>23. ASSUME NEW w \in Workers, FinishProcessing(w) PROVE HoldOwn' /\ NoForeignBytes'
  <2>1. w \in Threads /\ fdOf[w] \in Fds /\ connOf[w] \in Conns
    BY <1>23
       DEF Threads, Typing, Locals, LocalsOf, Kinds, ClosePcs, WorkerPcs,
           MainPcs, FdPcs, ConnPcs, SegPcs, FinishProcessing
  <2>2. OnlyMoves(w)
    BY <1>23, <2>1 DEF OnlyMoves, FinishProcessing
  <2>3. UNCHANGED <<sock, closed>>
    BY <1>23 DEF FinishProcessing
  <2>4. w \in Workers => HoldsOwn(w)'
    BY <1>23, <2>1, SMTT(20)
       DEF HoldOwn, HoldsOwn, WorkerPcs, FdPcs, ConnPcs, FinishProcessing
  <2>5. HoldOwn'
    BY <2>1, <2>2, <2>3, <2>4, HoldFrame
  <2>6. NoForeignBytes'
    BY <1>23 DEF NoForeignBytes, FinishProcessing
  <2> QED BY <2>5, <2>6
<1>24. ASSUME NEW w \in Workers, Rearm(w) PROVE HoldOwn' /\ NoForeignBytes'
  <2>1. w \in Threads /\ fdOf[w] \in Fds /\ connOf[w] \in Conns
    BY <1>24
       DEF Threads, Typing, Locals, LocalsOf, Kinds, ClosePcs, WorkerPcs,
           MainPcs, FdPcs, ConnPcs, SegPcs, Rearm
  <2>2. OnlyMoves(w)
    BY <1>24, <2>1 DEF OnlyMoves, Rearm, Return
  <2>3. UNCHANGED <<sock, closed>>
    BY <1>24 DEF Rearm
  <2>4. w \in Workers => HoldsOwn(w)'
    BY <1>24, <2>1, SMTT(20)
       DEF HoldsOwn, Typing, TypeOK, ThreadTypes, Kinds, ClosePcs, FdPcs,
           ConnPcs, Rearm, Return
  <2>5. HoldOwn'
    BY <2>1, <2>2, <2>3, <2>4, HoldFrame
  <2>6. NoForeignBytes'
    BY <1>24 DEF NoForeignBytes, Rearm
  <2> QED BY <2>5, <2>6
<1>25. ASSUME NEW w \in Workers, Check(w) PROVE HoldOwn' /\ NoForeignBytes'
  <2>1. w \in Threads /\ fdOf[w] \in Fds /\ connOf[w] \in Conns
    BY <1>25
       DEF Threads, Typing, Locals, LocalsOf, Kinds, ClosePcs, WorkerPcs,
           MainPcs, FdPcs, ConnPcs, SegPcs, Check
  <2>2. OnlyMoves(w)
    BY <1>25, <2>1 DEF OnlyMoves, Typing, TypeOK, ThreadTypes, Check
  <2>3. UNCHANGED <<sock, closed>>
    BY <1>25 DEF Check
  <2>4. w \in Workers => HoldsOwn(w)'
    BY <1>25, <2>1, SMTT(20)
       DEF HoldOwn, HoldsOwn, Typing, TypeOK, ThreadTypes, MainPcs, FdPcs,
           ConnPcs, Check
  <2>5. HoldOwn'
    BY <2>1, <2>2, <2>3, <2>4, HoldFrame
  <2>6. NoForeignBytes'
    BY <1>25 DEF NoForeignBytes, Check
  <2> QED BY <2>5, <2>6
<1>26. ASSUME NEW w \in Workers, WriteSome(w) PROVE HoldOwn' /\ NoForeignBytes'
  <2>1. w \in Threads /\ fdOf[w] \in Fds /\ connOf[w] \in Conns
    BY <1>26
       DEF Threads, Typing, Locals, LocalsOf, Kinds, ClosePcs, WorkerPcs,
           MainPcs, FdPcs, ConnPcs, SegPcs, WriteSome
  <2>2. OnlyMoves(w)
    BY <1>26, <2>1 DEF OnlyMoves, WriteSome
  <2>3. UNCHANGED <<sock, closed>>
    BY <1>26 DEF WriteSome
  <2>4. w \in Workers => HoldsOwn(w)'
    BY <1>26, <2>1, SMTT(20)
       DEF HoldOwn, HoldsOwn, Threads, Kinds, WorkerPcs, FdPcs, ConnPcs,
           WriteSome
  <2>5. HoldOwn'
    BY <2>1, <2>2, <2>3, <2>4, HoldFrame
  <2>6. NoForeignBytes'
    BY <1>26 DEF NoForeignBytes, WriteSome
  <2> QED BY <2>5, <2>6
<1>27. ASSUME NEW w \in Workers, WriteNone(w) PROVE HoldOwn' /\ NoForeignBytes'
  <2>1. w \in Threads /\ fdOf[w] \in Fds /\ connOf[w] \in Conns
    BY <1>27
       DEF Threads, Typing, Locals, LocalsOf, Kinds, ClosePcs, WorkerPcs,
           MainPcs, FdPcs, ConnPcs, SegPcs, WriteNone
  <2>2. OnlyMoves(w)
    BY <1>27, <2>1 DEF OnlyMoves, WriteNone
  <2>3. UNCHANGED <<sock, closed>>
    BY <1>27 DEF WriteNone
  <2>4. w \in Workers => HoldsOwn(w)'
    BY <1>27, <2>1, SMTT(20)
       DEF HoldOwn, HoldsOwn, WorkerPcs, FdPcs, ConnPcs, WriteNone
  <2>5. HoldOwn'
    BY <2>1, <2>2, <2>3, <2>4, HoldFrame
  <2>6. NoForeignBytes'
    BY <1>27 DEF NoForeignBytes, WriteNone
  <2> QED BY <2>5, <2>6
<1>28. ASSUME NEW w \in Workers, SigPipe(w) PROVE HoldOwn' /\ NoForeignBytes'
  <2>1. w \in Threads
    BY <1>28
       DEF Threads, Typing, Locals, LocalsOf, Kinds, ClosePcs, WorkerPcs,
           MainPcs, FdPcs, ConnPcs, SegPcs, SigPipe
  <2>2. OnlyMoves(w)
    BY <1>28, <2>1 DEF OnlyMoves, SigPipe
  <2>3. UNCHANGED <<sock, closed>>
    BY <1>28 DEF SigPipe
  <2>4. w \in Workers => HoldsOwn(w)'
    BY <1>28, <2>1, SMTT(20) DEF HoldOwn, HoldsOwn, SigPipe
  <2>5. HoldOwn'
    BY <2>1, <2>2, <2>3, <2>4, HoldFrame
  <2>6. NoForeignBytes'
    BY <1>28 DEF NoForeignBytes, SigPipe
  <2> QED BY <2>5, <2>6
<1>29. ASSUME NEW w \in Workers, Consume(w) PROVE HoldOwn' /\ NoForeignBytes'
  <2>1. w \in Threads /\ fdOf[w] \in Fds /\ connOf[w] \in Conns
    BY <1>29
       DEF Threads, Typing, Locals, LocalsOf, Kinds, ClosePcs, WorkerPcs,
           MainPcs, FdPcs, ConnPcs, SegPcs, Consume
  <2>2. OnlyMoves(w)
    BY <1>29, <2>1 DEF OnlyMoves, Consume
  <2>3. UNCHANGED <<sock, closed>>
    BY <1>29 DEF Consume
  <2>4. w \in Workers => HoldsOwn(w)'
    BY <1>29, <2>1, SMTT(20)
       DEF HoldOwn, HoldsOwn, WorkerPcs, FdPcs, ConnPcs, Consume
  <2>5. HoldOwn'
    BY <2>1, <2>2, <2>3, <2>4, HoldFrame
  <2>6. NoForeignBytes'
    BY <1>29 DEF NoForeignBytes, Consume
  <2> QED BY <2>5, <2>6
<1>30. ASSUME NEW w \in Workers, Clear(w) PROVE HoldOwn' /\ NoForeignBytes'
  <2>1. w \in Threads /\ fdOf[w] \in Fds /\ connOf[w] \in Conns
    BY <1>30
       DEF Threads, Typing, Locals, LocalsOf, Kinds, ClosePcs, WorkerPcs,
           MainPcs, FdPcs, ConnPcs, SegPcs, Clear
  <2>2. OnlyMoves(w)
    BY <1>30, <2>1 DEF OnlyMoves, Clear
  <2>3. UNCHANGED <<sock, closed>>
    BY <1>30 DEF Clear
  <2>4. w \in Workers => HoldsOwn(w)'
    BY <1>30, <2>1, SMTT(20)
       DEF HoldOwn, HoldsOwn, WorkerPcs, FdPcs, ConnPcs, Clear
  <2>5. HoldOwn'
    BY <2>1, <2>2, <2>3, <2>4, HoldFrame
  <2>6. NoForeignBytes'
    BY <1>30, <2>1, SMTT(20)
       DEF NoForeignBytes, Typing, TypeOK, ObjectTypes, Segment, Clear
  <2> QED BY <2>5, <2>6
<1>31. ASSUME NEW c \in Conns, Connect(c) PROVE HoldOwn' /\ NoForeignBytes'
  BY <1>31 DEF HoldOwn, HoldsOwn, NoForeignBytes, Connect
<1>32. ASSUME NEW c \in Conns, Send(c) PROVE HoldOwn' /\ NoForeignBytes'
  BY <1>32 DEF HoldOwn, HoldsOwn, NoForeignBytes, Send
<1>33. ASSUME NEW c \in Conns, Shut(c) PROVE HoldOwn' /\ NoForeignBytes'
  BY <1>33 DEF HoldOwn, HoldsOwn, NoForeignBytes, Shut
<1>34. ASSUME NEW c \in Conns, Reset(c) PROVE HoldOwn' /\ NoForeignBytes'
  BY <1>34 DEF HoldOwn, HoldsOwn, NoForeignBytes, Reset
<1>35. ASSUME RequestStop PROVE HoldOwn' /\ NoForeignBytes'
  BY <1>35 DEF HoldOwn, HoldsOwn, NoForeignBytes, RequestStop
<1>36. CASE UNCHANGED vars
  BY <1>36 DEF vars, HoldOwn, HoldsOwn, NoForeignBytes
<1>37. QED
  BY <1>1, <1>2, <1>3, <1>4, <1>5, <1>6, <1>7, <1>8, <1>9, <1>10, <1>11, <1>12,
     <1>13, <1>14, <1>15, <1>16, <1>17, <1>18, <1>19, <1>20, <1>21, <1>22,
     <1>23, <1>24, <1>25, <1>26, <1>27, <1>28, <1>29, <1>30, <1>31, <1>32,
     <1>33, <1>34, <1>35, <1>36
     DEF Next, MainStep, WorkerStep, ClientStep, CloseStep, Threads

\* No deadline is lost.
LEMMA TimersStep ==
  ASSUME ServerAssumption, Typing, Owning, [Next]_vars,
         TimerCoverage, Reaping
  PROVE  TimerCoverage' /\ Reaping'
<1> USE DEF ServerAssumption
<1>1. ASSUME EpollWait PROVE TimerCoverage' /\ Reaping'
  BY <1>1 DEF TimerCoverage, Reaping, EpollWait
<1>2. ASSUME HandleEvent PROVE TimerCoverage' /\ Reaping'
  BY <1>2 DEF TimerCoverage, Reaping, HandleEvent
<1>3. ASSUME Dispatch PROVE TimerCoverage' /\ Reaping'
  BY <1>3 DEF TimerCoverage, Reaping, Dispatch, Return
<1>4. ASSUME Accept PROVE TimerCoverage' /\ Reaping'
  BY <1>4 DEF TimerCoverage, Reaping, Accept
<1>5. ASSUME Insert PROVE TimerCoverage' /\ Reaping'
  <2>1. Main \in Threads /\ fdOf[Main] \in Fds /\ connOf[Main] \in Conns
    BY <1>5 DEF Threads, Typing, Locals, LocalsOf, FdPcs, ConnPcs, Insert
  <2>2. TimerCoverage'
    BY <1>5, <2>1, SMTT(15) DEF TimerCoverage, Insert, AddOrUpdate
  <2>3. Reaping'
    BY <1>5, <2>1, SMTT(15) DEF Reaping, Insert
  <2> QED BY <2>2, <2>3
<1>6. ASSUME Add PROVE TimerCoverage' /\ Reaping'
  BY <1>6
     DEF TimerCoverage, Reaping, Typing, TypeOK, ThreadTypes, Threads, Kinds,
         Add, AfterAdd
<1>7. ASSUME PopExpired PROVE TimerCoverage' /\ Reaping'
  <2>1. Main \in Threads
    BY <1>7 DEF Threads
  <2>2. TimerCoverage'
    BY <1>7, <2>1, SMTT(15) DEF TimerCoverage, Reaping, PopExpired
  <2>3. Reaping'
    BY <1>7, <2>1, SMTT(15)
       DEF Reaping, Typing, TypeOK, ThreadTypes, PopExpired
  <2> QED BY <2>2, <2>3
<1>8. ASSUME Reap PROVE TimerCoverage' /\ Reaping'
  BY <1>8
     DEF TimerCoverage, Reaping, Typing, TypeOK, ThreadTypes, Threads, Kinds,
         Reap
<1>9. ASSUME LeaveLoop PROVE TimerCoverage' /\ Reaping'
  BY <1>9 DEF TimerCoverage, Reaping, LeaveLoop
<1>10. ASSUME Join PROVE TimerCoverage' /\ Reaping'
  BY <1>10 DEF TimerCoverage, Reaping, Join
<1>11. ASSUME CloseAll PROVE TimerCoverage' /\ Reaping'
  BY <1>11 DEF TimerCoverage, Reaping, CloseAll
<1>12. ASSUME NEW t \in Threads, Find(t) PROVE TimerCoverage' /\ Reaping'
  <2>1. t \in Threads /\ fdOf[t] \in Fds
    BY <1>12 DEF Typing, Locals, LocalsOf, ClosePcs, FdPcs, Find
  <2>2. TimerCoverage'
    BY <1>12, <2>1, SMTT(15)
       DEF TimerCoverage, Typing, TypeOK, ServerTypes, Find, Erase
  <2>3. Reaping'
    BY <1>12, <2>1, SMTT(15)
       DEF Reaping, Threads, Kinds, Typing, TypeOK, ThreadTypes, Find, Return
  <2> QED BY <2>2, <2>3
<1>13. ASSUME NEW t \in Threads, Mark(t) PROVE TimerCoverage' /\ Reaping'
  <2>1. t \in Threads /\ fdOf[t] \in Fds /\ connOf[t] \in Conns
    BY <1>13
       DEF Threads, Typing, Locals, LocalsOf, Kinds, ClosePcs, WorkerPcs,
           MainPcs, FdPcs, ConnPcs, Mark
  <2>2. TimerCoverage'
    BY <1>13, <2>1, SMTT(15) DEF TimerCoverage, Mark
  <2>3. Reaping'
    BY <1>13, <2>1, SMTT(15) DEF Reaping, Mark
  <2> QED BY <2>2, <2>3
<1>14. ASSUME NEW t \in Threads, Del(t) PROVE TimerCoverage' /\ Reaping'
  <2>1. t \in Threads /\ fdOf[t] \in Fds /\ connOf[t] \in Conns
    BY <1>14
       DEF Threads, Typing, Locals, LocalsOf, Kinds, ClosePcs, WorkerPcs,
           MainPcs, FdPcs, ConnPcs, Del
  <2>2. TimerCoverage'
    BY <1>14, <2>1, SMTT(15) DEF TimerCoverage, Del
  <2>3. Reaping'
    BY <1>14, <2>1, SMTT(15) DEF Reaping, Del
  <2> QED BY <2>2, <2>3
<1>15. ASSUME NEW t \in Threads, Close(t) PROVE TimerCoverage' /\ Reaping'
  <2>1. t \in Threads /\ fdOf[t] \in Fds /\ connOf[t] \in Conns
    BY <1>15
       DEF Threads, Typing, Locals, LocalsOf, Kinds, ClosePcs, WorkerPcs,
           MainPcs, FdPcs, ConnPcs, Close
  <2>2. TimerCoverage'
    BY <1>15, <2>1, SMTT(15)
       DEF TimerCoverage, Owning, FdOwnership, Closing, Close
  <2>3. Reaping'
    BY <1>15, <2>1, SMTT(15) DEF Reaping, Close, Return
  <2> QED BY <2>2, <2>3
<1>16. ASSUME NEW w \in Workers, Take(w) PROVE TimerCoverage' /\ Reaping'
  BY <1>16
     DEF TimerCoverage, Reaping, Typing, TypeOK, ThreadTypes, Threads, Kinds,
         Take, Pop
<1>17. ASSUME NEW w \in Workers, GetConnection(w) PROVE TimerCoverage' /\ Reaping'
  BY <1>17
     DEF TimerCoverage, Reaping, Typing, TypeOK, ThreadTypes, Threads, Kinds,
         GetConnection, Return
<1>18. ASSUME NEW w \in Workers, Read(w) PROVE TimerCoverage' /\ Reaping'
  BY <1>18
     DEF TimerCoverage, Reaping, Typing, TypeOK, ThreadTypes, Threads, Kinds,
         Read
<1>19. ASSUME NEW w \in Workers, AppendRead(w) PROVE TimerCoverage' /\ Reaping'
  BY <1>19 DEF TimerCoverage, Reaping, AppendRead
<1>20. ASSUME NEW w \in Workers, Touch(w) PROVE TimerCoverage' /\ Reaping'
  <2>1. w \in Threads /\ fdOf[w] \in Fds /\ connOf[w] \in Conns
    BY <1>20 DEF Threads, Typing, Locals, LocalsOf, FdPcs, ConnPcs, Touch
  <2>2. TimerCoverage'
    BY <1>20, <2>1, SMTT(15) DEF TimerCoverage, Touch, AddOrUpdate
  <2>3. Reaping'
    BY <1>20, <2>1, SMTT(15) DEF Reaping, Touch
  <2> QED BY <2>2, <2>3
<1>21. ASSUME NEW w \in Workers, Extract(w) PROVE TimerCoverage' /\ Reaping'
  BY <1>21
     DEF TimerCoverage, Reaping, Typing, TypeOK, ThreadTypes, Threads, Kinds,
         Extract, Return, Mod
<1>22. ASSUME NEW w \in Workers, Respond(w) PROVE TimerCoverage' /\ Reaping'
  BY <1>22
     DEF TimerCoverage, Reaping, Typing, TypeOK, ThreadTypes, Threads, Kinds,
         Respond, Return
<1>23. ASSUME NEW w \in Workers, FinishProcessing(w) PROVE TimerCoverage' /\ Reaping'
  BY <1>23 DEF TimerCoverage, Reaping, FinishProcessing
<1>24. ASSUME NEW w \in Workers, Rearm(w) PROVE TimerCoverage' /\ Reaping'
  BY <1>24 DEF TimerCoverage, Reaping, Rearm, Return
<1>25. ASSUME NEW w \in Workers, Check(w) PROVE TimerCoverage' /\ Reaping'
  BY <1>25
     DEF TimerCoverage, Reaping, Typing, TypeOK, ThreadTypes, Threads, Kinds,
         Check
<1>26. ASSUME NEW w \in Workers, WriteSome(w) PROVE TimerCoverage' /\ Reaping'
  BY <1>26 DEF TimerCoverage, Reaping, WriteSome
<1>27. ASSUME NEW w \in Workers, WriteNone(w) PROVE TimerCoverage' /\ Reaping'
  BY <1>27 DEF TimerCoverage, Reaping, WriteNone
<1>28. ASSUME NEW w \in Workers, SigPipe(w) PROVE TimerCoverage' /\ Reaping'
  BY <1>28 DEF TimerCoverage, Reaping, SigPipe
<1>29. ASSUME NEW w \in Workers, Consume(w) PROVE TimerCoverage' /\ Reaping'
  BY <1>29 DEF TimerCoverage, Reaping, Consume
<1>30. ASSUME NEW w \in Workers, Clear(w) PROVE TimerCoverage' /\ Reaping'
  BY <1>30 DEF TimerCoverage, Reaping, Clear
<1>31. ASSUME NEW c \in Conns, Connect(c) PROVE TimerCoverage' /\ Reaping'
  BY <1>31 DEF TimerCoverage, Reaping, Connect
<1>32. ASSUME NEW c \in Conns, Send(c) PROVE TimerCoverage' /\ Reaping'
  BY <1>32 DEF TimerCoverage, Reaping, Send
<1>33. ASSUME NEW c \in Conns, Shut(c) PROVE TimerCoverage' /\ Reaping'
  BY <1>33 DEF TimerCoverage, Reaping, Shut
<1>34. ASSUME NEW c \in Conns, Reset(c) PROVE TimerCoverage' /\ Reaping'
  BY <1>34 DEF TimerCoverage, Reaping, Reset
<1>35. ASSUME RequestStop PROVE TimerCoverage' /\ Reaping'
  BY <1>35 DEF TimerCoverage, Reaping, RequestStop
<1>36. CASE UNCHANGED vars
  BY <1>36 DEF vars, Reaping, TimerCoverage
<1>37. QED
  BY <1>1, <1>2, <1>3, <1>4, <1>5, <1>6, <1>7, <1>8, <1>9, <1>10, <1>11, <1>12,
     <1>13, <1>14, <1>15, <1>16, <1>17, <1>18, <1>19, <1>20, <1>21, <1>22,
     <1>23, <1>24, <1>25, <1>26, <1>27, <1>28, <1>29, <1>30, <1>31, <1>32,
     <1>33, <1>34, <1>35, <1>36
     DEF Next, MainStep, WorkerStep, ClientStep, CloseStep, Threads

\* stop() finds the workers gone and leaves nothing open.
LEMMA StopStep ==
  ASSUME ServerAssumption, Typing, Owning, [Next]_vars,
         Registered, Quiesced, Unmapped
  PROVE  Registered' /\ Quiesced' /\ Unmapped'
<1> USE DEF ServerAssumption
<1>1. ASSUME EpollWait PROVE Registered' /\ Quiesced' /\ Unmapped'
  <2>1. Main \in Threads
    BY <1>1 DEF Threads
  <2>2. Registered'
    <3>1. PICK W \in SUBSET OutArmed : \E B \in SUBSET Ready(W) :
            interest' = [f \in Fds |-> IF \E e \in B : e.fd = f THEN "idle"
                                                           ELSE interest[f]]
      BY <1>1 DEF EpollWait
    <3>2. \A e \in Ready(W), f \in Fds : e.fd = f => interest[f] # "none"
      BY DEF Ready, HupReady, InReady, OutArmed, Listen
    <3>3. \A f \in Fds : interest'[f] # "none" => interest[f] # "none"
      BY <3>1, <3>2
    <3> QED BY <1>1, <3>3 DEF Registered, EpollWait
  <2>3. Quiesced'
    BY <1>1, <2>1, SMTT(15) DEF Quiesced, EpollWait
  <2>4. Unmapped'
    BY <1>1, <2>1, SMTT(15) DEF Unmapped, EpollWait
  <2> QED BY <2>2, <2>3, <2>4
<1>2. ASSUME HandleEvent PROVE Registered' /\ Quiesced' /\ Unmapped'
  BY <1>2
     DEF Registered, Quiesced, Unmapped, Drained, Busy, Typing, TypeOK,
         ThreadTypes, Threads, Kinds, HandleEvent
<1>3. ASSUME Dispatch PROVE Registered' /\ Quiesced' /\ Unmapped'
  <2>1. Main \in Threads /\ fdOf[Main] \in Fds /\ connOf[Main] \in Conns
    BY <1>3
       DEF Threads, Typing, Locals, LocalsOf, Kinds, FdPcs, ConnPcs, Dispatch
  <2>2. Registered'
    BY <1>3, <2>1, SMTT(15)
       DEF Registered, Ready, HupReady, InReady, OutArmed, Dispatch
  <2>3. Quiesced'
    BY <1>3, <2>1, SMTT(15)
       DEF Quiesced, Typing, TypeOK, ThreadTypes, Dispatch, Return
  <2>4. Unmapped'
    BY <1>3, <2>1, SMTT(15) DEF Unmapped, Dispatch, Return
  <2> QED BY <2>2, <2>3, <2>4
<1>4. ASSUME Accept PROVE Registered' /\ Quiesced' /\ Unmapped'
  <2>1. Main \in Threads
    BY <1>4
       DEF Threads, Typing, Locals, LocalsOf, Kinds, ClosePcs, WorkerPcs,
           MainPcs, FdPcs, ConnPcs, Accept
  <2>2. Registered'
    BY <1>4, <2>1, SMTT(15)
       DEF Registered, Ready, HupReady, InReady, OutArmed, Typing, TypeOK,
           KernelTypes, Accept
  <2>3. Quiesced'
    BY <1>4, <2>1, SMTT(15) DEF Quiesced, Typing, TypeOK, ThreadTypes, Accept
  <2>4. Unmapped'
    BY <1>4, <2>1, SMTT(15) DEF Unmapped, Typing, TypeOK, ThreadTypes, Accept
  <2> QED BY <2>2, <2>3, <2>4
<1>5. ASSUME Insert PROVE Registered' /\ Quiesced' /\ Unmapped'
  <2>1. Main \in Threads /\ fdOf[Main] \in Fds /\ connOf[Main] \in Conns
    BY <1>5
       DEF Threads, Typing, Locals, LocalsOf, Kinds, ClosePcs, WorkerPcs,
           MainPcs, FdPcs, ConnPcs, Insert
  <2>2. Registered'
    BY <1>5, <2>1, SMTT(15)
       DEF Registered, Ready, HupReady, InReady, OutArmed, Insert
  <2>3. Quiesced'
    BY <1>5, <2>1, SMTT(15) DEF Quiesced, Insert
  <2>4. Unmapped'
    BY <1>5, <2>1, SMTT(15) DEF Unmapped, Insert
  <2> QED BY <2>2, <2>3, <2>4
<1>6. ASSUME Add PROVE Registered' /\ Quiesced' /\ Unmapped'
  <2>1. Main \in Threads /\ fdOf[Main] \in Fds /\ connOf[Main] \in Conns
    BY <1>6
       DEF Threads, Typing, Locals, LocalsOf, Kinds, ClosePcs, WorkerPcs,
           MainPcs, FdPcs, ConnPcs, Add
  <2>2. Registered'
    BY <1>6, <2>1, SMTT(15)
       DEF Registered, Ready, HupReady, InReady, OutArmed, Add
  <2>3. Quiesced'
    BY <1>6, <2>1, SMTT(15) DEF Quiesced, Add, AfterAdd
  <2>4. Unmapped'
    BY <1>6, <2>1, SMTT(15) DEF Unmapped, Add, AfterAdd
  <2> QED BY <2>2, <2>3, <2>4
<1>7. ASSUME PopExpired PROVE Registered' /\ Quiesced' /\ Unmapped'
  BY <1>7
     DEF Registered, Quiesced, Unmapped, Drained, Busy, Typing, TypeOK,
         ThreadTypes, Threads, Kinds, PopExpired
<1>8. ASSUME Reap PROVE Registered' /\ Quiesced' /\ Unmapped'
  BY <1>8 DEF Registered, Quiesced, Unmapped, Typing, TypeOK, ThreadTypes, Reap
<1>9. ASSUME LeaveLoop PROVE Registered' /\ Quiesced' /\ Unmapped'
  BY <1>9 DEF Registered, Quiesced, Unmapped, LeaveLoop
<1>10. ASSUME Join PROVE Registered' /\ Quiesced' /\ Unmapped'
  BY <1>10 DEF Registered, Quiesced, Unmapped, Drained, Busy, Join
<1>11. ASSUME CloseAll PROVE Registered' /\ Quiesced' /\ Unmapped'
  <2>1. Main \in Threads
    BY <1>11 DEF Threads
  <2>2. Registered'
    BY <1>11, <2>1, SMTT(15)
       DEF Registered, Ready, HupReady, InReady, OutArmed, CloseAll
  <2>3. Quiesced'
    BY <1>11, <2>1, SMTT(15) DEF Quiesced, Drained, Busy, CloseAll
  <2>4. Unmapped'
    BY <1>11, <2>1, SMTT(15) DEF Unmapped, CloseAll
  <2> QED BY <2>2, <2>3, <2>4
<1>12. ASSUME NEW t \in Threads, Find(t) PROVE Registered' /\ Quiesced' /\ Unmapped'
  <2>1. t \in Threads /\ fdOf[t] \in Fds
    BY <1>12
       DEF Threads, Typing, Locals, LocalsOf, Kinds, ClosePcs, WorkerPcs,
           MainPcs, FdPcs, ConnPcs, Find
  <2>2. Registered'
    BY <1>12, <2>1, SMTT(15)
       DEF Registered, Ready, HupReady, InReady, OutArmed, Find
  <2>3. Quiesced'
    BY <1>12, <2>1, SMTT(15)
       DEF Quiesced, Drained, Busy, Threads, Kinds, Typing, TypeOK,
           ThreadTypes, Find, Return
  <2>4. Unmapped'
    BY <1>12, <2>1, SMTT(15)
       DEF Unmapped, Threads, Kinds, Typing, TypeOK, ThreadTypes, Find, Return
  <2> QED BY <2>2, <2>3, <2>4
<1>13. ASSUME NEW t \in Threads, Mark(t) PROVE Registered' /\ Quiesced' /\ Unmapped'
  <2>1. t \in Threads /\ fdOf[t] \in Fds /\ connOf[t] \in Conns
    BY <1>13
       DEF Threads, Typing, Locals, LocalsOf, Kinds, ClosePcs, WorkerPcs,
           MainPcs, FdPcs, ConnPcs, Mark
  <2>2. Registered'
    BY <1>13, <2>1, SMTT(15)
       DEF Registered, Ready, HupReady, InReady, OutArmed, Mark
  <2>3. Quiesced'
    BY <1>13, <2>1, SMTT(15) DEF Quiesced, Drained, Busy, Mark
  <2>4. Unmapped'
    BY <1>13, <2>1, SMTT(15) DEF Unmapped, Mark
  <2> QED BY <2>2, <2>3, <2>4
<1>14. ASSUME NEW t \in Threads, Del(t) PROVE Registered' /\ Quiesced' /\ Unmapped'
  <2>1. t \in Threads /\ fdOf[t] \in Fds /\ connOf[t] \in Conns
    BY <1>14
       DEF Threads, Typing, Locals, LocalsOf, Kinds, ClosePcs, WorkerPcs,
           MainPcs, FdPcs, ConnPcs, Del
  <2>2. Registered'
    BY <1>14, <2>1, SMTT(15)
       DEF Registered, Ready, HupReady, InReady, OutArmed, Del
  <2>3. Quiesced'
    BY <1>14, <2>1, SMTT(15) DEF Quiesced, Drained, Busy, Del
  <2>4. Unmapped'
    BY <1>14, <2>1, SMTT(15) DEF Unmapped, Del
  <2> QED BY <2>2, <2>3, <2>4
<1>15. ASSUME NEW t \in Threads, Close(t) PROVE Registered' /\ Quiesced' /\ Unmapped'
  <2>1. t \in Threads /\ fdOf[t] \in Fds /\ connOf[t] \in Conns
    BY <1>15
       DEF Threads, Typing, Locals, LocalsOf, Kinds, ClosePcs, WorkerPcs,
           MainPcs, FdPcs, ConnPcs, Close
  <2>2. Registered'
    BY <1>15, <2>1, SMTT(15)
       DEF Registered, Ready, HupReady, InReady, OutArmed, Typing, TypeOK,
           KernelTypes, Close
  <2>3. Quiesced'
    BY <1>15, <2>1, SMTT(15) DEF Quiesced, Drained, Busy, Close, Return
  <2>4. Unmapped'
    BY <1>15, <2>1, SMTT(15) DEF Unmapped, Close, Return
  <2> QED BY <2>2, <2>3, <2>4
<1>16. ASSUME NEW w \in Workers, Take(w) PROVE Registered' /\ Quiesced' /\ Unmapped'
  <2>1. w \in Threads
    BY <1>16
       DEF Threads, Typing, Locals, LocalsOf, Kinds, ClosePcs, WorkerPcs,
           MainPcs, FdPcs, ConnPcs, Take
  <2>2. Registered'
    BY <1>16, <2>1, SMTT(15)
       DEF Registered, Ready, HupReady, InReady, OutArmed, Take
  <2>3. Quiesced'
    BY <1>16, <2>1, SMTT(15) DEF Quiesced, Drained, Take
  <2>4. Unmapped'
    BY <1>16, <2>1, SMTT(15) DEF Unmapped, Take
  <2> QED BY <2>2, <2>3, <2>4
<1>17. ASSUME NEW w \in Workers, GetConnection(w) PROVE Registered' /\ Quiesced' /\ Unmapped'
  BY <1>17
     DEF Registered, Quiesced, Unmapped, Drained, Busy, Typing, TypeOK,
         ThreadTypes, Threads, Kinds, GetConnection, Return
<1>18. ASSUME NEW w \in Workers, Read(w) PROVE Registered' /\ Quiesced' /\ Unmapped'
  BY <1>18
     DEF Registered, Quiesced, Unmapped, Drained, Busy, Typing, TypeOK,
         ThreadTypes, Threads, Kinds, Read
<1>19. ASSUME NEW w \in Workers, AppendRead(w) PROVE Registered' /\ Quiesced' /\ Unmapped'
  BY <1>19 DEF Registered, Quiesced, Unmapped, Drained, Busy, AppendRead
<1>20. ASSUME NEW w \in Workers, Touch(w) PROVE Registered' /\ Quiesced' /\ Unmapped'
  BY <1>20 DEF Registered, Quiesced, Unmapped, Drained, Busy, Touch
<1>21. ASSUME NEW w \in Workers, Extract(w) PROVE Registered' /\ Quiesced' /\ Unmapped'
  <2>1. w \in Threads /\ fdOf[w] \in Fds /\ connOf[w] \in Conns
    BY <1>21 DEF Threads, Typing, Locals, LocalsOf, FdPcs, ConnPcs, Extract
  <2>2. Registered'
    BY <1>21, <2>1, SMTT(15)
       DEF Registered, Ready, HupReady, InReady, OutArmed, Typing, TypeOK,
           KernelTypes, Extract, Mod
  <2>3. Quiesced'
    BY <1>21, <2>1, SMTT(15)
       DEF Quiesced, Drained, Busy, Threads, Kinds, Typing, TypeOK,
           KernelTypes, ThreadTypes, Extract, Return
  <2>4. Unmapped'
    BY <1>21, <2>1, SMTT(15)
       DEF Unmapped, Threads, Kinds, Typing, TypeOK, KernelTypes, ThreadTypes,
           Extract, Return
  <2> QED BY <2>2, <2>3, <2>4
<1>22. ASSUME NEW w \in Workers, Respond(w) PROVE Registered' /\ Quiesced' /\ Unmapped'
  BY <1>22
     DEF Registered, Quiesced, Unmapped, Drained, Busy, Typing, TypeOK,
         ThreadTypes, Threads, Kinds, Respond, Return
<1>23. ASSUME NEW w \in Workers, FinishProcessing(w) PROVE Registered' /\ Quiesced' /\ Unmapped'
  BY <1>23 DEF Registered, Quiesced, Unmapped, Drained, Busy, FinishProcessing
<1>24. ASSUME NEW w \in Workers, Rearm(w) PROVE Registered' /\ Quiesced' /\ Unmapped'
  <2>1. w \in Threads /\ fdOf[w] \in Fds /\ connOf[w] \in Conns
    BY <1>24 DEF Threads, Typing, Locals, LocalsOf, FdPcs, ConnPcs, Rearm
  <2>2. Registered'
    BY <1>24, <2>1, SMTT(15)
       DEF Registered, Ready, HupReady, InReady, OutArmed, Rearm, Mod
  <2>3. Quiesced'
    BY <1>24, <2>1, SMTT(15) DEF Quiesced, Drained, Busy, Rearm, Return
  <2>4. Unmapped'
    BY <1>24, <2>1, SMTT(15) DEF Unmapped, Rearm, Return
  <2> QED BY <2>2, <2>3, <2>4
<1>25. ASSUME NEW w \in Workers, Check(w) PROVE Registered' /\ Quiesced' /\ Unmapped'
  BY <1>25
     DEF Registered, Quiesced, Unmapped, Drained, Busy, Typing, TypeOK,
         ThreadTypes, Threads, Kinds, Check, HasWriteData
<1>26. ASSUME NEW w \in Workers, WriteSome(w) PROVE Registered' /\ Quiesced' /\ Unmapped'
  BY <1>26 DEF Registered, Quiesced, Unmapped, Drained, Busy, WriteSome
<1>27. ASSUME NEW w \in Workers, WriteNone(w) PROVE Registered' /\ Quiesced' /\ Unmapped'
  BY <1>27 DEF Registered, Quiesced, Unmapped, Drained, Busy, WriteNone
<1>28. ASSUME NEW w \in Workers, SigPipe(w) PROVE Registered' /\ Quiesced' /\ Unmapped'
  BY <1>28 DEF Registered, Quiesced, Unmapped, Drained, Busy, SigPipe
<1>29. ASSUME NEW w \in Workers, Consume(w) PROVE Registered' /\ Quiesced' /\ Unmapped'
  BY <1>29 DEF Registered, Quiesced, Unmapped, Drained, Busy, Consume
<1>30. ASSUME NEW w \in Workers, Clear(w) PROVE Registered' /\ Quiesced' /\ Unmapped'
  BY <1>30 DEF Registered, Quiesced, Unmapped, Drained, Busy, Clear
<1>31. ASSUME NEW c \in Conns, Connect(c) PROVE Registered' /\ Quiesced' /\ Unmapped'
  BY <1>31 DEF Registered, Quiesced, Unmapped, Drained, Busy, Connect
<1>32. ASSUME NEW c \in Conns, Send(c) PROVE Registered' /\ Quiesced' /\ Unmapped'
  BY <1>32 DEF Registered, Quiesced, Unmapped, Drained, Busy, Send
<1>33. ASSUME NEW c \in Conns, Shut(c) PROVE Registered' /\ Quiesced' /\ Unmapped'
  BY <1>33 DEF Registered, Quiesced, Unmapped, Drained, Busy, Shut
<1>34. ASSUME NEW c \in Conns, Reset(c) PROVE Registered' /\ Quiesced' /\ Unmapped'
  BY <1>34 DEF Registered, Quiesced, Unmapped, Drained, Busy, Reset
<1>35. ASSUME RequestStop PROVE Registered' /\ Quiesced' /\ Unmapped'
  BY <1>35 DEF Registered, Quiesced, Unmapped, Drained, Busy, RequestStop
<1>36. CASE UNCHANGED vars
  BY <1>36
     DEF vars, Busy, Drained, HupReady, InReady, Kinds, OutArmed, Quiesced,
         Ready, Registered, Threads, Unmapped
<1>37. QED
  BY <1>1, <1>2, <1>3, <1>4, <1>5, <1>6, <1>7, <1>8, <1>9, <1>10, <1>11, <1>12,
     <1>13, <1>14, <1>15, <1>16, <1>17, <1>18, <1>19, <1>20, <1>21, <1>22,
     <1>23, <1>24, <1>25, <1>26, <1>27, <1>28, <1>29, <1>30, <1>31, <1>32,
     <1>33, <1>34, <1>35, <1>36
     DEF Next, MainStep, WorkerStep, ClientStep, CloseStep, Threads

-----------------------------------------------------------------------------
(* The theorems *)

IInv == /\ Typing /\ Owning
        /\ HoldOwn /\ NoForeignBytes
        /\ TimerCoverage /\ Reaping
        /\ Registered /\ Quiesced /\ Unmapped

LEMMA Initially == ASSUME ServerAssumption, Init PROVE IInv
<1> USE DEF ServerAssumption, Init
<1>1. Typing
  <2>1. KernelTypes /\ ServerTypes
    <3>1. <<>> \in Seq(Unit) /\ <<>> \in Seq(Task)
      OBVIOUS
    <3>2. KernelTypes
      BY <3>1 DEF KernelTypes
    <3>3. ServerTypes
      BY <3>1 DEF ServerTypes
    <3> QED BY <3>2, <3>3
  <2>2. ObjectTypes
    BY DEF ObjectTypes
  <2>3. ThreadTypes
    BY DEF ThreadTypes, MainPcs, WorkerPcs
  <2>4. Locals
    BY DEF Locals, LocalsOf, Kinds, ClosePcs, WorkerPcs, MainPcs, FdPcs,
           ConnPcs, SegPcs
  <2> QED BY <2>1, <2>2, <2>3, <2>4 DEF Typing, TypeOK
<1>2. Owning
  BY DEF Owning, Sockets, FdOwnership, Closing, Accepting, Threads
<1>3. HoldOwn /\ NoForeignBytes
  BY DEF HoldOwn, HoldsOwn, NoForeignBytes, Threads, ConnPcs, FdPcs, ClosePcs,
         Kinds
<1>4. TimerCoverage /\ Reaping /\ Registered /\ Quiesced /\ Unmapped
  BY DEF TimerCoverage, Reaping, Registered, Quiesced, Unmapped, Threads
<1> QED BY <1>1, <1>2, <1>3, <1>4 DEF IInv

\* IInv is an invariant of the server whatever the values of the constants.
THEOREM Invariance == ASSUME ServerAssumption PROVE Spec => []IInv
<1>1. Init => IInv
  BY Initially
<1>2. IInv /\ [Next]_vars => IInv'
  BY TypingStep, OwningStep, BytesStep, TimersStep, StopStep DEF IInv
<1> QED BY <1>1, <1>2, PTL DEF Spec

\* The variables keep their types.
THEOREM TypeCorrect == ASSUME ServerAssumption PROVE Spec => []TypeOK
<1>1. IInv => TypeOK
  BY DEF IInv, Typing
<1> QED BY <1>1, Invariance, PTL

\* Every open descriptor has exactly one owner that will close it: the fact
\* that makes closeConnection() safe to call from any thread at any time.
THEOREM OneOwner == ASSUME ServerAssumption PROVE Spec => []FdOwnership
<1>1. IInv => FdOwnership
  BY DEF IInv, Owning
<1> QED BY <1>1, Invariance, PTL

\* No connection is in the map without a deadline.
THEOREM AlwaysTimed == ASSUME ServerAssumption PROVE Spec => []TimerCoverage
<1>1. IInv => TimerCoverage
  BY DEF IInv
<1> QED BY <1>1, Invariance, PTL

\* However descriptors are reused, no client's bytes enter another's buffers.
THEOREM BytesStayHome == ASSUME ServerAssumption PROVE Spec => []NoForeignBytes
<1>1. IInv => NoForeignBytes
  BY DEF IInv
<1> QED BY <1>1, Invariance, PTL

\* When stop() has returned every descriptor has been closed.
THEOREM StopsClean == ASSUME ServerAssumption PROVE Spec => []CleanStop
<1>1. IInv => CleanStop
  <2> SUFFICES ASSUME IInv, pc[Main] = "stopped", NEW f \in Fds
               PROVE  sock[f] = None /\ interest[f] = "none" /\ conns[f] = None
    BY DEF CleanStop
  <2>1. conns[f] = None /\ ~Accepting(f)
    BY DEF IInv, Unmapped, Accepting
  <2>2. Closing(f) = {}
    BY DEF IInv, Quiesced, Drained, Busy, Closing, Threads
  <2>3. sock[f] = None
    BY <2>1, <2>2 DEF IInv, Owning, FdOwnership
  <2>4. interest[f] = "none"
    BY <2>3 DEF IInv, Registered
  <2> QED BY <2>1, <2>3, <2>4
<1> QED BY <1>1, Invariance, PTL
-----------------------------------------------------------------------------
(* Nobody is stuck *)

\* Where a worker is before it looks its connection up again, and where it
\* runs the task of the connection it has looked up.
EarlyPcs == {"handleRead", "handleWrite", "read", "append", "touchProcess",
             "process", "find"}
LatePcs  == {"extract", "respond", "finishOut", "check", "writev", "consume",
             "clear", "touchRearm", "finishIn"}

Queued(f) == \E i \in 1..Len(tasks) : tasks[i].fd = f

\* Worker w will reset processing_ of the connection f has now, or close f.
Releases(w, f) ==
  /\ fdOf[w] = f
  /\ pc[w] \in EarlyPcs \/ (pc[w] \in LatePcs /\ connOf[w] = conns[f])

\* Worker w will arm f again, or close it: only the one that finds its
\* Connection closed in processConnectionTask() leaves without.
Rearms(w, f) ==
  /\ fdOf[w] = f
  /\ Busy(w)
  /\ ~(pc[w] = "respond" /\ closed[connOf[w]])

\* The event loop has f in its hands.
MainHas(f) ==
  \/ pc[Main] \in Kinds \cup {"insert", "add", "find"} /\ fdOf[Main] = f
  \/ f \in expired
  \/ \E e \in batch : e.fd = f

Moves(f) ==
  conns[f] # None =>
    /\ processing[conns[f]] => Queued(f) \/ \E w \in Workers : Releases(w, f)
    /\ interest[f] = "idle" =>
         Queued(f) \/ MainHas(f) \/ \E w \in Workers : Rearms(w, f)
    /\ interest[f] = "none" => pc[Main] = "add" /\ fdOf[Main] = f

\* A Connection the map has never held.
Fresh(c) ==
  peer[c] = "new" \/ c \in backlog \/ (pc[Main] = "insert" /\ connOf[Main] = c)

Unbegun ==
  \A c \in Conns : Fresh(c) =>
    ~processing[c] /\ (pc[Main] \in Kinds => connOf[Main] # c)

\* What the event loop is about to dispatch is what the map still has.
Current ==
  pc[Main] \in Kinds =>
    /\ conns[fdOf[Main]] \in {None, connOf[Main]}
    /\ \A f \in Fds : conns[f] = connOf[Main] => f = fdOf[Main]

Emptied ==
  pc[Main] \in {"wait", "reap", "join", "closeAll", "stopped"} \/ expired # {}
    => batch = {}

MovingInv == Unbegun /\ Current /\ Emptied /\ \A f \in Fds : Moves(f)

-----------------------------------------------------------------------------
\* A live descriptor's worker does not find its Connection newly closed.
KeepsOpen ==
  \A f \in Fds, w \in Workers :
    conns'[f] # None /\ fdOf[w] = f /\ pc[w] = "respond" /\ closed'[connOf[w]]
      => closed[connOf[w]]

\* A worker's step keeps MovingInv if, for each descriptor that stays in the
\* map, the worker is still going to do what it owed, or has just done it.
LEMMA WorkerMoves ==
  ASSUME ServerAssumption, Typing, MovingInv, NEW w \in Workers, OnlyMoves(w),
         UNCHANGED <<peer, backlog, tasks, batch, expired>>, KeepsOpen,
         \A c \in Conns : processing'[c] => processing[c],
         \A f \in Fds : conns'[f] \in {None, conns[f]},
         \A f \in Fds : conns'[f] # None =>
           /\ \/ interest'[f] = interest[f]
              \/ interest[f] # "none" /\ interest'[f] \in {"in", "out"}
           /\ Releases(w, f) => Releases(w, f)' \/ ~processing'[conns[f]]
           /\ Rearms(w, f) => Rearms(w, f)' \/ interest'[f] # "idle"
  PROVE  MovingInv'
<1>1. /\ pc'[Main] = pc[Main] /\ fdOf'[Main] = fdOf[Main]
      /\ connOf'[Main] = connOf[Main]
  BY DEF OnlyMoves, ServerAssumption, Threads
<1>2. \A u \in Workers \ {w} : /\ pc'[u] = pc[u] /\ fdOf'[u] = fdOf[u]
                               /\ connOf'[u] = connOf[u]
  BY DEF OnlyMoves, Threads
<1>3. Unbegun' /\ Emptied'
  BY <1>1 DEF MovingInv, Unbegun, Emptied, Fresh
<1>4. Current'
  <2>1. Main \in Threads /\ LocalsOf(Main)
    BY DEF Typing, Locals, Threads
  <2>2. pc[Main] \in Kinds => fdOf[Main] \in Fds /\ connOf[Main] # None
    BY <2>1 DEF LocalsOf, FdPcs, ConnPcs, Kinds, ServerAssumption
  <2> QED BY <1>1, <2>2 DEF MovingInv, Current
<1>5. ASSUME NEW f \in Fds, conns'[f] # None
      PROVE  Moves(f)'
  <2>1. Moves(f) /\ conns[f] \in Conns /\ conns'[f] = conns[f]
    BY <1>5 DEF MovingInv, Typing, TypeOK, ServerTypes
  <2>2. processing'[conns'[f]] =>
          Queued(f)' \/ \E u \in Workers : Releases(u, f)'
    <3>1. \A u \in Workers \ {w} : Releases(u, f) => Releases(u, f)'
      BY <1>2, <2>1 DEF Releases
    <3> QED BY <2>1, <3>1, <1>5 DEF Moves, Queued
  <2>3. interest'[f] = "idle" =>
          Queued(f)' \/ MainHas(f)' \/ \E u \in Workers : Rearms(u, f)'
    <3>1. \A u \in Workers \ {w} : Rearms(u, f) => Rearms(u, f)'
      BY <1>2, <1>5 DEF Rearms, Busy, KeepsOpen
    <3>2. MainHas(f) => MainHas(f)'
      BY <1>1 DEF MainHas
    <3> QED BY <2>1, <3>1, <3>2, <1>5 DEF Moves, Queued
  <2>4. interest'[f] = "none" => pc'[Main] = "add" /\ fdOf'[Main] = f
    BY <2>1, <1>1, <1>5 DEF Moves
  <2> QED BY <2>2, <2>3, <2>4 DEF Moves
<1>6. \A f \in Fds : Moves(f)'
  BY <1>5 DEF Moves
<1> QED BY <1>3, <1>4, <1>6 DEF MovingInv

\* The event loop drops a descriptor that stays in the map only when a worker
\* or a queued task has it.
LEMMA MainMoves ==
  ASSUME ServerAssumption, MovingInv, OnlyMoves(Main),
         UNCHANGED <<tasks, processing>>, KeepsOpen,
         \A f \in Fds : conns'[f] # None =>
           /\ conns'[f] = conns[f]
           /\ interest'[f] = "none" =>
                interest[f] = "none" /\ (pc[Main] = "add" => fdOf[Main] # f)
           /\ interest'[f] = "idle" => interest[f] = "idle" \/ MainHas(f)'
           /\ interest'[f] = "idle" /\ MainHas(f) =>
                \/ Queued(f) \/ MainHas(f)'
                \/ \E w \in Workers : Rearms(w, f)
  PROVE  \A f \in Fds : Moves(f)'
<1>1. \A w \in Workers : /\ pc'[w] = pc[w] /\ fdOf'[w] = fdOf[w]
                         /\ connOf'[w] = connOf[w]
  BY DEF OnlyMoves, Threads, ServerAssumption
<1> SUFFICES ASSUME NEW f \in Fds, conns'[f] # None
             PROVE  Moves(f)'
  BY DEF Moves
<1>2. Moves(f) /\ conns'[f] = conns[f]
  BY DEF MovingInv
<1>3. \A w \in Workers : /\ Releases(w, f) => Releases(w, f)'
                         /\ Rearms(w, f) => Rearms(w, f)'
  BY <1>1, <1>2 DEF Releases, Rearms, Busy, KeepsOpen
<1>4. Queued(f)' <=> Queued(f)
  BY DEF Queued
<1> QED BY <1>2, <1>3, <1>4 DEF Moves

\* closeConnection() takes the descriptor off the map before anything else,
\* so what it does to the epoll set concerns no connection in the map.
LEMMA ClosingMoves ==
  ASSUME ServerAssumption, IInv, MovingInv, NEW t \in Threads, CloseStep(t)
  PROVE  MovingInv'
<1> USE DEF ServerAssumption, IInv
<1>1. pc[t] \in ClosePcs /\ fdOf[t] \in Fds /\ connOf[t] \in Conns \cup {None}
  <2>1. pc[t] \in ClosePcs
    BY DEF CloseStep, Find, Mark, Del, Close, ClosePcs
  <2> QED BY <2>1 DEF Typing, Locals, LocalsOf, FdPcs, TypeOK, ThreadTypes
<1>2. /\ UNCHANGED <<peer, backlog, tasks, batch, processing>>
      /\ expired' = expired \/ (t = Main /\ expired' = expired \ {fdOf[t]})
      /\ conns' = conns \/ (pc[t] = "find" /\ conns' = Erase(fdOf[t]))
      /\ interest' = interest \/ interest' = [interest EXCEPT ![fdOf[t]] = "none"]
      /\ \/ closed' = closed
         \/ pc[t] = "mark" /\ closed' = [closed EXCEPT ![connOf[t]] = TRUE]
  BY DEF CloseStep, Find, Mark, Del, Close
<1>3. /\ OnlyMoves(t)
      /\ pc'[t] \in {"mark", "del", "close", "idle", "events", "reap"}
      /\ pc'[t] = "reap" => expired # {}
  <2>1. CASE Find(t)
    BY <2>1 DEF Find, Return, OnlyMoves, Typing, TypeOK, ThreadTypes
  <2>2. CASE Mark(t)
    BY <2>2 DEF Mark, OnlyMoves, Typing, TypeOK, ThreadTypes
  <2>3. CASE Del(t)
    BY <2>3 DEF Del, OnlyMoves, Typing, TypeOK, ThreadTypes
  <2>4. CASE Close(t)
    BY <2>4 DEF Close, Return, OnlyMoves, Typing, TypeOK, ThreadTypes
  <2> QED BY <2>1, <2>2, <2>3, <2>4 DEF CloseStep
<1>4. \A f \in Fds : f # fdOf[t] => interest'[f] = interest[f]
  BY <1>1, <1>2 DEF Typing, TypeOK, KernelTypes
<1>5. conns'[fdOf[t]] = None
  <2>1. conns[fdOf[t]] = None \/ pc[t] = "find"
    BY <1>1 DEF Owning, FdOwnership, Closing, ClosePcs
  <2>2. pc[t] = "find" => Find(t)
    BY DEF CloseStep, Find, Mark, Del, Close
  <2> QED BY <1>1, <1>2, <2>1, <2>2
          DEF Find, Erase, Typing, TypeOK, ServerTypes
<1>6. KeepsOpen
  <2> SUFFICES ASSUME NEW f \in Fds, NEW w \in Workers, conns'[f] # None,
                      fdOf[w] = f, pc[w] = "respond", closed'[connOf[w]],
                      ~closed[connOf[w]]
               PROVE  FALSE
    BY DEF KeepsOpen
  <2>1. LocalsOf(w) /\ LocalsOf(t) /\ w \in Threads
    BY DEF Typing, Locals, Threads
  <2>2. connOf[w] \in Conns
    BY <2>1 DEF LocalsOf, ConnPcs, FdPcs, WorkerPcs
  <2>3. pc[t] = "mark" /\ connOf[w] = connOf[t]
    BY <1>2, <2>2 DEF Typing, TypeOK, ObjectTypes
  <2>4. sock[f] = connOf[w]
    BY DEF HoldOwn, HoldsOwn, ConnPcs, FdPcs, WorkerPcs
  <2>5. connOf[t] = sock[fdOf[t]]
    BY <1>1, <2>3 DEF Owning, FdOwnership, Closing
  <2>6. f = fdOf[t]
    BY <1>1, <2>2, <2>3, <2>4, <2>5 DEF Owning, Sockets
  <2> QED BY <1>5, <2>6
<1>7. \A f \in Fds : conns'[f] \in {None, conns[f]}
  BY <1>2 DEF Erase, Typing, TypeOK, ServerTypes
<1>8. CASE t \in Workers
  <2>1. \A f \in Fds : conns'[f] # None => ~Releases(t, f) /\ ~Rearms(t, f)
    BY <1>5 DEF Releases, Rearms
  <2>2. expired' = expired
    BY <1>2, <1>8
  <2> QED BY <1>2, <1>4, <1>5, <1>6, <1>8, <1>3, <1>7, <2>1, <2>2, WorkerMoves
<1>9. CASE t = Main
  <2>1. \A f \in Fds : conns'[f] # None => f # fdOf[Main] /\ conns'[f] = conns[f]
    BY <1>5, <1>9, <1>7
  <2>2. \A f \in Fds : conns'[f] # None => (MainHas(f) => MainHas(f)')
    BY <1>2, <1>9, <2>1 DEF MainHas
  <2>3. \A f \in Fds : Moves(f)'
    BY <1>1, <1>2, <1>4, <1>6, <1>9, <1>3, <2>1, <2>2, MainMoves DEF ClosePcs
  <2>4. Unbegun' /\ Current'
    BY <1>2, <1>9, <1>3 DEF MovingInv, Unbegun, Current, Fresh, Kinds
  <2>5. Emptied'
    BY <1>2, <1>9, <1>3 DEF MovingInv, Emptied
  <2> QED BY <2>3, <2>4, <2>5 DEF MovingInv
<1> QED BY <1>8, <1>9 DEF Threads

\* No action takes a connection in the map out of everybody's hands.
LEMMA MovingStep ==
  ASSUME ServerAssumption, IInv, MovingInv, [Next]_vars PROVE MovingInv'
<1> USE DEF ServerAssumption, IInv
<1>1. /\ Typing /\ TypeOK /\ Main \in Threads /\ \A w \in Workers : w \in Threads
      /\ pc \in [Threads -> MainPcs \cup WorkerPcs \cup ClosePcs]
      /\ fdOf \in [Threads -> Fds \cup {None}]
      /\ connOf \in [Threads -> Conns \cup {None}]
      /\ seg \in [Threads -> Segment \cup {None}]
      /\ conns \in [Fds -> Conns \cup {None}]
      /\ processing \in [Conns -> BOOLEAN]
      /\ closed \in [Conns -> BOOLEAN]
      /\ interest \in [Fds -> {"none", "idle", "in", "out"}]
  BY DEF Typing, TypeOK, ThreadTypes, ServerTypes, ObjectTypes, KernelTypes,
         Threads
<1>2. ASSUME NEW w \in Workers
      PROVE  /\ pc[w] \in FdPcs => fdOf[w] \in Fds
             /\ pc[w] \in ConnPcs => connOf[w] \in Conns
             /\ pc[w] \in ConnPcs /\ ~closed[connOf[w]] => sock[fdOf[w]] = connOf[w]
  BY <1>1 DEF Typing, Locals, LocalsOf, HoldOwn, HoldsOwn
<1>3. \A f \in Fds : conns[f] # None => conns[f] = sock[f] /\ ~closed[conns[f]]
  BY DEF Owning, FdOwnership
<1>4. ASSUME EpollWait PROVE MovingInv'
  <2>1. PICK W \in SUBSET OutArmed : \E B \in SUBSET Ready(W) :
          /\ batch' = B
          /\ interest' = [f \in Fds |-> IF \E e \in B : e.fd = f
                                        THEN "idle" ELSE interest[f]]
    BY <1>4 DEF EpollWait
  <2>2. /\ OnlyMoves(Main) /\ pc[Main] = "wait" /\ pc'[Main] = "events"
        /\ UNCHANGED <<peer, backlog, conns, tasks, expired, closed, processing,
                       fdOf, connOf>>
        /\ batch = {} /\ expired = {}
    BY <1>1, <1>4 DEF EpollWait, OnlyMoves, MovingInv, Emptied, Reaping
  <2>3. ASSUME NEW f \in Fds
        PROVE  /\ interest'[f] = "none" => interest[f] = "none"
               /\ interest'[f] = "idle" => interest[f] = "idle" \/ MainHas(f)'
               /\ ~MainHas(f)
    BY <1>1, <2>1, <2>2 DEF MainHas, Kinds
  <2>4. \A f \in Fds : Moves(f)'
    BY <2>2, <2>3, MainMoves DEF KeepsOpen
  <2> QED BY <2>2, <2>4 DEF MovingInv, Unbegun, Fresh, Current, Emptied, Kinds
<1>5. ASSUME HandleEvent PROVE MovingInv'
  <2>1. PICK e \in batch :
          /\ batch' = batch \ {e}
          /\ \/ e = Listen /\ Goto(Main, "accept") /\ UNCHANGED <<fdOf, connOf>>
             \/ /\ e.ev = "hup"
                /\ fdOf' = [fdOf EXCEPT ![Main] = e.fd]
                /\ Goto(Main, "find") /\ UNCHANGED connOf
             \/ /\ e.ev \in {"in", "out"} /\ conns[e.fd] = None
                /\ UNCHANGED <<pc, fdOf, connOf>>
             \/ /\ e.ev \in {"in", "out"} /\ conns[e.fd] # None
                /\ fdOf' = [fdOf EXCEPT ![Main] = e.fd]
                /\ connOf' = [connOf EXCEPT ![Main] = conns[e.fd]]
                /\ Goto(Main, IF e.ev = "in" THEN "dispatchRead"
                                             ELSE "dispatchWrite")
    BY <1>5 DEF HandleEvent
  <2>2. /\ pc[Main] = "events" /\ expired = {}
        /\ UNCHANGED <<peer, backlog, interest, conns, tasks, expired, closed,
                       processing, seg>>
    BY <1>5 DEF HandleEvent, Reaping
  <2>3. e = Listen \/ (e.ev \in {"hup", "in", "out"} /\ e.fd \in Fds)
    BY DEF Typing, TypeOK, ServerTypes, Events
  <2>4. OnlyMoves(Main)
    BY <1>1, <2>1, <2>2 DEF OnlyMoves
  <2>5. ASSUME NEW f \in Fds, conns[f] # None, MainHas(f)
        PROVE  MainHas(f)'
    <3>1. PICK d \in batch : d.fd = f
      BY <2>2, <2>5 DEF MainHas, Kinds
    <3>2. CASE d = e
      BY <1>1, <2>1, <2>3, <2>5, <3>1, <3>2 DEF MainHas, Kinds, Listen
    <3> QED BY <2>1, <3>1, <3>2 DEF MainHas
  <2>6. \A f \in Fds : Moves(f)'
    BY <2>2, <2>4, <2>5, MainMoves DEF KeepsOpen
  <2>7. pc'[Main] \in Kinds => /\ conns[fdOf'[Main]] = connOf'[Main]
                               /\ fdOf'[Main] \in Fds /\ connOf'[Main] # None
    <3>1. pc'[Main] \in Kinds => /\ e.fd \in Fds /\ conns[e.fd] # None
                                 /\ fdOf' = [fdOf EXCEPT ![Main] = e.fd]
                                 /\ connOf' = [connOf EXCEPT ![Main] = conns[e.fd]]
      BY <1>1, <2>1, <2>2, <2>3 DEF Kinds, Listen
    <3> QED BY <1>1, <3>1
  <2>8. pc'[Main] \in {"accept", "find", "events"} \cup Kinds
    BY <1>1, <2>1, <2>2 DEF Kinds
  <2>9. Current' /\ Emptied'
    <3>1. pc'[Main] \in Kinds =>
            \A f \in Fds : conns[f] = connOf'[Main] => f = fdOf'[Main]
      BY <1>1, <1>3, <2>7 DEF Owning, Sockets
    <3> QED BY <2>2, <2>7, <2>8, <3>1 DEF Current, Emptied, Kinds
  <2>10. Unbegun'
    <3>1. \A c \in Conns : Fresh(c)' => Fresh(c)
      BY <2>2, <2>8 DEF Fresh, Kinds
    <3>2. \A c \in Conns : pc'[Main] \in Kinds /\ connOf'[Main] = c =>
            peer[c] # "new" /\ c \notin backlog
      BY <1>3, <2>7 DEF Owning, Sockets
    <3> QED BY <2>2, <2>8, <3>1, <3>2 DEF MovingInv, Unbegun, Fresh, Kinds
  <2> QED BY <2>6, <2>9, <2>10 DEF MovingInv
<1>6. ASSUME Dispatch PROVE MovingInv'
  <2> DEFINE c == connOf[Main]
             g == fdOf[Main]
  <2>1. /\ pc[Main] \in Kinds /\ OnlyMoves(Main)
        /\ UNCHANGED <<peer, backlog, interest, conns, batch, expired, closed>>
        /\ pc' = [pc EXCEPT ![Main] = IF expired = {} THEN "events" ELSE "reap"]
    BY <1>1, <1>6 DEF Dispatch, Return, OnlyMoves
  <2>2. c \in Conns /\ g \in Fds
    BY <1>1, <2>1 DEF Typing, Locals, LocalsOf, FdPcs, ConnPcs, Kinds
  <2>3. expired = {} /\ pc'[Main] = "events"
    BY <1>1, <2>1 DEF Reaping, Kinds
  <2>4. Current' /\ Emptied'
    BY <2>1, <2>3 DEF Current, Emptied, Kinds
  <2>5. Unbegun'
    <3>1. \A d \in Conns : Fresh(d)' => Fresh(d)
      BY <2>1, <2>3 DEF Fresh
    <3>2. \A d \in Conns : processing'[d] => processing[d] \/ d = c
      BY <1>1, <1>6, <2>2 DEF Dispatch
    <3> QED BY <2>1, <2>3, <3>1, <3>2 DEF MovingInv, Unbegun, Kinds
  <2>6. CASE MayBegin(c)
    <3>1. /\ tasks' = Append(tasks, [kind |-> pc[Main], fd |-> g])
          /\ processing' = [processing EXCEPT ![c] = TRUE]
      BY <1>6, <2>6 DEF Dispatch
    <3>2. tasks \in Seq(Task)
      BY DEF Typing, TypeOK, ServerTypes
    <3>3. \A f \in Fds : Queued(f) => Queued(f)'
      BY <3>1, <3>2 DEF Queued, Task
    <3>4. \A f \in Fds : f = g => Queued(f)'
      <4>1. /\ Len(tasks) + 1 \in 1..Len(tasks')
            /\ tasks'[Len(tasks) + 1].fd = g
        <5>1. [kind |-> pc[Main], fd |-> g] \in Task
          BY <2>1, <2>2 DEF Task
        <5>2. /\ Len(tasks') = Len(tasks) + 1
              /\ tasks'[Len(tasks) + 1] = [kind |-> pc[Main], fd |-> g]
              /\ Len(tasks) \in Nat
          BY <3>1, <3>2, <5>1
        <5> QED BY <5>2
      <4> QED BY <4>1 DEF Queued
    <3>5. ASSUME NEW f \in Fds, conns'[f] # None
          PROVE  Moves(f)'
      <4>1. Moves(f) /\ conns' = conns
        BY <2>1 DEF MovingInv
      <4>2. \A w \in Workers : /\ Releases(w, f) => Releases(w, f)'
                               /\ Rearms(w, f) => Rearms(w, f)'
        BY <2>1 DEF OnlyMoves, Threads, Releases, Rearms, Busy
      <4>3. MainHas(f) => MainHas(f)' \/ f = g
        BY <2>1 DEF MainHas
      <4>4. processing'[conns[f]] => processing[conns[f]] \/ f = g
        <5>1. conns[f] = c => f = g
          BY <2>1 DEF MovingInv, Current
        <5> QED BY <1>1, <2>1, <2>2, <3>1, <3>5, <5>1
      <4>5. interest'[f] = "none" => FALSE
        BY <2>1, <3>5, <4>1 DEF Moves, Kinds
      <4> QED BY <2>1, <3>3, <3>4, <4>1, <4>2, <4>3, <4>4, <4>5 DEF Moves
    <3>6. \A f \in Fds : Moves(f)'
      BY <3>5 DEF Moves
    <3> QED BY <2>4, <2>5, <3>6 DEF MovingInv
  <2>7. CASE ~MayBegin(c)
    <3>1. UNCHANGED <<processing, tasks>>
      BY <1>6, <2>7 DEF Dispatch
    <3>2. ASSUME NEW f \in Fds, conns[f] # None, MainHas(f)
          PROVE  MainHas(f)' \/ Queued(f) \/ \E w \in Workers : Rearms(w, f)
      <4>1. CASE f = g
        <5>1. conns[f] = c /\ ~closed[c]
          BY <1>3, <2>1, <3>2, <4>1 DEF MovingInv, Current
        <5>2. Queued(f) \/ \E w \in Workers : Releases(w, f)
          BY <2>7, <3>2, <5>1 DEF MayBegin, MovingInv, Moves
        <5>3. \A w \in Workers : Releases(w, f) => Rearms(w, f)
          BY <5>1 DEF Releases, Rearms, Busy, EarlyPcs, LatePcs
        <5> QED BY <5>2, <5>3
      <4>2. CASE f # g
        BY <2>1, <3>2, <4>2 DEF MainHas
      <4> QED BY <4>1, <4>2
    <3>3. \A f \in Fds : Moves(f)'
      BY <2>1, <3>1, <3>2, MainMoves DEF KeepsOpen, Kinds
    <3> QED BY <2>4, <2>5, <3>3 DEF MovingInv
  <2> QED BY <2>6, <2>7
<1>7. ASSUME Accept PROVE MovingInv'
  <2>1. /\ OnlyMoves(Main) /\ pc[Main] = "accept"
        /\ UNCHANGED <<peer, interest, conns, tasks, batch, expired, closed,
                       processing>>
        /\ expired = {}
    BY <1>1, <1>7 DEF Accept, OnlyMoves, Reaping
  <2>2. \A f \in Fds : MainHas(f) => MainHas(f)'
    BY <2>1 DEF MainHas, Kinds
  <2>3. \A f \in Fds : Moves(f)'
    BY <2>1, <2>2, MainMoves DEF KeepsOpen
  <2>4. \A c \in Conns : Fresh(c)' => Fresh(c)
    BY <1>1, <1>7 DEF Accept, Fresh
  <2>5. pc'[Main] \in {"events", "insert"}
    BY <1>1, <1>7 DEF Accept
  <2> QED BY <2>1, <2>3, <2>4, <2>5
          DEF MovingInv, Unbegun, Current, Emptied, Kinds
<1>8. ASSUME Insert PROVE MovingInv'
  <2> DEFINE c == connOf[Main]
             g == fdOf[Main]
  <2>1. /\ OnlyMoves(Main) /\ pc[Main] = "insert" /\ pc'[Main] = "add"
        /\ UNCHANGED <<peer, backlog, interest, tasks, batch, expired, closed,
                       processing, fdOf, connOf>>
        /\ conns' = [conns EXCEPT ![g] = c]
        /\ expired = {}
    BY <1>1, <1>8 DEF Insert, OnlyMoves, Reaping
  <2>2. g \in Fds /\ c \in Conns /\ ~processing[c]
    BY <1>1, <2>1
       DEF Typing, Locals, LocalsOf, FdPcs, ConnPcs, MovingInv, Unbegun, Fresh
  <2>3. ASSUME NEW f \in Fds, conns'[f] # None PROVE Moves(f)'
    <3>1. CASE f = g
      BY <1>1, <2>1, <2>2, <3>1 DEF Moves, MainHas
    <3>2. CASE f # g
      <4>1. Moves(f) /\ conns'[f] = conns[f]
        BY <1>1, <2>1, <3>2 DEF MovingInv
      <4>2. \A w \in Workers : /\ Releases(w, f) => Releases(w, f)'
                               /\ Rearms(w, f) => Rearms(w, f)'
        BY <2>1, <4>1 DEF OnlyMoves, Threads, Releases, Rearms, Busy
      <4>3. MainHas(f) => MainHas(f)'
        BY <2>1, <3>2 DEF MainHas
      <4>4. Queued(f) => Queued(f)'
        BY <2>1 DEF Queued
      <4> QED BY <2>1, <2>3, <4>1, <4>2, <4>3, <4>4 DEF Moves
    <3> QED BY <3>1, <3>2
  <2>4. \A f \in Fds : Moves(f)'
    BY <2>3 DEF Moves
  <2> QED BY <2>1, <2>4 DEF MovingInv, Unbegun, Fresh, Current, Emptied, Kinds
<1>9. ASSUME Add PROVE MovingInv'
  <2>1. /\ OnlyMoves(Main) /\ pc[Main] = "add" /\ pc'[Main] = "accept"
        /\ UNCHANGED <<peer, backlog, conns, tasks, batch, expired, closed,
                       processing>>
        /\ expired = {} /\ fdOf[Main] \in Fds
    BY <1>1, <1>9
       DEF Add, AfterAdd, OnlyMoves, Reaping, Typing, Locals, LocalsOf, FdPcs
  <2>2. ASSUME NEW f \in Fds, conns[f] # None
        PROVE  /\ f = fdOf[Main] => interest'[f] = "in"
               /\ f # fdOf[Main] => /\ interest'[f] = interest[f]
                                    /\ MainHas(f) => MainHas(f)'
    BY <1>1, <1>3, <1>9, <2>1, <2>2 DEF Add, MainHas
  <2>3. \A f \in Fds : Moves(f)'
    BY <2>1, <2>2, MainMoves DEF KeepsOpen
  <2> QED BY <2>1, <2>3 DEF MovingInv, Unbegun, Fresh, Current, Emptied, Kinds
<1>10. ASSUME PopExpired PROVE MovingInv'
  <2>1. /\ OnlyMoves(Main) /\ pc[Main] = "events" /\ pc'[Main] = "reap"
        /\ UNCHANGED <<peer, backlog, interest, conns, tasks, batch, closed,
                       processing>>
        /\ batch = {} /\ expired = {}
    BY <1>1, <1>10 DEF PopExpired, OnlyMoves, Reaping
  <2>2. \A f \in Fds : ~MainHas(f)
    BY <2>1 DEF MainHas, Kinds
  <2>3. \A f \in Fds : Moves(f)'
    BY <2>1, <2>2, MainMoves DEF KeepsOpen
  <2> QED BY <2>1, <2>3 DEF MovingInv, Unbegun, Fresh, Current, Emptied, Kinds
<1>11. ASSUME Reap PROVE MovingInv'
  <2>1. /\ OnlyMoves(Main) /\ pc[Main] = "reap" /\ pc'[Main] \in {"wait", "find"}
        /\ UNCHANGED <<peer, backlog, interest, conns, tasks, batch, expired,
                       closed, processing>>
        /\ batch = {}
    BY <1>1, <1>11 DEF Reap, OnlyMoves, MovingInv, Emptied
  <2>2. \A f \in Fds : MainHas(f) => MainHas(f)'
    BY <2>1 DEF MainHas, Kinds
  <2>3. \A f \in Fds : Moves(f)'
    BY <2>1, <2>2, MainMoves DEF KeepsOpen
  <2> QED BY <2>1, <2>3 DEF MovingInv, Unbegun, Fresh, Current, Emptied, Kinds
<1>12. ASSUME LeaveLoop \/ Join PROVE MovingInv'
  <2>1. /\ OnlyMoves(Main) /\ pc[Main] \in {"wait", "join"}
        /\ pc'[Main] \in {"join", "closeAll"}
        /\ UNCHANGED <<peer, backlog, interest, conns, tasks, batch, expired,
                       closed, processing>>
        /\ batch = {}
    BY <1>1, <1>12 DEF LeaveLoop, Join, OnlyMoves, MovingInv, Emptied
  <2>2. \A f \in Fds : MainHas(f) => MainHas(f)'
    BY <2>1 DEF MainHas, Kinds
  <2>3. \A f \in Fds : Moves(f)'
    BY <2>1, <2>2, MainMoves DEF KeepsOpen, Kinds
  <2> QED BY <2>1, <2>3 DEF MovingInv, Unbegun, Fresh, Current, Emptied, Kinds
<1>13. ASSUME CloseAll PROVE MovingInv'
  <2>1. /\ pc[Main] = "closeAll" /\ pc'[Main] = "stopped" /\ batch = {}
        /\ UNCHANGED <<peer, backlog, batch, processing>>
        /\ \A f \in Fds : conns'[f] = None
    BY <1>1, <1>13 DEF CloseAll, MovingInv, Emptied
  <2> QED BY <2>1 DEF MovingInv, Unbegun, Fresh, Current, Emptied, Moves, Kinds
<1>14. ASSUME NEW t \in Threads, CloseStep(t) PROVE MovingInv'
  BY <1>14, ClosingMoves
<1>15. ASSUME NEW w \in Workers, Take(w) PROVE MovingInv'
  <2> DEFINE g == Head(tasks).fd
  <2>1. /\ OnlyMoves(w) /\ pc[w] = "idle"
        /\ pc'[w] \in {"handleRead", "handleWrite"} /\ fdOf'[w] = g
        /\ tasks # <<>> /\ tasks' = Tail(tasks)
        /\ UNCHANGED <<peer, backlog, interest, conns, batch, expired, closed,
                       processing>>
    BY <1>1, <1>15 DEF Take, Pop, OnlyMoves
  <2>2. /\ pc'[Main] = pc[Main] /\ fdOf'[Main] = fdOf[Main]
        /\ connOf'[Main] = connOf[Main]
    BY <1>1, <2>1 DEF OnlyMoves, ServerAssumption
  <2>3. Unbegun' /\ Current' /\ Emptied'
    BY <2>1, <2>2 DEF MovingInv, Unbegun, Fresh, Current, Emptied
  <2>4. ASSUME NEW f \in Fds, conns[f] # None PROVE Moves(f)'
    <3>1. Queued(f) => Queued(f)' \/ f = g
      <4>1. tasks \in Seq(Task)
        BY DEF Typing, TypeOK, ServerTypes
      <4>2. ASSUME NEW i \in 1..Len(tasks), tasks[i].fd = f, f # g
            PROVE  Queued(f)'
        <5>1. i # 1 /\ i - 1 \in 1..Len(Tail(tasks)) /\ Tail(tasks)[i - 1] = tasks[i]
          BY <2>1, <4>1, <4>2
        <5> QED BY <2>1, <4>2, <5>1 DEF Queued
      <4> QED BY <4>2 DEF Queued
    <3>2. f = g => Releases(w, f)' /\ Rearms(w, f)'
      BY <2>1 DEF Releases, Rearms, Busy, EarlyPcs
    <3>3. \A u \in Workers : /\ Releases(u, f) => Releases(u, f)'
                             /\ Rearms(u, f) => Rearms(u, f)'
      BY <2>1 DEF OnlyMoves, Threads, Releases, Rearms, Busy, EarlyPcs, LatePcs
    <3>4. Moves(f) /\ (MainHas(f) => MainHas(f)')
      BY <2>1, <2>2 DEF MovingInv, MainHas
    <3> QED BY <2>1, <2>2, <3>1, <3>2, <3>3, <3>4 DEF Moves
  <2>5. \A f \in Fds : Moves(f)'
    BY <2>1, <2>4 DEF Moves
  <2> QED BY <2>3, <2>5 DEF MovingInv
<1>16. ASSUME NEW w \in Workers, GetConnection(w) PROVE MovingInv'
  <2>1. /\ OnlyMoves(w)
        /\ UNCHANGED <<peer, backlog, conns, tasks, batch, expired, closed,
                       processing, interest>>
    BY <1>1, <1>16 DEF GetConnection, Return, OnlyMoves
  <2>2. ASSUME NEW f \in Fds, conns[f] # None, fdOf[w] = f
        PROVE  Releases(w, f)' /\ Rearms(w, f)'
    BY <1>1, <1>16, <2>2
       DEF GetConnection, Releases, Rearms, Busy, EarlyPcs, LatePcs
  <2> QED BY <1>1, <2>1, <2>2, WorkerMoves DEF KeepsOpen, Releases, Rearms
<1>17. ASSUME NEW w \in Workers, Read(w) PROVE MovingInv'
  <2>1. /\ OnlyMoves(w)
        /\ UNCHANGED <<peer, backlog, conns, tasks, batch, expired, closed,
                       processing, interest, fdOf, connOf>>
    BY <1>1, <1>17 DEF Read, OnlyMoves
  <2>2. ASSUME NEW f \in Fds
        PROVE  /\ Releases(w, f) => Releases(w, f)'
               /\ Rearms(w, f) => Rearms(w, f)'
    BY <1>1, <1>17, <2>1
       DEF Read, Releases, Rearms, Busy, EarlyPcs, LatePcs
  <2> QED BY <1>1, <2>1, <2>2, WorkerMoves DEF KeepsOpen
<1>18. ASSUME NEW w \in Workers, AppendRead(w) PROVE MovingInv'
  <2>1. /\ OnlyMoves(w)
        /\ UNCHANGED <<peer, backlog, conns, tasks, batch, expired, closed,
                       processing, interest, fdOf, connOf>>
    BY <1>1, <1>18 DEF AppendRead, OnlyMoves
  <2>2. ASSUME NEW f \in Fds
        PROVE  /\ Releases(w, f) => Releases(w, f)'
               /\ Rearms(w, f) => Rearms(w, f)'
    BY <1>1, <1>18, <2>1
       DEF AppendRead, Releases, Rearms, Busy, EarlyPcs, LatePcs
  <2> QED BY <1>1, <2>1, <2>2, WorkerMoves DEF KeepsOpen
<1>19. ASSUME NEW w \in Workers, Touch(w) PROVE MovingInv'
  <2>1. /\ OnlyMoves(w)
        /\ UNCHANGED <<peer, backlog, conns, tasks, batch, expired, closed,
                       processing, interest, fdOf, connOf>>
    BY <1>1, <1>19 DEF Touch, OnlyMoves
  <2>2. ASSUME NEW f \in Fds
        PROVE  /\ Releases(w, f) => Releases(w, f)'
               /\ Rearms(w, f) => Rearms(w, f)'
    BY <1>1, <1>19, <2>1
       DEF Touch, Releases, Rearms, Busy, EarlyPcs, LatePcs
  <2> QED BY <1>1, <2>1, <2>2, WorkerMoves DEF KeepsOpen
<1>20. ASSUME NEW w \in Workers, Check(w) PROVE MovingInv'
  <2>1. /\ OnlyMoves(w)
        /\ UNCHANGED <<peer, backlog, conns, tasks, batch, expired, closed,
                       processing, interest, fdOf, connOf>>
    BY <1>1, <1>20 DEF Check, OnlyMoves
  <2>2. ASSUME NEW f \in Fds
        PROVE  /\ Releases(w, f) => Releases(w, f)'
               /\ Rearms(w, f) => Rearms(w, f)'
    BY <1>1, <1>20, <2>1
       DEF Check, Releases, Rearms, Busy, EarlyPcs, LatePcs, HasWriteData
  <2> QED BY <1>1, <2>1, <2>2, WorkerMoves DEF KeepsOpen
<1>21. ASSUME NEW w \in Workers, WriteSome(w) PROVE MovingInv'
  <2>1. /\ OnlyMoves(w)
        /\ UNCHANGED <<peer, backlog, conns, tasks, batch, expired, closed,
                       processing, interest, fdOf, connOf>>
    BY <1>1, <1>21 DEF WriteSome, OnlyMoves
  <2>2. ASSUME NEW f \in Fds
        PROVE  /\ Releases(w, f) => Releases(w, f)'
               /\ Rearms(w, f) => Rearms(w, f)'
    BY <1>1, <1>21, <2>1
       DEF WriteSome, Releases, Rearms, Busy, EarlyPcs, LatePcs
  <2> QED BY <1>1, <2>1, <2>2, WorkerMoves DEF KeepsOpen
<1>22. ASSUME NEW w \in Workers, WriteNone(w) PROVE MovingInv'
  <2>1. /\ OnlyMoves(w)
        /\ UNCHANGED <<peer, backlog, conns, tasks, batch, expired, closed,
                       processing, interest, fdOf, connOf>>
    BY <1>1, <1>22 DEF WriteNone, OnlyMoves
  <2>2. ASSUME NEW f \in Fds
        PROVE  /\ Releases(w, f) => Releases(w, f)'
               /\ Rearms(w, f) => Rearms(w, f)'
    BY <1>1, <1>22, <2>1
       DEF WriteNone, Releases, Rearms, Busy, EarlyPcs, LatePcs
  <2> QED BY <1>1, <2>1, <2>2, WorkerMoves DEF KeepsOpen
<1>23. ASSUME NEW w \in Workers, Consume(w) PROVE MovingInv'
  <2>1. /\ OnlyMoves(w)
        /\ UNCHANGED <<peer, backlog, conns, tasks, batch, expired, closed,
                       processing, interest, fdOf, connOf>>
    BY <1>1, <1>23 DEF Consume, OnlyMoves
  <2>2. ASSUME NEW f \in Fds
        PROVE  /\ Releases(w, f) => Releases(w, f)'
               /\ Rearms(w, f) => Rearms(w, f)'
    BY <1>1, <1>23, <2>1
       DEF Consume, Releases, Rearms, Busy, EarlyPcs, LatePcs
  <2> QED BY <1>1, <2>1, <2>2, WorkerMoves DEF KeepsOpen
<1>24. ASSUME NEW w \in Workers, Clear(w) PROVE MovingInv'
  <2>1. /\ OnlyMoves(w)
        /\ UNCHANGED <<peer, backlog, conns, tasks, batch, expired, closed,
                       processing, interest, fdOf, connOf>>
    BY <1>1, <1>24 DEF Clear, OnlyMoves
  <2>2. ASSUME NEW f \in Fds
        PROVE  /\ Releases(w, f) => Releases(w, f)'
               /\ Rearms(w, f) => Rearms(w, f)'
    BY <1>1, <1>24, <2>1
       DEF Clear, Releases, Rearms, Busy, EarlyPcs, LatePcs, HasPendingRead
  <2> QED BY <1>1, <2>1, <2>2, WorkerMoves DEF KeepsOpen
<1>25. ASSUME NEW w \in Workers, Respond(w) PROVE MovingInv'
  <2>1. /\ OnlyMoves(w)
        /\ UNCHANGED <<peer, backlog, conns, tasks, batch, expired, closed,
                       processing, interest>>
    BY <1>1, <1>25 DEF Respond, Return, OnlyMoves
  <2>2. ASSUME NEW f \in Fds, conns[f] # None
        PROVE  /\ Releases(w, f) => Releases(w, f)'
               /\ Rearms(w, f) => Rearms(w, f)'
    <3>1. CASE closed[connOf[w]]
      BY <1>25, <1>3, <2>2, <3>1 DEF Respond, Releases, Rearms, EarlyPcs
    <3>2. CASE ~closed[connOf[w]]
      BY <1>1, <1>25, <2>1, <2>2, <3>2
         DEF Respond, Releases, Rearms, Busy, EarlyPcs, LatePcs
    <3> QED BY <3>1, <3>2
  <2> QED BY <1>1, <2>1, <2>2, WorkerMoves DEF KeepsOpen
<1>26. ASSUME NEW w \in Workers, Extract(w) PROVE MovingInv'
  <2> DEFINE c == connOf[w]
  <2>1. /\ OnlyMoves(w)
        /\ UNCHANGED <<peer, backlog, conns, tasks, batch, expired, closed>>
    BY <1>1, <1>26 DEF Extract, Return, OnlyMoves
  <2>2. c \in Conns /\ fdOf[w] \in Fds
    BY <1>26, <1>2 DEF Extract, ConnPcs, FdPcs, WorkerPcs
  <2>3. CASE closed[c] \/ Len(readBuf[c]) < SegsPerRequest
    <3>1. /\ processing' = [processing EXCEPT ![c] = FALSE]
          /\ interest' = [interest EXCEPT
               ![fdOf[w]] = IF @ = "none" THEN @ ELSE "in"]
      BY <1>26, <2>3 DEF Extract, Release, Mod
    <3>2. ASSUME NEW f \in Fds, conns[f] # None
          PROVE  /\ \/ interest'[f] = interest[f]
                    \/ interest[f] # "none" /\ interest'[f] \in {"in", "out"}
                 /\ Releases(w, f) => ~processing'[conns[f]]
                 /\ Rearms(w, f) => interest'[f] # "idle"
      BY <1>1, <1>26, <2>2, <3>1 DEF Extract, Releases, Rearms, EarlyPcs
    <3>3. \A d \in Conns : processing'[d] => processing[d]
      BY <1>1, <2>2, <3>1
    <3> QED BY <1>1, <2>1, <3>2, <3>3, WorkerMoves DEF KeepsOpen
  <2>4. CASE ~(closed[c] \/ Len(readBuf[c]) < SegsPerRequest)
    <3>1. /\ UNCHANGED <<processing, interest, fdOf, connOf>>
          /\ pc' = [pc EXCEPT ![w] = "respond"] /\ pc[w] = "extract"
      BY <1>26, <2>4 DEF Extract
    <3>2. ASSUME NEW f \in Fds
          PROVE  /\ Releases(w, f) => Releases(w, f)'
                 /\ Rearms(w, f) => Rearms(w, f)'
      BY <1>1, <2>1, <2>4, <3>1
         DEF Releases, Rearms, Busy, EarlyPcs, LatePcs
    <3> QED BY <1>1, <2>1, <3>1, <3>2, WorkerMoves DEF KeepsOpen
  <2> QED BY <2>3, <2>4
<1>27. ASSUME NEW w \in Workers, FinishProcessing(w) PROVE MovingInv'
  <2> DEFINE c == connOf[w]
  <2>1. /\ OnlyMoves(w)
        /\ UNCHANGED <<peer, backlog, conns, tasks, batch, expired, closed,
                       interest, fdOf, connOf>>
    BY <1>1, <1>27 DEF FinishProcessing, OnlyMoves
  <2>2. c \in Conns /\ fdOf[w] \in Fds
    BY <1>27, <1>2 DEF FinishProcessing, ConnPcs, FdPcs, WorkerPcs
  <2>3. \A d \in Conns : processing'[d] => processing[d]
    BY <1>1, <1>27, <2>2 DEF FinishProcessing, Release
  <2>4. ASSUME NEW f \in Fds, conns[f] # None
        PROVE  /\ Releases(w, f) => ~processing'[conns[f]]
               /\ Rearms(w, f) => Rearms(w, f)'
    <3>1. Releases(w, f) => ~processing'[conns[f]]
      BY <1>1, <1>27, <1>3, <2>2, <2>4
         DEF FinishProcessing, Release, Releases, EarlyPcs
    <3>2. Rearms(w, f) => Rearms(w, f)'
      BY <1>1, <1>27, <2>1 DEF FinishProcessing, Rearms, Busy
    <3> QED BY <3>1, <3>2
  <2> QED BY <1>1, <2>1, <2>3, <2>4, WorkerMoves DEF KeepsOpen
<1>28. ASSUME NEW w \in Workers, Rearm(w) PROVE MovingInv'
  <2>1. /\ OnlyMoves(w)
        /\ UNCHANGED <<peer, backlog, conns, tasks, batch, expired, closed,
                       processing>>
    BY <1>1, <1>28 DEF Rearm, Return, OnlyMoves
  <2>2. fdOf[w] \in Fds
    BY <1>28, <1>2 DEF Rearm, FdPcs, WorkerPcs
  <2>3. ASSUME NEW f \in Fds
        PROVE  /\ \/ interest'[f] = interest[f]
                  \/ interest[f] # "none" /\ interest'[f] \in {"in", "out"}
               /\ ~Releases(w, f)
               /\ Rearms(w, f) => interest'[f] # "idle"
    BY <1>1, <1>28, <2>2
       DEF Rearm, Mod, Wanted, Releases, Rearms, EarlyPcs, LatePcs
  <2> QED BY <1>1, <2>1, <2>3, WorkerMoves DEF KeepsOpen
<1>29. ASSUME NEW w \in Workers, SigPipe(w) PROVE MovingInv'
  BY <1>29
     DEF SigPipe, MovingInv, Unbegun, Current, Emptied, Fresh, Moves, Queued,
         MainHas, Releases, Rearms, Busy
<1>30. ASSUME NEW c \in Conns, ClientStep(c) PROVE MovingInv'
  <2>1. /\ UNCHANGED <<server, objects, threads, interest>>
        /\ \A d \in Conns : Fresh(d)' => Fresh(d)
    BY <1>30
       DEF ClientStep, Connect, Send, Shut, Reset, Fresh, Typing, TypeOK,
           KernelTypes
  <2> QED BY <2>1 DEF MovingInv, Unbegun, Current, Emptied, Moves, Queued,
                      MainHas, Releases, Rearms, Busy
<1>31. ASSUME RequestStop PROVE MovingInv'
  BY <1>31
     DEF RequestStop, MovingInv, Unbegun, Current, Emptied, Fresh, Moves,
         Queued, MainHas, Releases, Rearms, Busy
<1>32. CASE UNCHANGED vars
  BY <1>32
     DEF vars, MovingInv, Unbegun, Current, Emptied, Fresh, Moves, Queued,
         MainHas, Releases, Rearms, Busy
<1>33. QED
  BY <1>4, <1>5, <1>6, <1>7, <1>8, <1>9, <1>10, <1>11, <1>12, <1>13,
     <1>14, <1>15, <1>16, <1>17, <1>18, <1>19, <1>20, <1>21, <1>22, <1>23,
     <1>24, <1>25, <1>26, <1>27, <1>28, <1>29, <1>30, <1>31, <1>32
     DEF Next, MainStep, WorkerStep, Threads

\* A connection in the map is never stuck: whatever the workers, the stale
\* tasks and the descriptors' reuse, a task, a worker or the event loop has
\* it, or epoll will report its next event and beginProcessing() accept it.
THEOREM NeverStuck == ASSUME ServerAssumption PROVE Spec => []NoStuck
<1>1. Init => MovingInv
  BY DEF Init, MovingInv, Unbegun, Current, Emptied, Moves, Threads, Kinds,
         ServerAssumption
<1>2. IInv /\ MovingInv /\ [Next]_vars => MovingInv'
  BY MovingStep
<1>3. IInv /\ MovingInv => NoStuck
  <2> SUFFICES ASSUME IInv, MovingInv, NEW f \in Fds, conns[f] # None, ~InHands(f)
               PROVE  interest[f] \in {"in", "out"} /\ ~processing[conns[f]]
    BY DEF NoStuck
  <2>1. /\ ~Queued(f) /\ ~MainHas(f) /\ fdOf[Main] # f
        /\ \A w \in Workers : ~(Busy(w) /\ fdOf[w] = f)
    BY DEF InHands, Held, Queued, MainHas
  <2>2. \A w \in Workers : ~Releases(w, f) /\ ~Rearms(w, f)
    BY <2>1 DEF Releases, Rearms, Busy, EarlyPcs, LatePcs
  <2>3. interest[f] \in {"none", "idle", "in", "out"}
    BY DEF IInv, Typing, TypeOK, KernelTypes
  <2> QED BY <2>1, <2>2, <2>3 DEF MovingInv, Moves
<1> QED BY <1>1, <1>2, <1>3, Invariance, PTL DEF Spec
=============================================================================
