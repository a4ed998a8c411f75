----------------------------- MODULE Lifecycle -----------------------------
(***************************************************************************)
(* HttpServer::start(), eventLoop() and stop() around the worker pool and  *)
(* the access log, from main() to the end of the process.  Main is the     *)
(* only thread that enqueues tasks and stops the pool; a worker logs a     *)
(* line at the end of a task, Main when it closes an idle connection.      *)
(* Every step of start() may fail, and a signal may come at any moment.    *)
(***************************************************************************)
EXTENDS ThreadPool

CONSTANTS
  Main,       \* the thread of main()
  MaxLines    \* bound: lines logged

ASSUME LifecycleAssumption ==
  /\ Callers = {Main} /\ Main \notin Workers
  /\ Tasks = 1..Cardinality(Tasks)
  /\ MaxLines \in Nat

VARIABLES
  main,       \* where Main is
  running,    \* running_
  sockets,    \* what is open: listenFd_ and the connections
  logging, queue, batch, file, dropped, writer, saying, keeper, logged

pool == vars
log == <<logging, queue, batch, file, dropped, writer, saying, keeper, logged>>
server == <<main, running, sockets>>
lifecycleVars == <<pool, log, server>>

Threads == Workers \cup {Main}

Log == INSTANCE Logger WITH
  Callers <- Threads, running <- logging, worker <- writer,
  calling <- saying, owner <- keeper

\* ~HttpServer() runs stop(), from its first three parts to the destructors
\* of the members, then exit() destroys the Logger.
\* Mutant: the logger goes first.
MutantOrder == <<"logger", "workers", "close", "destroy", "exit", "gone">>
Order == <<"workers", "logger", "close", "destroy", "exit", "gone">>

After(stage) == Order[1 + CHOOSE i \in 1..Len(Order) : Order[i] = stage]

Starting == {"begin", "database", "epoll", "socket", "listen", "add", "arm"}
Serving == {"spawn", "loop", "wait", "iterate", "idle"}

LifecycleTypeOK ==
  /\ TypeOK /\ Log!TypeOK
  /\ main \in Starting \cup Serving \cup {"stop"} \cup {Order[i] : i \in 1..Len(Order)}
  /\ running \in BOOLEAN
  /\ sockets \subseteq {"listen", "client"}
  /\ owner # "start" => main \notin Starting

LifecycleInit ==
  /\ Init /\ Log!Init
  /\ main = "begin" /\ running = FALSE /\ sockets = {}

Go(stage) == main' = stage

-----------------------------------------------------------------------------
(* start() *)

InitLogger ==
  /\ main = "begin" /\ Go("database")
  /\ Log!Start
  /\ UNCHANGED <<pool, running, sockets>>

\* databasePool_.init(), then epoller_.valid().
InitDatabase ==
  /\ main = "database" /\ (Go("epoll") \/ Go("stop"))
  /\ UNCHANGED <<pool, log, running, sockets>>

CheckEpoll ==
  /\ main = "epoll" /\ (Go("socket") \/ Go("stop"))
  /\ UNCHANGED <<pool, log, running, sockets>>

\* initListenSocket(): socket(), then bind(), listen() and set_nonblocking(),
\* each of which closes it again when it fails.
Socket ==
  /\ main = "socket"
  /\ \/ Go("listen") /\ sockets' = sockets \cup {"listen"}
     \/ Go("stop") /\ UNCHANGED sockets
  /\ UNCHANGED <<pool, log, running>>

Listen ==
  /\ main = "listen"
  /\ \/ Go("add") /\ UNCHANGED sockets
     \/ Go("stop") /\ sockets' = sockets \ {"listen"}
  /\ UNCHANGED <<pool, log, running>>

\* epoller_.add(): its failure leaves listenFd_ to stop().
AddListener ==
  /\ main = "add" /\ (Go("arm") \/ Go("stop"))
  /\ UNCHANGED <<pool, log, running, sockets>>

Arm ==
  /\ main = "arm" /\ Go("spawn")
  /\ running' = TRUE
  /\ UNCHANGED <<pool, log, sockets>>

\* workers_.start()
Spawn(w) ==
  /\ main = "spawn" /\ Start(w)
  /\ IF owner' = "running" THEN Go("loop") ELSE UNCHANGED main
  /\ UNCHANGED <<log, running, sockets>>

StartStep ==
  \/ InitLogger \/ InitDatabase \/ CheckEpoll \/ Socket \/ Listen
  \/ AddListener \/ Arm \/ \E w \in Workers : Spawn(w)

-----------------------------------------------------------------------------
(* eventLoop() *)

TestRunning ==
  /\ main = "loop" /\ Go(IF ~running THEN "stop" ELSE "wait")
  /\ UNCHANGED <<pool, log, running, sockets>>

\* epoll_wait(): events or its timeout, EINTR, or another error.
EpollWait ==
  /\ main = "wait" /\ (Go("iterate") \/ Go("loop") \/ Go("stop"))
  /\ UNCHANGED <<pool, log, running, sockets>>

Accept ==
  /\ main = "iterate" /\ sockets' = sockets \cup {"client"}
  /\ UNCHANGED <<pool, log, main, running>>

\* Of several connections one is closed, or it was the only one.
MayClose == sockets' \in {sockets, sockets \ {"client"}}

\* dispatchRead() and dispatchWrite(): a push and its notification.
Dispatch ==
  /\ main = "iterate" /\ "client" \in sockets
  /\ \E t \in Tasks : t = Cardinality(accepted) + 1 /\ Enqueue(Main, t)
  /\ UNCHANGED <<log, server>>

DispatchNotify ==
  /\ NotifyOne(Main)
  /\ UNCHANGED <<log, server>>

\* EPOLLHUP and EPOLLERR.
HangUp ==
  /\ main = "iterate" /\ calling[Main] = "idle" /\ MayClose
  /\ UNCHANGED <<pool, log, main, running>>

\* closeIdleConnections(): the line "idle timeout", then the connection.
LogIdle ==
  /\ main = "iterate" /\ calling[Main] = "idle" /\ "client" \in sockets
  /\ Go("idle") /\ Log!Enqueue(Main)
  /\ UNCHANGED <<pool, running, sockets>>

CloseIdle ==
  /\ main = "idle" /\ Go("iterate")
  /\ Log!NotifyOne(Main) /\ MayClose
  /\ UNCHANGED <<pool, running>>

NextIteration ==
  /\ main = "iterate" /\ calling[Main] = "idle" /\ Go("loop")
  /\ UNCHANGED <<pool, log, running, sockets>>

LoopStep ==
  \/ TestRunning \/ EpollWait \/ Accept \/ Dispatch \/ DispatchNotify
  \/ HangUp \/ LogIdle \/ CloseIdle \/ NextIteration

\* handle_signal(): no effect before start() sets running_, which overwrites
\* it.  The server that it writes to is gone after "destroy".
Signal ==
  /\ running /\ running' = FALSE
  /\ UNCHANGED <<pool, log, main, sockets>>

-----------------------------------------------------------------------------
(* The workers and the logger's thread *)

PoolStep(w) == (Sleep(w) \/ Leave(w) \/ Take(w)) /\ UNCHANGED <<log, server>>

\* A task ends with its access line ...
LogAccess(w) ==
  /\ pc[w] = "run" /\ Log!Enqueue(w)
  /\ UNCHANGED <<pool, server>>

FinishLogged(w) ==
  /\ Run(w) /\ Log!NotifyOne(w)
  /\ UNCHANGED server

\* ... or it has sent no response, and may have closed its connection.
Finish(w) ==
  /\ Run(w) /\ saying[w] = "idle" /\ MayClose
  /\ UNCHANGED <<log, main, running>>

TaskStep(w) == PoolStep(w) \/ LogAccess(w) \/ FinishLogged(w) \/ Finish(w)

WriterStep == Log!WorkerStep /\ UNCHANGED <<pool, server>>

SpuriousWakeup ==
  \/ Log!Spurious /\ UNCHANGED <<pool, server>>
  \/ \E w \in Workers : Spurious(w) /\ UNCHANGED <<log, server>>

-----------------------------------------------------------------------------
(* stop() and the end of the process *)

\* Mutant: the test of listenFd_ is missing.
MutantNothingToStop == ~running
NothingToStop == ~running /\ "listen" \notin sockets

Halt ==
  /\ main = "stop"
  /\ IF NothingToStop THEN Go("destroy") /\ UNCHANGED running
     ELSE Go(Head(Order)) /\ running' = FALSE
  /\ UNCHANGED <<pool, log, sockets>>

\* workers_.stop(), by HttpServer::stop() and again by ~ThreadPool(): without
\* threads it only sets stopping_.
StopWorkers ==
  /\ main \in {"workers", "destroy"}
  /\ \/ (Stop \/ NotifyAll) /\ UNCHANGED main
     \/ Join /\ Go(After(main))
     \/ /\ owner \in {"start", "stopped"} /\ Go(After(main))
        /\ stopping' = TRUE
        /\ UNCHANGED <<tasks, pc, holds, calling, owner, accepted, refused, ran>>
  /\ UNCHANGED <<log, running, sockets>>

\* logger_.shutdown(), by HttpServer::stop() and again by ~Logger().
StopLogger ==
  /\ main \in {"logger", "exit"}
  /\ \/ (Log!Shutdown \/ Log!NotifyAll) /\ UNCHANGED main
     \/ Log!Join /\ Go(After(main))
     \/ keeper = "done" /\ Go(After(main)) /\ UNCHANGED log
  /\ UNCHANGED <<pool, running, sockets>>

CloseSockets ==
  /\ main = "close" /\ Go(After(main))
  /\ sockets' = {}
  /\ UNCHANGED <<pool, log, running>>

StopStep == Halt \/ StopWorkers \/ StopLogger \/ CloseSockets

MainStep == StartStep \/ LoopStep \/ StopStep

LifecycleNext ==
  \/ MainStep \/ Signal \/ WriterStep \/ SpuriousWakeup
  \/ \E w \in Workers : TaskStep(w)
  \/ main = "gone" /\ UNCHANGED lifecycleVars

LifecycleSpec == LifecycleInit /\ [][LifecycleNext]_lifecycleVars

\* Threads are scheduled, tasks return, epoll_wait() returns within a second
\* and reports finitely many events.
LifecycleFairSpec ==
  /\ LifecycleSpec
  /\ WF_lifecycleVars(MainStep) /\ WF_lifecycleVars(NextIteration)
  /\ WF_lifecycleVars(WriterStep)
  /\ \A w \in Workers : WF_lifecycleVars(TaskStep(w))
-----------------------------------------------------------------------------
\* Every line ever logged is in the file when the process ends, unless the
\* file did not open: nobody logs once shutdown() has begun.
AllOut == main = "gone" => \A n \in 1..logged : Log!Out(n)

\* stop() closes the descriptors when no task is left that could use one,
\* and however far start() came and whatever ended the loop, the process ends
\* with its descriptors closed and its threads joined.
CleanExit ==
  /\ owner # "start" /\ "listen" \notin sockets =>
       tasks = <<>> /\ \A w \in Workers : pc[w] = "gone"
  /\ main = "gone" =>
       /\ sockets = {} /\ writer = "gone"
       /\ \A w \in Workers : pc[w] = IF owner = "start" THEN "none" ELSE "gone"

\* A signal that comes after running_ is set ends the process, as does an
\* error of start() or of epoll_wait().
Ends == main = "stop" \/ (main \in Serving /\ ~running) ~> main = "gone"

\* The properties of the access log, for these callers.
WrittenInOrder == Log!WrittenInOrder
Flushed == Log!Flushed
=============================================================================
