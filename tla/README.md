# A TLA+ model of mini_server

`mini_server` is a small HTTP server in C++: one thread runs an edge-triggered
epoll loop, a pool of workers reads, answers and writes, a heap of idle timers
closes silent connections, a pool of MySQL handles serves two user operations
and a background thread writes the access log. The modules here model those
parts from the code in `src/`, TLC checks them on small instances, and TLAPS
proves every safety property that holds of them for every instance. Liveness is
left to TLC.

Run things in this directory:

    tlc -workers 2 -config MCServerSafety.cfg MCHttpServer     # one model
    tlapm HttpServerProofs.tla                                 # one proof

`PROJECT.json` lists the components, the runs with their properties, a mutant
for each property, the source lines of each definition, the findings and the
hazards.

## 1. The system

### Components, their state, what they do

| Component | Source | State | Operations |
|---|---|---|---|
| Connection engine | `http_server.cpp` | `connections_` and `timers_` behind `connectionsMutex_`, `running_`, `listenFd_` | `eventLoop`, `handleAccept`, `dispatchRead/Write`, `handleRead`, `handleWrite`, `processConnectionTask`, `closeIdleConnections`, `closeConnection`, `requestStop`, `stop` |
| Epoll wrapper | `epoller.cpp` | the kernel's interest list | `add`, `mod`, `del`, `wait` |
| Connection object | `connection.cpp` | read and write buffer, offsets, mapped file, `closed_`, `processing_`, behind the object's mutex | `appendReadData`, `extractOneRequest`, `appendWriteData`, `setMappedWriteData`, `consumeWriteData`, `clearWriteData`, `markClosed` |
| Idle timers | `timer_heap.cpp` | `heap_`, `latest_` | `addOrUpdate`, `remove`, `popExpired` |
| Worker pool | `thread_pool.cpp` | `tasks_`, `stopping_`, threads | `start`, `enqueue`, `workerLoop`, `stop` |
| MySQL pool | `database_pool.cpp` | `all_`, `available_`, condition variable | `init`, `acquire`, `Lease`, `release`, destructor |
| User service | `user_service.cpp` | none of its own; table `users` | `registerUser`, `loginUser` |
| Request router | `request_router.cpp` | none | `handles`, `route` |
| Request parser | `http_request.cpp` | fields of one request | `parse` |
| Response builder | `http_response.cpp` | a response, a mapped file | `prepare`, `build`, `MappedFile::open` |
| Access log | `logger.cpp` | `queue_`, `running_`, the file | `init`, `access`, `info`, `workerLoop`, `shutdown` |
| Process entry | `server.cpp` | the global server pointer | `main`, the signal handler |

### How they interact

The event loop owns the epoll set and hands work to the workers through
`ThreadPool::enqueue`. A queued task captures a *descriptor*, not a
`Connection`; the worker looks the connection up when it starts, and again when
it goes on to build a response. Workers and the event loop share `connections_`
and `timers_` (one mutex), each `Connection` (its own mutex), and the kernel's
state, which no mutex protects: `read`, `writev`, `epoll_ctl` and `close` all
name a descriptor after every lock has been released. A worker finishes with
`finishProcessing()` and then re-arms the one-shot event. Closing may come from
a worker (end of file, error, end of a response that asked to close) or from
the event loop (HUP, idle timer). A worker calls the router, which calls the
user service, which borrows a MySQL handle and may sleep for one; at the end it
pushes a line to the logger's queue and goes on. `SIGINT` and `SIGTERM` clear
`running_`; the event loop leaves at its next turn, and the destructor joins
the workers, flushes the logger and closes what is still open.

### What is hard about it, and what makes each part correct

* **Connection engine.** Descriptors are reused at once by `accept()`, while
  tasks, timers and epoll registrations still name the old connection. Each
  open descriptor must have exactly one owner that will close it; bytes read
  must not enter another client's buffers; a connection in the map must never
  be left with neither a task nor an armed event; each must have a deadline;
  responses must reach their own client, in order; a stop must release
  everything.
* **Idle timers.** Lazy deletion with versions that restart at 1: stale nodes
  must not expire a refreshed descriptor, and the live node must not get lost.
* **Worker pool, logger, MySQL pool.** All three notify after the unlock. No
  wakeup may get lost, shutdown must not join a sleeping thread, and what has
  been accepted must be done exactly once.
* **Connection object.** Requests must be cut exactly, however `read()` splits
  and joins them; partial `writev()` calls must leave both offsets exact.
* **User service and router.** MySQL executes a statement at one moment and its
  answer arrives at another, or never. Whatever the order, one client registers
  a name, and what clients have been told must be true of the table and of what
  others were told before.
* **Parser, router and responses.** Pure functions, but on a kept connection
  their output must agree: what is declared with what is sent, what is announced
  with what is done, a request's answer with that request and not with the one
  before it.
* **Process.** Every step of `start()` may fail, a signal may come at any
  moment, `epoll_wait()` may fail. What was started must be joined and what was
  opened closed, in an order in which nobody still uses it.

The hazards list of `PROJECT.json` names each of these at its line, with the
properties that cover it, or the reason why none does.

## 2. Modules

| Module | Models | Role |
|---|---|---|
| `HttpServer` | `http_server.cpp`, `epoller.cpp`, the flags and buffers of `Connection` that threads share, the queue of `ThreadPool`, the signal path of `server.cpp`; the kernel and the clients (external) | detailed model, invariants, liveness |
| `HttpServerProofs` | | proofs about it under any clock |
| `ServerStreamsProofs` | | proofs about it under clocks that spare busy descriptors |
| `TimerSpec` | what `timer_heap.h` promises | abstract specification |
| `TimerHeap` | `timer_heap.cpp` | detailed model, refinement of `TimerSpec` |
| `TimerHeapProofs` | | proofs, the refinement included |
| `IdleTimeout` | the calls of the timers in `http_server.cpp`, with a clock | composition over `TimerHeap` |
| `IdleTimeoutProofs` | | proofs, on top of those of the heap |
| `ThreadPool` | `thread_pool.cpp` | detailed model |
| `ThreadPoolProofs` | | proofs about it |
| `Logger` | `logger.cpp` | detailed model |
| `Lifecycle` | `start`, `initListenSocket`, the exits of `eventLoop`, `stop`, the destructors; the signal handler | composition of `ThreadPool` and `Logger` |
| `LifecycleProofs` | | proofs about all three |
| `HttpText` | what the parser, the router and the framing tell apart in a text | tokens |
| `HttpRequest` | `http_request.cpp` | operators |
| `HttpResponse` | `http_response.cpp` | operators |
| `RequestRouter` | `request_router.cpp` | operators |
| `Connection` | `connection.cpp`, `connection.h`, the iovecs of `handleWrite` | buffers unit by unit |
| `Exchange` | `processConnectionTask` from `parse` to `setCloseAfterWrite` | composition of the five above |
| `ExchangeProofs` | | proofs about it and about `Connection` |
| `DatabasePool` | `database_pool.cpp` | detailed model |
| `UserService` | `user_service.cpp`; the table and MySQL (external) | composition with `DatabasePool` and `RequestRouter` |
| `UserServiceProofs` | | proofs about it and about `DatabasePool` |
| `MCHttpServer`, `MCIdleTimeout`, `MCExchange`, `MCUserService` | | instances and symmetry for TLC |

    HttpText <- HttpRequest <- HttpResponse <- RequestRouter <-+- Exchange
    HttpText <- Connection <-----------------------------------+
    DatabasePool, RequestRouter <- UserService
    TimerSpec <= TimerHeap <- IdleTimeout          (<= : implemented by)
    ThreadPool, Logger <- Lifecycle

### HttpServer

One step is one critical section or one system call, so that TLC explores every
interleaving the mutexes allow. `pc[t]` says where thread `t` is; `fdOf[t]` and
`connOf[t]` are its `fd` and its `shared_ptr<Connection>`, `seg[t]` and
`count[t]` what it has read, is answering or has written. `Main` is the thread
in `eventLoop()`:

    wait -> events -> accept -> insert -> add -> accept ...
                   -> dispatchRead / dispatchWrite -> events
                   -> find -> mark -> del -> close          closeConnection()
            events -> reap -> find ...                      closeIdleConnections()
    wait -> join -> closeAll -> stopped                     stop()

and a worker runs

    idle -> handleRead -> read <-> append
                          read -> touchProcess -> process -> extract
            extract -> idle, or respond -> finishOut -> modOut -> idle
    idle -> handleWrite -> check -> writev -> consume -> check
            check -> clear -> touchProcess, or touchRearm -> finishIn -> modIn
    any error or end of file -> find -> mark -> del -> close -> idle

What is *not* a step of its own, and why that loses nothing:

* `beginProcessing()` and `enqueue()` are one step (`Dispatch`): only the event
  loop tests `processing_` and only it pushes, and a worker that takes the task
  in between could not exist before the push.
* `setProcessing(false)` and `epoller_.mod()` in `processConnectionTask()` when
  there is no request to extract are one step (`Extract`): the code does both
  under the connection's mutex.
* The condition variable of the pool is not there: `Take` needs a task only.
  `ThreadPool` shows that a queued task always finds a worker.

Clients: `Connect`, `Send` one segment, `Shut` the sending side, `Reset`. A
request is `SegsPerRequest` segments; a segment carries its client and number,
so that a misplaced byte is seen. A response is `RespLen` units that `writev()`
may split anywhere; a unit carries the request it answers. `Conns` are the
sockets accepted over the whole run, each used once, `Fds` the descriptor
numbers, reused. The kernel is modelled from its documented behaviour as the
code uses it: `EPOLLONESHOT` disarms what it reports, `epoll_ctl(MOD)` re-arms
and reports again whatever is still ready, `close()` drops the registration,
and the listening socket is edge-triggered. `HUP` stands for `EPOLLHUP` and
`EPOLLERR` after a reset; the code does not ask for `EPOLLRDHUP`.

`IdleExpiry` is the clock. `"any"` lets any deadline pass at any step: every
interleaving of the idle timer with the workers. `"quiet"` lets only deadlines
pass of descriptors no worker or task is using: a timeout (30 s by default)
longer than any task. `"never"` is a run shorter than the timeout.

Two approximations are deliberate. The iovec of `writev()` holds the response
that was current when it was built; a second worker on the same descriptor
could replace the buffer under it, which is a data race in C++; the only
property about those units that passes (`ResponsesInOrder`) is checked under
clocks that never admit a second worker, where it cannot happen. And the
final `close()` of `listenFd_` is not represented here: `Lifecycle` has it.

### The others

* `TimerHeap`: `heap` is the set of nodes, `latest` the map; `popExpired(now)`
  is `PopExpired`, one `PopTop` per turn of its loop, and `Return`. `TimerSpec`
  has one deadline per descriptor; the whole loop maps to its single step
  `Expire`, at the call (`ToPop` counts what the loop has still to pop as
  already answered).
* `IdleTimeout` is the same heap under the calls the server makes, with a clock:
  `Touch` sets a deadline `Timeout` seconds ahead at accept and at the end of a
  read or a write, `Blocked` is the return on `EAGAIN` that sets none,
  `closeIdleConnections()` is `CloseIdle`, the turns of `popExpired`, `Popped`
  and one `CloseNext` per descriptor, after the mutex has been given up. A
  worker whose connection was closed under it stays in `late` until it has
  touched the timer of its old number (`LateTouch`) or failed before and maybe
  closed what has that number now (`LateEnd`). `touched` and `active` are
  history: when the timer was last set, when a byte last moved.
* `ThreadPool`, `DatabasePool` and `Logger` split every method at the unlock:
  the notification is a step of its own, and the wait sets are explicit, with
  `Spurious` wakeups. `init()` connects as many handles as one of `PoolSizes`
  says. `acquire()` returns its `Lease` by value: `MovedFrom` is what the move
  leaves in the source, which the source's destructor gives back if there is
  something. In `Logger`, `dropped` collects the batches whose
  `ofstream` did not open: nobody looks, and their lines are gone.
* `Lifecycle`: `main` is the place of `main()`'s thread, from `start()` over the
  loop to `stop()`, whose parts follow `Order`: join the workers, shut the
  logger down, close the descriptors, then `~ThreadPool` and `~Logger`, which
  stop both again. `Main` is the pool's only caller and owner; it and the
  workers are the logger's callers. `sockets` only tells the listening socket
  from connections.
* `HttpText`: a token is a request line, a header line, the empty line or a
  piece of a body. Upper case is a name of its own, percent-encoding a count of
  layers, so that decoding twice or not at all is seen. Of a line of the head
  the token also says whether it `holds` the text `content-length:`, in any case
  and anywhere in it, and the number `n` after it: that is what
  `parseContentLength()` looks for, and not the name of a header.
  `HttpRequest!Parse` is the line-by-line state machine as a recursive function
  of the number of lines read. `HttpResponse` has a web root with regular files,
  an empty file and a directory; `Dotted` are the texts that contain `..`, names
  of files among them.
* `Connection`: `read()` and `writev()` move any number of tokens or units, and
  a body may contain any token. `SizeMod` is `2^w` for the width `w` of
  `size_t`, so that `headersLen + contentLength` wraps as it does in C++.
  `Exchange` feeds what it cuts to the parser, the router or the file lookup,
  and hands the answer's sizes back to its buffers; `replies` records what each
  head says. The answer of the user service and the success of `open()`/`mmap()`
  are chosen freely.
* `UserService`: a call is `Ask` (from the router), the pool's `Acquire` or
  `Sleep`, `Execute` or `Fail` at the server, perhaps `Lose` of the connection
  before or after, and `Return` with the status the router makes of it.
  `answers` is the sequence of what clients were told; `since` is how much of it
  was known when the call began.

## 3. Runs

| Run | Instance | Shows |
|---|---|---|
| `server_safety` | 2 clients, 1 descriptor, 2 workers, 1 segment each, clock `"any"` | `FdOwnership`, `TimerCoverage`, `NoForeignBytes`, `NoStuck`, `CleanStop` |
| `server_streams` | the same with 2 segments and 2-unit responses, clock `"quiet"` | `TypeOK`, `ResponsesInOrder` |
| `server_answers` | 1 client, 4 segments, requests of 2, responses of 2 units, fair, clients that pause | `Answered`, `Stopped` |
| `server_reclaim` | 2 clients, 2 descriptors, 1 worker, silent clients, `MaxEvents = 1`, clock `"any"`, fair timers | `IdleReclaimed`, `Accepted` |
| `server_one_worker` | as `server_safety` | violation of `OneWorkerPerFd` |
| `server_fd_limit` | 2 clients, 1 descriptor, fair, fair timers | violation of `Accepted` |
| `idle_timeout` | 2 descriptors, timeout 2, clock to 3, 3 nodes | `IdleTypeOK`, `NoDoubleExpiry`, `ExactlyIdle`, refinement of `TimerSpec` (`ImplementsTimers`) |
| `idle_active` | the same | violation of `ActiveKept` |
| `exchange` | every sequence of up to 2 of 15 requests | `TypeOK`, `ExtractedExact`, `AllExtracted`, `WireExact`, `RepliesRight`, `ServiceAsked`, `Delimited`, `CloseAnnounced`, `PreparedAsBuilt` |
| `connection_names` | requests with `content-length:` in the request line, a value or a longer name | violation of `AllExtracted` |
| `users` | 3 workers (two registrations of one name, one login), 1 or 2 handles, 2 faults, fair | `ServiceTypeOK`, `LeaseExclusive`, `EnoughNotified`, `NoHandleLeak`, `AnswersTrue`, `SeesEarlier`, `CallReturns` |
| `lifecycle` | 2 workers, 3 tasks, 2 lines, fair | `LifecycleTypeOK`, `ExactlyOnce`, `NoLostWakeup`, `WrittenInOrder`, `AllOut`, `CleanExit`, `EventuallyRun`, `Flushed`, `Ends` |

What the less obvious properties say:

* `ExactlyIdle`: `popExpired()` answers an open connection if and only if its
  timer was last set `Timeout` seconds ago or more, with any number of stale
  nodes, also of earlier connections with the same number and with versions
  that started again at 1.
* `RepliesRight`, `CloseAnnounced`: the answer to request `k` is a function of
  request `k` as its client wrote it, computed from the request itself and not
  from the parser's state: 400 exactly if it is malformed or a POST to the user
  service without both values, 403 exactly for a path with `..`, the file it
  names under 200 and no other file under any status. The connection ends after
  the first answer that does not promise to keep it, and after no other.
* `ServiceAsked`: the user service is asked for every request that is due to
  reach it (`Due`) and for no other, with the first value of each key, decoded
  once; a client is told 201 or 409, 200 or 401 as the service has answered, and
  nobody else is told one of these.
* `Delimited`: a client that trusts `Content-Length` finds the head of each
  response where the one before it ends.
* `PreparedAsBuilt`: `prepare()`, which maps files, and `build()`, which copies
  them and which the unit tests check, give the same answer.
* `AnswersTrue`, `SeesEarlier`: what clients are told fits one order of
  statements on one table, and whoever asks after a `201` sees that
  registration.
* `AllOut`: nobody logs once `shutdown()` has begun, so no line that was ever
  logged is missing at the end of the process but those whose file did not open.
* `CleanExit`: the listening socket and the connections are closed when no task
  is left that could use them, and the process ends with nothing open and
  nothing running, wherever `start()` failed.

### Why the bounds are enough

*Server, safety.* What goes wrong needs one descriptor, an old connection and
the next one on the same number, and two threads that act for the old one while
the event loop accepts: two clients, one descriptor, two workers. One
descriptor makes every `accept()` a reuse. With one-segment requests a worker
goes through every path of both handlers. At most one of the two
clients ends its connection (`OneLeaves`); the server may close either at any
moment, by its clock, so two threads still come to close one number. The
theorems need no such bound. `server_streams` adds what one
segment cannot show: a second request behind the first and a response that
takes several `writev()` calls and an `EPOLLOUT`. Its quiet clock leaves out the
idle close of a descriptor in use, where a response can reach another client
(section 5).

*Server, liveness.* `server_answers` has two requests in four segments, so a
request arrives in pieces and a second one may already be buffered.
`handleRead()` reads until `EAGAIN` and looks neither at `running_` nor at a
budget, so a client that never stops sending keeps a worker, and `stop()`, for
ever. `Answered` and `Stopped` say so: they are implications whose hypothesis
`ClientsPause` is that from some moment on no more segments are sent. Every run of the
model satisfies it through `MaxSegs`; of the code it has to be assumed.
`server_reclaim` looks at connections only, so no data is needed; the worker's
stale tasks come from a half-closed client, and `epoll_wait` has room for a
single event with three sources of them. A descriptor may be reused, and there
is one for each client, which `Accepted` needs.

*Timers.* A stale node needs a refresh, and a stale node of an *earlier*
connection a close and an accept with the version at 1 again: three nodes are
live, stale and older than stale. With a timeout of 2 and a clock to 3 a
deadline passes, one is renewed before it passes, and one set at the same
moment belongs to another descriptor.

*Requests.* Two requests on a connection are enough for one to disturb the
next. Each request has a twist: paths encoded zero, one and two times, bodies
that look like headers or like a request, two values of one key, two
`Connection` headers, HTTP/1.0, a malformed line, an unknown method, an empty
file, a directory, `..`.

*Users.* Two registrations of one name and a login with the password of one of
them, so that the login may come before, between and after. With one handle,
one worker holds it, another sleeps, and when it is given back the third, which
has not slept, can take it before the sleeper that was notified: the overtaking
that `EnoughNotified` and `CallReturns` are about. With two handles one is in
use while the other is lost or overtaken. Two faults, so that both handles may
be lost, or one lost and a statement refused.

*Pool, log and process.* A lost wakeup needs a notifier, a sleeper and a thread
that takes the task without sleeping: two workers and `Main`. Three tasks keep
one in the queue while both workers are busy, and two lines make an order.

Bounds on the state: `MaxSegs`, `MaxNodes`, `MaxClock`, `Tasks`, `MaxRequests`,
`MaxHead`, `MaxFile`, `MaxUses`, `MaxFaults`, `MaxLines`; each is a constant
named as a bound in its module. Two have a part in why a property holds:
`MaxSegs` in `Answered` and `Stopped`, and `MaxUses` in `CallReturns`. What they
stand for is a hypothesis of the property itself, `ClientsPause` and
`CallsPause`. The safety properties are theorems, for which the bounds may have
any value. Symmetry is used only where no liveness property is checked.

## 4. Fairness

* **Threads.** Weak fairness of each worker's and of the event loop's steps:
  the operating system schedules runnable threads, `epoll_wait` has a timeout
  of one second, and no step waits for anything but a task or a join. SQL
  statements and file writes are assumed to return.
* **`Reported(f)`**, strong: a descriptor that is ready again and again is
  eventually among the events `epoll_wait` returns. The kernel moves what it
  has reported to the end of its ready list.
* **`ClientsRead`**, strong: a client that keeps its connection open reads what
  it is sent, so `writev()` does not answer `EAGAIN` for ever.
* **`TimersFire`**, strong: a deadline in the past is popped.
* `FairSpec` is threads, every `Reported(f)` and `ClientsRead`; `IdleSpec` is
  threads, `TimersFire` and the report of the listening socket alone. So
  `IdleReclaimed` depends on no event of a connection. It is about clients that
  send nothing: `TimersFire` takes a deadline of a connection to pass, and one
  that is refreshed again and again rightly does not.
* **Clients and signals** get no fairness: nobody has to send, close or stop.
* **Users.** Weak fairness per thread, and the server answers every statement
  or drops its connection (`Execute`, `Return`); nothing of spurious wakeups.
  `CallReturns` is an implication from `CallsPause`, that from some moment on no
  call begins: a condition variable is not first-in first-out, and threads that
  never stop coming could overtake a sleeper for ever. What is left is the
  question whether a sleeper that was overtaken is forgotten.
* **Lifecycle.** Weak fairness of `Main`, of the logger's thread and of each
  worker, and of the end of an iteration of the loop (`epoll_wait()` reports
  finitely many events). Nobody has to send a signal.

## 5. What disagrees with the documentation

Four runs show behaviours of the code that the README of the repository, read
literally, excludes. `PROJECT.json` quotes the lines.

1. `server_one_worker`: the idle timer closes a descriptor whose task is still
   queued or running; `accept()` reuses the number and a second worker is
   dispatched on it. While no timer fires on a busy descriptor, every client
   still gets its responses in order (`server_streams`). Otherwise
   `ResponsesInOrder` fails in the same executions: a `writev()` in progress can
   put a response on the next client's socket. `NoForeignBytes`, which is proved, says that the other direction
   cannot happen: what was read never enters another connection's buffers,
   since `closed_` is tested under the mutex.
2. `server_fd_limit`: when `accept()` fails for want of a descriptor, the
   backlog waits until another client connects, since the listening socket is
   edge-triggered. The same property holds with enough descriptors
   (`server_reclaim`).
3. `connection_names`: `content-length:` is searched for anywhere in the head:
   in a longer header name, in a header's value, in the request line. A complete
   request that has it there and no number of its own waits for a body.
4. `idle_active`: a write that makes progress and then finds the socket full
   returns without setting the timer, so a slow client of a long response is cut
   off `Timeout` seconds after its request.

`Connection` also has the sum `headersLen + contentLength` in the width of
`size_t`: a declared length close to `2^w` wraps, and `ExtractedExact` fails for
a request that declares one. No line of the documentation is about such
lengths, so there is no run for it; those of the `exchange` run are small.

Three more facts are in the models and no document speaks of them: a client
whose MySQL statement failed is told that the name exists or that its password
is wrong (`AnswersTrue` excepts it); a MySQL connection that was lost goes back
to the pool and every later call that gets it fails; and a connection that is
read between `popExpired()` and `closeConnection()` is closed although its timer
has just been set.

## 6. What is proved

Every safety property of the passing runs is a theorem, for every value of the
constants that the named assumptions admit.

| Theorem | Statement |
|---|---|
| `HttpServerProofs!TypeCorrect` | `Spec => []TypeOK` |
| `HttpServerProofs!OneOwner` | `Spec => []FdOwnership` |
| `HttpServerProofs!AlwaysTimed` | `Spec => []TimerCoverage` |
| `HttpServerProofs!BytesStayHome` | `Spec => []NoForeignBytes` |
| `HttpServerProofs!StopsClean` | `Spec => []CleanStop` |
| `HttpServerProofs!NeverStuck` | `Spec => []NoStuck` |
| `ServerStreamsProofs!RightBytes` | if `IdleExpiry # "any"`: `Spec => []ResponsesInOrder` |
| `ServerStreamsProofs!OneAtATime` | if `IdleExpiry # "any"`: `Spec => []OneWorkerPerFd` |
| `TimerHeapProofs!NeverLost` | `Spec => []LiveNode` |
| `TimerHeapProofs!ExpiresOnce` | `Spec => []NoDoubleExpiry` |
| `TimerHeapProofs!Implementation` | `Spec => ImplementsTimers` |
| `IdleTimeoutProofs!IdleTypeCorrect` | `IdleSpec => []IdleTypeOK` |
| `IdleTimeoutProofs!ServerUsesHeap` | `IdleSpec => Spec` |
| `IdleTimeoutProofs!ClosedOnce` | `IdleSpec => []NoDoubleExpiry` |
| `IdleTimeoutProofs!ServerImplementsTimers` | `IdleSpec => ImplementsTimers` |
| `IdleTimeoutProofs!ExpiresWhatIsIdle` | `IdleSpec => ExactlyIdle` |
| `ThreadPoolProofs!WakeupsSuffice` | `Spec => []NoLostWakeup` |
| `ThreadPoolProofs!JoinFindsNoSleeper` | `Spec => []NoSleeperAtJoin` |
| `ThreadPoolProofs!StopDrains` | `Spec => []DrainedAtStop` |
| `ThreadPoolProofs!EveryTaskOnce` | `Spec => []ExactlyOnce` |
| `LifecycleProofs!LifecycleTypeCorrect` | `LifecycleSpec => []LifecycleTypeOK` |
| `LifecycleProofs!ServedOnce` | `LifecycleSpec => []ExactlyOnce` |
| `LifecycleProofs!ServedSoon` | `LifecycleSpec => []NoLostWakeup` |
| `LifecycleProofs!LinesInOrder` | `LifecycleSpec => []WrittenInOrder` |
| `LifecycleProofs!LogComplete` | `LifecycleSpec => []AllOut` |
| `LifecycleProofs!ExitIsClean` | `LifecycleSpec => []CleanExit` |
| `UserServiceProofs!ServiceTypeCorrect` | `ServiceSpec => []ServiceTypeOK` |
| `UserServiceProofs!OneLease` | `ServiceSpec => []LeaseExclusive` |
| `UserServiceProofs!NotifiedEnough` | `ServiceSpec => []EnoughNotified` |
| `UserServiceProofs!NothingLeaks` | `ServiceSpec => []NoHandleLeak` |
| `UserServiceProofs!AnswersAreTrue` | `ServiceSpec => []AnswersTrue` |
| `UserServiceProofs!RegistrationsCount` | `ServiceSpec => []SeesEarlier` |
| `ExchangeProofs!ExchangeTypeCorrect` | `ExchangeSpec => []TypeOK` |
| `ExchangeProofs!WireWhole` | `ExchangeSpec => []WireExact` |
| `ExchangeProofs!DelimitedByLength` | `ExchangeSpec => []Delimited` |
| `ExchangeProofs!RequestsExact` | if `Framed`: `ExchangeSpec => []ExtractedExact` |
| `ExchangeProofs!NoneLeftBehind` | if `Framed`: `ExchangeSpec => []AllExtracted` |
| `ExchangeProofs!RepliesAreRight` | if `Framed`: `ExchangeSpec => []RepliesRight` |
| `ExchangeProofs!ServiceIsAsked` | if `Framed`: `ExchangeSpec => []ServiceAsked` |
| `ExchangeProofs!ClosesAnnounced` | if `Framed`: `ExchangeSpec => []CloseAnnounced` |
| `ExchangeProofs!PreparedLikeBuilt` | if `Framed`: `ExchangeSpec => []PreparedAsBuilt` |

### What the theorems assume

`ServerAssumption`, `TimerAssumption`, `IdleAssumption`, `PoolAssumption`,
`LifecycleAssumption`, `DatabaseAssumption` and `ConnectionAssumption` give the
constants their types and keep special values apart. Three hypotheses say more:

* `IdleExpiry # "any"` in `ServerStreamsProofs`: no idle deadline passes of a
  descriptor with a worker or a task on it. It is needed: the run
  `server_one_worker` shows the second worker when one does. The code has 30
  seconds for it and no more.
* `ServiceAssumption`: every call comes from a request that the router passes on
  to the service.
* `ExchangeAssumption`: the web root has no file named like a page that the
  server writes itself or like one of the paths `/`, `/register` and `/login`
  (the body of a reply is a name, and the properties tell pages from files by
  it), and `/index.html` is HTML, which `build()` says of it without looking.
  None of these texts has `..` in it; the name of a file may.
* `Framed`: every request that may come declares the length of its body, has the
  text `content-length:` in no line of its head but headers of that name, and is
  shorter than `2^w`. Without it the framing itself fails: the run
  `connection_names` has look-alikes in a header's name, in a value and in the
  request line, and a length near `2^w` wraps. Malformed requests are included: a junk request
  line, a junk header, an unknown method are all `WellFramed`. `WireWhole`,
  `DelimitedByLength` and `ExchangeTypeCorrect` do without.

### The arguments

**Server.** The inductive invariant has three layers, each proved with those
below it.

1. `Typing`: `TypeOK` and `Locals`, which says what each program counter implies
   (a thread past `getConnection` has a descriptor and a connection).
2. `Owning`: `FdOwnership` and `Sockets`. `FdOwnership` is not inductive alone:
   `accept()` must be known to hand out a socket that is behind no other
   descriptor and whose `Connection` nobody has marked closed, and a thread in
   the second half of `closeConnection()` must have marked its own. `Sockets`
   says this.
3. The rest: `HoldOwn` (a worker's `Connection` is the one behind its
   descriptor, *or it is closed*, and then nothing is appended to it) carries
   `NoForeignBytes`; `Reaping` (popped descriptors are pending only while the
   event loop reaps them) carries `TimerCoverage`; `Registered`, `Quiesced` and
   `Unmapped` carry `CleanStop`.

Each step lemma (`TypingStep`, `OwningStep`, `BytesStep`, `TimersStep`,
`StopStep`) has one case per action; frame lemmas (`OwningFrame`, `HoldFrame`)
deal with the actions that touch none of the variables concerned. The theorems
hold for all three clocks: none of them is about timing.

`MovingInv` is a fourth layer, for `NoStuck`. `Moves(f)` says of a descriptor in
the map: if `processing_` is set, a task is queued or a worker is at a place
from which it will clear it; if its event is disarmed, there is a task, or the
event loop holds its event, or a worker will re-arm it; if it is not registered,
the event loop is about to do so. It is inductive under *any* clock, with
`Current` (the connection the event loop works on is the one in the map under
its number, or there is none) and `Unbegun` (nobody has touched the flags of a
connection that is not in the map yet).

**Streams.** With `IdleExpiry # "any"`, `QuietInv` says of each descriptor that
it is in one pair of hands (`Alone`) and that whoever works on it holds the
connection of the map (`Kept`); `OneWorkerPerFd` follows. On top of it
`StreamInv` keeps an account of every connection in the map: for some `b` and
`d`, `b` segments were extracted as whole requests and the responses before the
current one have `d` units. The segment in the worker's hands, the read buffer,
the write buffer and its offset, and the number of units the client has got must
each continue at `b` or `d`; how exactly depends on where the worker is
(`Reading`, `Writing`, `Appending`, `Consuming`).

**Timers.** `LiveNode` needs `Erased` (a descriptor popped by the running call
has no entry until it ends), and `NoDoubleExpiry` follows with it. For the
refinement, `PopExpired(n)` maps to `Expire(n)`, `AddOrUpdate` to `Set`,
`Remove` to `Cancel`, and each turn of the loop and `Return` to a stutter: the
live node moves from the set still to pop to the answer, a stale one changes
neither.

**Timers in the server.** `ServerUsesHeap` shows that every step of
`IdleTimeout` is one of the heap or leaves it alone, so that the heap's theorems
hold there without a second proof. `ExactlyIdle` needs `DeadlineKept` (an entry
is the last touch plus the timeout), `AnsweredInTime` and `Watched` (an open
connection has an entry, or is in the answer of the running call, or waits to be
closed after it).

**Pool.** `Phases` ties `stopping` and the workers' states to the owner's, and
`LeftEmpty` says that a worker only leaves an empty, stopping pool, after which
nothing can be enqueued. With them `NoLostWakeup`, `NoSleeperAtJoin` and
`DrainedAtStop` are inductive. `ExactlyOnce` counts copies with `Cardinality`;
`OnePlace` says the same with quantifiers, which is what is inductive, and
`OnePlaceCounts` goes from the one to the other.

**Process.** `LifecycleInv` takes the pool's invariant over, but for the one
state that `ThreadPool` alone does not reach: `stop()` of a pool that was never
started (`PoolSound`). `PoolStages`, `LogStages` and `SocketStages` tie the place
of `main` to what runs and what is open; `LogSound` says that file, batch and
queue are an ascending sequence of lines and that a line which is in none of
them was dropped. `AllOut` follows because nothing that could log is left when
the logger's queue is last looked at.

**Users.** `PoolInv` has `OnePlace` (an open handle is free or lent to one
thread, and in one place only) and `EnoughNotified`, which is an inequality of
cardinalities: free handles, awake threads and sleepers. In `ServiceInv`,
`Ledger` says which rows of the table have an owner: a client that was told, or
one call that has inserted and not returned; `AnswersAgree` and `SeesSoFar` say
that what was answered is true of the table, and remains so because no row ever
goes away.

**Requests and responses.** `ExchangeInv` has four parts. `Typed`; `WireInv`:
what was sent, followed by the iovecs that wait, is `All`, the concatenation of
the answers so far; `Suffix`: what is still to be read is an end of what the
client sends; `RepliesInv`: reply `k` answers the `k`-th text cut from the
buffer, and announces a close if it is the last and the connection will close.
With `Framed`, `CutInv` adds that the texts cut so far are the first requests,
and that these followed by the buffer and the unread rest are the client's
stream; that `extractOneRequest()` preserves it comes down (`CutSize`) to
where the first empty line and the first declared length of the buffer lie. The
buffer is an initial part of the rest of the stream, so they lie in the first
request or the request is not yet complete.

`Parse` is a recursive function, and `Done(r, n, p)` says what it has made of the
first `n` lines of request `r`. `ParsedWhole` gives, by induction on `n`, what
becomes of the whole request; the four properties of replies follow from it by
cases on the router's and the file lookup's branches, which `Handled` and
`Prepared` describe. `PostedIs` says that the router asks the service for just
the requests that are `Due`, with the values that the client gave. For `Delimited`, that `StartOf` exists as a function on
all natural numbers is itself proved first, from its finite parts
(`Starts`, `AllStarts`).

*Induction.* The library's induction theorems are about predicates, which the
installed provers cannot instantiate. `Induction` in `ExchangeProofs` is about
sets instead: a set with 0 and with `n + 1` for each `n` in it has all natural
numbers. It comes from `Least`, and this from `NatLessThanWellFounded`. The
recursive functions over sequences (`FlattenSeq`, `Parse`, `StartOf`) are handled
with it.

### Only model-checked

* Liveness: `Answered`, `Stopped`, `IdleReclaimed`, `Accepted`, `CallReturns`,
  `EventuallyRun`, `Flushed`, `Ends`. Fairness is about `ENABLED`, which is
  beyond the prover.
* The violations of section 5: a counterexample is TLC's to find.
* No module here declares a `RECURSIVE` operator.

## 7. Not modelled

* The text of log lines, responses, headers and dates; all but two MIME types;
  `statusCodeFromResponse()`, which only the unit tests call; `headers_` and
  `getHeader()`, which the server does not use; `Connection::touch()`, whose
  time nobody reads.
* `build()` on a directory: an `ifstream` opens it, and the size it then reports
  depends on the platform. The server does not call `build()`.
* The text of an SQL statement and `escape()`: a name is an atom.
* The move assignment of `Lease`: nothing calls it.
* Reading the environment in `server.cpp`.
* A `SIGINT` during `start()` is lost, since line 46 of `http_server.cpp` sets
  `running_` again: `Signal` has no effect before `Arm`, and `Ends` speaks of
  later signals. A signal after `~HttpServer()` writes to an object that is
  gone, which is undefined behaviour outside the model.
* A file that changes while it is mapped: the kernel would end the process.
* `src/mysql_compat.h`, tests, scripts, pages: external or not program logic.

## 8. Plan

All components with logic of their own are modelled, and each of their safety
properties that holds is a theorem. What could be added:

1. `Connection` against a stream specification: the sequence of requests in, the
   sequence of responses out, with `UpTo` and `All` of `ExchangeProofs` as the
   refinement mapping.
2. The same for the pool: a bag of accepted tasks that empties, of which
   `ThreadPool` would be the implementation.
3. Joining `HttpServer` to `Exchange`: there a request is `SegsPerRequest`
   segments, here tokens. What each says of a connection's buffers is proved;
   that the two agree is by reading only.
