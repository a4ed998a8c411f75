---------------------------- MODULE IdleTimeout ----------------------------
(***************************************************************************)
(* The idle timeout of http_server.cpp over the timer heap: accept, the    *)
(* end of a read and the end of a write give a connection Timeout more     *)
(* seconds, eventLoop() closes what popExpired() answers after it has      *)
(* given connectionsMutex_ up.  A worker that serves a connection while    *)
(* Main closes it still refreshes the timer of the descriptor.             *)
(***************************************************************************)
EXTENDS TimerHeap

CONSTANTS
  Timeout,    \* config_.idleTimeoutSeconds
  MaxClock    \* bound: the clock stops there

ASSUME IdleAssumption ==
  /\ Timeout \in Nat \ {0} /\ MaxClock \in Nat
  /\ Times = 0..(MaxClock + Timeout)

VARIABLES
  clock,
  serving,    \* of each descriptor in connections_: what is under way, or "closed"
  late,       \* descriptors whose closed connection a worker has not left
  todo,       \* what is left of closeIdleConnections()'s vector
  touched,    \* when the timer of a descriptor was last set
  active      \* when a byte was last read or written, or it was accepted

timers == vars
history == <<touched, active>>
idleVars == <<timers, clock, serving, late, todo, history>>

\* Between tasks a connection waits for EPOLLIN, or for EPOLLOUT.
Busy == {"reading", "writing"}

IdleTypeOK ==
  /\ TypeOK
  /\ clock \in 0..MaxClock
  /\ serving \in [Fds -> {"closed", "in", "out"} \cup Busy]
  /\ late \subseteq Fds
  /\ todo \in Seq(Fds)
  /\ touched \in [Fds -> 0..MaxClock]
  /\ active \in [Fds -> 0..MaxClock]
  /\ now # None => now <= clock /\ todo = <<>>

IdleInit ==
  /\ Init
  /\ clock = 0
  /\ serving = [f \in Fds |-> "closed"]
  /\ late = {} /\ todo = <<>>
  /\ touched = [f \in Fds |-> 0] /\ active = [f \in Fds |-> 0]

Become(f, state) == serving' = [serving EXCEPT ![f] = state]

\* Main is in epoll_wait() or at its events.
AtEvents == now = None /\ todo = <<>>

Tick ==
  /\ clock < MaxClock /\ clock' = clock + 1
  /\ UNCHANGED <<timers, serving, late, todo, history>>

\* timers_.addOrUpdate(fd, now() + idleTimeoutSeconds)
Touch(f) ==
  /\ AddOrUpdate(f, clock + Timeout)
  /\ touched' = [touched EXCEPT ![f] = clock]

Accept(f) ==
  /\ AtEvents /\ serving[f] = "closed" /\ Become(f, "in")
  /\ Touch(f)
  /\ active' = [active EXCEPT ![f] = clock]
  /\ UNCHANGED <<clock, late, todo>>

-----------------------------------------------------------------------------
(* The task of a connection: a read, or a write *)

Transfer(f) == active' = [active EXCEPT ![f] = clock]

BeginRead(f) ==
  /\ AtEvents /\ serving[f] = "in" /\ Become(f, "reading")
  /\ UNCHANGED <<timers, clock, late, todo, history>>

BeginWrite(f) ==
  /\ AtEvents /\ serving[f] = "out" /\ Become(f, "writing")
  /\ UNCHANGED <<timers, clock, late, todo, history>>

\* read() or writev() moves some bytes.
Progress(f) ==
  /\ serving[f] \in Busy /\ Transfer(f)
  /\ UNCHANGED <<timers, clock, serving, late, todo, touched>>

\* handleRead() has read until EAGAIN, handleWrite() has written everything:
\* the timer first, then what follows from the buffers.
Finish(f) ==
  /\ serving[f] \in Busy
  /\ Touch(f)
  /\ Become(f, "in") \/ Become(f, "out")
  /\ UNCHANGED <<clock, late, todo, active>>

\* writev() has found the socket full: handleWrite() returns at once.
Blocked(f) ==
  /\ serving[f] = "writing" /\ Become(f, "out")
  /\ UNCHANGED <<timers, clock, late, todo, history>>

\* closeConnection() by the worker: end of file, an error, or the response
\* was the last one.
Leave(f) ==
  /\ serving[f] \in Busy /\ Become(f, "closed")
  /\ Remove(f)
  /\ UNCHANGED <<clock, late, todo, history>>

\* closeConnection(f): nothing happens unless connections_ has f.  Who still
\* serves it comes to the others that are late.
CloseConnection(f, others) ==
  IF serving[f] = "closed" THEN late' = others /\ UNCHANGED <<timers, serving>>
  ELSE /\ Remove(f) /\ Become(f, "closed")
       /\ late' = IF serving[f] \in Busy THEN others \cup {f} ELSE others

\* The task of a connection that Main has closed goes as far as its own
\* addOrUpdate(), or fails before and may close what has that number now.
LateTouch(f) ==
  /\ f \in late /\ late' = late \ {f}
  /\ Touch(f)
  /\ UNCHANGED <<clock, serving, todo, active>>

LateEnd(f) ==
  /\ f \in late
  /\ \/ late' = late \ {f} /\ UNCHANGED <<timers, serving>>
     \/ CloseConnection(f, late \ {f})
  /\ UNCHANGED <<clock, todo, history>>

-----------------------------------------------------------------------------
(* Main *)

\* EPOLLHUP and EPOLLERR
HangUp(f) ==
  /\ AtEvents /\ CloseConnection(f, late)
  /\ UNCHANGED <<clock, todo, history>>

CloseIdle ==
  /\ AtEvents /\ PopExpired(clock)
  /\ UNCHANGED <<clock, serving, late, todo, history>>

Popping ==
  /\ PopTop
  /\ UNCHANGED <<clock, serving, late, todo, history>>

Popped ==
  /\ Return /\ todo' = expired
  /\ UNCHANGED <<clock, serving, late, history>>

CloseNext ==
  /\ todo # <<>> /\ todo' = Tail(todo)
  /\ CloseConnection(Head(todo), late)
  /\ UNCHANGED <<clock, history>>

IdleNext ==
  \/ Tick \/ CloseIdle \/ Popping \/ Popped \/ CloseNext
  \/ \E f \in Fds :
       \/ Accept(f) \/ HangUp(f)
       \/ BeginRead(f) \/ BeginWrite(f) \/ Progress(f) \/ Finish(f)
       \/ Blocked(f) \/ Leave(f) \/ LateTouch(f) \/ LateEnd(f)

IdleSpec == IdleInit /\ [][IdleNext]_idleVars
-----------------------------------------------------------------------------
\* popExpired() answers an open connection exactly if its timer was last set
\* Timeout seconds ago or more, and no descriptor that was refreshed later,
\* were it for an earlier connection with that number.
ExactlyIdle ==
  [][now # None /\ now' = None =>
       \A f \in Fds :
         LET passed == touched[f] + Timeout <= now IN
         /\ f \in Range(todo') => passed
         /\ serving[f] # "closed" /\ passed => f \in Range(todo')]_idleVars

\* README.md: reading and writing renew a connection's time.  One that no
\* worker serves has Timeout seconds from its last byte.
ActiveKept ==
  \A f \in Fds : serving[f] \in {"in", "out"} /\ Has(f) =>
    latest[f].at >= active[f] + Timeout
=============================================================================
