------------------------------ MODULE TimerSpec ------------------------------
(***************************************************************************)
(* What timer_heap.h promises its callers: one deadline per descriptor,    *)
(* and popExpired(now) that takes exactly the deadlines that have passed.  *)
(***************************************************************************)
EXTENDS Naturals

CONSTANTS Fds, Times, None

VARIABLES
  deadline,   \* the deadline of each descriptor, or None
  due         \* the descriptors the last popExpired() answered

Init ==
  /\ deadline = [f \in Fds |-> None]
  /\ due = {}

Set(f, t) ==
  /\ deadline' = [deadline EXCEPT ![f] = t]
  /\ UNCHANGED due

Cancel(f) ==
  /\ deadline' = [deadline EXCEPT ![f] = None]
  /\ UNCHANGED due

Passed(now) == {f \in Fds : deadline[f] # None /\ deadline[f] <= now}

Expire(now) ==
  /\ due' = Passed(now)
  /\ deadline' = [f \in Fds |-> IF f \in Passed(now) THEN None ELSE deadline[f]]

Next ==
  \/ \E f \in Fds, t \in Times : Set(f, t)
  \/ \E f \in Fds : Cancel(f)
  \/ \E now \in Times : Expire(now)

Spec == Init /\ [][Next]_<<deadline, due>>
=============================================================================
