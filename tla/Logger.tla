------------------------------- MODULE Logger -------------------------------
(***************************************************************************)
(* logger.cpp: callers push lines to queue_ and go on, one background      *)
(* thread swaps the whole queue out and writes it to the file outside the  *)
(* lock.  A line is the number of its push, so the order of the queue is   *)
(* the order in which the callers got mutex_.                              *)
(***************************************************************************)
EXTENDS Naturals, Sequences

CONSTANTS
  Callers,    \* threads that call access() and info()
  MaxLines    \* bound: lines logged

VARIABLES
  running,    \* running_
  queue,      \* queue_
  batch,      \* the queue workerLoop() has swapped out
  file,       \* the lines in the file
  dropped,    \* lines of the batches for which the file did not open
  worker,     \* worker_
  calling,    \* each caller: "idle", or "notify" after its push
  owner,      \* the thread that calls init() and shutdown()
  logged      \* lines pushed

disk == <<file, dropped>>
vars == <<running, queue, batch, disk, worker, calling, owner, logged>>

TypeOK ==
  /\ running \in BOOLEAN
  /\ queue \in Seq(1..MaxLines)
  /\ batch \in Seq(1..MaxLines)
  /\ file \in Seq(1..MaxLines)
  /\ dropped \subseteq 1..MaxLines
  /\ worker \in {"none", "lock", "waiting", "open", "write", "gone"}
  /\ calling \in [Callers -> {"idle", "notify"}]
  /\ owner \in {"init", "running", "notify", "join", "done"}
  /\ logged \in 0..MaxLines
  /\ worker \in {"open", "write"} <=> batch # <<>>

Init ==
  /\ running = FALSE
  /\ queue = <<>> /\ batch = <<>> /\ file = <<>> /\ dropped = {}
  /\ worker = "none"
  /\ calling = [c \in Callers |-> "idle"]
  /\ owner = "init"
  /\ logged = 0

-----------------------------------------------------------------------------
(* init() and shutdown() *)

Start ==
  /\ owner = "init"
  /\ running' = TRUE
  /\ worker' = "lock"
  /\ owner' = "running"
  /\ UNCHANGED <<queue, batch, disk, calling, logged>>

Shutdown ==
  /\ owner = "running"
  /\ running' = FALSE
  /\ owner' = "notify"
  /\ UNCHANGED <<queue, batch, disk, worker, calling, logged>>

\* What a notification does to the worker.
\* Mutant: it is missing.
MutantWoken == worker
Woken == IF worker = "waiting" THEN "lock" ELSE worker

NotifyAll ==
  /\ owner = "notify"
  /\ worker' = Woken
  /\ owner' = "join"
  /\ UNCHANGED <<running, queue, batch, disk, calling, logged>>

Join ==
  /\ owner = "join" /\ worker = "gone"
  /\ owner' = "done"
  /\ UNCHANGED <<running, queue, batch, disk, worker, calling, logged>>

-----------------------------------------------------------------------------
(* access() and info() *)

\* The push, before init() and after shutdown() too.
Enqueue(c) ==
  /\ calling[c] = "idle" /\ logged < MaxLines
  /\ logged' = logged + 1
  /\ queue' = Append(queue, logged + 1)
  /\ calling' = [calling EXCEPT ![c] = "notify"]
  /\ UNCHANGED <<running, batch, disk, worker, owner>>

NotifyOne(c) ==
  /\ calling[c] = "notify"
  /\ worker' = Woken
  /\ calling' = [calling EXCEPT ![c] = "idle"]
  /\ UNCHANGED <<running, queue, batch, disk, owner, logged>>

-----------------------------------------------------------------------------
(* workerLoop() *)

Sleep ==
  /\ worker = "lock" /\ running /\ queue = <<>>
  /\ worker' = "waiting"
  /\ UNCHANGED <<running, queue, batch, disk, calling, owner, logged>>

Spurious ==
  /\ worker = "waiting"
  /\ worker' = "lock"
  /\ UNCHANGED <<running, queue, batch, disk, calling, owner, logged>>

MayLeave == ~running /\ queue = <<>>

Leave ==
  /\ worker = "lock" /\ MayLeave
  /\ worker' = "gone"
  /\ UNCHANGED <<running, queue, batch, disk, calling, owner, logged>>

\* batch.swap(queue_)
\* Mutant: the queue is copied.
MutantSwapped == queue
Swapped == <<>>

Ready == queue # <<>>

Swap ==
  /\ worker = "lock" /\ Ready
  /\ batch' = queue
  /\ queue' = Swapped
  /\ worker' = "open"
  /\ UNCHANGED <<running, disk, calling, owner, logged>>

\* ofstream(filepath_, app): when it fails, nobody looks, and the lines of
\* the batch go nowhere.
Open ==
  /\ worker = "open"
  /\ \/ worker' = "write" /\ UNCHANGED <<batch, dropped>>
     \/ /\ worker' = "lock"
        /\ batch' = <<>>
        /\ dropped' = dropped \cup {batch[i] : i \in 1..Len(batch)}
  /\ UNCHANGED <<running, queue, file, calling, owner, logged>>

\* The stream's buffer reaches the file in parts, all of it when it closes.
Write(n) ==
  /\ worker = "write" /\ n \in 1..Len(batch)
  /\ file' = file \o SubSeq(batch, 1, n)
  /\ batch' = SubSeq(batch, n + 1, Len(batch))
  /\ worker' = IF n = Len(batch) THEN "lock" ELSE "write"
  /\ UNCHANGED <<running, queue, dropped, calling, owner, logged>>

WorkerStep == Sleep \/ Leave \/ Swap \/ Open \/ \E n \in 1..Len(batch) : Write(n)

Next ==
  \/ Start \/ Shutdown \/ NotifyAll \/ Join
  \/ \E c \in Callers : Enqueue(c) \/ NotifyOne(c)
  \/ WorkerStep \/ Spurious
  \/ owner = "done" /\ logged = MaxLines /\ UNCHANGED vars

Spec == Init /\ [][Next]_vars
-----------------------------------------------------------------------------
\* The file is written in the order of the calls, no line is written twice
\* and none overtakes another, whether or not the file can be opened.
WrittenInOrder ==
  LET all == file \o batch \o queue IN
  \A i, j \in 1..Len(all) : i < j => all[i] < all[j]

\* The line is in the file, or the file did not open when its turn came.
Out(n) == n \in dropped \/ \E i \in 1..Len(file) : file[i] = n

\* While the logger runs, every line reaches the file without a further call.
Flushed == \A n \in 1..MaxLines : (logged >= n /\ running) ~> Out(n)
=============================================================================
