----------------------------- MODULE TierKernels -----------------------------
(***************************************************************************)
(* What the high and the medium priority kernel add to BaseKernel: tasks   *)
(* that are added, removed, preempted, boosted and reordered by name, the  *)
(* batches of the medium kernel, and their own worker_thread, which in the *)
(* .cpp of the high kernel checks a timeout and the resources first.       *)
(*                                                                         *)
(* Sleeping and waking are those of the module BaseKernel: here a worker   *)
(* waits by not being able to move.  Both kernels are one module; kind     *)
(* says which of them a behaviour is about.                                *)
(***************************************************************************)
EXTENDS Integers, Sequences, SequencesExt, FiniteSets

CONSTANTS
  Tasks, Workers,
  Word,       \* the number of values of size_t
  BatchSize

VARIABLES
  kind,       \* "high" or "medium"
  queue,      \* tasks_
  state,      \* of each task: where it is and how it ended
  worker,     \* "out", "loop", "left", "returned", or the task it runs
  running, paused, shutting,   \* is_running_, is_paused_, is_shutting_down_
  count,      \* task_count_
  active,     \* active_threads_
  batch,      \* what a call of process_batch still has to run, with mutex_ held
  added,      \* the tasks that came as plain functions (addTask)
  stopping    \* a call of stop() waits

vars == <<kind, queue, state, worker, running, paused, shutting, count, active, batch, added, stopping>>
flags == <<kind, running, paused, shutting, stopping>>
free == batch = <<>>     \* mutex_ is free

Busy == {w \in Workers : worker[w] \in Tasks}
Queued == {queue[i] : i \in 1..Len(queue)}

\* The queue after find_if and erase.
Without(t) == RemoveAt(queue, CHOOSE i \in 1..Len(queue) : queue[i] = t)

TypeOK ==
  /\ kind \in {"high", "medium"} /\ queue \in Seq(Tasks) /\ batch \in Seq(Tasks)
  /\ state \in [Tasks -> {"new", "queued", "running", "done", "failed", "removed", "lost"}]
  /\ worker \in [Workers -> {"out", "loop", "left", "returned"} \cup Tasks]
  /\ running \in BOOLEAN /\ paused \in BOOLEAN /\ shutting \in BOOLEAN /\ stopping \in BOOLEAN
  /\ count \in 0..(Word - 1) /\ active \in 0..Cardinality(Workers) 
  /\ added \subseteq Tasks

Init ==
  /\ kind \in {"high", "medium"}
  /\ queue = <<>> /\ state = [t \in Tasks |-> "new"]
  /\ worker = [w \in Workers |-> "out"]
  /\ running = FALSE /\ paused = FALSE /\ shutting = FALSE /\ stopping = FALSE
  /\ count = 0 /\ active = 0 /\ batch = <<>> /\ added = {}

-----------------------------------------------------------------------------
(* The calls of clients.                                                   *)

Start ==
  /\ free /\ ~running /\ ~stopping
  /\ running' = TRUE /\ paused' = FALSE /\ shutting' = FALSE
  /\ UNCHANGED <<kind, queue, state, worker, count, active, batch, added, stopping>>

PauseOrResume ==
  /\ free /\ paused' = ~paused
  /\ UNCHANGED <<kind, queue, state, worker, running, shutting, count, active, batch, added, stopping>>

\* stop() of BaseKernel waits until active_threads_ is zero and joins, with the
\* mutex locked: a worker that announces itself after the wait is never joined,
\* and such a call does not return (the module BaseKernel has it as a property).
Stop ==
  /\ free /\ running
  /\ running' = FALSE /\ shutting' = TRUE /\ stopping' = TRUE
  /\ UNCHANGED <<kind, queue, state, worker, paused, count, active, batch, added>>

StopReturn ==
  /\ free /\ stopping /\ active = 0
  /\ \A w \in Workers : worker[w] \in {"left", "returned"}
  /\ stopping' = FALSE
  /\ UNCHANGED <<kind, queue, state, worker, running, paused, shutting, count, active, batch, added>>

Submit(t) ==
  /\ free /\ running /\ state[t] = "new"
  /\ queue' = Append(queue, t) /\ state' = [state EXCEPT ![t] = "queued"]
  /\ count' = (count + 1) % Word
  /\ UNCHANGED <<flags, worker, active, batch, added>>

\* addTask of the high kernel asks for no running kernel and counts nothing.
AddTask(t) ==
  /\ free /\ kind = "high" /\ state[t] = "new"
  /\ queue' = Append(queue, t) /\ state' = [state EXCEPT ![t] = "queued"]
  /\ added' = added \cup {t}
  /\ UNCHANGED <<flags, worker, count, active, batch>>

\* preempt_task and removeTask.
RemoveTask(t) ==
  /\ free /\ kind = "high" /\ t \in Queued
  /\ queue' = Without(t) /\ state' = [state EXCEPT ![t] = "removed"]
  /\ UNCHANGED <<flags, worker, count, active, batch, added>>

\* boost_priority moves a task to the front, setTaskPriority and
\* prioritize_task to the place of its new priority.
Reorder(t) ==
  /\ free /\ t \in Queued
  /\ \E i \in 1..Len(queue) : queue' = InsertAt(Without(t), i, t)
  /\ UNCHANGED <<flags, state, worker, count, active, batch, added>>

\* process_batch takes up to BatchSize tasks and runs them with mutex_ held.
TakeBatch ==
  /\ free /\ kind = "medium" /\ queue # <<>>
  /\ LET n == IF Len(queue) < BatchSize THEN Len(queue) ELSE BatchSize
     IN  /\ batch' = SubSeq(queue, 1, n) /\ queue' = SubSeq(queue, n + 1, Len(queue))
         /\ state' = [t \in Tasks |-> IF \E i \in 1..n : queue[i] = t THEN "running" ELSE state[t]]
  /\ UNCHANGED <<flags, worker, count, active, added>>

\* The tasks of a medium kernel come from submit: packaged, they do not throw.
RunBatch ==
  /\ batch # <<>>
  /\ state' = [state EXCEPT ![Head(batch)] = "done"]
  /\ batch' = Tail(batch)
  /\ UNCHANGED <<flags, queue, worker, count, active, added>>

-----------------------------------------------------------------------------
(* worker_thread.                                                          *)

\* Mutant: a worker does not count itself.
ArriveUncounted(w) ==
  /\ worker[w] = "out"
  /\ worker' = [worker EXCEPT ![w] = "loop"]
  /\ UNCHANGED <<flags, queue, state, count, active, batch, added>>

Arrive(w) ==
  /\ worker[w] = "out"
  /\ worker' = [worker EXCEPT ![w] = "loop"] /\ active' = active + 1
  /\ UNCHANGED <<flags, queue, state, count, batch, added>>

Take(w) ==
  /\ worker[w] = "loop" /\ free /\ ~paused /\ queue # <<>>
  /\ worker' = [worker EXCEPT ![w] = Head(queue)] /\ queue' = Tail(queue)
  /\ state' = [state EXCEPT ![Head(queue)] = "running"]
  /\ UNCHANGED <<flags, count, active, batch, added>>

Finish(w) ==
  /\ w \in Busy
  /\ \E outcome \in {"done"} \cup (IF worker[w] \in added THEN {"failed"} ELSE {}) :
       state' = [state EXCEPT ![worker[w]] = outcome]
  /\ worker' = [worker EXCEPT ![w] = "loop"]
  /\ count' = (count + Word - 1) % Word
  /\ UNCHANGED <<flags, queue, active, batch, added>>

\* Mutant: a worker that gives up its task is no longer active.
LeftEarly == active - 1

ReturnedEarly == active

\* The high kernel returns from the thread when a task is late or resources
\* are short: the task is dropped, and neither counter is told.
GiveUp(w) ==
  /\ kind = "high" /\ w \in Busy
  /\ state' = [state EXCEPT ![worker[w]] = "lost"]
  /\ worker' = [worker EXCEPT ![w] = "returned"]
  /\ active' = ReturnedEarly
  /\ UNCHANGED <<flags, queue, count, batch, added>>

Leave(w) ==
  /\ worker[w] = "loop" /\ free /\ ~running /\ queue = <<>>
  /\ worker' = [worker EXCEPT ![w] = "left"] /\ active' = active - 1
  /\ UNCHANGED <<flags, queue, state, count, batch, added>>

Next ==
  \/ Start \/ PauseOrResume \/ Stop \/ StopReturn \/ TakeBatch \/ RunBatch
  \/ \E t \in Tasks : Submit(t) \/ AddTask(t) \/ RemoveTask(t) \/ Reorder(t)
  \/ \E w \in Workers : Arrive(w) \/ Take(w) \/ Finish(w) \/ GiveUp(w) \/ Leave(w)

Spec == Init /\ [][Next]_vars

-----------------------------------------------------------------------------
Stuck == (\E w \in Workers : worker[w] = "returned") => ~(stopping /\ ~stopping')

\* A worker that gave up its task keeps stop() from ever returning: the call
\* waits for active_threads_, where that worker stays counted.
GivenUpBlocksStop == [][Stuck]_vars
=============================================================================
