----------------------------- MODULE BaseKernel -----------------------------
(***************************************************************************)
(* cloud::core::kernels::BaseKernel (kernels/base_kernel.hpp), the base of *)
(* the high, medium and low priority kernels: worker threads created by    *)
(* the constructor, before start(); one queue, one mutex, the condition    *)
(* the workers wait on and the one stop() waits on.  One thread starts and *)
(* stops the kernel; any thread submits, pauses and resumes.               *)
(*                                                                         *)
(* The workers read the flags and the queue under mutex_, but announce     *)
(* their arrival and departure (active_threads_, the notification of       *)
(* stop()) without it.  The counters of update_metrics are left out.       *)
(* stop() hands its lock_guard to shutdown_condition_.wait, which only a   *)
(* unique_lock fits: the wait is modelled as that of a unique_lock.        *)
(***************************************************************************)
EXTENDS Integers, Sequences, FiniteSets

CONSTANTS
  Tasks,    \* the tasks submitted, each at most once
  Workers,  \* the threads the constructor creates (config.num_threads of them)
  NoTask    \* what a worker without a task holds

ASSUME WorkersAssumption == IsFiniteSet(Workers)
ASSUME TasksAssumption == NoTask \notin Tasks

VARIABLES
  running, paused, shutting,  \* is_running_, is_paused_, is_shutting_down_
  queue,      \* tasks_
  taskCount,  \* task_count_
  active,     \* active_threads_
  worker,     \* where each worker thread is
  job,        \* the task a worker has popped
  owner,      \* where the owner is inside stop()
  mutex,      \* who holds mutex_ across steps, or "free"
  notices,    \* the submits that have not called notify_one yet, one per task at most
  done,       \* history: the tasks that have run
  late,       \* history: the tasks accepted when no worker was left
  missed      \* history: why stop() may hang, see below

flagVars == <<running, paused, shutting>>
taskVars == <<queue, taskCount, job, done, late>>
vars == <<flagVars, taskVars, active, worker, owner, mutex, notices, missed>>

WorkerPC == {"new", "loop", "waiting", "run", "leaving", "left", "exited"}
OwnerPC  == {"idle", "check", "blocking", "asleep", "join"}

Alive   == {w \in Workers : worker[w] \in {"new", "loop", "waiting", "run"}}
Busy    == {w \in Workers : worker[w] = "run"}
Waiting == {w \in Workers : worker[w] = "waiting"}

TypeOK ==
  /\ running \in BOOLEAN /\ paused \in BOOLEAN /\ shutting \in BOOLEAN
  /\ queue \in Seq(Tasks) /\ taskCount \in Int /\ active \in 0..Cardinality(Workers)
  /\ worker \in [Workers -> WorkerPC] /\ job \in [Workers -> Tasks \cup {NoTask}]
  /\ owner \in OwnerPC /\ mutex \in {"free", "owner"}
  /\ notices \in Nat
  /\ done \subseteq Tasks /\ late \subseteq Tasks
  /\ missed \subseteq {"departure", "arrival"}

Init ==
  /\ running = FALSE /\ paused = FALSE /\ shutting = FALSE
  /\ queue = <<>> /\ taskCount = 0 /\ active = 0
  /\ worker = [w \in Workers |-> "new"] /\ job = [w \in Workers |-> NoTask]
  /\ owner = "idle" /\ mutex = "free" /\ notices = 0
  /\ done = {} /\ late = {} /\ missed = {}

WakeAll == [w \in Workers |-> IF worker[w] = "waiting" THEN "loop" ELSE worker[w]]

-----------------------------------------------------------------------------
(* submit, pause and resume.                                               *)

Accepted == done \cup {queue[n] : n \in 1..Len(queue)} \cup {job[w] : w \in Workers}

Submit(t) ==
  /\ mutex = "free" /\ running /\ t \notin Accepted
  /\ queue' = Append(queue, t)
  /\ taskCount' = taskCount + 1
  /\ late' = IF Alive = {} THEN late \cup {t} ELSE late
  /\ notices' = notices + 1
  /\ UNCHANGED <<flagVars, job, done, active, worker, owner, mutex, missed>>

\* Mutant: notify_one is forgotten.
NobodyNotified == {worker}

\* notify_one: one waiter wakes up, if there is one.
OneNotified ==
  IF Waiting = {} THEN {worker} ELSE {[worker EXCEPT ![w] = "loop"] : w \in Waiting}

\* The notification of submit, after it has unlocked the mutex.
Notify ==
  /\ notices > 0
  /\ notices' = notices - 1
  /\ worker' \in OneNotified
  /\ UNCHANGED <<flagVars, taskVars, active, owner, mutex, missed>>

Pause ==
  /\ mutex = "free"
  /\ paused' = TRUE
  /\ UNCHANGED <<running, shutting, taskVars, active, worker, owner, mutex, notices, missed>>

\* Mutant: resume() forgets to notify.
NoneWoken == worker

Woken == WakeAll

Resume ==
  /\ mutex = "free"
  /\ paused' = FALSE
  /\ worker' = Woken
  /\ UNCHANGED <<running, shutting, taskVars, active, owner, mutex, notices, missed>>

-----------------------------------------------------------------------------
(* worker_thread.                                                          *)

Announced == active + 1

\* active_threads_.fetch_add(1), before the worker ever takes the mutex.
Arrive(w) ==
  /\ worker[w] = "new"
  /\ worker' = [worker EXCEPT ![w] = "loop"]
  /\ active' = Announced
  /\ UNCHANGED <<flagVars, taskVars, owner, mutex, notices, missed>>

Wait(w) ==
  /\ worker[w] = "loop" /\ mutex = "free"
  /\ running /\ (paused \/ queue = <<>>)
  /\ worker' = [worker EXCEPT ![w] = "waiting"]
  /\ UNCHANGED <<flagVars, taskVars, active, owner, mutex, notices, missed>>

SpuriousWakeup(w) ==
  /\ worker[w] = "waiting"
  /\ worker' = [worker EXCEPT ![w] = "loop"]
  /\ UNCHANGED <<flagVars, taskVars, active, owner, mutex, notices, missed>>

\* Mutant: a stopped worker leaves queued tasks behind.
MayLeaveAtOnce == ~running

MayLeave == ~running /\ queue = <<>>

Leave(w) ==
  /\ worker[w] = "loop" /\ mutex = "free"
  /\ MayLeave
  /\ worker' = [worker EXCEPT ![w] = "leaving"]
  /\ UNCHANGED <<flagVars, taskVars, active, owner, mutex, notices, missed>>

\* A paused worker of a stopped kernel with tasks left takes none of the steps
\* here: it spins through the loop.
Take(w) ==
  /\ worker[w] = "loop" /\ mutex = "free"
  /\ queue # <<>> /\ ~paused
  /\ job' = [job EXCEPT ![w] = Head(queue)]
  /\ queue' = Tail(queue)
  /\ worker' = [worker EXCEPT ![w] = "run"]
  /\ UNCHANGED <<flagVars, taskCount, done, late, active, owner, mutex, notices, missed>>

\* Mutant: the counter is not decremented.
StillCounted == taskCount

Uncounted == taskCount - 1

Finish(w) ==
  /\ worker[w] = "run"
  /\ done' = done \cup {job[w]}
  /\ job' = [job EXCEPT ![w] = NoTask]
  /\ taskCount' = Uncounted
  /\ worker' = [worker EXCEPT ![w] = "loop"]
  /\ UNCHANGED <<flagVars, queue, late, active, owner, mutex, notices, missed>>

Depart(w) ==
  /\ worker[w] = "leaving"
  /\ active' = active - 1
  /\ worker' = [worker EXCEPT ![w] = "left"]
  /\ UNCHANGED <<flagVars, taskVars, owner, mutex, notices, missed>>

\* Mutant: the departing worker notifies nobody.
OwnerUndisturbed == owner

\* shutdown_condition_.notify_one().
OwnerNotified == IF shutting /\ owner = "asleep" THEN "check" ELSE owner

\* The notification is lost on an owner that has read active_threads_ and does
\* not sleep yet: mutex_ is not taken here.
Announce(w) ==
  /\ worker[w] = "left"
  /\ worker' = [worker EXCEPT ![w] = "exited"]
  /\ owner' = OwnerNotified
  /\ missed' = IF shutting /\ owner = "blocking" THEN missed \cup {"departure"} ELSE missed
  /\ UNCHANGED <<flagVars, taskVars, active, mutex, notices>>

-----------------------------------------------------------------------------
(* start and stop.                                                         *)

Start ==
  /\ owner = "idle" /\ mutex = "free" /\ ~running
  /\ running' = TRUE /\ paused' = FALSE /\ shutting' = FALSE
  /\ worker' = WakeAll
  /\ UNCHANGED <<taskVars, active, owner, mutex, notices, missed>>

Stop ==
  /\ owner = "idle" /\ mutex = "free" /\ running
  /\ running' = FALSE /\ shutting' = TRUE
  /\ worker' = WakeAll
  /\ owner' = "check" /\ mutex' = "owner"
  /\ UNCHANGED <<paused, taskVars, active, notices, missed>>

\* The predicate of shutdown_condition_.wait, with mutex_ held.  active_threads_
\* may be zero although a worker is still to arrive.
Check ==
  /\ owner = "check" /\ mutex \in {"free", "owner"}
  /\ mutex' = "owner"
  /\ owner' = IF active = 0 THEN "join" ELSE "blocking"
  /\ missed' = IF active = 0 /\ Alive # {} THEN missed \cup {"arrival"} ELSE missed
  /\ UNCHANGED <<flagVars, taskVars, active, worker, notices>>

Block ==
  /\ owner = "blocking"
  /\ owner' = "asleep" /\ mutex' = "free"
  /\ UNCHANGED <<flagVars, taskVars, active, worker, notices, missed>>

SpuriousOwner ==
  /\ owner = "asleep"
  /\ owner' = "check"
  /\ UNCHANGED <<flagVars, taskVars, active, worker, mutex, notices, missed>>

\* The joins, with mutex_ held; the vector of threads is not cleared.
Join ==
  /\ owner = "join" /\ \A w \in Workers : worker[w] = "exited"
  /\ owner' = "idle" /\ mutex' = "free"
  /\ UNCHANGED <<flagVars, taskVars, active, worker, notices, missed>>

-----------------------------------------------------------------------------
WorkerStep(w) == \/ Arrive(w) \/ Wait(w) \/ Leave(w) \/ Take(w) \/ Finish(w)
                 \/ Depart(w) \/ Announce(w)

Next == \/ \E t \in Tasks : Submit(t)
        \/ Notify \/ Pause \/ Resume
        \/ \E w \in Workers : WorkerStep(w) \/ SpuriousWakeup(w)
        \/ Start \/ Stop \/ Check \/ Block \/ SpuriousOwner \/ Join

Spec == Init /\ [][Next]_vars

\* Threads run and tasks return; a mutex that is released again and again is
\* acquired in the end, hence the strong fairness of the workers.  Nobody has to
\* call an operation, and nobody is woken for no reason.
FairSpec ==
  /\ Spec
  /\ \A w \in Workers : SF_vars(WorkerStep(w))
  /\ WF_vars(Notify)
  /\ WF_vars(Check \/ Block \/ Join)

-----------------------------------------------------------------------------
(* Properties.                                                             *)

\* No wakeup of a worker is lost: with work to do and a worker alive, some worker
\* is awake or a submit is about to notify, whatever the order of submits,
\* pauses, resumes, starts and stops.
NoLostWakeup ==
  (running /\ ~paused /\ queue # <<>> /\ Alive # {}) => (Alive \ Waiting # {} \/ notices > 0)

\* task_count_ is exactly the tasks queued and being run, so it never wraps around
\* below zero although it is changed outside the lock.
TaskCountExact == taskCount = Len(queue) + Cardinality(Busy)

\* When stop() has returned, no accepted task is left in the queue, except those
\* accepted when every worker had left, as after a start() that came too late or
\* a second start().
StopDrains ==
  (~running /\ shutting /\ owner = "idle") => \A n \in 1..Len(queue) : queue[n] \in late

\* stop() returns, if the kernel is not paused, unless a departing worker's
\* notification fell between its check and its sleep, or it began to join
\* before a worker had arrived: the two races of the unlocked announcements are
\* the only ways to hang.
StopReturns == [](~paused) => (owner = "check" ~> (owner = "idle" \/ missed # {}))

\* A task accepted while a worker is alive is run, even if stop() comes first.
Served ==
  [](~paused) => \A t \in Tasks :
    ((\E n \in 1..Len(queue) : queue[n] = t) /\ t \notin late) ~> (t \in done \/ missed # {})
=============================================================================
