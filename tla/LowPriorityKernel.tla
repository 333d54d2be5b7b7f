-------------------------- MODULE LowPriorityKernel --------------------------
(***************************************************************************)
(* The background queue of kernels::low::LowPriorityKernel (the header): a *)
(* second queue beside that of BaseKernel, a worker for it, a monitor that *)
(* throttles, and public calls that process, expire and reorder its tasks. *)
(* update_background_stats locks background_mutex_, also where the caller  *)
(* holds it; throttle_resources locks resource_mutex_ under itself.        *)
(*                                                                         *)
(* The worker waits on condition_ of the base class, which resume, submit  *)
(* and stop of the base class notify; submit_background and the stop of    *)
(* the background workers notify background_condition_, on which nobody    *)
(* waits.  A wakeup is therefore a step the worker may or may not make.    *)
(* task_count_ is the matter of TierKernels.                               *)
(***************************************************************************)
EXTENDS LockedCalls

CONSTANTS
  Tasks,
  Emptied,            \* what std::move leaves behind in the vector
  Clients, Worker, Monitor,
  MaxBackground,      \* max_background_tasks
  BatchSize,
  MaxCalls            \* bound: public calls in a behaviour

VARIABLES
  queue,     \* background_tasks_
  active,    \* background_running_
  paused,    \* is_paused_ of the base class
  enabled,   \* enable_background_processing
  submitted, \* the tasks handed over
  ran,       \* how often each task was run
  stats,     \* completed and failed background tasks
  calls

background == <<queue, active, paused, enabled, submitted, ran, stats, calls>>
vars == <<callVars, background>>

TypeOK ==
  /\ CallsTypeOK
  /\ queue \in Seq(Tasks \cup {Emptied}) /\ Len(queue) <= MaxBackground
  /\ active \in BOOLEAN /\ paused \in BOOLEAN /\ enabled \in BOOLEAN
  /\ submitted \subseteq Tasks /\ ran \in [Tasks -> Nat]
  /\ stats.completed \in Nat /\ stats.failed \in Nat /\ calls \in 0..MaxCalls

-----------------------------------------------------------------------------
(* The methods, as what a thread does.                                     *)

SubmitBackground(t) == Locked("background", Do("push", t))
SetResourceLimits == Locked("resource", <<>>)
CheckIdleTasks == Locked("background", Just("expire"))
ChangeTaskPriority(t) == Locked("background", Do("reorder", t))
UpdateBackgroundStats(outcome) == Locked("background", Do("stat", outcome))
RecoverFailedTasks == Locked("background", Just("recover"))

ProcessBackgroundTasks == Locked("background", Just("enter"))
RunInBatch(x) == Try(Do("run", x) \o UpdateBackgroundStats("completed"), UpdateBackgroundStats("failed"))

\* background_worker_thread and resource_monitor_thread.
WaitAndTake == Locked("background", Just("wait") \o Just("take"))
RunInWorker(x) ==
  Try(Do("run", x) \o UpdateBackgroundStats("completed"),
      UpdateBackgroundStats("failed") \o RecoverFailedTasks) \o Just("loop")

Throttle == Locked("resource", Locked("resource", Just("measure"))) \o Just("watch")
ApplyResourceLimits(memory) ==
  (IF memory THEN Locked("background", Just("suspend")) ELSE <<>>) \o Locked("background", Just("halve"))

StopBackgroundWorkers == Just("stop") \o Do("join", Worker) \o Do("join", Monitor)

-----------------------------------------------------------------------------
Init ==
  /\ CallsInit
  /\ todo = [t \in Threads |-> <<>>]
  /\ queue = <<>> /\ active = FALSE /\ paused = FALSE /\ enabled = TRUE
  /\ submitted = {} /\ ran = [t \in Tasks |-> 0]
  /\ stats = [completed |-> 0, failed |-> 0] /\ calls = 0

\* start() and stop() come from one owner, when nothing else of them runs.
Owner == CHOOSE t \in Clients : TRUE

\* Tasks differ in nothing but their names: they are handed over in one order.
NextTask == CHOOSE x \in Tasks \ submitted : TRUE

Invoke(t) ==
  /\ t \in Clients /\ calls < MaxCalls
  /\ calls' = calls + 1
  /\ \/ /\ submitted # Tasks /\ Call(t, SubmitBackground(NextTask))
        /\ submitted' = submitted \cup {NextTask}
     \/ /\ \/ \E x \in submitted : Call(t, ChangeTaskPriority(x))
           \/ Call(t, ProcessBackgroundTasks) \/ Call(t, CheckIdleTasks) \/ Call(t, SetResourceLimits)
           \/ t = Owner /\ active /\ Call(t, StopBackgroundWorkers)
        /\ UNCHANGED submitted
  /\ UNCHANGED <<queue, active, paused, enabled, ran, stats>>

Start ==
  /\ Idle(Owner) /\ Idle(Worker) /\ Idle(Monitor) /\ ~active /\ calls < MaxCalls
  /\ active' = TRUE /\ paused' = FALSE /\ calls' = calls + 1
  /\ todo' = [todo EXCEPT ![Worker] = Just("loop"), ![Monitor] = Just("watch")]
  /\ UNCHANGED <<platform, holder, depth, dead, queue, enabled, submitted, ran, stats>>

PauseOrResume ==
  /\ ~dead /\ calls < MaxCalls
  /\ paused' = ~paused /\ calls' = calls + 1
  /\ UNCHANGED <<callVars, queue, active, enabled, submitted, ran, stats>>

-----------------------------------------------------------------------------
(* The steps of the calls.                                                 *)

Push(t) ==
  /\ At(t, "push")
  /\ IF Len(queue) >= MaxBackground THEN Throw(t) /\ UNCHANGED queue
     ELSE queue' = Append(queue, Now(t).arg) /\ Done(t)
  /\ UNCHANGED <<active, paused, enabled, submitted, ran, stats, calls>>

\* Tasks past their deadline by a minute leave; deadlines grow along the queue
\* unless somebody reordered it.
Expire(t) ==
  /\ At(t, "expire")
  /\ \E old \in SUBSET (1..Len(queue)) :
       queue' = [n \in 1..(Len(queue) - Cardinality(old)) |->
                   queue[CHOOSE i \in (1..Len(queue)) \ old :
                           Cardinality({j \in (1..i) : j \notin old}) = n]]
  /\ Done(t)
  /\ UNCHANGED <<active, paused, enabled, submitted, ran, stats, calls>>

\* The names of all tasks up to the wanted one are read; an emptied entry has none.
Reorder(t) ==
  /\ At(t, "reorder")
  /\ LET x == Now(t).arg
         rest == SelectSeq(queue, LAMBDA u : u # x)
     IN  IF \E i \in DOMAIN queue : queue[i] = Emptied
         THEN EndProcess /\ UNCHANGED queue
         ELSE /\ IF x \in Range(queue)
                 THEN \E i \in 1..(Len(rest) + 1) : queue' = InsertAt(rest, i, x)
                 ELSE UNCHANGED queue
              /\ Done(t)
  /\ UNCHANGED <<active, paused, enabled, submitted, ran, stats, calls>>

\* process_background_tasks keeps the mutex until the kernel stops; while the
\* queue is empty it sleeps and looks again.
Enter(t) ==
  /\ At(t, "enter")
  /\ Proceed(t, IF enabled THEN Just("batch") ELSE <<>>)
  /\ UNCHANGED background

Batch(t) ==
  /\ At(t, "batch")
  /\ LET n == IF Len(queue) < BatchSize THEN Len(queue) ELSE BatchSize
     IN  \/ ~active /\ Done(t) /\ UNCHANGED queue
         \/ /\ active /\ queue # <<>>
            /\ queue' = SubSeq(queue, 1, Len(queue) - n)
            /\ Proceed(t, FlattenSeq([i \in 1..n |-> RunInBatch(queue[Len(queue) + 1 - i])])
                            \o Just("batch"))
  /\ UNCHANGED <<active, paused, enabled, submitted, ran, stats, calls>>

\* Running a task; the function of an emptied entry is not there: a call of it
\* throws or ends the process.
Run(t) ==
  /\ At(t, "run")
  /\ \/ /\ Now(t).arg \in Tasks
        /\ ran' = [ran EXCEPT ![Now(t).arg] = @ + 1] /\ Done(t)
     \/ /\ Now(t).arg = Emptied /\ UNCHANGED ran
        /\ Throw(t) \/ EndProcess
  /\ UNCHANGED <<queue, active, paused, enabled, submitted, stats, calls>>

Stat(t) ==
  /\ At(t, "stat")
  /\ stats' = IF Now(t).arg \in DOMAIN stats THEN [stats EXCEPT ![Now(t).arg] = @ + 1] ELSE stats
  /\ Done(t)
  /\ UNCHANGED <<queue, active, paused, enabled, submitted, ran, calls>>

-----------------------------------------------------------------------------
(* The worker.                                                             *)

Loop(t) ==
  /\ At(t, "loop") \/ At(t, "asleep")
  /\ Proceed(t, IF At(t, "loop") THEN WaitAndTake ELSE <<>>)
  /\ UNCHANGED background

Wait(t) ==
  /\ At(t, "wait")
  /\ IF ~active \/ (~paused /\ queue # <<>>)
     THEN Done(t)
     ELSE /\ todo' = [todo EXCEPT ![t] = Just("asleep") \o WaitAndTake]
          /\ holder' = [holder EXCEPT !["background"] = Free]
          /\ depth' = [depth EXCEPT !["background"] = 0]
          /\ UNCHANGED <<platform, dead>>
  /\ UNCHANGED background

\* Mutant: the front task is copied, not moved.
FrontCopied == Front(queue)

\* The front task is moved out and the last entry is removed.
FrontMoved == IF Len(queue) = 1 THEN <<>> ELSE [Front(queue) EXCEPT ![1] = Emptied]

Take(t) ==
  /\ At(t, "take")
  /\ LET unlock == SubSeq(todo[t], 2, 2)
         next == IF ~active /\ queue = <<>> THEN <<>>
                 ELSE IF paused THEN Just("loop") ELSE RunInWorker(Head(queue))
     IN  /\ todo' = [todo EXCEPT ![t] = unlock \o next]
         /\ queue' = IF paused \/ queue = <<>> THEN queue ELSE FrontMoved
  /\ UNCHANGED <<platform, holder, depth, dead, active, paused, enabled, submitted, ran, stats, calls>>

\* recover_failed_tasks asks every entry; a task that has not run has not failed.
Recover(t) ==
  /\ At(t, "recover")
  /\ IF Emptied \in Range(queue) THEN EndProcess ELSE Done(t)
  /\ UNCHANGED background

-----------------------------------------------------------------------------
(* The monitor and stop().                                                 *)

Watch(t) ==
  /\ At(t, "watch")
  /\ Proceed(t, IF active THEN Throttle ELSE <<>>)
  /\ UNCHANGED background

\* The CPU time or the memory of the process is above its limit, or neither.
Measure(t) ==
  /\ At(t, "measure")
  /\ \/ Done(t)
     \/ \E memory \in BOOLEAN : Proceed(t, ApplyResourceLimits(memory))
  /\ UNCHANGED background

Suspend(t) ==
  /\ At(t, "suspend") /\ enabled' = FALSE /\ Done(t)
  /\ UNCHANGED <<queue, active, paused, submitted, ran, stats, calls>>

\* The queue is cut to half its length from the back.
Halve(t) ==
  /\ At(t, "halve") \/ At(t, "cut")
  /\ LET target == IF At(t, "halve") THEN Len(queue) \div 2 ELSE Now(t).arg
     IN  IF Len(queue) > target
         THEN /\ queue' = Front(queue)
              /\ Proceed(t, UpdateBackgroundStats("cancelled") \o Do("cut", target))
         ELSE UNCHANGED queue /\ Done(t)
  /\ UNCHANGED <<active, paused, enabled, submitted, ran, stats, calls>>

Stop(t) ==
  /\ At(t, "stop") \/ (At(t, "join") /\ Idle(Now(t).arg))
  /\ active' = FALSE /\ Done(t)
  /\ UNCHANGED <<queue, paused, enabled, submitted, ran, stats, calls>>

Next ==
  \/ Start \/ PauseOrResume
  \/ \E t \in Threads :
       \/ Invoke(t) \/ (LockStep(t) /\ UNCHANGED background)
       \/ Push(t) \/ Expire(t) \/ Reorder(t) \/ Enter(t) \/ Batch(t) \/ Run(t) \/ Stat(t) \/ Loop(t) \/ Wait(t)
       \/ Take(t) \/ Recover(t) \/ Watch(t) \/ Measure(t) \/ Suspend(t) \/ Halve(t) \/ Stop(t)

Spec == Init /\ [][Next]_vars

-----------------------------------------------------------------------------
\* A background task is run at most once, although the worker takes the front
\* entry and removes the last one: what it leaves at the front is empty.
BackgroundRunsOnce == \A t \in Tasks : ran[t] <= 1
=============================================================================
