----------------------------- MODULE ThreadPool -----------------------------
(***************************************************************************)
(* cloud::ThreadPool (core/thread_pool.cpp): worker threads that share one *)
(* FIFO queue, one mutex and one condition variable; clients that submit;  *)
(* and an owner thread that pauses, resumes, resizes, stops and restarts   *)
(* the pool.                                                               *)
(*                                                                         *)
(* A critical section of queue_mutex_ is one step, except where the code   *)
(* blocks or races inside it; `mutex' says who then holds the lock.        *)
(***************************************************************************)
EXTENDS Naturals, Sequences, FiniteSets

CONSTANTS
  Tasks,           \* the tasks clients submit, each at most once
  NoTask,          \* what a worker without a task holds
  Clients,         \* the threads that call submitTask
  InitialThreads,  \* num_threads of the constructor
  MaxThreads,      \* bound: the largest argument of setThreadCount
  QueueLimits,     \* the arguments of setMaxQueueSize
  InitialLimit     \* max_queue_size_ at construction (1000 in the code)

ASSUME ThreadsAssumption ==
  /\ MaxThreads \in Nat
  /\ InitialThreads \in 1..MaxThreads
ASSUME LimitsAssumption ==
  /\ QueueLimits \subseteq Nat
  /\ InitialLimit \in QueueLimits
ASSUME TasksAssumption == Tasks # {} /\ NoTask \notin Tasks
ASSUME ClientsAssumption == Clients # {} /\ Clients \cap (1..MaxThreads) = {}

VARIABLES
  stop, pause,     \* stop_, pause_
  queue,           \* tasks_
  mutex,           \* who holds queue_mutex_ across steps, or "free"
  limit,           \* max_queue_size_
  size, capacity,  \* workers_.size(), workers_.capacity()
  worker,          \* where each worker thread is
  job,             \* the task a worker has popped
  client,          \* where each client is inside submitTask
  owner,           \* where the owner is inside stop or setThreadCount
  joining,         \* the workers the owner is joining
  completed, failed,  \* metrics_.completed_tasks, metrics_.failed_tasks
  seen,            \* the counter value a thread has read and not yet written
  status,          \* history: what became of each task
  late,            \* history: the tasks accepted with stop_ set or no thread alive
  backlog          \* history: a resume() found tasks in the queue

poolVars  == <<stop, pause, limit>>
sizeVars  == <<size, capacity>>
ownerVars == <<owner, joining>>
countVars == <<completed, failed, seen>>
histVars  == <<late, backlog>>
vars == <<poolVars, sizeVars, ownerVars, countVars, histVars,
          queue, mutex, worker, job, client, status>>

Slots   == 1..MaxThreads
Threads == Slots \cup Clients
Waiting == {w \in Slots : worker[w] = "waiting"}
Alive   == {w \in Slots : worker[w] \notin {"absent", "exited"}}

WorkerPC == {"absent", "top", "waiting", "got", "drop", "count", "update", "exited"}
ClientPC == {"idle", "reject", "notify"}
OwnerPC  == {"idle", "stopNotify", "stopJoin", "shrinkJoin"}
Status   == {"new", "queued", "held", "done", "stale", "rejected", "dropped"}

TypeOK ==
  /\ stop \in BOOLEAN /\ pause \in BOOLEAN /\ limit \in QueueLimits
  /\ queue \in Seq(Tasks)
  /\ mutex \in {"free", "client", "owner"}
  /\ size \in 0..MaxThreads /\ capacity \in 1..MaxThreads
  /\ worker \in [Slots -> WorkerPC]
  /\ job \in [Slots -> Tasks \cup {NoTask}]
  /\ client \in [Clients -> ClientPC]
  /\ owner \in OwnerPC /\ joining \in SUBSET Slots
  /\ completed \in Nat /\ failed \in Nat /\ seen \in [Threads -> Nat]
  /\ status \in [Tasks -> Status]
  /\ late \in SUBSET Tasks /\ backlog \in BOOLEAN

\* start(): one new thread per slot of the vector.
Spawn(from, to) == [w \in Slots |-> IF w \in from..to THEN "top" ELSE worker[w]]

\* condition_.notify_all().
WakeAll == [w \in Slots |-> IF worker[w] = "waiting" THEN "top" ELSE worker[w]]

\* Mutant: the counter is written back unchanged.
NotIncremented(t) == seen[t]

\* The write of an unlocked counter++, after the read into seen.
Incremented(t) == seen[t] + 1

Init ==
  /\ stop = FALSE /\ pause = FALSE /\ limit = InitialLimit
  /\ queue = <<>> /\ mutex = "free"
  /\ size = InitialThreads /\ capacity = InitialThreads
  /\ worker = [w \in Slots |-> IF w <= InitialThreads THEN "top" ELSE "absent"]
  /\ job = [w \in Slots |-> NoTask]
  /\ client = [c \in Clients |-> "idle"]
  /\ owner = "idle" /\ joining = {}
  /\ completed = 0 /\ failed = 0 /\ seen = [t \in Threads |-> 0]
  /\ status = [t \in Tasks |-> "new"]
  /\ late = {} /\ backlog = FALSE

-----------------------------------------------------------------------------
(* submitTask.  stop_ is not consulted; the notification follows the unlock. *)

Accept(c, t) ==
  /\ client[c] = "idle" /\ status[t] = "new" /\ mutex = "free"
  /\ Len(queue) < limit
  /\ queue' = Append(queue, t)
  /\ status' = [status EXCEPT ![t] = "queued"]
  /\ late' = IF stop \/ Alive = {} THEN late \cup {t} ELSE late
  /\ client' = [client EXCEPT ![c] = "notify"]
  /\ UNCHANGED <<poolVars, sizeVars, ownerVars, countVars, mutex, worker, job, backlog>>

\* The rejected task has been counted nowhere yet: failed_tasks++ is a read
\* and a write, and only workers that hold no lock race with it.
Reject(c, t) ==
  /\ client[c] = "idle" /\ status[t] = "new" /\ mutex = "free"
  /\ Len(queue) >= limit
  /\ mutex' = "client"
  /\ seen' = [seen EXCEPT ![c] = failed]
  /\ status' = [status EXCEPT ![t] = "rejected"]
  /\ client' = [client EXCEPT ![c] = "reject"]
  /\ UNCHANGED <<poolVars, sizeVars, ownerVars, histVars, completed, failed, queue, worker, job>>

CountRejected(c) ==
  /\ client[c] = "reject"
  /\ failed' = Incremented(c)
  /\ mutex' = "free"
  /\ client' = [client EXCEPT ![c] = "idle"]
  /\ UNCHANGED <<poolVars, sizeVars, ownerVars, histVars, completed, seen, queue, worker, job, status>>

\* Mutant: the notification is forgotten.
NotifyNone == UNCHANGED worker

\* condition_.notify_one(): wakes one waiter if there is one.
NotifyOne ==
  IF Waiting = {} THEN UNCHANGED worker
  ELSE \E w \in Waiting : worker' = [worker EXCEPT ![w] = "top"]

Notify(c) ==
  /\ client[c] = "notify"
  /\ client' = [client EXCEPT ![c] = "idle"]
  /\ NotifyOne
  /\ UNCHANGED <<poolVars, sizeVars, ownerVars, countVars, histVars, queue, mutex, job, status>>

-----------------------------------------------------------------------------
(* workerThread.  At "top" the thread takes the lock and evaluates the     *)
(* predicate of the wait.                                                  *)

\* Mutant: the predicate of the wait forgets stop_.
ReadyUnlessStopped == ~pause /\ queue # <<>>

Ready == stop \/ (~pause /\ queue # <<>>)

Wait(w) ==
  /\ worker[w] = "top" /\ mutex = "free"
  /\ ~Ready
  /\ worker' = [worker EXCEPT ![w] = "waiting"]
  /\ UNCHANGED <<poolVars, sizeVars, ownerVars, countVars, histVars, queue, mutex, job, client, status>>

SpuriousWakeup(w) ==
  /\ worker[w] = "waiting"
  /\ worker' = [worker EXCEPT ![w] = "top"]
  /\ UNCHANGED <<poolVars, sizeVars, ownerVars, countVars, histVars, queue, mutex, job, client, status>>

\* Mutant: a stopping worker leaves without draining the queue.
MayExitAtOnce == stop

MayExit == stop /\ queue = <<>>

Exit(w) ==
  /\ worker[w] = "top" /\ mutex = "free"
  /\ MayExit
  /\ worker' = [worker EXCEPT ![w] = "exited"]
  /\ UNCHANGED <<poolVars, sizeVars, ownerVars, countVars, histVars, queue, mutex, job, client, status>>

\* Mutant: tasks_.pop() is forgotten.
FrontKept == queue

FrontPopped == Tail(queue)

Take(w) ==
  /\ worker[w] = "top" /\ mutex = "free"
  /\ Ready /\ queue # <<>>
  /\ job' = [job EXCEPT ![w] = Head(queue)]
  /\ status' = [status EXCEPT ![Head(queue)] = "held"]
  /\ queue' = FrontPopped
  /\ worker' = [worker EXCEPT ![w] = "got"]
  /\ UNCHANGED <<poolVars, sizeVars, ownerVars, countVars, histVars, mutex, client>>

\* shouldProcessTask says the task is older than task_timeout_: the read of
\* failed_tasks++, made without a lock.
FindStale(w) ==
  /\ worker[w] = "got"
  /\ seen' = [seen EXCEPT ![w] = failed]
  /\ worker' = [worker EXCEPT ![w] = "drop"]
  /\ UNCHANGED <<poolVars, sizeVars, ownerVars, histVars, completed, failed, queue, mutex, job, client, status>>

CountStale(w) ==
  /\ worker[w] = "drop"
  /\ failed' = Incremented(w)
  /\ status' = [status EXCEPT ![job[w]] = "stale"]
  /\ job' = [job EXCEPT ![w] = NoTask]
  /\ worker' = [worker EXCEPT ![w] = "top"]
  /\ UNCHANGED <<poolVars, sizeVars, ownerVars, histVars, completed, seen, queue, mutex, client>>

\* shouldProcessTask said yes and the task has run from the pop to this step
\* (a packaged_task keeps what it throws in its future); the worker reads
\* metrics_.completed_tasks.
Finish(w) ==
  /\ worker[w] = "got"
  /\ status' = [status EXCEPT ![job[w]] = "done"]
  /\ job' = [job EXCEPT ![w] = NoTask]
  /\ seen' = [seen EXCEPT ![w] = completed]
  /\ worker' = [worker EXCEPT ![w] = "count"]
  /\ UNCHANGED <<poolVars, sizeVars, ownerVars, histVars, completed, failed, queue, mutex, client>>

CountCompleted(w) ==
  /\ worker[w] = "count"
  /\ completed' = Incremented(w)
  /\ worker' = [worker EXCEPT ![w] = "update"]
  /\ UNCHANGED <<poolVars, sizeVars, ownerVars, histVars, failed, seen, queue, mutex, job, client, status>>

\* updateMetrics, which divides by completed + failed, then active_threads_--.
Divisor == completed + failed

Update(w) ==
  /\ worker[w] = "update"
  /\ worker' = [worker EXCEPT ![w] = "top"]
  /\ UNCHANGED <<poolVars, sizeVars, ownerVars, countVars, histVars, queue, mutex, job, client, status>>

-----------------------------------------------------------------------------
(* The owner: pause, resume, setThreadCount, setMaxQueueSize, stop, start. *)

\* pause() and resume() notify pause_condition_, on which no thread waits.
Pause ==
  /\ owner = "idle" /\ mutex = "free"
  /\ pause' = TRUE
  /\ UNCHANGED <<stop, limit, sizeVars, ownerVars, countVars, histVars, queue, mutex, worker, job, client, status>>

Resume ==
  /\ owner = "idle" /\ mutex = "free"
  /\ pause' = FALSE
  /\ backlog' = (backlog \/ queue # <<>>)
  /\ UNCHANGED <<stop, limit, sizeVars, ownerVars, countVars, late, queue, mutex, worker, job, client, status>>

SetMaxQueueSize(n) ==
  /\ owner = "idle"
  /\ limit' = n
  /\ UNCHANGED <<stop, pause, sizeVars, ownerVars, countVars, histVars, queue, mutex, worker, job, client, status>>

Grow(n) ==
  /\ owner = "idle" /\ mutex = "free" /\ n > size
  /\ worker' = Spawn(size + 1, n)
  /\ size' = n
  /\ capacity' = IF n > capacity THEN n ELSE capacity
  /\ UNCHANGED <<poolVars, ownerVars, countVars, histVars, queue, mutex, job, client, status>>

\* setThreadCount with a smaller count joins with queue_mutex_ held.
Shrink(n) ==
  /\ owner = "idle" /\ mutex = "free" /\ n < size
  /\ stop' = TRUE
  /\ worker' = WakeAll
  /\ mutex' = "owner"
  /\ owner' = "shrinkJoin"
  /\ joining' = (n + 1)..size
  /\ UNCHANGED <<pause, limit, sizeVars, countVars, histVars, queue, job, client, status>>

StopSet ==
  /\ owner = "idle" /\ mutex = "free"
  /\ stop' = TRUE
  /\ owner' = "stopNotify"
  /\ UNCHANGED <<pause, limit, joining, sizeVars, countVars, histVars, queue, mutex, worker, job, client, status>>

StopNotify ==
  /\ owner = "stopNotify"
  /\ worker' = WakeAll
  /\ owner' = "stopJoin"
  /\ joining' = 1..size
  /\ UNCHANGED <<poolVars, sizeVars, countVars, histVars, queue, mutex, job, client, status>>

\* The joins return.  stop() then clears the vector and empties the queue
\* (cleanupStaleTasks: a task that is stale is counted, every task goes);
\* setThreadCount resizes the vector and resets stop_.
JoinDone ==
  /\ owner \in {"stopJoin", "shrinkJoin"}
  /\ \A w \in joining : worker[w] = "exited"
  /\ owner = "stopJoin" => mutex = "free"
  /\ owner' = "idle" /\ joining' = {} /\ mutex' = "free"
  /\ size' = size - Cardinality(joining)
  /\ worker' = [w \in Slots |-> IF w \in joining THEN "absent" ELSE worker[w]]
  /\ IF owner = "stopJoin"
       THEN /\ queue' = <<>>
            /\ status' = [t \in Tasks |-> IF status[t] = "queued" THEN "dropped" ELSE status[t]]
            /\ \E stale \in 0..Len(queue) : failed' = failed + stale
            /\ UNCHANGED stop
       ELSE /\ stop' = FALSE
            /\ UNCHANGED <<queue, status, failed>>
  /\ UNCHANGED <<pause, limit, capacity, completed, seen, histVars, job, client>>

\* start() after stop(): the vector is empty and keeps its capacity; stop_
\* is still set.  With threads in the vector the loop of start() would chase the
\* capacity that it makes grow; that call is left out.
Start ==
  /\ owner = "idle" /\ size = 0
  /\ worker' = Spawn(1, capacity)
  /\ size' = capacity
  /\ UNCHANGED <<poolVars, capacity, ownerVars, countVars, histVars, queue, mutex, job, client, status>>

-----------------------------------------------------------------------------
Submit(c) == \/ \E t \in Tasks : Accept(c, t) \/ Reject(c, t)
             \/ CountRejected(c)
             \/ Notify(c)

WorkerStep(w) == \/ Wait(w) \/ Exit(w) \/ Take(w)
                 \/ FindStale(w) \/ CountStale(w)
                 \/ Finish(w) \/ CountCompleted(w) \/ Update(w)

Owner == \/ Pause \/ Resume \/ Start
         \/ \E n \in QueueLimits : SetMaxQueueSize(n)
         \/ \E n \in 0..MaxThreads : Grow(n) \/ Shrink(n)
         \/ StopSet \/ StopNotify \/ JoinDone

Next == \/ \E c \in Clients : Submit(c)
        \/ \E w \in Slots : WorkerStep(w) \/ SpuriousWakeup(w)
        \/ Owner

\* Threads inside a call are scheduled and tasks return; nobody is obliged to
\* call submitTask or a control operation, or to be woken spuriously.
Fairness ==
  /\ \A c \in Clients : WF_vars(Notify(c) \/ CountRejected(c))
  /\ \A w \in Slots : WF_vars(WorkerStep(w))
  /\ WF_vars(StopNotify \/ JoinDone)

Spec == Init /\ [][Next]_vars
FairSpec == Spec /\ Fairness

-----------------------------------------------------------------------------
(* Properties.                                                             *)

\* A task is in one place only: queued once, or in the hands of one worker, or
\* settled.  Two workers never run one task and a settled task never comes
\* back, whatever the order of pops, stops and restarts.
EachTaskOnce ==
  /\ \A i, j \in 1..Len(queue) : queue[i] = queue[j] => i = j
  /\ \A t \in Tasks : status[t] = "queued" <=> \E i \in 1..Len(queue) : queue[i] = t
  /\ \A v, w \in Slots : job[v] = job[w] /\ job[v] # NoTask => v = w
  /\ \A t \in Tasks : status[t] = "held" <=> \E w \in Slots : job[w] = t

\* stop() drops no task accepted while stop_ was clear and a thread was alive:
\* workers leave only when the queue is empty, so cleanupStaleTasks finds
\* nothing but submissions that came too late.
StopKeepsAccepted == \A t \in Tasks : status[t] = "dropped" => t \in late

\* The pool is stalled: work is queued, nothing forbids running it, every
\* live worker sleeps and no notification is on its way.
Stalled ==
  /\ ~stop /\ ~pause /\ queue # <<>>
  /\ Alive # {} /\ Alive \subseteq Waiting
  /\ \A c \in Clients : client[c] # "notify"

\* A wakeup is lost only through resume(), which notifies pause_condition_ where
\* the workers wait on condition_: no race of submitTask's late notify_one with
\* waiting workers, growth or rejected submissions ever stalls the pool.
NoLostWakeup == Stalled => backlog

\* The unlocked increments lose updates but never make one up, and the first
\* completed task leaves the divisor of updateMetrics positive for good.
MetricsSound ==
  /\ completed <= Cardinality({t \in Tasks : status[t] = "done"})
  /\ failed <= Cardinality({t \in Tasks : status[t] \in {"stale", "rejected", "dropped"}})
  /\ \A w \in Slots : worker[w] = "update" => Divisor > 0

\* stop() returns: paused or not, whatever is queued, the workers drain the
\* queue, leave and are joined.
StopReturns == owner = "stopNotify" ~> owner = "idle"

\* In a pool that is neither paused nor shrunk, a task accepted before stop_ is
\* set is processed, even if stop() comes before a worker gets to it.
Served ==
  [](~pause /\ owner # "shrinkJoin") =>
    \A t \in Tasks : (status[t] = "queued" /\ t \notin late) ~> status[t] \in {"done", "stale"}

\* setThreadCount with a smaller count completes ("we reduce the number of
\* threads", thread_pool.cpp).
ShrinkReturns == owner = "shrinkJoin" ~> owner = "idle"
=============================================================================
