---------------------------- MODULE TaskManager -----------------------------
(***************************************************************************)
(* cloud::TaskManager (core/task_manager.cpp): a queue of pending tasks,   *)
(* the tasks that run on a kernel and the settled ones.  Two mutexes:      *)
(* queue_mutex_ for the queue, tasks_mutex_ for the two maps; a processor  *)
(* (a thread in processTaskQueue) carries a task from one to the other     *)
(* holding neither.  cancelTask and assignTask hold tasks_mutex_ all along *)
(* and take effect when they scan the queue, so each is one step.  That    *)
(* assignTask is given a name, not the empty string, is assumed.           *)
(* cleanupOldTasks, which forgets settled tasks, runs in the destructor    *)
(* only and is left out.                                                   *)
(***************************************************************************)
EXTENDS Naturals, Sequences, FiniteSets, SequencesExt

CONSTANTS
  Tasks,       \* task ids (random in the code, so never reused)
  Kernels,     \* names given to assignTask
  NoKernel,    \* the empty assigned_kernel
  Clients,     \* threads that call submitTask
  Processors,  \* threads that run processTaskQueue
  Nothing      \* what an idle client or processor holds

ASSUME NoKernelAssumption == NoKernel \notin Kernels
ASSUME NothingAssumption == Nothing \notin [id : Tasks, kernel : Kernels \cup {NoKernel}] \cup Nat

Entry    == [id : Tasks, kernel : Kernels \cup {NoKernel}]
Outcomes == {"completed", "failed"}
Settled  == [id : Tasks, kernel : Kernels \cup {NoKernel}, status : Outcomes \cup {"cancelled"}]

VARIABLES
  pending,    \* pending_tasks_
  hand,       \* the task each processor has popped and not yet placed
  asleep,     \* the processors that wait on queue_cv_
  running,    \* running_tasks_
  completed,  \* completed_tasks_
  totalTasks, completedTasks, failedTasks,  \* metrics_
  seen,       \* total_tasks as read by a client inside its unlocked total_tasks++
  submitted,  \* history: the ids given out
  assigned,   \* history: tasks that assignTask found in the queue
  dropped     \* history: tasks a processor discarded

metricVars == <<totalTasks, completedTasks, failedTasks, seen>>
histVars   == <<submitted, assigned, dropped>>
vars == <<pending, hand, asleep, running, completed, metricVars, histVars>>

Ids(S)     == {e.id : e \in S}
Pending    == Ids(ToSet(pending))
InHand     == {hand[p].id : p \in {q \in Processors : hand[q] # Nothing}}
Running    == Ids(running)
Completed  == Ids(completed)

TypeOK ==
  /\ pending \in Seq(Entry)
  /\ hand \in [Processors -> Entry \cup {Nothing}]
  /\ asleep \subseteq Processors
  /\ running \subseteq Entry /\ completed \subseteq Settled
  /\ totalTasks \in Nat /\ completedTasks \in Nat /\ failedTasks \in Nat
  /\ seen \in [Clients -> Nat \cup {Nothing}]
  /\ submitted \subseteq Tasks /\ assigned \subseteq Tasks /\ dropped \subseteq Tasks

Init ==
  /\ pending = <<>> /\ hand = [p \in Processors |-> Nothing] /\ asleep = {}
  /\ running = {} /\ completed = {}
  /\ totalTasks = 0 /\ completedTasks = 0 /\ failedTasks = 0
  /\ seen = [c \in Clients |-> Nothing]
  /\ submitted = {} /\ assigned = {} /\ dropped = {}

-----------------------------------------------------------------------------
\* submitTask: the push is locked, the total_tasks++ that follows is not.
SubmitTask(c, t) ==
  /\ seen[c] = Nothing /\ t \notin submitted
  /\ pending' = Append(pending, [id |-> t, kernel |-> NoKernel])
  /\ submitted' = submitted \cup {t}
  /\ seen' = [seen EXCEPT ![c] = totalTasks]
  /\ UNCHANGED <<hand, asleep, running, completed, totalTasks, completedTasks, failedTasks, assigned, dropped>>

\* Mutant: the notification is forgotten.
NotifyNone == UNCHANGED asleep

\* queue_cv_.notify_one(): wakes one waiter if there is one.
NotifyOne == IF asleep = {} THEN UNCHANGED asleep
                            ELSE \E p \in asleep : asleep' = asleep \ {p}

\* The second half of total_tasks++, and the notification.
CountSubmitted(c) ==
  /\ seen[c] # Nothing
  /\ totalTasks' = seen[c] + 1
  /\ seen' = [seen EXCEPT ![c] = Nothing]
  /\ NotifyOne
  /\ UNCHANGED <<pending, hand, running, completed, completedTasks, failedTasks, histVars>>

\* map[e.id] = e: an entry that has the id already is overwritten.
Put(map, e) == {x \in map : x.id # e.id} \cup {e}

Settle(e, status) ==
  completed' = Put(completed, [id |-> e.id, kernel |-> e.kernel, status |-> status])

\* Mutant: the cancelled task stays in running_tasks_.
StillRunning(e) == running

WithoutRunning(e) == running \ {e}

\* cancelTask of a running task.
CancelRunning(e) ==
  /\ e \in running
  /\ Settle(e, "cancelled")
  /\ running' = WithoutRunning(e)
  /\ failedTasks' = failedTasks + 1
  /\ UNCHANGED <<pending, hand, asleep, totalTasks, completedTasks, seen, histVars>>

\* cancelTask of a pending task: the queue is rebuilt without the entry that
\* has its id (the only one, see OnePlace).
CancelPending(n) ==
  /\ n \in DOMAIN pending
  /\ Settle(pending[n], "cancelled")
  /\ pending' = RemoveAt(pending, n)
  /\ failedTasks' = failedTasks + 1
  /\ UNCHANGED <<hand, asleep, running, totalTasks, completedTasks, seen, histVars>>

AssignRunning(e, k) ==
  /\ e \in running
  /\ running' = Put(running, [e EXCEPT !.kernel = k])
  /\ UNCHANGED <<pending, hand, asleep, completed, metricVars, histVars>>

\* Mutant: the assigned task goes back to the end of the queue.
RequeuedLast(t, k) ==
  SelectSeq(pending, LAMBDA x : x.id # t) \o <<[id |-> t, kernel |-> k]>>

\* Mutant: the name is written to a copy that is not put back.
RequeuedUnchanged(t, k) == pending

Requeued(t, k) ==
  [n \in DOMAIN pending |-> IF pending[n].id = t THEN [pending[n] EXCEPT !.kernel = k]
                                                 ELSE pending[n]]

\* assignTask of a pending task: the queue is rebuilt with the name filled in.
AssignPending(t, k) ==
  /\ t \in Pending
  /\ pending' = Requeued(t, k)
  /\ assigned' = assigned \cup {t}
  /\ UNCHANGED <<hand, asleep, running, completed, metricVars, submitted, dropped>>

\* processTaskQueue, under queue_mutex_: the wait, and the pop when it returns.
Sleep(p) ==
  /\ hand[p] = Nothing /\ p \notin asleep /\ pending = <<>>
  /\ asleep' = asleep \cup {p}
  /\ UNCHANGED <<pending, hand, running, completed, metricVars, histVars>>

SpuriousWakeup(p) ==
  /\ p \in asleep
  /\ asleep' = asleep \ {p}
  /\ UNCHANGED <<pending, hand, running, completed, metricVars, histVars>>

Pop(p) ==
  /\ hand[p] = Nothing /\ p \notin asleep /\ pending # <<>>
  /\ hand' = [hand EXCEPT ![p] = Head(pending)]
  /\ pending' = Tail(pending)
  /\ UNCHANGED <<asleep, running, completed, metricVars, histVars>>

\* processTaskQueue, under tasks_mutex_: only an assigned task is kept.
Place(p) ==
  /\ hand[p] # Nothing
  /\ IF hand[p].kernel # NoKernel
       THEN running' = Put(running, hand[p]) /\ UNCHANGED dropped
       ELSE dropped' = dropped \cup {hand[p].id} /\ UNCHANGED running
  /\ hand' = [hand EXCEPT ![p] = Nothing]
  /\ UNCHANGED <<pending, asleep, completed, metricVars, submitted, assigned>>

\* Mutant: every report counts as a completed task, a failed one as failed too.
CountBoth(status) ==
  /\ completedTasks' = completedTasks + 1
  /\ failedTasks' = IF status = "failed" THEN failedTasks + 1 ELSE failedTasks

CountOutcome(status) ==
  IF status = "completed" THEN completedTasks' = completedTasks + 1 /\ UNCHANGED failedTasks
                          ELSE failedTasks' = failedTasks + 1 /\ UNCHANGED completedTasks

\* updateTaskStatus (private, without a caller in the repository): the report
\* of a kernel about a running task.  The callback, which the code then reads
\* through the erased iterator, belongs to the caller and is left out.
UpdateTaskStatus(e, status) ==
  /\ e \in running
  /\ Settle(e, status)
  /\ running' = running \ {e}
  /\ CountOutcome(status)
  /\ UNCHANGED <<pending, hand, asleep, totalTasks, seen, histVars>>

-----------------------------------------------------------------------------
Processor(p) == Sleep(p) \/ Pop(p) \/ Place(p)

Next == \/ \E c \in Clients : CountSubmitted(c) \/ \E t \in Tasks : SubmitTask(c, t)
        \/ \E e \in running : CancelRunning(e)
        \/ \E n \in DOMAIN pending : CancelPending(n)
        \/ \E e \in running, k \in Kernels : AssignRunning(e, k)
        \/ \E t \in Tasks, k \in Kernels : AssignPending(t, k)
        \/ \E p \in Processors : Processor(p) \/ SpuriousWakeup(p)
        \/ \E e \in running, status \in Outcomes : UpdateTaskStatus(e, status)

Spec == Init /\ [][Next]_vars

\* The processors are threads in an endless loop, and a client that has pushed
\* a task finishes submitTask; nobody has to call anything.
FairSpec ==
  /\ Spec
  /\ \A p \in Processors : WF_vars(Processor(p))
  /\ \A c \in Clients : WF_vars(CountSubmitted(c))

-----------------------------------------------------------------------------
(* Properties.                                                             *)

\* A submitted task is in exactly one place (queue, a processor's hand, one of
\* the two maps, or dropped), and there once: no interleaving of the pop and
\* the placement of several processors with cancelTask and assignTask runs a
\* task twice or lets a cancelled one run.
OnePlace ==
  /\ \A m, n \in DOMAIN pending : pending[m].id = pending[n].id => m = n
  /\ \A p, q \in Processors : hand[p] # Nothing /\ hand[q] # Nothing /\ p # q
                                => hand[p].id # hand[q].id
  /\ \A e, f \in running : e.id = f.id => e = f
  /\ \A e, f \in completed : e.id = f.id => e = f
  /\ \A t \in submitted :
       Cardinality({place \in {"p", "h", "r", "c", "d"} :
                      \/ place = "p" /\ t \in Pending
                      \/ place = "h" /\ t \in InHand
                      \/ place = "r" /\ t \in Running
                      \/ place = "c" /\ t \in Completed
                      \/ place = "d" /\ t \in dropped}) = 1
  /\ Pending \cup InHand \cup Running \cup Completed \cup dropped = submitted

\* A task that assignTask found in the queue is never discarded, whichever
\* processor pops it; only tasks popped before any assignment are lost.
AssignedNeverDropped == assigned \cap dropped = {}

\* completed_tasks and failed_tasks, written under tasks_mutex_, count exactly
\* the settled tasks; total_tasks, incremented without a lock, may lose
\* submissions but never invents one.
CountersMatch ==
  /\ completedTasks + failedTasks = Cardinality(completed)
  /\ completedTasks = Cardinality({e \in completed : e.status = "completed"})
  /\ totalTasks <= Cardinality(submitted)

\* The first outcome of a task is final: although completed_tasks_[id] is
\* overwritten without a look by cancelTask and by updateTaskStatus, no order of
\* pops, placements, cancellations and reports writes an id twice.
SettledForever == [][completed \subseteq completed']_vars

\* Rebuilding the queue in cancelTask and assignTask keeps the waiting order.
PendingOrderKept ==
  [][\A m, n \in DOMAIN pending, i, j \in DOMAIN pending' :
       (m < n /\ pending[m].id = pending'[i].id /\ pending[n].id = pending'[j].id) => i < j]_vars

\* A pending task with a kernel eventually runs or is settled: the notification
\* that submitTask sends after its unlock and its count is never missed by all
\* the processors.
AssignedRuns ==
  \A t \in Tasks : (\E n \in DOMAIN pending : pending[n].id = t /\ pending[n].kernel # NoKernel)
                     ~> t \in Running \cup Completed
=============================================================================
