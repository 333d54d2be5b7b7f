---------------------------- MODULE KernelBalancer ----------------------------
(***************************************************************************)
(* kernels::KernelManager, which keeps a high, a medium and a low priority *)
(* kernel: start and stop, scale_kernels and balance_load.  The balancing  *)
(* moves tasks between the queues of the kernels without their mutexes, by *)
(* reading the front and then popping it, while workers pop too; what it   *)
(* moves it decides from one reading of metrics that only grow.            *)
(*                                                                         *)
(* scaling_loop, which nothing in the repository defines, is taken to call *)
(* the two in turn, as one thread; get_metrics, undefined as well, to read *)
(* the metrics of the kernels, whose total_tasks counts every operation    *)
(* recorded.  num_threads is a copy that no kernel reads.                  *)
(***************************************************************************)
EXTENDS Integers, Sequences

CONSTANTS
  Tasks, NoTask,
  Ceiling,      \* max_threads in scale_kernels: 4, 8 and 4 for the three tiers
  MaxPasses,    \* bound: calls of scale_kernels and balance_load
  MaxRuns       \* bound: how many tasks the workers run

Tiers == {"high", "medium", "low"}

ASSUME NoTaskAssumption == NoTask \notin Tasks
ASSUME CeilingAssumption == Ceiling \in [Tiers -> Nat]
ASSUME BoundsAssumption == MaxPasses \in Nat /\ MaxRuns \in Nat

\* The loops that move tasks: two of redistribute_tasks, and then two of
\* adjust_task_priorities.
Loops == 1..4
From == <<"high", "medium", "low", "high">>
To == <<"medium", "low", "medium", "medium">>

VARIABLES
  queue,      \* the tasks queued in each kernel
  total, completed,   \* total_tasks and completed_tasks of each kernel
  threads,    \* config_.<tier>.num_threads
  running,
  balancing,  \* a call of balance_load is under way
  left,       \* how many moves each loop of the pass still has to make
  copied,     \* the front task it has read and not popped yet
  moved,      \* history: moves out of the high kernel in this pass
  surplus,    \* history: the surplus of the high kernel this pass has measured
  passes

vars == <<queue, total, completed, threads, running, balancing, left, copied, moved, surplus, passes>>
pass == <<balancing, left, copied, moved, surplus>>

TypeOK ==
  /\ queue \in [Tiers -> Seq(Tasks)]
  /\ total \in [Tiers -> Nat] /\ completed \in [Tiers -> Nat] /\ threads \in [Tiers -> Nat]
  /\ running \in BOOLEAN /\ left \in [Loops -> Nat] /\ copied \in Tasks \cup {NoTask}
  /\ moved \in Nat /\ surplus \in Nat /\ balancing \in BOOLEAN /\ passes \in 0..MaxPasses

Init ==
  /\ queue = [k \in Tiers |-> <<>>]
  /\ total = [k \in Tiers |-> 0] /\ completed = [k \in Tiers |-> 0]
  /\ threads = [k \in Tiers |-> 2] /\ running = FALSE
  /\ balancing = FALSE /\ left = [n \in Loops |-> 0] /\ copied = NoTask /\ moved = 0 /\ surplus = 0
  /\ passes = 0

-----------------------------------------------------------------------------
(* Clients and workers of the kernels.                                     *)

\* start() and stop() of the manager start and stop all three kernels; the
\* scaling thread, which stop() joins, leaves when is_running_ is clear.
StartOrStop ==
  /\ ~balancing /\ running' = ~running
  /\ UNCHANGED <<queue, total, completed, threads, pass, passes>>

Sum == total["high"] + total["medium"] + total["low"]

Queued == UNION {{queue[k][i] : i \in 1..Len(queue[k])} : k \in Tiers}

\* submit_task chooses the kernel by the priority.
SubmitTask(t, k) ==
  /\ running /\ t \notin Queued /\ t # copied
  /\ queue' = [queue EXCEPT ![k] = Append(@, t)]
  /\ UNCHANGED <<total, completed, threads, running, pass, passes>>

\* A worker runs a task, which may be submitted again; its outcome is recorded.
RunTask(k) ==
  /\ queue[k] # <<>> /\ Sum < MaxRuns
  /\ queue' = [queue EXCEPT ![k] = Tail(@)]
  /\ total' = [total EXCEPT ![k] = @ + 1]
  /\ completed' \in {completed, [completed EXCEPT ![k] = @ + 1]}
  /\ UNCHANGED <<threads, running, pass, passes>>

-----------------------------------------------------------------------------
(* scale_kernels.                                                          *)

\* The load as a fraction.
Load(k) == <<total[k], completed[k]>>

\* As doubles: x / 0 is infinite, and 0 / 0 neither above nor below anything.
Above(f, tenths) == 10 * f[1] > tenths * f[2]
Below(f, tenths) == 10 * f[1] < tenths * f[2]

Scaled(k) ==
  LET n == threads[k]
  IN  IF Above(Load(k), 8) THEN IF n + 1 < Ceiling[k] THEN n + 1 ELSE Ceiling[k]
      ELSE IF Below(Load(k), 2) THEN IF n > 2 THEN n - 1 ELSE 1
      ELSE n

ScaleKernels ==
  /\ running /\ ~balancing /\ passes < MaxPasses /\ passes' = passes + 1
  /\ threads' = [k \in Tiers |-> Scaled(k)]
  /\ UNCHANGED <<queue, total, completed, running, pass>>

-----------------------------------------------------------------------------
(* balance_load.                                                           *)

Off(k, tenths) == 10 * total[k] > (tenths + 1) * Sum \/ 10 * total[k] < (tenths - 1) * Sum
Unbalanced == Sum > 0 /\ (Off("high", 2) \/ Off("medium", 5) \/ Off("low", 3))

Excess(a, b) == IF total[a] > total[b] THEN total[a] - total[b] ELSE 0

\* Mutant: adjust_task_priorities demotes the whole surplus.
DemotedAll == Excess("high", "medium")

Demoted == Excess("high", "medium") \div 2

\* All four loops take their number from the same metrics.
Planned ==
  <<Excess("high", "medium") \div 2, Excess("medium", "low") \div 2,
    Excess("low", "medium") \div 2, Demoted>>

Shifted(from, to) == [threads EXCEPT ![from] = @ - 1, ![to] = @ + 1]

\* redistribute_resources reads the metrics again.
Reallocated ==
  IF Excess("high", "medium") > 0
  THEN IF threads["high"] > 1 THEN Shifted("high", "medium") ELSE threads
  ELSE IF Excess("medium", "low") > 0 /\ threads["medium"] > 2 THEN Shifted("medium", "low")
  ELSE threads

BalanceLoad ==
  /\ running /\ ~balancing /\ passes < MaxPasses /\ passes' = passes + 1
  /\ Unbalanced /\ balancing' = TRUE
  /\ left' = Planned /\ moved' = 0 /\ surplus' = Excess("high", "medium")
  /\ UNCHANGED <<queue, total, completed, threads, running, copied>>

\* The loop whose turn it is.
Turn(n) == left[n] > 0 /\ \A m \in Loops : m < n => left[m] = 0
OneLess(n) == [left EXCEPT ![n] = @ - 1]

ReadFront(n) ==
  /\ Turn(n) /\ copied = NoTask
  /\ IF queue[From[n]] = <<>>
     THEN left' = OneLess(n) /\ UNCHANGED copied
     ELSE copied' = Head(queue[From[n]]) /\ UNCHANGED left
  /\ UNCHANGED <<queue, total, completed, threads, running, balancing, moved, surplus, passes>>

\* pop() removes whatever is at the front by now, and of an empty queue is
\* undefined; a behaviour in which that happens is not followed further.
PopFront(n) ==
  /\ Turn(n) /\ copied # NoTask /\ queue[From[n]] # <<>>
  /\ queue' = [queue EXCEPT ![From[n]] = Tail(@), ![To[n]] = Append(@, copied)]
  /\ moved' = IF From[n] = "high" THEN moved + 1 ELSE moved
  /\ left' = OneLess(n) /\ copied' = NoTask
  /\ UNCHANGED <<total, completed, threads, running, balancing, surplus, passes>>

Reallocate ==
  /\ balancing /\ \A n \in Loops : left[n] = 0
  /\ threads' = Reallocated /\ balancing' = FALSE
  /\ UNCHANGED <<queue, total, completed, running, left, copied, moved, surplus, passes>>

Next ==
  \/ StartOrStop \/ ScaleKernels \/ BalanceLoad \/ Reallocate
  \/ \E n \in Loops : ReadFront(n) \/ PopFront(n)
  \/ \E k \in Tiers : RunTask(k) \/ \E t \in Tasks : SubmitTask(t, k)

Spec == Init /\ [][Next]_vars
-----------------------------------------------------------------------------
\* The two passes over the high kernel, which use one reading of the metrics,
\* together move no more tasks than the surplus that reading showed.
MovesWithinSurplus == moved <= surplus
=============================================================================
