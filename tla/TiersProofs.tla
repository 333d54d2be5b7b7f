------------------------------ MODULE TiersProofs ------------------------------
(***************************************************************************)
(* Proofs about the tiers: types and the budget of a pass of the           *)
(* KernelBalancer, for every set of tasks and every ceiling; and why a     *)
(* worker of a TierKernel that gives up its task keeps stop() from         *)
(* returning, for every set of workers, in the composition with the rest   *)
(* of the layer.                                                           *)
(***************************************************************************)
EXTENDS MCTiers, FiniteSetTheorems, TLAPS

\* What the two loops over the high kernel have moved and still may move.
WithinBudget == moved + left[1] + left[4] <= surplus

IInv == TypeOK /\ WithinBudget

-----------------------------------------------------------------------------
\* The surplus of one kernel over another, as the loops compute it, is a
\* natural number, and two halves of it do not exceed it.
LEMMA ExcessType ==
  ASSUME TypeOK, NEW a \in Tiers, NEW b \in Tiers
  PROVE  /\ Excess(a, b) \in Nat
         /\ Excess(a, b) \div 2 \in Nat
         /\ Excess(a, b) \div 2 + Excess(a, b) \div 2 <= Excess(a, b)
<1>1. total[a] \in Nat /\ total[b] \in Nat
  BY DEF TypeOK
<1>2. Excess(a, b) \in Nat
  BY <1>1 DEF Excess
<1> QED BY <1>2

\* What balance_load plans is a number of moves for each of the four loops.
LEMMA PlannedType ==
  ASSUME TypeOK
  PROVE  /\ Planned \in [Loops -> Nat]
         /\ Planned[1] + Planned[4] <= Excess("high", "medium")
<1>1. "high" \in Tiers /\ "medium" \in Tiers /\ "low" \in Tiers
  BY DEF Tiers
<1>2. Excess("high", "medium") \div 2 \in Nat /\ Demoted \in Nat
  BY <1>1, ExcessType DEF Demoted
<1>3. Excess("medium", "low") \div 2 \in Nat
  BY <1>1, ExcessType
<1>4. Excess("low", "medium") \div 2 \in Nat
  BY <1>1, ExcessType
<1>5. Planned[1] = Excess("high", "medium") \div 2 /\ Planned[4] = Demoted
  BY DEF Planned
<1>6. Planned[1] + Planned[4] <= Excess("high", "medium")
  BY <1>1, <1>5, ExcessType DEF Demoted
<1>7. Planned \in [Loops -> Nat]
  BY <1>2, <1>3, <1>4 DEF Planned, Loops
<1> QED BY <1>6, <1>7

\* Scaling leaves every kernel a natural number of threads.
LEMMA ScaledType ==
  ASSUME TypeOK, NEW k \in Tiers
  PROVE  Scaled(k) \in Nat
<1>1. threads[k] \in Nat /\ Ceiling[k] \in Nat
  BY CeilingAssumption DEF TypeOK
<1>2. CASE Above(Load(k), 8)
  BY <1>1, <1>2 DEF Scaled
<1>3. CASE ~Above(Load(k), 8) /\ Below(Load(k), 2)
  BY <1>1, <1>3 DEF Scaled
<1>4. CASE ~Above(Load(k), 8) /\ ~Below(Load(k), 2)
  BY <1>1, <1>4 DEF Scaled
<1> QED BY <1>2, <1>3, <1>4

\* A thread is taken only from a kernel that has one to spare.
LEMMA ReallocatedType ==
  ASSUME TypeOK
  PROVE  Reallocated \in [Tiers -> Nat]
<1>1. threads \in [Tiers -> Nat]
  BY DEF TypeOK
<1>2. ASSUME threads["high"] > 1
      PROVE  Shifted("high", "medium") \in [Tiers -> Nat]
  BY <1>1, <1>2 DEF Shifted, Tiers
<1>3. ASSUME threads["medium"] > 2
      PROVE  Shifted("medium", "low") \in [Tiers -> Nat]
  BY <1>1, <1>3 DEF Shifted, Tiers
<1>4. CASE Excess("high", "medium") > 0
  BY <1>1, <1>2, <1>4 DEF Reallocated
<1>5. CASE ~(Excess("high", "medium") > 0)
  BY <1>1, <1>3, <1>5 DEF Reallocated
<1> QED BY <1>4, <1>5

\* A loop makes one of its moves.
LEMMA OneLessType ==
  ASSUME TypeOK, NEW n \in Loops, Turn(n)
  PROVE  /\ OneLess(n) \in [Loops -> Nat]
         /\ OneLess(n)[n] = left[n] - 1
         /\ \A m \in Loops : m # n => OneLess(n)[m] = left[m]
BY DEF TypeOK, Turn, OneLess

-----------------------------------------------------------------------------
LEMMA InitInv == Init => IInv
<1> SUFFICES ASSUME Init PROVE IInv
  OBVIOUS
<1>1. queue \in [Tiers -> Seq(Tasks)]
  BY DEF Init
<1>2. total \in [Tiers -> Nat] /\ completed \in [Tiers -> Nat] /\ threads \in [Tiers -> Nat]
  BY DEF Init
<1>3. left \in [Loops -> Nat] /\ left[1] = 0 /\ left[4] = 0
  BY DEF Init, Loops
<1>4. running = FALSE /\ balancing = FALSE /\ copied = NoTask /\ moved = 0 /\ surplus = 0 /\ passes = 0
  BY DEF Init
<1>5. passes \in 0..MaxPasses
  BY <1>4, BoundsAssumption
<1>6. TypeOK
  BY <1>1, <1>2, <1>3, <1>4, <1>5 DEF TypeOK
<1> QED BY <1>3, <1>4, <1>6 DEF IInv, WithinBudget

\* Clients and workers change queues and metrics, and nothing of the pass.
LEMMA ClientStep ==
  ASSUME IInv,
         StartOrStop \/ \E k \in Tiers : RunTask(k) \/ \E t \in Tasks : SubmitTask(t, k)
  PROVE  IInv'
<1> USE DEF pass
<1>1. CASE StartOrStop
  BY <1>1 DEF IInv, TypeOK, WithinBudget, StartOrStop
<1>2. ASSUME NEW k \in Tiers, RunTask(k)
      PROVE  IInv'
  <2>1. Tail(queue[k]) \in Seq(Tasks)
    BY <1>2 DEF IInv, TypeOK, RunTask
  <2>2. queue' \in [Tiers -> Seq(Tasks)]
    BY <1>2, <2>1 DEF IInv, TypeOK, RunTask
  <2>3. total' \in [Tiers -> Nat] /\ completed' \in [Tiers -> Nat]
    BY <1>2 DEF IInv, TypeOK, RunTask
  <2> QED BY <1>2, <2>2, <2>3 DEF IInv, TypeOK, WithinBudget, RunTask
<1>3. ASSUME NEW k \in Tiers, NEW t \in Tasks, SubmitTask(t, k)
      PROVE  IInv'
  <2>1. Append(queue[k], t) \in Seq(Tasks)
    BY DEF IInv, TypeOK
  <2>2. queue' \in [Tiers -> Seq(Tasks)]
    BY <1>3, <2>1 DEF IInv, TypeOK, SubmitTask
  <2> QED BY <1>3, <2>2 DEF IInv, TypeOK, WithinBudget, SubmitTask
<1> QED BY <1>1, <1>2, <1>3

\* scale_kernels and redistribute_resources change numbers of threads only.
LEMMA ThreadStep ==
  ASSUME IInv, ScaleKernels \/ Reallocate
  PROVE  IInv'
<1>1. CASE ScaleKernels
  <2>1. threads' \in [Tiers -> Nat]
    BY <1>1, ScaledType DEF IInv, ScaleKernels
  <2>2. passes' \in 0..MaxPasses
    BY <1>1, BoundsAssumption DEF IInv, TypeOK, ScaleKernels
  <2> QED BY <1>1, <2>1, <2>2 DEF IInv, TypeOK, WithinBudget, ScaleKernels, pass
<1>2. CASE Reallocate
  <2>1. threads' \in [Tiers -> Nat]
    BY <1>2, ReallocatedType DEF IInv, Reallocate
  <2> QED BY <1>2, <2>1 DEF IInv, TypeOK, WithinBudget, Reallocate
<1> QED BY <1>1, <1>2

\* A pass starts with a budget that the surplus it has measured covers.
LEMMA PlanStep ==
  ASSUME IInv, BalanceLoad
  PROVE  IInv'
<1>1. left' \in [Loops -> Nat] /\ left'[1] + left'[4] <= surplus'
  BY PlannedType DEF IInv, BalanceLoad
<1>2. surplus' \in Nat /\ moved' = 0
  BY ExcessType DEF IInv, BalanceLoad, Tiers
<1>3. passes' \in 0..MaxPasses
  BY BoundsAssumption DEF IInv, TypeOK, BalanceLoad
<1>4. TypeOK'
  BY <1>1, <1>2, <1>3 DEF IInv, TypeOK, BalanceLoad
<1>5. left'[1] \in Nat /\ left'[4] \in Nat
  BY <1>1 DEF Loops
<1> QED BY <1>1, <1>2, <1>4, <1>5 DEF IInv, WithinBudget

\* Reading a front task spends no budget; an empty queue ends one move of it.
LEMMA ReadStep ==
  ASSUME IInv, NEW n \in Loops, ReadFront(n)
  PROVE  IInv'
<1>1. Turn(n) /\ TypeOK
  BY DEF ReadFront, IInv
<1>2. left[n] \in Nat /\ left[1] \in Nat /\ left[4] \in Nat /\ left[n] > 0
  BY <1>1 DEF TypeOK, Turn, Loops
<1>3. CASE queue[From[n]] = <<>>
  <2>1. left' = OneLess(n) /\ copied' = copied
    BY <1>3 DEF ReadFront
  <2>2. TypeOK'
    BY <1>1, <2>1, OneLessType DEF TypeOK, ReadFront
  <2>3. left'[1] <= left[1] /\ left'[4] <= left[4]
    BY <1>1, <1>2, <2>1, OneLessType DEF Loops
  <2>4. left'[1] \in Nat /\ left'[4] \in Nat /\ moved \in Nat /\ surplus \in Nat
    BY <1>1, <2>1, OneLessType DEF TypeOK, Loops
  <2> QED BY <1>2, <2>2, <2>3, <2>4 DEF IInv, WithinBudget, ReadFront
<1>4. CASE queue[From[n]] # <<>>
  <2>1. From[n] \in Tiers
    BY DEF From, Loops, Tiers
  <2>2. Head(queue[From[n]]) \in Tasks
    BY <1>1, <1>4, <2>1 DEF TypeOK
  <2> QED BY <1>1, <1>4, <2>2 DEF IInv, TypeOK, WithinBudget, ReadFront
<1> QED BY <1>3, <1>4

\* Popping one moves a task and takes it off the loop's budget.
LEMMA PopStep ==
  ASSUME IInv, NEW n \in Loops, PopFront(n)
  PROVE  IInv'
<1>1. Turn(n) /\ TypeOK /\ left' = OneLess(n)
  BY DEF PopFront, IInv
<1>2. From[n] \in Tiers /\ To[n] \in Tiers /\ From[n] # To[n]
  BY DEF From, To, Loops, Tiers
<1>3. Tail(queue[From[n]]) \in Seq(Tasks)
  BY <1>1, <1>2 DEF TypeOK, PopFront
<1>4. Append(queue[To[n]], copied) \in Seq(Tasks)
  BY <1>1, <1>2 DEF TypeOK, PopFront
<1>5. queue' \in [Tiers -> Seq(Tasks)]
  BY <1>1, <1>2, <1>3, <1>4 DEF TypeOK, PopFront
<1>6. left' \in [Loops -> Nat]
  BY <1>1, OneLessType
<1>7. moved' \in Nat
  BY <1>1 DEF TypeOK, PopFront
<1>8. TypeOK'
  BY <1>1, <1>5, <1>6, <1>7 DEF TypeOK, PopFront
<1>9. moved' + left'[1] + left'[4] <= moved + left[1] + left[4]
  <2>1. left[1] \in Nat /\ left[4] \in Nat /\ moved \in Nat
    BY <1>1 DEF TypeOK, Loops
  <2>2. CASE n = 1
    <3>1. left'[1] = left[1] - 1 /\ left'[4] = left[4]
      BY <1>1, <2>2, OneLessType DEF Loops
    <3>2. moved' = moved + 1
      BY <2>2 DEF PopFront, From
    <3> QED BY <2>1, <3>1, <3>2
  <2>3. CASE n = 4
    <3>1. left'[1] = left[1] /\ left'[4] = left[4] - 1
      BY <1>1, <2>3, OneLessType DEF Loops
    <3>2. moved' = moved + 1
      BY <2>3 DEF PopFront, From
    <3> QED BY <2>1, <3>1, <3>2
  <2>4. CASE n \in {2, 3}
    <3>1. left'[1] = left[1] /\ left'[4] = left[4]
      BY <1>1, <2>4, OneLessType DEF Loops
    <3>2. moved' = moved
      BY <2>4 DEF PopFront, From
    <3> QED BY <2>1, <3>1, <3>2
  <2> QED BY <2>2, <2>3, <2>4 DEF Loops
<1>10. surplus' = surplus /\ surplus \in Nat /\ moved \in Nat /\ left[1] \in Nat /\ left[4] \in Nat
  BY <1>1 DEF TypeOK, PopFront, Loops
<1>11. left'[1] \in Nat /\ left'[4] \in Nat
  BY <1>6 DEF Loops
<1> QED BY <1>7, <1>8, <1>9, <1>10, <1>11 DEF IInv, WithinBudget

LEMMA NextInv == IInv /\ [Next]_vars => IInv'
<1> SUFFICES ASSUME IInv, [Next]_vars PROVE IInv'
  OBVIOUS
<1>1. CASE StartOrStop \/ \E k \in Tiers : RunTask(k) \/ \E t \in Tasks : SubmitTask(t, k)
  BY <1>1, ClientStep
<1>2. CASE ScaleKernels \/ Reallocate
  BY <1>2, ThreadStep
<1>3. CASE BalanceLoad
  BY <1>3, PlanStep
<1>4. CASE \E n \in Loops : ReadFront(n) \/ PopFront(n)
  BY <1>4, ReadStep, PopStep
<1>5. CASE UNCHANGED vars
  BY <1>5 DEF vars, IInv, TypeOK, WithinBudget
<1> QED BY <1>1, <1>2, <1>3, <1>4, <1>5 DEF Next

\* Types and the budget of the pass hold in every behaviour.
THEOREM BudgetHolds == Spec => []IInv
BY InitInv, NextInv, PTL DEF Spec

\* The types of the manager's state, for every set of tasks, every ceiling of
\* scale_kernels and every number of passes.
THEOREM TypeCorrect == Spec => []TypeOK
<1>1. IInv => TypeOK
  BY DEF IInv
<1> QED BY <1>1, BudgetHolds, PTL

\* redistribute_tasks and adjust_task_priorities together move no more tasks
\* out of the high kernel than the surplus balance_load read, whatever the
\* workers and clients do to the queues meanwhile.
THEOREM MovesBounded == Spec => []MovesWithinSurplus
<1>1. IInv => MovesWithinSurplus
  <2> SUFFICES ASSUME IInv PROVE MovesWithinSurplus
    OBVIOUS
  <2>1. moved \in Nat /\ surplus \in Nat /\ left[1] \in Nat /\ left[4] \in Nat
    BY DEF IInv, TypeOK, Loops
  <2> QED BY <2>1 DEF IInv, WithinBudget, MovesWithinSurplus
<1> QED BY <1>1, BudgetHolds, PTL

-----------------------------------------------------------------------------
(* TierKernels: what active_threads_ counts.                               *)

\* The workers inside worker_thread, and those that returned from its middle.
Counted(pc) == {w \in Workers : pc[w] \notin {"out", "left"}}

\* active_threads_ counts them, whatever became of their tasks.
TierInv ==
  /\ queue \in Seq(Tasks)
  /\ worker \in [Workers -> {"out", "loop", "left", "returned"} \cup Tasks]
  /\ IsFiniteSet(Counted(worker)) /\ active = Cardinality(Counted(worker))

\* Taking a task out of the queue and putting it back leaves a queue of tasks.
LEMMA WithoutType ==
  ASSUME NEW t \in Tasks, queue \in Seq(Tasks), t \in Tier!Queued
  PROVE  /\ Tier!Without(t) \in Seq(Tasks)
         /\ \A i \in 1..Len(queue) : Tier!InsertAt(Tier!Without(t), i, t) \in Seq(Tasks)
<1> DEFINE i == CHOOSE i \in 1..Len(queue) : queue[i] = t
<1>1. i \in 1..Len(queue)  BY DEF Tier!Queued
<1>2. Tier!Without(t) = SubSeq(queue, 1, i - 1) \o SubSeq(queue, i + 1, Len(queue))
  BY DEF Tier!Without, Tier!RemoveAt
<1> HIDE DEF i
<1>3. SubSeq(queue, 1, i - 1) \in Seq(Tasks) /\ SubSeq(queue, i + 1, Len(queue)) \in Seq(Tasks)
  BY <1>1
<1>4. Tier!Without(t) \in Seq(Tasks)  BY <1>2, <1>3
<1> DEFINE rest == Tier!Without(t)
<1>5. Len(rest) = Len(queue) - 1
  <2>1. Len(SubSeq(queue, 1, i - 1)) = i - 1 /\ Len(SubSeq(queue, i + 1, Len(queue))) = Len(queue) - i
    BY <1>1
  <2> DEFINE a == SubSeq(queue, 1, i - 1)
             b == SubSeq(queue, i + 1, Len(queue))
  <2>2. Len(a) = i - 1 /\ Len(b) = Len(queue) - i  BY <2>1
  <2>c. a \in Seq(Tasks) /\ b \in Seq(Tasks)  BY <1>3
  <2>d. rest = a \o b  BY <1>2
  <2>3. i \in Int /\ Len(queue) \in Int  BY <1>1
  <2> HIDE DEF a, b, rest
  <2>a. Len(a \o b) = Len(a) + Len(b)  BY <2>c
  <2>b. Len(rest) = Len(a \o b)  BY <2>d
  <2>4. Len(rest) = Len(a) + Len(b)  BY <2>a, <2>b
  <2> QED  BY <2>2, <2>3, <2>4
<1>6. ASSUME NEW n \in 1..Len(queue)
      PROVE  Tier!InsertAt(rest, n, t) \in Seq(Tasks)
  <2>1. SubSeq(rest, 1, n - 1) \in Seq(Tasks) /\ SubSeq(rest, n, Len(rest)) \in Seq(Tasks)
    <3>1. rest \in Seq(Tasks)  BY <1>4
    <3> HIDE DEF rest
    <3> QED  BY <1>5, <3>1
  <2>2. <<t>> \in Seq(Tasks)  OBVIOUS
  <2> QED  BY <2>1, <2>2 DEF Tier!InsertAt
<1> QED  BY <1>4, <1>6

Inside(x) == x \notin {"out", "left"}
PCs == {"out", "loop", "left", "returned"} \cup Tasks

\* A step of one worker, which tells active_threads_ of an arrival and of a leave.
LEMMA WorkerMoves ==
  ASSUME TierInv, NEW w \in Workers, NEW x \in PCs, worker' = [worker EXCEPT ![w] = x],
         \/ Inside(worker[w]) /\ Inside(x) /\ active' = active
         \/ ~Inside(worker[w]) /\ Inside(x) /\ active' = active + 1
         \/ Inside(worker[w]) /\ ~Inside(x) /\ active' = active - 1
  PROVE  /\ worker' \in [Workers -> PCs]
         /\ IsFiniteSet(Counted(worker')) /\ active' = Cardinality(Counted(worker'))
<1> DEFINE C == Counted(worker)
           D == Counted(worker')
<1>1. worker \in [Workers -> PCs] /\ IsFiniteSet(C) /\ active = Cardinality(C)
  BY DEF TierInv, PCs
<1>2. worker' \in [Workers -> PCs]  BY <1>1
<1>3. \A v \in Workers : worker'[v] = IF v = w THEN x ELSE worker[v]  BY <1>1
<1>4. CASE Inside(worker[w]) /\ Inside(x) /\ active' = active
  <2>1. D = C  BY <1>1, <1>3, <1>4 DEF Counted, Inside
  <2> QED  BY <1>1, <1>2, <1>4, <2>1
<1>5. CASE ~Inside(worker[w]) /\ Inside(x) /\ active' = active + 1
  <2>1. D = C \cup {w} /\ w \notin C  BY <1>1, <1>3, <1>5 DEF Counted, Inside
  <2> HIDE DEF C, D
  <2>2. IsFiniteSet(C \cup {w}) /\ Cardinality(C \cup {w}) = Cardinality(C) + 1
    BY <1>1, <2>1, FS_AddElement
  <2>3. IsFiniteSet(D) /\ Cardinality(D) = active'  BY <1>1, <1>5, <2>1, <2>2
  <2> QED  BY <1>2, <2>3 DEF D
<1>6. CASE Inside(worker[w]) /\ ~Inside(x) /\ active' = active - 1
  <2>1. D = C \ {w} /\ w \in C  BY <1>1, <1>3, <1>6 DEF Counted, Inside
  <2> HIDE DEF C, D
  <2>2. IsFiniteSet(C \ {w}) /\ Cardinality(C \ {w}) = Cardinality(C) - 1
    BY <1>1, <2>1, FS_RemoveElement
  <2>3. IsFiniteSet(D) /\ Cardinality(D) = active'  BY <1>1, <1>6, <2>1, <2>2
  <2> QED  BY <1>2, <2>3 DEF D
<1> QED  BY <1>4, <1>5, <1>6

\* Steps of clients and batches: no worker moves.
LEMMA ClientKeeps ==
  ASSUME TierInv,
         \/ Tier!Start \/ Tier!PauseOrResume \/ Tier!Stop \/ Tier!StopReturn \/ Tier!TakeBatch
         \/ Tier!RunBatch
         \/ \E t \in Tasks : Tier!Submit(t) \/ Tier!AddTask(t) \/ Tier!RemoveTask(t) \/ Tier!Reorder(t)
  PROVE  TierInv'
<1>1. worker' = worker /\ active' = active
  BY DEF Tier!Start, Tier!PauseOrResume, Tier!Stop, Tier!StopReturn, Tier!TakeBatch, Tier!RunBatch,
         Tier!Submit, Tier!AddTask, Tier!RemoveTask, Tier!Reorder
<1>2. queue' \in Seq(Tasks)
  <2>t. queue \in Seq(Tasks)  BY DEF TierInv
  <2>1. CASE queue' = queue  BY <2>t, <2>1
  <2>2. CASE Tier!TakeBatch
    <3> DEFINE n == IF Len(queue) < BatchSize THEN Len(queue) ELSE BatchSize
    <3>1. n \in Nat /\ n <= Len(queue) /\ queue' = SubSeq(queue, n + 1, Len(queue))
      BY <2>t, <2>2, TierAssumption DEF Tier!TakeBatch
    <3> HIDE DEF n
    <3>2. n + 1 \in Nat  BY <3>1
    <3> QED  BY <2>t, <3>1, <3>2
  <2>3. ASSUME NEW t \in Tasks, Tier!Submit(t) \/ Tier!AddTask(t) PROVE queue' \in Seq(Tasks)
    BY <2>t, <2>3 DEF Tier!Submit, Tier!AddTask
  <2>4. ASSUME NEW t \in Tasks, Tier!RemoveTask(t) \/ Tier!Reorder(t) PROVE queue' \in Seq(Tasks)
    BY <2>t, <2>4, WithoutType DEF Tier!RemoveTask, Tier!Reorder
  <2>5. CASE Tier!Start \/ Tier!PauseOrResume \/ Tier!Stop \/ Tier!StopReturn \/ Tier!RunBatch
    BY <2>t, <2>5 DEF Tier!Start, Tier!PauseOrResume, Tier!Stop, Tier!StopReturn, Tier!RunBatch
  <2> QED  BY <2>2, <2>3, <2>4, <2>5
<1> QED  BY <1>1, <1>2 DEF TierInv

LEMMA WorkerKeeps ==
  ASSUME TierInv, NEW w \in Workers,
         Tier!Arrive(w) \/ Tier!Take(w) \/ Tier!Finish(w) \/ Tier!GiveUp(w) \/ Tier!Leave(w)
  PROVE  TierInv'
<1>t. queue \in Seq(Tasks) /\ Tasks \cap {"out", "left"} = {}  BY TierAssumption DEF TierInv
<1>1. CASE Tier!Arrive(w)
  <2>1. "loop" \in PCs /\ Inside("loop") /\ ~Inside(worker[w])  BY <1>1 DEF PCs, Inside, Tier!Arrive
  <2>2. worker' = [worker EXCEPT ![w] = "loop"] /\ active' = active + 1 /\ queue' = queue
    BY <1>1 DEF Tier!Arrive
  <2> QED  BY <1>t, <2>1, <2>2, WorkerMoves DEF TierInv, PCs
<1>2. CASE Tier!Take(w)
  <2>1. Head(queue) \in Tasks /\ Tail(queue) \in Seq(Tasks)  BY <1>t, <1>2 DEF Tier!Take
  <2>2. Head(queue) \in PCs /\ Inside(Head(queue)) /\ Inside(worker[w])
    BY <1>t, <1>2, <2>1 DEF PCs, Inside, Tier!Take
  <2>3. worker' = [worker EXCEPT ![w] = Head(queue)] /\ active' = active /\ queue' = Tail(queue)
    BY <1>2 DEF Tier!Take
  <2> QED  BY <2>1, <2>2, <2>3, WorkerMoves DEF TierInv, PCs
<1>3. CASE Tier!Finish(w)
  <2>1. "loop" \in PCs /\ Inside("loop") /\ Inside(worker[w])
    BY <1>t, <1>3 DEF PCs, Inside, Tier!Finish, Tier!Busy
  <2>2. worker' = [worker EXCEPT ![w] = "loop"] /\ active' = active /\ queue' = queue
    BY <1>3 DEF Tier!Finish
  <2> QED  BY <1>t, <2>1, <2>2, WorkerMoves DEF TierInv, PCs
<1>4. CASE Tier!GiveUp(w)
  <2>1. "returned" \in PCs /\ Inside("returned") /\ Inside(worker[w])
    BY <1>t, <1>4 DEF PCs, Inside, Tier!GiveUp, Tier!Busy
  <2>2. worker' = [worker EXCEPT ![w] = "returned"] /\ active' = active /\ queue' = queue
    BY <1>4 DEF Tier!GiveUp, Tier!ReturnedEarly
  <2> QED  BY <1>t, <2>1, <2>2, WorkerMoves DEF TierInv, PCs
<1>5. CASE Tier!Leave(w)
  <2>1. "left" \in PCs /\ ~Inside("left") /\ Inside(worker[w])  BY <1>5 DEF PCs, Inside, Tier!Leave
  <2>2. worker' = [worker EXCEPT ![w] = "left"] /\ active' = active - 1 /\ queue' = queue
    BY <1>5 DEF Tier!Leave
  <2> QED  BY <1>t, <2>1, <2>2, WorkerMoves DEF TierInv, PCs
<1> QED  BY <1>1, <1>2, <1>3, <1>4, <1>5

\* The invariant of a behaviour about a tier, beside those about the others.
FocusInv == focus = "tier" => TierInv

LEMMA FocusInit == MCInit => FocusInv
<1> SUFFICES ASSUME MCInit, focus = "tier" PROVE TierInv  BY DEF FocusInv
<1>1. Tier!Init  BY DEF MCInit
<1>2. Counted(worker) = {}  BY <1>1 DEF Tier!Init, Counted
<1>3. IsFiniteSet(Counted(worker)) /\ Cardinality(Counted(worker)) = 0
  BY <1>2, FS_EmptySet
<1>4. <<>> \in Seq(Tasks)  OBVIOUS
<1> QED  BY <1>1, <1>3, <1>4 DEF Tier!Init, TierInv

LEMMA FocusNext == FocusInv /\ [MCNext]_allVars => FocusInv'
<1> SUFFICES ASSUME FocusInv, [MCNext]_allVars PROVE FocusInv'  OBVIOUS
<1>1. CASE UNCHANGED allVars
  BY <1>1 DEF allVars, FocusInv, TierInv, Counted, tier
<1>2. CASE MCNext /\ focus # "tier"
  BY <1>2 DEF MCNext, FocusInv, OthersThanService
<1>3. CASE MCNext /\ focus = "tier"
  <2>1. Tier!Next /\ focus' = focus /\ TierInv  BY <1>3 DEF MCNext, FocusInv
  <2>2. TierInv'  BY <2>1, ClientKeeps, WorkerKeeps DEF Tier!Next
  <2> QED  BY <2>2 DEF FocusInv
<1> QED  BY <1>1, <1>2, <1>3

\* A worker of the high kernel that returned after a timeout or for want of
\* resources stays counted in active_threads_, for which stop() waits: that call
\* never returns, for any number of workers and whatever the others do.
THEOREM GivenUpStopHangs == MCSpec => GivenUpBlocksStop
<1>1. FocusInv /\ [MCNext]_allVars => [focus = "tier" => Tier!Stuck]_allVars
  <2> SUFFICES ASSUME FocusInv, MCNext, focus = "tier", NEW w \in Workers, worker[w] = "returned",
                      stopping, ~stopping'
               PROVE  FALSE
    BY DEF Tier!Stuck
  <2>1. Tier!Next /\ TierInv  BY DEF MCNext, FocusInv
  <2>2. Tier!StopReturn
    BY <2>1 DEF Tier!Next, Tier!Start, Tier!PauseOrResume, Tier!Stop, Tier!TakeBatch, Tier!RunBatch,
                Tier!Submit, Tier!AddTask, Tier!RemoveTask, Tier!Reorder, Tier!Arrive, Tier!Take,
                Tier!Finish, Tier!GiveUp, Tier!Leave, Tier!flags
  <2>3. Cardinality(Counted(worker)) = 0 /\ IsFiniteSet(Counted(worker))
    BY <2>1, <2>2 DEF Tier!StopReturn, TierInv
  <2>4. Counted(worker) = {}  BY <2>3, FS_EmptySet
  <2>5. w \in Counted(worker)  BY DEF Counted
  <2> QED  BY <2>4, <2>5
<1> QED  BY FocusInit, FocusNext, <1>1, PTL DEF MCSpec, GivenUpBlocksStop
=============================================================================
