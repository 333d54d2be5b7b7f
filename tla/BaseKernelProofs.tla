-------------------------- MODULE BaseKernelProofs --------------------------
(***************************************************************************)
(* The safety of BaseKernel for any finite set of workers and any set of   *)
(* tasks.  Shape says what a control state stands for: which workers       *)
(* active_threads_ counts, which hold a task, and that a finished stop()   *)
(* leaves only exited workers.  The other invariants rest on it.           *)
(***************************************************************************)
EXTENDS BaseKernel, FiniteSetTheorems, SequenceTheorems, TLAPS

\* The workers that have announced their arrival and not their departure.
Counted == {w \in Workers : worker[w] \in {"loop", "waiting", "run", "leaving"}}

ActiveInv == active = Cardinality(Counted)

\* A worker that runs has a task.
JobInv == \A w \in Workers : worker[w] = "run" => job[w] \in Tasks

\* What stop() returns with.
JoinedInv ==
  (~running /\ shutting /\ owner = "idle") => \A w \in Workers : worker[w] = "exited"

\* TypeOK without the bound of active_threads_, which follows from ActiveInv.
Types ==
  /\ running \in BOOLEAN /\ paused \in BOOLEAN /\ shutting \in BOOLEAN
  /\ queue \in Seq(Tasks) /\ taskCount \in Int
  /\ worker \in [Workers -> WorkerPC] /\ job \in [Workers -> Tasks \cup {NoTask}]
  /\ owner \in OwnerPC /\ mutex \in {"free", "owner"}
  /\ notices \in Nat
  /\ done \subseteq Tasks /\ late \subseteq Tasks
  /\ missed \subseteq {"departure", "arrival"}

Shape == Types /\ JobInv /\ JoinedInv

USE WorkersAssumption, TasksAssumption

LEMMA InitShape == Init => Shape /\ ActiveInv
<1> SUFFICES ASSUME Init PROVE Shape /\ ActiveInv
  OBVIOUS
<1> USE DEF Init
<1>1. Shape
  <2>1. worker \in [Workers -> WorkerPC]
    BY DEF WorkerPC
  <2>2. queue \in Seq(Tasks)
    OBVIOUS
  <2>3. owner \in OwnerPC
    BY DEF OwnerPC
  <2>4. job \in [Workers -> Tasks \cup {NoTask}]
    OBVIOUS
  <2>5. taskCount \in Int /\ notices \in Nat
    OBVIOUS
  <2>6. done \subseteq Tasks /\ late \subseteq Tasks /\ missed \subseteq {"departure", "arrival"}
    OBVIOUS
  <2>7. Types
    BY <2>1, <2>2, <2>3, <2>4, <2>5, <2>6 DEF Types
  <2>8. QED  BY <2>7 DEF Shape, JobInv, JoinedInv
<1>2. Counted = {}
  BY DEF Counted
<1>3. QED  BY <1>1, <1>2, FS_EmptySet DEF ActiveInv

-----------------------------------------------------------------------------
\* Operations of the clients.
LEMMA ClientShape ==
  ASSUME Shape, (\E t \in Tasks : Submit(t)) \/ Notify \/ Pause \/ Resume
  PROVE  Shape'
<1> USE DEF Shape, Types, JobInv, JoinedInv, WorkerPC, OwnerPC, flagVars, taskVars
<1>1. CASE \E t \in Tasks : Submit(t)
  BY <1>1 DEF Submit
<1>2. CASE Notify
  BY <1>2 DEF Notify, OneNotified, Waiting
<1>3. CASE Pause
  BY <1>3 DEF Pause
<1>4. CASE Resume
  BY <1>4 DEF Resume, Woken, WakeAll
<1>5. QED  BY <1>1, <1>2, <1>3, <1>4

\* Steps of a worker.
LEMMA WorkerShape ==
  ASSUME Shape, NEW w \in Workers, WorkerStep(w) \/ SpuriousWakeup(w)
  PROVE  Shape'
<1> USE DEF Shape, Types, JobInv, JoinedInv, WorkerPC, OwnerPC, flagVars, taskVars
<1>1. CASE Arrive(w)
  BY <1>1 DEF Arrive
<1>2. CASE Wait(w)
  BY <1>2 DEF Wait
<1>3. CASE Leave(w)
  BY <1>3 DEF Leave
<1>4. CASE Take(w)
  BY <1>4 DEF Take
<1>5. CASE Finish(w)
  BY <1>5 DEF Finish, Uncounted
<1>6. CASE Depart(w)
  BY <1>6 DEF Depart
<1>7. CASE Announce(w)
  BY <1>7 DEF Announce, OwnerNotified
<1>8. CASE SpuriousWakeup(w)
  BY <1>8 DEF SpuriousWakeup
<1>9. QED
  BY <1>1, <1>2, <1>3, <1>4, <1>5, <1>6, <1>7, <1>8 DEF WorkerStep

\* Steps of the owner.
LEMMA OwnerShape ==
  ASSUME Shape, Start \/ Stop \/ Check \/ Block \/ SpuriousOwner \/ Join
  PROVE  Shape'
<1> USE DEF Shape, Types, JobInv, JoinedInv, WorkerPC, OwnerPC, flagVars, taskVars
<1>1. CASE Start
  BY <1>1 DEF Start, WakeAll
<1>2. CASE Stop
  BY <1>2 DEF Stop, WakeAll
<1>3. CASE Check
  BY <1>3 DEF Check
<1>4. CASE Block \/ SpuriousOwner
  BY <1>4 DEF Block, SpuriousOwner
<1>5. CASE Join
  BY <1>5 DEF Join
<1>6. QED  BY <1>1, <1>2, <1>3, <1>4, <1>5

LEMMA StepShape == Shape /\ [Next]_vars => Shape'
<1> SUFFICES ASSUME Shape, [Next]_vars PROVE Shape'
  OBVIOUS
<1>1. CASE UNCHANGED vars
  BY <1>1 DEF Shape, Types, JobInv, JoinedInv, vars, flagVars, taskVars
<1>2. CASE Next
  BY <1>2, ClientShape, WorkerShape, OwnerShape DEF Next
<1>3. QED  BY <1>1, <1>2

\* What the control states stand for holds in every kernel; in particular a
\* stop() that has returned leaves every worker exited.
THEOREM ShapeHolds == Spec => []Shape
  BY InitShape, StepShape, PTL DEF Spec

-----------------------------------------------------------------------------
(* Counting.                                                               *)

\* A worker that moves from one state to another changes a count of workers by
\* at most itself.
LEMMA CountMoves ==
  ASSUME NEW S \in SUBSET Workers, NEW w \in Workers
  PROVE  /\ Cardinality(S) \in Nat
         /\ w \notin S => Cardinality(S \cup {w}) = Cardinality(S) + 1
         /\ w \in S => Cardinality(S \ {w}) = Cardinality(S) - 1
<1>1. IsFiniteSet(S)
  BY FS_Subset
<1>2. Cardinality(S) \in Nat
  BY <1>1, FS_CardinalityType
<1>3. w \notin S => Cardinality(S \cup {w}) = Cardinality(S) + 1
  BY <1>1, FS_AddElement
<1>4. w \in S => Cardinality(S \ {w}) = Cardinality(S) - 1
  BY <1>1, FS_RemoveElement
<1>5. QED  BY <1>2, <1>3, <1>4

\* active_threads_ moves only with an arrival or a departure.
LEMMA StepActive == Shape /\ ActiveInv /\ [Next]_vars => ActiveInv'
<1> SUFFICES ASSUME Shape, ActiveInv, [Next]_vars PROVE ActiveInv'
  OBVIOUS
<1> USE DEF Shape, Types, ActiveInv
<1>1. CASE \E w \in Workers : Arrive(w)
  <2>1. PICK w \in Workers : Arrive(w)
    BY <1>1
  <2>2. w \notin Counted /\ Counted' = Counted \cup {w}
    BY <2>1 DEF Arrive, Counted
  <2>3. Cardinality(Counted') = Cardinality(Counted) + 1
    BY <2>2, CountMoves DEF Counted
  <2>4. QED  BY <2>1, <2>3 DEF Arrive, Announced
<1>2. CASE \E w \in Workers : Depart(w)
  <2>1. PICK w \in Workers : Depart(w)
    BY <1>2
  <2>2. w \in Counted /\ Counted' = Counted \ {w}
    BY <2>1 DEF Depart, Counted
  <2>3. Cardinality(Counted') = Cardinality(Counted) - 1
    BY <2>2, CountMoves DEF Counted
  <2>4. QED  BY <2>1, <2>3 DEF Depart
<1>3. CASE active' = active /\ Counted' = Counted
  BY <1>3
<1>4. CASE \E w \in Workers : \/ Wait(w) \/ Leave(w) \/ Take(w) \/ Finish(w)
                              \/ Announce(w) \/ SpuriousWakeup(w)
  <2>1. active' = active /\ Counted' = Counted
    BY <1>4 DEF Wait, Leave, Take, Finish, Announce, SpuriousWakeup, Counted
  <2>2. QED  BY <2>1
<1>5. CASE Notify
  BY <1>5, <1>3 DEF Notify, OneNotified, Waiting, Counted
<1>6. CASE \/ \E t \in Tasks : Submit(t)
           \/ Pause \/ Resume \/ Start \/ Stop \/ Check \/ Block \/ SpuriousOwner \/ Join
  <2>1. active' = active /\ Counted' = Counted
    BY <1>6 DEF Submit, Pause, Resume, Woken, WakeAll, Start, Stop, Check, Block,
                SpuriousOwner, Join, Counted
  <2>2. QED  BY <2>1
<1>7. CASE UNCHANGED vars
  BY <1>7, <1>3 DEF vars, Counted
<1>8. QED
  BY <1>1, <1>2, <1>4, <1>5, <1>6, <1>7 DEF Next, WorkerStep

\* Types are respected; active_threads_ is between zero and the number of
\* workers, so its unsigned decrement never wraps around.
THEOREM TypeCorrect == Spec => []TypeOK
<1>1. Shape /\ ActiveInv => TypeOK
  <2> SUFFICES ASSUME Shape, ActiveInv PROVE TypeOK
    OBVIOUS
  <2>1. Counted \subseteq Workers
    BY DEF Counted
  <2>2. Cardinality(Counted) \in Nat /\ Cardinality(Workers) \in Nat
        /\ Cardinality(Counted) <= Cardinality(Workers)
    BY <2>1, FS_Subset, FS_CardinalityType
  <2>3. active \in 0..Cardinality(Workers)
    BY <2>2 DEF ActiveInv
  <2>4. QED  BY <2>3 DEF Shape, Types, TypeOK
<1>2. QED
  BY <1>1, InitShape, StepActive, ShapeHolds, PTL DEF Spec

\* task_count_ moves with submissions and with tasks that end, not with pops.
LEMMA StepCount == Shape /\ TaskCountExact /\ [Next]_vars => TaskCountExact'
<1> SUFFICES ASSUME Shape, TaskCountExact, [Next]_vars PROVE TaskCountExact'
  OBVIOUS
<1> USE DEF Shape, Types, TaskCountExact
<1>1. CASE \E t \in Tasks : Submit(t)
  <2>1. PICK t \in Tasks : Submit(t)
    BY <1>1
  <2>2. Len(queue') = Len(queue) + 1 /\ Busy' = Busy
    BY <2>1 DEF Submit, Busy
  <2>3. Cardinality(Busy) \in Nat
    BY FS_Subset, FS_CardinalityType DEF Busy
  <2>4. QED  BY <2>1, <2>2, <2>3 DEF Submit
<1>2. CASE \E w \in Workers : Take(w)
  <2>1. PICK w \in Workers : Take(w)
    BY <1>2
  <2>2. w \notin Busy /\ Busy' = Busy \cup {w}
    BY <2>1 DEF Take, Busy
  <2>3. Cardinality(Busy) \in Nat /\ Cardinality(Busy') = Cardinality(Busy) + 1
    BY <2>2, CountMoves DEF Busy
  <2>4. Len(queue') = Len(queue) - 1
    BY <2>1 DEF Take
  <2>5. QED  BY <2>1, <2>3, <2>4 DEF Take
<1>3. CASE \E w \in Workers : Finish(w)
  <2>1. PICK w \in Workers : Finish(w)
    BY <1>3
  <2>2. w \in Busy /\ Busy' = Busy \ {w}
    BY <2>1 DEF Finish, Busy
  <2>3. Cardinality(Busy) \in Nat /\ Cardinality(Busy') = Cardinality(Busy) - 1
    BY <2>2, CountMoves DEF Busy
  <2>4. QED  BY <2>1, <2>3 DEF Finish, Uncounted
<1>4. CASE taskCount' = taskCount /\ queue' = queue /\ Busy' = Busy
  BY <1>4
<1>5. CASE \E w \in Workers : \/ Arrive(w) \/ Wait(w) \/ Leave(w) \/ Depart(w)
                              \/ Announce(w) \/ SpuriousWakeup(w)
  <2>1. taskCount' = taskCount /\ queue' = queue /\ Busy' = Busy
    BY <1>5 DEF Arrive, Wait, Leave, Depart, Announce, SpuriousWakeup, Busy, taskVars
  <2>2. QED  BY <2>1
<1>6. CASE Notify
  BY <1>6, <1>4 DEF Notify, OneNotified, Waiting, Busy, taskVars
<1>7. CASE Pause \/ Resume \/ Start \/ Stop \/ Check \/ Block \/ SpuriousOwner \/ Join
  <2>1. taskCount' = taskCount /\ queue' = queue /\ Busy' = Busy
    BY <1>7 DEF Pause, Resume, Woken, WakeAll, Start, Stop, Check, Block,
                SpuriousOwner, Join, Busy, taskVars
  <2>2. QED  BY <2>1
<1>8. CASE UNCHANGED vars
  BY <1>8, <1>4 DEF vars, taskVars, Busy
<1>9. QED
  BY <1>1, <1>2, <1>3, <1>5, <1>6, <1>7, <1>8 DEF Next, WorkerStep

\* task_count_ is the tasks queued and being run, at every moment, for any
\* number of workers that decrement it outside the lock.
THEOREM CountExact == Spec => []TaskCountExact
<1>1. Init => TaskCountExact
  <2> SUFFICES ASSUME Init PROVE TaskCountExact
    OBVIOUS
  <2>1. Busy = {}
    BY DEF Init, Busy
  <2>2. QED  BY <2>1, FS_EmptySet DEF Init, TaskCountExact
<1>2. QED  BY <1>1, StepCount, ShapeHolds, PTL DEF Spec

-----------------------------------------------------------------------------
(* No wakeup is lost.                                                      *)

\* A worker goes to sleep only when there is nothing to run.
LEMMA WorkerWakeup ==
  ASSUME Shape, NoLostWakeup, NEW w \in Workers, WorkerStep(w) \/ SpuriousWakeup(w)
  PROVE  NoLostWakeup'
<1> USE DEF Shape, Types, NoLostWakeup, Alive, Waiting, flagVars
<1>1. CASE Wait(w)
  BY <1>1 DEF Wait, taskVars
<1>2. CASE Leave(w)
  BY <1>2 DEF Leave, MayLeave, taskVars
<1>3. CASE worker'[w] \in {"loop", "run"}
  BY <1>3
<1>4. CASE Depart(w)
  <2>1. Alive' = Alive /\ Waiting' = Waiting
    BY <1>4 DEF Depart
  <2>2. QED  BY <1>4, <2>1 DEF Depart, taskVars
<1>5. CASE Announce(w)
  <2>1. Alive' = Alive /\ Waiting' = Waiting
    BY <1>5 DEF Announce
  <2>2. QED  BY <1>5, <2>1 DEF Announce, taskVars
<1>6. QED
  BY <1>1, <1>2, <1>3, <1>4, <1>5 DEF WorkerStep, Arrive, Take, Finish, SpuriousWakeup

\* Submissions and their notifications.
LEMMA ClientWakeup ==
  ASSUME Shape, NoLostWakeup, (\E t \in Tasks : Submit(t)) \/ Notify \/ Pause \/ Resume
  PROVE  NoLostWakeup'
<1> USE DEF Shape, Types, NoLostWakeup, Alive, Waiting, flagVars
<1>1. CASE \E t \in Tasks : Submit(t)
  BY <1>1 DEF Submit
<1>2. CASE Notify
  <2>1. CASE Waiting = {}
    BY <1>2, <2>1 DEF Notify, OneNotified
  <2>2. CASE Waiting # {}
    <3>1. PICK w \in Waiting : worker' = [worker EXCEPT ![w] = "loop"]
      BY <1>2, <2>2 DEF Notify, OneNotified
    <3>2. w \in Workers /\ worker'[w] = "loop"
      BY <3>1
    <3>3. QED  BY <3>2
  <2>3. QED  BY <2>1, <2>2
<1>3. CASE Pause
  BY <1>3 DEF Pause
<1>4. CASE Resume
  BY <1>4 DEF Resume, Woken, WakeAll
<1>5. QED  BY <1>1, <1>2, <1>3, <1>4

\* start() and stop() wake every waiter.
LEMMA OwnerWakeup ==
  ASSUME Shape, NoLostWakeup, Start \/ Stop \/ Check \/ Block \/ SpuriousOwner \/ Join
  PROVE  NoLostWakeup'
<1> USE DEF Shape, Types, NoLostWakeup, Alive, Waiting, flagVars, taskVars
<1>1. CASE Start
  BY <1>1 DEF Start, WakeAll
<1>2. CASE Stop
  BY <1>2 DEF Stop
<1>3. CASE Check \/ Block \/ SpuriousOwner \/ Join
  BY <1>3 DEF Check, Block, SpuriousOwner, Join
<1>4. QED  BY <1>1, <1>2, <1>3

\* With work to do, an unpaused running kernel has a worker awake or a
\* notification under way, for any number of workers and submitters.
THEOREM WakeupNeverLost == Spec => []NoLostWakeup
<1>1. Init => NoLostWakeup
  BY DEF Init, NoLostWakeup
<1>2. Shape /\ NoLostWakeup /\ [Next]_vars => NoLostWakeup'
  <2> SUFFICES ASSUME Shape, NoLostWakeup, [Next]_vars PROVE NoLostWakeup'
    OBVIOUS
  <2>1. CASE UNCHANGED vars
    BY <2>1 DEF NoLostWakeup, Alive, Waiting, vars, flagVars, taskVars
  <2>2. CASE Next
    BY <2>2, ClientWakeup, WorkerWakeup, OwnerWakeup DEF Next
  <2>3. QED  BY <2>1, <2>2
<1>3. QED  BY <1>1, <1>2, ShapeHolds, PTL DEF Spec

-----------------------------------------------------------------------------
(* What stop() leaves behind.                                              *)

\* Once the last worker has left, only late tasks are queued: it found the queue
\* empty.
Drained == Alive = {} => \A n \in 1..Len(queue) : queue[n] \in late

LEMMA StepDrained == Shape /\ Drained /\ [Next]_vars => Drained'
<1> SUFFICES ASSUME Shape, Drained, [Next]_vars, Alive' = {}
             PROVE  \A n \in 1..Len(queue') : queue'[n] \in late'
  BY DEF Drained
<1> USE DEF Shape, Types, Drained, Alive, flagVars, taskVars
<1>1. CASE \E t \in Tasks : Submit(t)
  <2>1. PICK t \in Tasks : Submit(t)
    BY <1>1
  <2>2. Alive = {}
    BY <2>1 DEF Submit
  <2>3. late' = late \cup {t} /\ queue' = Append(queue, t)
    BY <2>1, <2>2 DEF Submit
  <2>4. \A n \in 1..Len(queue') : queue'[n] = t \/ (n \in 1..Len(queue) /\ queue'[n] = queue[n])
    BY <2>3
  <2>5. QED  BY <2>2, <2>3, <2>4
<1>2. CASE \E w \in Workers : Leave(w)
  BY <1>2 DEF Leave, MayLeave
<1>3. CASE \E w \in Workers : \/ Arrive(w) \/ Wait(w) \/ Take(w) \/ Finish(w)
                              \/ SpuriousWakeup(w)
  <2>1. PICK w \in Workers : worker'[w] \in {"loop", "waiting", "run"}
    BY <1>3 DEF Arrive, Wait, Take, Finish, SpuriousWakeup
  <2>2. w \in Alive'
    BY <2>1
  <2>3. QED  BY <2>2
<1>4. CASE \E w \in Workers : Depart(w) \/ Announce(w)
  <2>1. Alive = {}
    BY <1>4 DEF Depart, Announce
  <2>2. QED  BY <1>4, <2>1 DEF Depart, Announce
<1>5. CASE Notify
  <2>1. Alive = {}
    BY <1>5 DEF Notify, OneNotified, Waiting
  <2>2. QED  BY <1>5, <2>1 DEF Notify
<1>6. CASE Pause \/ Resume \/ Start \/ Stop \/ Check \/ Block \/ SpuriousOwner \/ Join
  <2>1. Alive = {}
    BY <1>6 DEF Pause, Resume, Woken, WakeAll, Start, Stop, Check, Block, SpuriousOwner, Join
  <2>2. QED
    BY <1>6, <2>1 DEF Pause, Resume, Start, Stop, Check, Block, SpuriousOwner, Join
<1>7. CASE UNCHANGED vars
  BY <1>7 DEF vars
<1>8. QED
  BY <1>1, <1>2, <1>3, <1>4, <1>5, <1>6, <1>7 DEF Next, WorkerStep

\* stop() leaves no accepted task behind but those that came when every worker
\* had left.
THEOREM StopDrainsQueue == Spec => []StopDrains
<1>1. Init => Drained
  BY DEF Init, Drained
<1>2. Shape /\ Drained => StopDrains
  BY DEF Shape, JoinedInv, Drained, Alive, StopDrains
<1>3. QED  BY <1>1, <1>2, StepDrained, ShapeHolds, PTL DEF Spec
=============================================================================
