-------------------------- MODULE ThreadPoolProofs --------------------------
(***************************************************************************)
(* The safety of the thread pool for any number of tasks, clients, threads *)
(* and queue limits.  Shape, which says how the control states of owner    *)
(* and workers fit together, is inductive by itself; the other invariants  *)
(* are inductive relative to it.                                           *)
(***************************************************************************)
EXTENDS ThreadPool, FiniteSetTheorems, SequenceTheorems, TLAPS

\* A slot beyond the vector holds no thread.
SlotsInv == \A w \in Slots : w > size => worker[w] = "absent"

\* The owner joins a suffix of the vector; stop() joins all of it.
JoinInv ==
  owner \in {"stopJoin", "shrinkJoin"} =>
    \E n \in 0..size : joining = (n + 1)..size /\ (owner = "stopJoin" => n = 0)

\* While the owner stops or shrinks the pool stop_ is set, and once it has
\* notified nobody sleeps again.
StopInv ==
  /\ owner # "idle" => stop
  /\ owner \in {"stopJoin", "shrinkJoin"} => \A w \in Slots : worker[w] # "waiting"

\* A worker holds a task exactly between the pop and the end of the task.
JobInv == \A w \in Slots : worker[w] \in {"got", "drop"} <=> job[w] # NoTask

Shape == TypeOK /\ SlotsInv /\ JoinInv /\ StopInv /\ JobInv

USE ThreadsAssumption, LimitsAssumption, TasksAssumption

LEMMA InitShape == Init => Shape
<1> SUFFICES ASSUME Init PROVE Shape
  OBVIOUS
<1> USE DEF Init, Slots, Threads, WorkerPC, ClientPC, OwnerPC, Status
<1>1. TypeOK
  <2>1. worker \in [Slots -> WorkerPC]
    OBVIOUS
  <2>2. queue \in Seq(Tasks)
    OBVIOUS
  <2>3. size \in 0..MaxThreads /\ capacity \in 1..MaxThreads /\ limit \in QueueLimits
    OBVIOUS
  <2>4. QED  BY <2>1, <2>2, <2>3 DEF TypeOK
<1>2. SlotsInv /\ JoinInv /\ StopInv /\ JobInv
  BY DEF SlotsInv, JoinInv, StopInv, JobInv
<1>3. QED  BY <1>1, <1>2 DEF Shape

\* The vector keeps n of its threads when the last ones have been joined.
LEMMA JoinedSize ==
  ASSUME NEW s \in Nat, NEW n \in 0..s
  PROVE  s - Cardinality((n + 1)..s) = n
<1>1. Cardinality((n + 1)..s) = IF n + 1 > s THEN 0 ELSE s - (n + 1) + 1
  BY FS_Interval
<1>2. QED  BY <1>1

-----------------------------------------------------------------------------
\* No step of a client breaks Shape.
LEMMA SubmitShape ==
  ASSUME Shape, NEW c \in Clients, Submit(c)
  PROVE  Shape'
<1> USE DEF Shape, TypeOK, SlotsInv, JoinInv, StopInv, JobInv, Slots, Threads,
            WorkerPC, ClientPC, OwnerPC, Status, vars, poolVars, sizeVars,
            ownerVars, countVars, histVars
<1>1. CASE \E t \in Tasks : Accept(c, t)
  BY <1>1 DEF Accept
<1>2. CASE \E t \in Tasks : Reject(c, t)
  BY <1>2 DEF Reject
<1>3. CASE CountRejected(c)
  BY <1>3 DEF CountRejected, Incremented
<1>4. CASE Notify(c)
  BY <1>4 DEF Notify, NotifyOne, Waiting
<1>5. QED  BY <1>1, <1>2, <1>3, <1>4 DEF Submit

\* No step of a worker breaks Shape.
LEMMA WorkerShape ==
  ASSUME Shape, NEW w \in Slots, WorkerStep(w) \/ SpuriousWakeup(w)
  PROVE  Shape'
<1> USE DEF Shape, TypeOK, SlotsInv, JoinInv, StopInv, JobInv, Slots, Threads,
            WorkerPC, ClientPC, OwnerPC, Status, vars, poolVars, sizeVars,
            ownerVars, countVars, histVars
<1>1. CASE Wait(w)
  BY <1>1 DEF Wait, Ready
<1>2. CASE Exit(w)
  BY <1>2 DEF Exit
<1>3. CASE Take(w)
  BY <1>3 DEF Take, FrontPopped
<1>4. CASE FindStale(w)
  BY <1>4 DEF FindStale
<1>5. CASE CountStale(w)
  <2>1. seen[w] \in Nat
    OBVIOUS
  <2>2. failed' \in Nat
    BY <1>5, <2>1 DEF CountStale, Incremented
  <2>3. QED  BY <1>5, <2>2 DEF CountStale
<1>6. CASE Finish(w)
  BY <1>6 DEF Finish
<1>7. CASE CountCompleted(w)
  <2>1. seen[w] \in Nat
    OBVIOUS
  <2>2. completed' \in Nat
    BY <1>7, <2>1 DEF CountCompleted, Incremented
  <2>3. QED  BY <1>7, <2>2 DEF CountCompleted
<1>8. CASE Update(w)
  BY <1>8 DEF Update
<1>9. CASE SpuriousWakeup(w)
  BY <1>9 DEF SpuriousWakeup
<1>10. QED
  BY <1>1, <1>2, <1>3, <1>4, <1>5, <1>6, <1>7, <1>8, <1>9 DEF WorkerStep

\* No step of the owner breaks Shape.
LEMMA OwnerShape ==
  ASSUME Shape, Owner
  PROVE  Shape'
<1> USE DEF Shape, TypeOK, SlotsInv, JoinInv, StopInv, JobInv, Slots, Threads,
            WorkerPC, ClientPC, OwnerPC, Status, vars, poolVars, sizeVars,
            ownerVars, countVars, histVars
<1>1. CASE Pause \/ Resume
  BY <1>1 DEF Pause, Resume
<1>2. CASE \E n \in QueueLimits : SetMaxQueueSize(n)
  BY <1>2 DEF SetMaxQueueSize
<1>3. CASE \E n \in 0..MaxThreads : Grow(n)
  BY <1>3 DEF Grow, Spawn
<1>4. CASE \E n \in 0..MaxThreads : Shrink(n)
  BY <1>4 DEF Shrink, WakeAll
<1>5. CASE StopSet
  BY <1>5 DEF StopSet
<1>6. CASE StopNotify
  BY <1>6 DEF StopNotify, WakeAll
<1>7. CASE JoinDone
  <2>1. PICK n \in 0..size : joining = (n + 1)..size
    BY <1>7 DEF JoinDone
  <2>2. size' = n
    BY <1>7, <2>1, JoinedSize DEF JoinDone
  <2>3. failed' \in Nat
    <3>1. CASE owner = "stopJoin"
      <4>1. Len(queue) \in Nat
        OBVIOUS
      <4>2. QED  BY <1>7, <3>1, <4>1 DEF JoinDone
    <3>2. CASE owner # "stopJoin"
      BY <1>7, <3>2 DEF JoinDone
    <3>3. QED  BY <3>1, <3>2
  <2>4. queue' \in Seq(Tasks)
    <3>1. queue' = <<>> \/ queue' = queue
      BY <1>7 DEF JoinDone
    <3>2. queue \in Seq(Tasks) /\ <<>> \in Seq(Tasks)
      OBVIOUS
    <3>3. QED  BY <3>1, <3>2
  <2>9. stop' \in BOOLEAN
    BY <1>7 DEF JoinDone
  <2>7. status' \in [Tasks -> Status]
    <3>1. CASE owner = "stopJoin"
      <4>1. status' = [t \in Tasks |-> IF status[t] = "queued" THEN "dropped" ELSE status[t]]
        BY <1>7, <3>1 DEF JoinDone
      <4>2. \A t \in Tasks : status[t] \in Status
        OBVIOUS
      <4>3. QED  BY <4>1, <4>2
    <3>2. CASE owner # "stopJoin"
      BY <1>7, <3>2 DEF JoinDone
    <3>3. QED  BY <3>1, <3>2
  <2>8. worker' \in [Slots -> WorkerPC]
    BY <1>7 DEF JoinDone
  <2>5. TypeOK'
    <3> HIDE DEF Slots, Threads, WorkerPC, ClientPC, Status, SlotsInv, JoinInv, StopInv, JobInv
    <3>1. size' \in 0..MaxThreads
      BY <2>1, <2>2
    <3>2. UNCHANGED <<pause, limit, capacity, completed, seen, histVars, job, client>>
      BY <1>7 DEF JoinDone
    <3>3. owner' \in OwnerPC /\ joining' \in SUBSET Slots /\ mutex' \in {"free", "client", "owner"}
      BY <1>7 DEF JoinDone
    <3>4. QED  BY <2>3, <2>4, <2>7, <2>8, <2>9, <3>1, <3>2, <3>3
  <2>6. \A w \in Slots : worker'[w] = IF w \in joining THEN "absent" ELSE worker[w]
    BY <1>7 DEF JoinDone
  <2>10. SlotsInv'
    BY <2>1, <2>2, <2>6
  <2>11. JoinInv' /\ StopInv'
    BY <1>7 DEF JoinDone
  <2>12. JobInv'
    BY <1>7, <2>6 DEF JoinDone
  <2>13. QED
    BY <2>5, <2>10, <2>11, <2>12
<1>8. CASE Start
  BY <1>8 DEF Start, Spawn
<1>9. QED
  BY <1>1, <1>2, <1>3, <1>4, <1>5, <1>6, <1>7, <1>8 DEF Owner

LEMMA StepShape == Shape /\ [Next]_vars => Shape'
<1> SUFFICES ASSUME Shape, [Next]_vars PROVE Shape'
  OBVIOUS
<1>1. CASE UNCHANGED vars
  BY <1>1 DEF Shape, TypeOK, SlotsInv, JoinInv, StopInv, JobInv, vars, poolVars,
              sizeVars, ownerVars, countVars, histVars
<1>2. CASE Next
  BY <1>2, SubmitShape, WorkerShape, OwnerShape DEF Next
<1>3. QED  BY <1>1, <1>2

\* The type invariant, and the structure the owner and the workers keep, hold
\* for every pool: in particular stop() and setThreadCount always join a suffix
\* of the vector, and the vector never outgrows its threads.
THEOREM ShapeHolds == Spec => []Shape
  BY InitShape, StepShape, PTL DEF Spec

\* The type invariant of the pool.
THEOREM TypeCorrect == Spec => []TypeOK
  BY ShapeHolds, PTL DEF Shape

-----------------------------------------------------------------------------
(* No wakeup is lost.                                                      *)

\* A step of a client that leaves the pool stalled found it stalled.
LEMMA SubmitWakeup ==
  ASSUME Shape, NoLostWakeup, NEW c \in Clients, Submit(c)
  PROVE  NoLostWakeup'
<1> SUFFICES ASSUME Stalled' PROVE backlog'
  BY DEF NoLostWakeup
<1> USE DEF Shape, TypeOK, NoLostWakeup, Stalled, Alive, Waiting, vars, poolVars,
            sizeVars, ownerVars, countVars, histVars
<1>1. CASE \E t \in Tasks : Accept(c, t)
  <2>1. client'[c] = "notify"
    BY <1>1 DEF Accept
  <2>2. QED  BY <2>1
<1>2. CASE \E t \in Tasks : Reject(c, t)
  BY <1>2 DEF Reject
<1>3. CASE CountRejected(c)
  BY <1>3 DEF CountRejected
<1>4. CASE Notify(c)
  <2>1. CASE Waiting = {}
    <3>1. worker' = worker
      BY <1>4, <2>1 DEF Notify, NotifyOne
    <3>2. QED  BY <2>1, <3>1
  <2>2. CASE Waiting # {}
    <3>1. PICK w \in Waiting : worker' = [worker EXCEPT ![w] = "top"]
      BY <1>4, <2>2 DEF Notify, NotifyOne
    <3>2. w \in Slots /\ worker'[w] = "top"
      BY <3>1
    <3>3. QED  BY <3>2
  <2>3. QED  BY <2>1, <2>2
<1>5. QED  BY <1>1, <1>2, <1>3, <1>4 DEF Submit

\* A worker goes to sleep only when there is nothing to run.
LEMMA WorkerWakeup ==
  ASSUME Shape, NoLostWakeup, NEW w \in Slots, WorkerStep(w) \/ SpuriousWakeup(w)
  PROVE  NoLostWakeup'
<1> SUFFICES ASSUME Stalled' PROVE backlog'
  BY DEF NoLostWakeup
<1> USE DEF Shape, TypeOK, Stalled, Alive, Waiting, vars, poolVars
<1>1. CASE Wait(w)
  BY <1>1 DEF Wait, Ready
<1>2. CASE Exit(w)
  BY <1>2 DEF Exit, MayExit
<1>3. CASE worker'[w] \in {"top", "got", "drop", "count", "update"}
  BY <1>3
<1>4. QED
  BY <1>1, <1>2, <1>3 DEF WorkerStep, Take, FindStale, CountStale, Finish,
                          CountCompleted, Update, SpuriousWakeup

\* The owner stalls the pool by resume() only.
LEMMA OwnerWakeup ==
  ASSUME Shape, NoLostWakeup, Owner
  PROVE  NoLostWakeup'
<1> SUFFICES ASSUME Stalled' PROVE backlog'
  BY DEF NoLostWakeup
<1> USE DEF Shape, TypeOK, Slots, Stalled, Alive, Waiting, vars, poolVars, sizeVars,
            ownerVars, countVars, histVars
<1>1. CASE Pause
  BY <1>1 DEF Pause
<1>2. CASE Resume
  BY <1>2 DEF Resume, NoLostWakeup
<1>3. CASE \E n \in QueueLimits : SetMaxQueueSize(n)
  BY <1>3 DEF SetMaxQueueSize, NoLostWakeup
<1>4. CASE \E n \in 0..MaxThreads : Grow(n)
  <2>1. PICK n \in 0..MaxThreads : Grow(n)
    BY <1>4
  <2>2. n \in Slots /\ worker'[n] = "top"
    BY <2>1 DEF Grow, Spawn
  <2>3. QED  BY <2>2
<1>5. CASE \E n \in 0..MaxThreads : Shrink(n)
  BY <1>5 DEF Shrink
<1>6. CASE StopSet
  BY <1>6 DEF StopSet
<1>7. CASE StopNotify
  BY <1>7 DEF StopNotify, StopInv
<1>8. CASE JoinDone
  <2>1. \A w \in Slots : worker'[w] = IF w \in joining THEN "absent" ELSE worker[w]
    BY <1>8 DEF JoinDone
  <2>2. \A w \in Slots : worker'[w] # "waiting"
    BY <1>8, <2>1 DEF JoinDone, StopInv
  <2>3. QED  BY <2>2
<1>9. CASE Start
  <2>1. 1 \in Slots /\ worker'[1] = "top"
    BY <1>9 DEF Start, Spawn
  <2>2. QED  BY <2>1
<1>10. QED
  BY <1>1, <1>2, <1>3, <1>4, <1>5, <1>6, <1>7, <1>8, <1>9 DEF Owner

LEMMA StepWakeup == Shape /\ NoLostWakeup /\ [Next]_vars => NoLostWakeup'
<1> SUFFICES ASSUME Shape, NoLostWakeup, [Next]_vars PROVE NoLostWakeup'
  OBVIOUS
<1>1. CASE UNCHANGED vars
  BY <1>1 DEF NoLostWakeup, Stalled, Alive, Waiting, vars, poolVars, histVars
<1>2. CASE Next
  BY <1>2, SubmitWakeup, WorkerWakeup, OwnerWakeup DEF Next
<1>3. QED  BY <1>1, <1>2

\* Only resume() can leave accepted work with every thread asleep: the
\* notification submitTask sends after its unlock is enough for every race.
THEOREM WakeupNeverLost == Spec => []NoLostWakeup
<1>1. Init => NoLostWakeup
  BY DEF Init, NoLostWakeup, Stalled
<1>2. QED  BY <1>1, StepWakeup, ShapeHolds, PTL DEF Spec

-----------------------------------------------------------------------------
(* A task is in one place.                                                 *)

\* A step that moves neither queue, jobs nor the two live statuses is harmless.
LEMMA OnceKept ==
  ASSUME EachTaskOnce, queue' = queue, job' = job,
         \A t \in Tasks : status'[t] # status[t] =>
           {status[t], status'[t]} \cap {"queued", "held"} = {}
  PROVE  EachTaskOnce'
<1>1. ASSUME NEW t \in Tasks
      PROVE  /\ status'[t] = "queued" <=> status[t] = "queued"
             /\ status'[t] = "held" <=> status[t] = "held"
  <2>1. CASE status'[t] = status[t]
    BY <2>1
  <2>2. CASE status'[t] # status[t]
    <3>1. {status[t], status'[t]} \cap {"queued", "held"} = {}
      BY <2>2
    <3> QED BY <3>1
  <2> QED BY <2>1, <2>2
<1>2. \A t \in Tasks : status'[t] = "queued" <=> \E i \in 1..Len(queue') : queue'[i] = t
  BY <1>1 DEF EachTaskOnce
<1>3. \A t \in Tasks : status'[t] = "held" <=> \E w \in Slots : job'[w] = t
  BY <1>1 DEF EachTaskOnce
<1> QED BY <1>2, <1>3 DEF EachTaskOnce

\* What Append, Head and Tail do to the positions of the queue.
LEMMA AppendPositions ==
  ASSUME queue \in Seq(Tasks), NEW t \in Tasks
  PROVE  /\ Append(queue, t) \in Seq(Tasks)
         /\ Len(Append(queue, t)) = Len(queue) + 1
         /\ \A i \in 1..Len(queue) : Append(queue, t)[i] = queue[i]
         /\ Append(queue, t)[Len(queue) + 1] = t
         /\ Len(queue) \in Nat
  OBVIOUS

LEMMA TailPositions ==
  ASSUME queue \in Seq(Tasks), queue # <<>>
  PROVE  /\ Tail(queue) \in Seq(Tasks)
         /\ Len(queue) \in Nat \ {0}
         /\ Len(Tail(queue)) = Len(queue) - 1
         /\ \A i \in 1..Len(queue) - 1 : Tail(queue)[i] = queue[i + 1]
         /\ Head(queue) = queue[1] /\ Head(queue) \in Tasks
  OBVIOUS

\* submitTask appends a task that is nowhere else.
LEMMA AcceptOnce ==
  ASSUME Shape, EachTaskOnce, NEW c \in Clients, NEW t \in Tasks, Accept(c, t)
  PROVE  EachTaskOnce'
<1> USE DEF Shape, TypeOK
<1>1. queue' = Append(queue, t) /\ job' = job /\ status[t] = "new"
  BY DEF Accept
<1>2. /\ Len(queue') = Len(queue) + 1 /\ Len(queue) \in Nat
      /\ \A i \in 1..Len(queue) : queue'[i] = queue[i]
      /\ queue'[Len(queue) + 1] = t
  BY <1>1, AppendPositions
<1>3. \A i \in 1..Len(queue) : queue[i] # t
  BY <1>1 DEF EachTaskOnce
<1>4. \A u \in Tasks : status'[u] = IF u = t THEN "queued" ELSE status[u]
  BY DEF Accept
<1>5. \A i, j \in 1..Len(queue') : queue'[i] = queue'[j] => i = j
  <2>1. SUFFICES ASSUME NEW i \in 1..Len(queue'), NEW j \in 1..Len(queue'),
                        queue'[i] = queue'[j]
                 PROVE  i = j
    OBVIOUS
  <2>2. \A k \in 1..Len(queue') : k \in 1..Len(queue) \/ k = Len(queue) + 1
    BY <1>2
  <2>3. QED  BY <2>1, <2>2, <1>2, <1>3 DEF EachTaskOnce
<1>6. ASSUME NEW u \in Tasks
      PROVE  status'[u] = "queued" <=> \E i \in 1..Len(queue') : queue'[i] = u
  <2>1. CASE u = t
    BY <2>1, <1>2, <1>4
  <2>2. CASE u # t
    BY <2>2, <1>2, <1>4 DEF EachTaskOnce
  <2>3. QED  BY <2>1, <2>2
<1>7. ASSUME NEW u \in Tasks
      PROVE  status'[u] = "held" <=> \E w \in Slots : job'[w] = u
  BY <1>1, <1>4 DEF EachTaskOnce
<1>8. \A v, w \in Slots : job'[v] = job'[w] /\ job'[v] # NoTask => v = w
  BY <1>1 DEF EachTaskOnce
<1>9. QED  BY <1>5, <1>6, <1>7, <1>8 DEF EachTaskOnce

\* A worker takes the front, which leaves the queue with it.
LEMMA TakeOnce ==
  ASSUME Shape, EachTaskOnce, NEW w \in Slots, Take(w)
  PROVE  EachTaskOnce'
<1> USE DEF Shape, TypeOK
<1>1. queue' = Tail(queue) /\ queue # <<>> /\ worker[w] = "top"
  BY DEF Take, FrontPopped
<1> DEFINE t == Head(queue)
<1>2. /\ Len(queue') = Len(queue) - 1 /\ Len(queue) \in Nat \ {0}
      /\ \A i \in 1..Len(queue') : queue'[i] = queue[i + 1]
      /\ t = queue[1] /\ t \in Tasks
  BY <1>1, TailPositions
<1>3. job' = [job EXCEPT ![w] = t] /\ job[w] = NoTask
  BY DEF Take, JobInv
<1>4. \A u \in Tasks : status'[u] = IF u = t THEN "held" ELSE status[u]
  BY <1>2 DEF Take
<1>5. status[t] = "queued"
  BY <1>2 DEF EachTaskOnce
<1>6. \A v \in Slots : job[v] # t
  BY <1>2, <1>5 DEF EachTaskOnce
<1> HIDE DEF t
<1>7. \A i, j \in 1..Len(queue') : queue'[i] = queue'[j] => i = j
  <2>1. SUFFICES ASSUME NEW i \in 1..Len(queue'), NEW j \in 1..Len(queue'),
                        queue'[i] = queue'[j]
                 PROVE  i = j
    OBVIOUS
  <2>2. i + 1 \in 1..Len(queue) /\ j + 1 \in 1..Len(queue)
    BY <1>2
  <2>3. i + 1 = j + 1
    BY <2>1, <2>2, <1>2 DEF EachTaskOnce
  <2>4. QED  BY <2>3
<1>8. ASSUME NEW u \in Tasks
      PROVE  status'[u] = "queued" <=> \E i \in 1..Len(queue') : queue'[i] = u
  <2>1. CASE u = t
    <3>1. \A i \in 1..Len(queue') : i + 1 \in 1..Len(queue) /\ i + 1 # 1
      BY <1>2
    <3>2. \A i \in 1..Len(queue') : queue'[i] # t
      BY <3>1, <1>2 DEF EachTaskOnce
    <3>3. QED  BY <2>1, <3>2, <1>4
  <2>2. CASE u # t
    <3>1. ASSUME NEW k \in 1..Len(queue), queue[k] = u
          PROVE  \E i \in 1..Len(queue') : queue'[i] = u
      <4>1. k - 1 \in 1..Len(queue') /\ k = (k - 1) + 1
        BY <3>1, <2>2, <1>2
      <4>2. QED  BY <4>1, <3>1, <1>2
    <3>2. ASSUME NEW i \in 1..Len(queue'), queue'[i] = u
          PROVE  \E k \in 1..Len(queue) : queue[k] = u
      BY <3>2, <1>2
    <3>3. QED  BY <2>2, <1>4, <3>1, <3>2 DEF EachTaskOnce
  <2>3. QED  BY <2>1, <2>2
<1>9. \A v, x \in Slots : job'[v] = job'[x] /\ job'[v] # NoTask => v = x
  BY <1>3, <1>6 DEF EachTaskOnce
<1>10. ASSUME NEW u \in Tasks
       PROVE  status'[u] = "held" <=> \E v \in Slots : job'[v] = u
  <2>1. CASE u = t
    BY <2>1, <1>3, <1>4
  <2>2. CASE u # t
    BY <2>2, <1>3, <1>4 DEF EachTaskOnce
  <2>3. QED  BY <2>1, <2>2
<1>11. QED  BY <1>7, <1>8, <1>9, <1>10 DEF EachTaskOnce

\* A worker that is done with its task, run or found stale, lets go of it.
LEMMA SettleOnce ==
  ASSUME Shape, EachTaskOnce, NEW w \in Slots, Finish(w) \/ CountStale(w)
  PROVE  EachTaskOnce'
<1> USE DEF Shape, TypeOK
<1>1. PICK outcome \in {"done", "stale"} : status' = [status EXCEPT ![job[w]] = outcome]
  BY DEF Finish, CountStale
<1>2. queue' = queue /\ job' = [job EXCEPT ![w] = NoTask] /\ job[w] \in Tasks
  BY DEF Finish, CountStale, JobInv
<1>3. status[job[w]] = "held"
  BY <1>2 DEF EachTaskOnce
<1>4. \A u \in Tasks : status'[u] = IF u = job[w] THEN outcome ELSE status[u]
  BY <1>1
<1>5. \A u \in Tasks : status'[u] = "queued" <=> status[u] = "queued"
  BY <1>3, <1>4
<1>6. \A v, x \in Slots : job'[v] = job'[x] /\ job'[v] # NoTask => v = x
  BY <1>2 DEF EachTaskOnce
<1>7. \A u \in Tasks : status'[u] = "held" <=> \E v \in Slots : job'[v] = u
  BY <1>2, <1>3, <1>4 DEF EachTaskOnce
<1>8. QED  BY <1>2, <1>5, <1>6, <1>7 DEF EachTaskOnce

\* stop() empties the queue and with it the set of queued tasks; shrinking
\* touches neither.
LEMMA JoinOnce ==
  ASSUME Shape, EachTaskOnce, JoinDone
  PROVE  EachTaskOnce'
<1> USE DEF Shape, TypeOK
<1>1. CASE owner = "stopJoin"
  <2>1. queue' = <<>> /\ Len(queue') = 0 /\ job' = job
    BY <1>1 DEF JoinDone
  <2>2. \A u \in Tasks : status'[u] = IF status[u] = "queued" THEN "dropped" ELSE status[u]
    BY <1>1 DEF JoinDone
  <2>3. QED  BY <2>1, <2>2 DEF EachTaskOnce
<1>2. CASE owner # "stopJoin"
  BY <1>2, OnceKept DEF JoinDone
<1>3. QED  BY <1>1, <1>2

LEMMA StepOnce == Shape /\ EachTaskOnce /\ [Next]_vars => EachTaskOnce'
<1> SUFFICES ASSUME Shape, EachTaskOnce, [Next]_vars PROVE EachTaskOnce'
  OBVIOUS
<1>1. CASE UNCHANGED vars
  BY <1>1, OnceKept DEF vars
<1>2. CASE \E c \in Clients : Submit(c)
  <2>1. PICK c \in Clients : Submit(c)
    BY <1>2
  <2>2. CASE \E t \in Tasks : Accept(c, t)
    BY <2>2, AcceptOnce
  <2>3. CASE \E t \in Tasks : Reject(c, t)
    BY <2>3, OnceKept DEF Reject, Shape, TypeOK
  <2>4. CASE CountRejected(c) \/ Notify(c)
    BY <2>4, OnceKept DEF CountRejected, Notify
  <2>5. QED  BY <2>1, <2>2, <2>3, <2>4 DEF Submit
<1>3. CASE \E w \in Slots : WorkerStep(w) \/ SpuriousWakeup(w)
  <2>1. PICK w \in Slots : WorkerStep(w) \/ SpuriousWakeup(w)
    BY <1>3
  <2>2. CASE Take(w)
    BY <2>2, TakeOnce
  <2>3. CASE Finish(w) \/ CountStale(w)
    BY <2>3, SettleOnce
  <2>4. CASE Wait(w) \/ SpuriousWakeup(w) \/ Exit(w) \/ FindStale(w) \/ CountCompleted(w) \/ Update(w)
    BY <2>4, OnceKept DEF Wait, SpuriousWakeup, Exit, FindStale, CountCompleted, Update
  <2>5. QED  BY <2>1, <2>2, <2>3, <2>4 DEF WorkerStep
<1>4. CASE Owner
  <2>1. CASE JoinDone
    BY <2>1, JoinOnce
  <2>2. CASE Owner /\ ~JoinDone
    <3>1. queue' = queue /\ job' = job /\ status' = status
      BY <2>2 DEF Owner, Pause, Resume, Start, SetMaxQueueSize, Grow, Shrink, StopSet, StopNotify
    <3>2. QED  BY <3>1, OnceKept
  <2>3. QED  BY <1>4, <2>1, <2>2
<1>5. QED  BY <1>1, <1>2, <1>3, <1>4 DEF Next

\* No task is run twice, lost from the queue, or brought back once settled,
\* for any number of workers and any sequence of control operations.
THEOREM TasksHandledOnce == Spec => []EachTaskOnce
<1>1. Init => EachTaskOnce
  BY DEF Init, EachTaskOnce
<1>2. QED  BY <1>1, StepOnce, ShapeHolds, PTL DEF Spec

-----------------------------------------------------------------------------
(* stop() keeps what was accepted in time.                                 *)

\* As long as a task accepted in time is queued, a thread is alive to drain it.
Drained == (\E t \in Tasks \ late : status[t] = "queued") => Alive # {}

Kept == Drained /\ StopKeepsAccepted

\* A step is harmless that queues and drops nothing and leaves a thread alive.
LEMMA KeptUnlessDropped ==
  ASSUME Kept, late' = late, Alive # {} => Alive' # {},
         \A t \in Tasks : status'[t] \in {"queued", "dropped"} => status'[t] = status[t]
  PROVE  Kept'
  BY DEF Kept, Drained, StopKeepsAccepted

LEMMA SubmitKept ==
  ASSUME Shape, Kept, NEW c \in Clients, Submit(c)
  PROVE  Kept'
<1> USE DEF Shape, TypeOK, vars, poolVars, sizeVars, ownerVars, countVars, histVars
<1>1. CASE \E t \in Tasks : Accept(c, t)
  <2>1. PICK t \in Tasks : Accept(c, t)
    BY <1>1
  <2>2. worker' = worker /\ \A u \in Tasks : status'[u] = IF u = t THEN "queued" ELSE status[u]
    BY <2>1 DEF Accept
  <2>3. late \subseteq late' /\ (Alive = {} => t \in late')
    BY <2>1 DEF Accept
  <2>4. Alive' = Alive
    BY <2>2 DEF Alive
  <2>5. QED  BY <2>2, <2>3, <2>4 DEF Kept, Drained, StopKeepsAccepted
<1>2. CASE \E t \in Tasks : Reject(c, t)
  BY <1>2, KeptUnlessDropped DEF Reject, Alive
<1>3. CASE CountRejected(c)
  BY <1>3, KeptUnlessDropped DEF CountRejected, Alive
<1>4. CASE Notify(c)
  <2>1. \A w \in Slots : worker'[w] = worker[w] \/ worker'[w] = "top"
    BY <1>4 DEF Notify, NotifyOne, Waiting
  <2>2. Alive # {} => Alive' # {}
    BY <2>1 DEF Alive
  <2>3. QED  BY <1>4, <2>2, KeptUnlessDropped DEF Notify
<1>5. QED  BY <1>1, <1>2, <1>3, <1>4 DEF Submit

\* A worker leaves only when the queue is empty, so that no task is queued.
LEMMA WorkerKept ==
  ASSUME Shape, EachTaskOnce, Kept, NEW w \in Slots, WorkerStep(w) \/ SpuriousWakeup(w)
  PROVE  Kept'
<1> USE DEF Shape, TypeOK, vars, poolVars, sizeVars, ownerVars, countVars, histVars
<1>1. CASE Exit(w)
  <2>1. queue = <<>> /\ Len(queue) = 0 /\ status' = status /\ late' = late
    BY <1>1 DEF Exit, MayExit
  <2>2. \A t \in Tasks : status[t] # "queued"
    BY <2>1 DEF EachTaskOnce
  <2>3. QED  BY <2>1, <2>2 DEF Kept, Drained, StopKeepsAccepted
<1>2. CASE ~Exit(w)
  <2>1. worker'[w] \in {"top", "waiting", "got", "drop", "count", "update"}
    BY <1>2 DEF WorkerStep, Wait, Take, FindStale, CountStale, Finish,
                CountCompleted, Update, SpuriousWakeup
  <2>2. Alive' # {}
    BY <2>1 DEF Alive
  <2>3. \A t \in Tasks : status'[t] \in {"queued", "dropped"} => status'[t] = status[t]
    BY <1>2 DEF WorkerStep, Wait, Take, FindStale, CountStale, Finish,
                CountCompleted, Update, SpuriousWakeup
  <2>4. late' = late
    BY <1>2 DEF WorkerStep, Wait, Take, FindStale, CountStale, Finish,
                CountCompleted, Update, SpuriousWakeup
  <2>5. QED  BY <2>2, <2>3, <2>4, KeptUnlessDropped
<1>3. QED  BY <1>1, <1>2

\* When stop() has joined every thread, what is still queued came late.
LEMMA OwnerKept ==
  ASSUME Shape, Kept, Owner
  PROVE  Kept'
<1> USE DEF Shape, TypeOK, Slots, vars, poolVars, sizeVars, ownerVars, countVars, histVars
<1>1. CASE JoinDone
  <2>1. /\ \A w \in joining : worker[w] = "exited"
        /\ \A w \in Slots : worker'[w] = IF w \in joining THEN "absent" ELSE worker[w]
        /\ late' = late
    BY <1>1 DEF JoinDone
  <2>2. CASE owner = "stopJoin"
    <3>1. joining = 1..size
      BY <2>2 DEF JoinInv
    <3>2. \A w \in Slots : w \in joining \/ worker[w] = "absent"
      BY <3>1 DEF SlotsInv
    <3>3. Alive = {}
      BY <2>1, <3>2 DEF Alive
    <3>4. \A t \in Tasks : status'[t] = IF status[t] = "queued" THEN "dropped" ELSE status[t]
      BY <1>1, <2>2 DEF JoinDone
    <3>5. QED  BY <2>1, <3>3, <3>4 DEF Kept, Drained, StopKeepsAccepted
  <2>3. CASE owner # "stopJoin"
    <3>1. Alive' = Alive
      BY <2>1 DEF Alive
    <3>2. QED  BY <1>1, <2>1, <2>3, <3>1, KeptUnlessDropped DEF JoinDone
  <2>4. QED  BY <2>2, <2>3
<1>2. CASE \E n \in 0..MaxThreads : Grow(n)
  <2>1. Alive' # {}
    <3>1. PICK n \in 0..MaxThreads : Grow(n)
      BY <1>2
    <3>2. n \in Slots /\ worker'[n] = "top"
      BY <3>1 DEF Grow, Spawn
    <3>3. QED  BY <3>2 DEF Alive
  <2>2. QED  BY <1>2, <2>1, KeptUnlessDropped DEF Grow
<1>3. CASE Start
  <2>1. 1 \in Slots /\ worker'[1] = "top"
    BY <1>3 DEF Start, Spawn
  <2>2. QED  BY <1>3, <2>1, KeptUnlessDropped DEF Start, Alive
<1>4. CASE StopNotify \/ \E n \in 0..MaxThreads : Shrink(n)
  <2>1. \A w \in Slots : worker'[w] = worker[w] \/ (worker[w] = "waiting" /\ worker'[w] = "top")
    BY <1>4 DEF StopNotify, Shrink, WakeAll
  <2>2. Alive' = Alive
    BY <2>1 DEF Alive
  <2>3. QED  BY <1>4, <2>2, KeptUnlessDropped DEF StopNotify, Shrink
<1>5. CASE Pause \/ Resume \/ StopSet \/ \E n \in QueueLimits : SetMaxQueueSize(n)
  BY <1>5, KeptUnlessDropped DEF Pause, Resume, StopSet, SetMaxQueueSize, Alive
<1>6. QED  BY <1>1, <1>2, <1>3, <1>4, <1>5 DEF Owner

LEMMA StepKept == Shape /\ EachTaskOnce /\ Kept /\ [Next]_vars => Kept'
<1> SUFFICES ASSUME Shape, EachTaskOnce, Kept, [Next]_vars PROVE Kept'
  OBVIOUS
<1>1. CASE UNCHANGED vars
  BY <1>1, KeptUnlessDropped DEF vars, histVars, Alive
<1>2. CASE Next
  BY <1>2, SubmitKept, WorkerKept, OwnerKept DEF Next
<1>3. QED  BY <1>1, <1>2

\* stop() never drops a task accepted while stop_ was clear and a thread alive.
THEOREM AcceptedTasksKept == Spec => []StopKeepsAccepted
<1>1. Init => Kept
  BY DEF Init, Kept, Drained, StopKeepsAccepted
<1>2. Kept => StopKeepsAccepted
  BY DEF Kept
<1>3. QED  BY <1>1, <1>2, StepKept, ShapeHolds, TasksHandledOnce, PTL DEF Spec

-----------------------------------------------------------------------------
(* The metrics.                                                            *)

\* The tasks whose status is one of those in K.
With(st, K) == {t \in Tasks : st[t] \in K}

Dead == {"stale", "rejected", "dropped"}

\* What a thread has read of a counter is behind the tasks counted since; a
\* worker that has counted a task leaves completed_tasks above zero.
CountsInv ==
  /\ IsFiniteSet({t \in Tasks : status[t] # "new"})
  /\ completed <= Cardinality(With(status, {"done"}))
  /\ failed <= Cardinality(With(status, Dead))
  /\ \A w \in Slots :
       /\ worker[w] = "count" => seen[w] + 1 <= Cardinality(With(status, {"done"}))
       /\ worker[w] = "drop" => seen[w] <= Cardinality(With(status, Dead))
       /\ worker[w] = "update" => completed > 0
  /\ \A c \in Clients : client[c] = "reject" => seen[c] + 1 <= Cardinality(With(status, Dead))

LEMMA WithFinite ==
  ASSUME NEW st, IsFiniteSet({t \in Tasks : st[t] # "new"}), NEW K, "new" \notin K
  PROVE  IsFiniteSet(With(st, K)) /\ Cardinality(With(st, K)) \in Nat
<1>1. With(st, K) \in SUBSET {t \in Tasks : st[t] # "new"}  BY DEF With
<1>2. IsFiniteSet(With(st, K))  BY <1>1, FS_Subset
<1> QED  BY <1>2, FS_CardinalityType

Moved(st, t, x) == [st EXCEPT ![t] = x]

\* A task that moves from outside K into K adds one, any other move adds none.
LEMMA MoveCounted ==
  ASSUME NEW st, NEW t, NEW x, NEW K, st \in [Tasks -> Status], t \in Tasks,
         IsFiniteSet(With(st, Status \ {"new"})), "new" \notin K, st[t] \notin K, x \in Status
  PROVE  /\ IsFiniteSet(With(Moved(st, t, x), Status \ {"new"}))
         /\ Cardinality(With(Moved(st, t, x), K)) =
              IF x \in K THEN Cardinality(With(st, K)) + 1 ELSE Cardinality(With(st, K))
<1> DEFINE w == Moved(st, t, x)
           old == With(st, Status \ {"new"})
           new == With(w, Status \ {"new"})
<1>1. \A u \in Tasks : w[u] = IF u = t THEN x ELSE st[u]  BY DEF Moved
<1>2. IsFiniteSet(old \cup {t}) /\ new \in SUBSET (old \cup {t})
  <2>1. new \in SUBSET (old \cup {t})  BY <1>1 DEF With
  <2> HIDE DEF new
  <2>2. IsFiniteSet(old \cup {t})  BY FS_AddElement
  <2> QED  BY <2>1, <2>2
<1>3. IsFiniteSet(new)
  <2> HIDE DEF new, old
  <2> QED  BY <1>2, FS_Subset
<1>4. IsFiniteSet(With(st, K)) /\ t \notin With(st, K)
  <2>1. With(st, K) \in SUBSET old /\ t \notin With(st, K)  BY DEF With
  <2>2. IsFiniteSet(old)  OBVIOUS
  <2> HIDE DEF old
  <2> QED  BY <2>1, <2>2, FS_Subset
<1>5. With(w, K) = IF x \in K THEN With(st, K) \cup {t} ELSE With(st, K)
  <2>1. CASE x \in K  BY <1>1, <2>1 DEF With
  <2>2. CASE x \notin K  BY <1>1, <2>2 DEF With
  <2> QED  BY <2>1, <2>2
<1>6. Cardinality(With(w, K)) = IF x \in K THEN Cardinality(With(st, K)) + 1
                                         ELSE Cardinality(With(st, K))
  BY <1>4, <1>5, FS_AddElement
<1> QED  BY <1>3, <1>6 DEF new

\* The step of a task from a live status y to x, and what the counts become.
LEMMA StatusMoves ==
  ASSUME Shape, CountsInv, NEW t \in Tasks, NEW x \in Status,
         status[t] \in {"new", "queued", "held"}, status' = [status EXCEPT ![t] = x]
  PROVE  /\ IsFiniteSet({u \in Tasks : status'[u] # "new"})
         /\ Cardinality(With(status, {"done"})) \in Nat /\ Cardinality(With(status, Dead)) \in Nat
         /\ Cardinality(With(status', {"done"})) =
              IF x = "done" THEN Cardinality(With(status, {"done"})) + 1
                            ELSE Cardinality(With(status, {"done"}))
         /\ Cardinality(With(status', Dead)) =
              IF x \in Dead THEN Cardinality(With(status, Dead)) + 1
                            ELSE Cardinality(With(status, Dead))
<1>1. status \in [Tasks -> Status] /\ IsFiniteSet({u \in Tasks : status[u] # "new"})
  BY DEF Shape, TypeOK, CountsInv
<1>s. {u \in Tasks : status[u] # "new"} = With(status, Status \ {"new"})
  BY <1>1 DEF With
<1>f. IsFiniteSet(With(status, Status \ {"new"}))  BY <1>1, <1>s
<1> DEFINE w == Moved(status, t, x)
<1>w. status' = w  BY DEF Moved
<1>2. /\ IsFiniteSet(With(w, Status \ {"new"}))
      /\ Cardinality(With(w, {"done"})) =
           IF x \in {"done"} THEN Cardinality(With(status, {"done"})) + 1
                             ELSE Cardinality(With(status, {"done"}))
      /\ Cardinality(With(status, {"done"})) \in Nat
  <2> DEFINE K == {"done"}
  <2>1. "new" \notin K /\ status[t] \notin K  OBVIOUS
  <2> HIDE DEF K
  <2>2. /\ IsFiniteSet(With(w, Status \ {"new"}))
        /\ Cardinality(With(w, K)) = IF x \in K THEN Cardinality(With(status, K)) + 1
                                                ELSE Cardinality(With(status, K))
    BY <1>1, <1>f, <2>1, MoveCounted
  <2>3. Cardinality(With(status, K)) \in Nat  BY <1>1, <2>1, WithFinite
  <2> QED  BY <2>2, <2>3 DEF K
<1>3. /\ Cardinality(With(w, Dead)) = IF x \in Dead THEN Cardinality(With(status, Dead)) + 1
                                                    ELSE Cardinality(With(status, Dead))
      /\ Cardinality(With(status, Dead)) \in Nat
  <2>1. "new" \notin Dead /\ status[t] \notin Dead  BY DEF Dead
  <2>2. Cardinality(With(w, Dead)) = IF x \in Dead THEN Cardinality(With(status, Dead)) + 1
                                                   ELSE Cardinality(With(status, Dead))
    BY <1>1, <1>f, <2>1, MoveCounted
  <2>3. Cardinality(With(status, Dead)) \in Nat  BY <1>1, <2>1, WithFinite
  <2> QED  BY <2>2, <2>3
<1> HIDE DEF w
<1>4. /\ With(status', {"done"}) = With(w, {"done"})
      /\ With(status', Dead) = With(w, Dead)
  BY <1>w DEF With
<1>5. {u \in Tasks : status'[u] # "new"} = With(w, Status \ {"new"})
  <2>1. \A u \in Tasks : w[u] \in Status  BY <1>1 DEF w, Moved
  <2> QED  BY <1>w, <2>1 DEF With
<1> QED  BY <1>2, <1>3, <1>4, <1>5

\* stop() drops the queued tasks, and there are as many as the queue is long.
LEMMA DropsCounted ==
  ASSUME Shape, EachTaskOnce, CountsInv,
         status' = [t \in Tasks |-> IF status[t] = "queued" THEN "dropped" ELSE status[t]]
  PROVE  /\ IsFiniteSet({u \in Tasks : status'[u] # "new"})
         /\ With(status', {"done"}) = With(status, {"done"})
         /\ Cardinality(With(status', Dead)) >= Cardinality(With(status, Dead)) + Len(queue)
         /\ Cardinality(With(status, Dead)) \in Nat /\ Cardinality(With(status', Dead)) \in Nat
<1> DEFINE Q == With(status, {"queued"})
<1>1. /\ status \in [Tasks -> Status] /\ IsFiniteSet({u \in Tasks : status[u] # "new"})
      /\ queue \in Seq(Tasks) /\ Len(queue) \in Nat
  BY DEF Shape, TypeOK, CountsInv
<1>2. {u \in Tasks : status'[u] # "new"} = {u \in Tasks : status[u] # "new"}  BY <1>1
<1>3. With(status', {"done"}) = With(status, {"done"})  BY <1>1 DEF With
<1>4. With(status', Dead) = With(status, Dead) \cup Q /\ With(status, Dead) \cap Q = {}
  BY <1>1 DEF With, Dead
<1>5. IsFiniteSet(Q) /\ Cardinality(Q) \in Nat  BY <1>1, WithFinite
<1>6. IsFiniteSet(With(status, Dead)) /\ Cardinality(With(status, Dead)) \in Nat
  BY <1>1, WithFinite DEF Dead
<1>7. Len(queue) <= Cardinality(Q)
  <2> DEFINE j == [n \in 1..Len(queue) |-> queue[n]]
  <2>1. \A n \in 1..Len(queue) : queue[n] \in Q  BY <1>1 DEF EachTaskOnce, With
  <2> HIDE DEF Q
  <2>2. j \in Injection(1..Len(queue), Q)
    BY <2>1 DEF EachTaskOnce, Injection, IsInjective
  <2> DEFINE n == Len(queue)
  <2>a. n \in Nat  BY <1>1
  <2> HIDE DEF n
  <2>b. Cardinality(1..n) = n  BY <2>a, 1 \in Int, FS_Interval
  <2>3. Cardinality(1..Len(queue)) = Len(queue)  BY <2>b DEF n
  <2> HIDE DEF j
  <2> QED  BY <1>5, <2>2, <2>3, FS_Injection
<1> HIDE DEF Q
<1> DEFINE D == With(status, Dead)
           E == With(status', Dead)
<1>8. Cardinality(E) = Cardinality(D) + Cardinality(Q)
  <2>1. E = D \cup Q /\ D \cap Q = {} /\ IsFiniteSet(D) /\ Cardinality(D) \in Nat
    BY <1>4, <1>6
  <2> HIDE DEF D, E
  <2>2. Cardinality(D \cup Q) = Cardinality(D) + Cardinality(Q) - Cardinality(D \cap Q)
    BY <1>5, <2>1, FS_Union
  <2>3. Cardinality(D \cap Q) = 0  BY <2>1, FS_EmptySet
  <2>4. Cardinality(E) = Cardinality(D \cup Q)  BY <2>1
  <2> QED  BY <1>5, <2>1, <2>2, <2>3, <2>4
<1>9. Cardinality(E) >= Cardinality(D) + Len(queue) /\ Cardinality(E) \in Nat
  <2>1. Cardinality(D) \in Nat  BY <1>6
  <2> HIDE DEF D, E
  <2> QED  BY <1>1, <1>5, <1>7, <1>8, <2>1
<1>10. IsFiniteSet({u \in Tasks : status'[u] # "new"})  BY <1>1, <1>2
<1> QED  BY <1>3, <1>6, <1>9, <1>10

\* Steps that settle no task and read or write no counter.
LEMMA CountsKept ==
  ASSUME CountsInv, status' = status, UNCHANGED countVars,
         \A w \in Slots : worker'[w] \in {"count", "drop", "update"} => worker'[w] = worker[w],
         \A c \in Clients : client'[c] = "reject" => client[c] = "reject"
  PROVE  CountsInv'
BY DEF CountsInv, countVars

LEMMA SubmitCounts ==
  ASSUME Shape, CountsInv, NEW c \in Clients, Submit(c)
  PROVE  CountsInv'
<1>t. /\ completed \in Nat /\ failed \in Nat /\ seen \in [Threads -> Nat]
      /\ client \in [Clients -> ClientPC] /\ status \in [Tasks -> Status]
      /\ c \in Threads /\ c \notin Slots /\ Slots \subseteq Threads /\ Clients \subseteq Threads
  BY ClientsAssumption DEF Shape, TypeOK, Threads, Slots
<1>1. CASE \E t \in Tasks : Accept(c, t)
  <2>1. PICK t \in Tasks : Accept(c, t)  BY <1>1
  <2>2. /\ IsFiniteSet({u \in Tasks : status'[u] # "new"})
        /\ Cardinality(With(status', {"done"})) = Cardinality(With(status, {"done"}))
        /\ Cardinality(With(status', Dead)) = Cardinality(With(status, Dead))
    <3>1. "queued" \in Status /\ "queued" # "done" /\ "queued" \notin Dead  BY DEF Status, Dead
    <3> QED  BY <2>1, <3>1, StatusMoves DEF Accept
  <2>3. UNCHANGED countVars /\ worker' = worker
        /\ \A d \in Clients : client'[d] = "reject" => client[d] = "reject"
    BY <1>t, <2>1 DEF Accept
  <2> QED  BY <2>2, <2>3 DEF CountsInv, countVars
<1>2. CASE \E t \in Tasks : Reject(c, t)
  <2>1. PICK t \in Tasks : Reject(c, t)  BY <1>2
  <2>2. /\ IsFiniteSet({u \in Tasks : status'[u] # "new"})
        /\ Cardinality(With(status, Dead)) \in Nat
        /\ Cardinality(With(status', {"done"})) = Cardinality(With(status, {"done"}))
        /\ Cardinality(With(status', Dead)) = Cardinality(With(status, Dead)) + 1
    <3>1. "rejected" \in Status /\ "rejected" # "done" /\ "rejected" \in Dead  BY DEF Status, Dead
    <3> QED  BY <2>1, <3>1, StatusMoves DEF Reject
  <2>3. /\ \A u \in Threads : seen'[u] = IF u = c THEN failed ELSE seen[u]
        /\ completed' = completed /\ failed' = failed /\ worker' = worker
        /\ \A d \in Clients : d # c => client'[d] = client[d]
    BY <1>t, <2>1 DEF Reject
  <2>4. \A d \in Clients : client'[d] = "reject" => seen'[d] + 1 <= Cardinality(With(status', Dead))
    BY <1>t, <2>2, <2>3 DEF CountsInv
  <2>5. \A w \in Slots : seen'[w] = seen[w] /\ seen[w] \in Nat  BY <1>t, <2>3
  <2> QED  BY <1>t, <2>2, <2>3, <2>4, <2>5 DEF CountsInv
<1>3. CASE CountRejected(c)
  <2>1. /\ failed' = seen[c] + 1 /\ client[c] = "reject"
        /\ completed' = completed /\ seen' = seen /\ worker' = worker /\ status' = status
        /\ \A d \in Clients : client'[d] = "reject" => client[d] = "reject"
    BY <1>t, <1>3 DEF CountRejected, Incremented
  <2> QED  BY <2>1 DEF CountsInv
<1>4. CASE Notify(c)
  <2>1. /\ UNCHANGED countVars /\ status' = status
        /\ \A w \in Slots : worker'[w] \in {"count", "drop", "update"} => worker'[w] = worker[w]
        /\ \A d \in Clients : client'[d] = "reject" => client[d] = "reject"
    <3>1. worker \in [Slots -> WorkerPC]  BY DEF Shape, TypeOK
    <3> QED  BY <1>t, <1>4, <3>1 DEF Notify, NotifyOne, Waiting
  <2> QED  BY <2>1, CountsKept
<1> QED  BY <1>1, <1>2, <1>3, <1>4 DEF Submit

LEMMA WorkerCounts ==
  ASSUME Shape, EachTaskOnce, CountsInv, NEW w \in Slots, WorkerStep(w) \/ SpuriousWakeup(w)
  PROVE  CountsInv'
<1>t. /\ completed \in Nat /\ failed \in Nat /\ seen \in [Threads -> Nat]
      /\ worker \in [Slots -> WorkerPC] /\ status \in [Tasks -> Status]
      /\ queue \in Seq(Tasks)
      /\ w \in Threads /\ w \notin Clients /\ Slots \subseteq Threads /\ Clients \subseteq Threads
  BY ClientsAssumption DEF Shape, TypeOK, Threads, Slots
<1>h. worker[w] \in {"got", "drop"} => job[w] \in Tasks /\ status[job[w]] = "held"
  BY DEF Shape, JobInv, TypeOK, EachTaskOnce
<1>1. CASE Wait(w) \/ Exit(w) \/ Update(w) \/ SpuriousWakeup(w)
  <2>1. /\ UNCHANGED countVars /\ status' = status /\ client' = client
        /\ \A v \in Slots : worker'[v] \in {"count", "drop", "update"} => worker'[v] = worker[v]
    BY <1>t, <1>1 DEF Wait, Exit, Update, SpuriousWakeup
  <2> QED  BY <2>1, CountsKept
<1>2. CASE Take(w)
  <2>1. queue # <<>> /\ Head(queue) \in Tasks /\ status[Head(queue)] = "queued"
    <3>1. queue # <<>>  BY <1>2 DEF Take
    <3>2. Head(queue) = queue[1] /\ Head(queue) \in Tasks /\ Len(queue) \in Nat \ {0}
      BY <1>t, <3>1, TailPositions
    <3> QED  BY <3>1, <3>2 DEF EachTaskOnce
  <2>2. /\ IsFiniteSet({u \in Tasks : status'[u] # "new"})
        /\ Cardinality(With(status', {"done"})) = Cardinality(With(status, {"done"}))
        /\ Cardinality(With(status', Dead)) = Cardinality(With(status, Dead))
    <3>1. "held" \in Status /\ "held" # "done" /\ "held" \notin Dead  BY DEF Status, Dead
    <3> QED  BY <1>2, <2>1, <3>1, StatusMoves DEF Take
  <2>3. /\ UNCHANGED countVars /\ client' = client
        /\ \A v \in Slots : worker'[v] \in {"count", "drop", "update"} => worker'[v] = worker[v]
    BY <1>t, <1>2 DEF Take
  <2> QED  BY <2>2, <2>3 DEF CountsInv, countVars
<1>3. CASE FindStale(w)
  <2>1. /\ \A u \in Threads : seen'[u] = IF u = w THEN failed ELSE seen[u]
        /\ \A v \in Slots : worker'[v] = IF v = w THEN "drop" ELSE worker[v]
        /\ completed' = completed /\ failed' = failed /\ status' = status /\ client' = client
    BY <1>t, <1>3 DEF FindStale
  <2>2. \A c \in Clients : seen'[c] = seen[c]  BY <1>t, <2>1
  <2> QED  BY <1>t, <2>1, <2>2 DEF CountsInv
<1>4. CASE CountStale(w)
  <2>1. /\ IsFiniteSet({u \in Tasks : status'[u] # "new"})
        /\ Cardinality(With(status, Dead)) \in Nat
        /\ Cardinality(With(status', {"done"})) = Cardinality(With(status, {"done"}))
        /\ Cardinality(With(status', Dead)) = Cardinality(With(status, Dead)) + 1
    <3>1. "stale" \in Status /\ "stale" # "done" /\ "stale" \in Dead  BY DEF Status, Dead
    <3> QED  BY <1>h, <1>4, <3>1, StatusMoves DEF CountStale
  <2>2. /\ failed' = seen[w] + 1 /\ worker[w] = "drop"
        /\ \A v \in Slots : worker'[v] = IF v = w THEN "top" ELSE worker[v]
        /\ completed' = completed /\ seen' = seen /\ client' = client
    BY <1>t, <1>4 DEF CountStale, Incremented
  <2>3. \A u \in Threads : seen[u] \in Nat  BY <1>t
  <2> QED  BY <1>t, <2>1, <2>2, <2>3 DEF CountsInv
<1>5. CASE Finish(w)
  <2>1. /\ IsFiniteSet({u \in Tasks : status'[u] # "new"})
        /\ Cardinality(With(status, {"done"})) \in Nat
        /\ Cardinality(With(status', {"done"})) = Cardinality(With(status, {"done"})) + 1
        /\ Cardinality(With(status', Dead)) = Cardinality(With(status, Dead))
    <3>1. "done" \in Status /\ "done" \notin Dead  BY DEF Status, Dead
    <3> QED  BY <1>h, <1>5, <3>1, StatusMoves DEF Finish
  <2>2. /\ \A u \in Threads : seen'[u] = IF u = w THEN completed ELSE seen[u]
        /\ \A v \in Slots : worker'[v] = IF v = w THEN "count" ELSE worker[v]
        /\ completed' = completed /\ failed' = failed /\ client' = client
    BY <1>t, <1>5 DEF Finish
  <2>3. \A c \in Clients : seen'[c] = seen[c]  BY <1>t, <2>2
  <2>4. \A u \in Threads : seen[u] \in Nat  BY <1>t
  <2> QED  BY <1>t, <2>1, <2>2, <2>3, <2>4 DEF CountsInv
<1>6. CASE CountCompleted(w)
  <2>1. /\ completed' = seen[w] + 1 /\ worker[w] = "count"
        /\ \A v \in Slots : worker'[v] = IF v = w THEN "update" ELSE worker[v]
        /\ failed' = failed /\ seen' = seen /\ client' = client /\ status' = status
    BY <1>t, <1>6 DEF CountCompleted, Incremented
  <2>2. seen[w] \in Nat  BY <1>t
  <2> QED  BY <1>t, <2>1, <2>2 DEF CountsInv
<1> QED  BY <1>1, <1>2, <1>3, <1>4, <1>5, <1>6 DEF WorkerStep

LEMMA OwnerCounts ==
  ASSUME Shape, EachTaskOnce, CountsInv, Owner
  PROVE  CountsInv'
<1>t. worker \in [Slots -> WorkerPC] /\ failed \in Nat /\ queue \in Seq(Tasks) /\ Len(queue) \in Nat
  BY DEF Shape, TypeOK
<1>1. CASE JoinDone
  <2>1. /\ completed' = completed /\ seen' = seen /\ client' = client
        /\ \A v \in Slots : worker'[v] \in {"count", "drop", "update"} => worker'[v] = worker[v]
    BY <1>t, <1>1 DEF JoinDone, histVars
  <2>2. CASE owner = "stopJoin"
    <3>1. status' = [t \in Tasks |-> IF status[t] = "queued" THEN "dropped" ELSE status[t]]
          /\ \E stale \in 0..Len(queue) : failed' = failed + stale
      BY <1>1, <2>2 DEF JoinDone
    <3>2. /\ IsFiniteSet({u \in Tasks : status'[u] # "new"})
          /\ With(status', {"done"}) = With(status, {"done"})
          /\ Cardinality(With(status', Dead)) >= Cardinality(With(status, Dead)) + Len(queue)
          /\ Cardinality(With(status, Dead)) \in Nat /\ Cardinality(With(status', Dead)) \in Nat
      BY <3>1, DropsCounted
    <3>3. failed' <= Cardinality(With(status', Dead))  BY <1>t, <3>1, <3>2 DEF CountsInv
    <3>4. \A u \in Threads : seen[u] \in Nat  BY DEF Shape, TypeOK
    <3>5. \A v \in Slots : worker'[v] = "drop" => seen[v] <= Cardinality(With(status', Dead))
      <4> SUFFICES ASSUME NEW v \in Slots, worker'[v] = "drop"
                   PROVE  seen[v] <= Cardinality(With(status', Dead))
        OBVIOUS
      <4>1. seen[v] <= Cardinality(With(status, Dead)) /\ seen[v] \in Nat
        BY <2>1, <3>4 DEF CountsInv, Threads
      <4> QED  BY <1>t, <3>2, <4>1
    <3>6. \A c \in Clients : client'[c] = "reject" => seen[c] + 1 <= Cardinality(With(status', Dead))
      <4> SUFFICES ASSUME NEW c \in Clients, client'[c] = "reject"
                   PROVE  seen[c] + 1 <= Cardinality(With(status', Dead))
        OBVIOUS
      <4>1. seen[c] + 1 <= Cardinality(With(status, Dead)) /\ seen[c] \in Nat
        BY <2>1, <3>4 DEF CountsInv, Threads
      <4> QED  BY <1>t, <3>2, <4>1
    <3> QED  BY <2>1, <3>2, <3>3, <3>5, <3>6 DEF CountsInv
  <2>3. CASE owner # "stopJoin"
    <3>1. status' = status /\ failed' = failed  BY <1>1, <2>3 DEF JoinDone
    <3> QED  BY <2>1, <3>1, CountsKept DEF countVars
  <2> QED  BY <2>2, <2>3
<1>2. CASE Owner /\ ~ JoinDone
  <2>1. /\ UNCHANGED countVars /\ status' = status /\ client' = client
        /\ \A v \in Slots : worker'[v] \in {"count", "drop", "update"} => worker'[v] = worker[v]
    BY <1>t, <1>2 DEF Owner, Pause, Resume, Start, SetMaxQueueSize, Grow, Shrink, StopSet,
                      StopNotify, Spawn, WakeAll
  <2> QED  BY <2>1, CountsKept
<1> QED  BY <1>1, <1>2

LEMMA StepCounts == Shape /\ EachTaskOnce /\ CountsInv /\ [Next]_vars => CountsInv'
<1> SUFFICES ASSUME Shape, EachTaskOnce, CountsInv, [Next]_vars PROVE CountsInv'
  OBVIOUS
<1>1. CASE UNCHANGED vars
  BY <1>1, CountsKept DEF vars
<1>2. CASE Next
  BY <1>2, SubmitCounts, WorkerCounts, OwnerCounts DEF Next
<1> QED  BY <1>1, <1>2

\* The unlocked counters lose updates but never invent one, and updateMetrics
\* never divides by zero, for any number of workers and clients.
THEOREM MetricsHold == Spec => []MetricsSound
<1>1. Init => CountsInv
  <2> SUFFICES ASSUME Init PROVE CountsInv  OBVIOUS
  <2>1. {t \in Tasks : status[t] # "new"} = {} /\ With(status, {"done"}) = {} /\ With(status, Dead) = {}
    BY DEF Init, With, Dead
  <2>2. IsFiniteSet({}) /\ Cardinality({}) = 0  BY FS_EmptySet
  <2>3. /\ \A w \in Slots : worker[w] \in {"top", "absent"}
        /\ \A c \in Clients : client[c] = "idle"
        /\ completed = 0 /\ failed = 0
    BY DEF Init
  <2> QED  BY <2>1, <2>2, <2>3 DEF CountsInv
<1>2. Shape /\ CountsInv => MetricsSound
  <2> SUFFICES ASSUME Shape, CountsInv PROVE MetricsSound  OBVIOUS
  <2>1. With(status, {"done"}) = {t \in Tasks : status[t] = "done"}
        /\ With(status, Dead) = {t \in Tasks : status[t] \in {"stale", "rejected", "dropped"}}
    BY DEF With, Dead
  <2>2. completed \in Nat /\ failed \in Nat  BY DEF Shape, TypeOK
  <2> QED  BY <2>1, <2>2 DEF CountsInv, MetricsSound, Divisor
<1> QED  BY <1>1, <1>2, StepCounts, ShapeHolds, TasksHandledOnce, PTL DEF Spec
=============================================================================
