----------------------------- MODULE ParentKernel -----------------------------
(***************************************************************************)
(* cloud::ParentKernel (parent_kernel.cpp): a kernel that starts, stops,   *)
(* pauses and resumes child kernels, with a thread that checks and         *)
(* restarts them and one that distributes tasks.  The children, their      *)
(* quotas, their task distributions and the metrics have a mutex each;     *)
(* child_kernels_mutex_ is held through every loop over the children, also *)
(* while the monitoring thread sleeps.                                     *)
(*                                                                         *)
(* Nothing in the code puts a task into task_queue_, which is private: the *)
(* distributing thread only waits and leaves, and distributeTask is never  *)
(* reached.  The load of a kernel is 0 or NaN (KernelLimits), never above  *)
(* a threshold: neither balanceTasks nor monitorResourceUsage acts on it.  *)
(* The numbers of quotas and distributions are left out.  Copying a        *)
(* child's metrics throws only if an allocation fails, which the module    *)
(* assumes not to happen; otherwise collectChildKernelMetrics would lock   *)
(* the children with the metrics locked, against the monitor's order.      *)
(***************************************************************************)
EXTENDS LockedCalls

CONSTANTS
  Names,                     \* the names of children
  Clients, Monitor, Worker,  \* callers, monitorChildKernels, processTaskQueue
  MaxCalls,                  \* bound: public calls in a behaviour
  MaxFaults                  \* bound: how often a child throws

VARIABLES
  running, paused,   \* of the parent itself (KernelBase)
  processing,        \* task_processing_active_
  children,          \* the names in child_kernels_
  active,            \* the children with is_active
  quotas, shares,    \* the names in resource_quotas_ and task_distributions_
  mode,              \* of each child: "stopped", "running" or "paused"
  calls, faults

parent == <<running, paused, processing, children, active, quotas, shares, mode>>
vars == <<callVars, parent, calls, faults>>

TypeOK ==
  /\ CallsTypeOK
  /\ running \in BOOLEAN /\ paused \in BOOLEAN /\ processing \in BOOLEAN
  /\ active \subseteq Names /\ children \subseteq Names
  /\ quotas \subseteq Names /\ shares \subseteq Names
  /\ mode \in [Names -> {"stopped", "running", "paused"}]
  /\ calls \in 0..MaxCalls /\ faults \in 0..MaxFaults

-----------------------------------------------------------------------------
(* The methods, as what a thread does.                                     *)

GetChildKernel(n) == Locked("children", Do("find", n))
OptimizeChildKernel(n) == GetChildKernel(n) \o Do("flags", n)

SetResourceQuota(n) == Locked("quotas", Do("quota", n))
GetResourceQuota(n) == Locked("quotas", Do("findQuota", n))
SetTaskDistribution(n) == Locked("distributions", Do("share", n))

UpdateChildStatus(n) == Locked("children", Do("inactive", n))

HandleChildError(n) == UpdateChildStatus(n)

InitializeChildKernel(n) ==
  GetChildKernel(n) \o SetResourceQuota(n) \o SetTaskDistribution(n) \o OptimizeChildKernel(n)

CleanupChildKernel(n) ==
  Locked("quotas", Do("eraseQuota", n) \o Locked("distributions", Do("eraseShare", n)))

RegisterChildKernel(n) == Locked("children", Do("insert", n) \o InitializeChildKernel(n))

UnregisterChildKernel(n) ==
  Locked("children", Do("find", n) \o CleanupChildKernel(n) \o Do("erase", n))

\* A loop over the children, with child_kernels_mutex_ held.
\* broadcastMessage and registerMessageHandler are the same loop.
AllChildren(step) == Locked("children", Do("each", step))

\* Mutant: a child is marked first, and an error is only logged.
StartChildEagerly(n) == Do("active", n) \o Try(Do("start", n), <<>>)

StartChild(n) == Try(Do("start", n) \o Do("active", n), HandleChildError(n))

EachBody(step, n) ==
  CASE step = "start" -> StartChild(n)
    [] step = "stop" -> Try(Do("stop", n) \o Do("inactive", n), HandleChildError(n))
    [] step \in {"pause", "resume"} -> Try(Do(step, n), HandleChildError(n))
    [] step = "optimize" -> OptimizeChildKernel(n)
    [] step = "check" -> Try(Do("check", n), Do("inactive", n) \o HandleChildError(n))
    [] step = "usage" -> IF n \in active THEN Try(GetResourceQuota(n), HandleChildError(n)) ELSE <<>>
    [] step = "message" -> IF n \in active THEN Try(Do("message", n), HandleChildError(n)) ELSE <<>>

\* Mutant: the metrics are collected with the children locked as well.
UpdateMetricsLocked == Locked("metrics", Locked("children", Do("collect", 0)))

\* updateMetrics reads the children under metrics_mutex_ alone.
UpdateMetrics == Locked("metrics", Do("collect", 0))
MonitorResourceUsage == AllChildren("usage")
MonitorRound ==
  Locked("children", Do("each", "check") \o MonitorResourceUsage \o UpdateMetrics) \o Do("round", 0)

RecoverChild(n) ==
  Try(Do("stop", n) \o Do("start", n) \o Do("active", n) \o OptimizeChildKernel(n),
      HandleChildError(n))

BalanceTasks == Locked("children", Do("collect", 0))
SendMessage(n) == GetChildKernel(n) \o Try(Do("message", n), HandleChildError(n))

Start == Do("running", TRUE) \o AllChildren("start")

Stop ==
  Do("quiet", FALSE) \o Do("join", Worker) \o Do("join", Monitor)
    \o AllChildren("stop") \o Do("running", FALSE)

Pause == Do("quiet", FALSE) \o AllChildren("pause") \o Do("paused", TRUE)
Resume == Do("quiet", TRUE) \o AllChildren("resume") \o Do("paused", FALSE)

-----------------------------------------------------------------------------
Init ==
  /\ CallsInit
  /\ todo = [t \in Threads |-> <<>>]
  /\ running = FALSE /\ paused = FALSE /\ processing = FALSE
  /\ children = {} /\ active = {} /\ quotas = {} /\ shares = {}
  /\ mode = [n \in Names |-> "stopped"]
  /\ calls = 0 /\ faults = 0

Idling == {t \in Clients : Idle(t)}

\* start() and stop() are called by one owner; the others by any client.
Owner == CHOOSE t \in Clients : TRUE

Invoke(t) ==
  /\ t \in Clients /\ calls < MaxCalls
  /\ calls' = calls + 1
  /\ \/ t = Owner /\ ~running /\ Call(t, Start)
     \/ t = Owner /\ running /\ Call(t, Stop)
     \/ running /\ Call(t, Pause)
     \/ paused /\ Call(t, Resume)
     \/ \E n \in Names :
          \/ Call(t, RegisterChildKernel(n)) \/ Call(t, UnregisterChildKernel(n))
          \/ Call(t, SendMessage(n)) \/ Call(t, OptimizeChildKernel(n))
          \/ Call(t, SetResourceQuota(n)) \/ Call(t, SetTaskDistribution(n))
     \/ Call(t, BalanceTasks) \/ Call(t, UpdateMetrics) \/ Call(t, MonitorResourceUsage)
     \/ \E step \in {"optimize", "message"} : Call(t, AllChildren(step))
  /\ UNCHANGED <<parent, faults>>

-----------------------------------------------------------------------------
(* The steps.                                                              *)

Find(t) ==
  /\ At(t, "find") \/ At(t, "insert") \/ At(t, "findQuota")
  /\ LET known == IF Now(t).do = "findQuota" THEN quotas ELSE children
     IN  IF (Now(t).arg \in known) = (Now(t).do # "insert")
         THEN children' = children \cup (IF Now(t).do = "insert" THEN {Now(t).arg} ELSE {}) /\ Done(t)
         ELSE UNCHANGED children /\ Throw(t)
  /\ active' = IF Now(t).do = "insert" /\ Now(t).arg \notin children THEN active \ {Now(t).arg} ELSE active
  /\ UNCHANGED <<running, paused, processing, quotas, shares, mode, calls, faults>>

Table(t) ==
  /\ At(t, "quota") \/ At(t, "share") \/ At(t, "eraseQuota") \/ At(t, "eraseShare") \/ At(t, "erase")
  /\ LET n == Now(t).arg
         step == Now(t).do
     IN  /\ quotas' = CASE step = "quota" -> quotas \cup {n} [] step = "eraseQuota" -> quotas \ {n}
                        [] OTHER -> quotas
         /\ shares' = CASE step = "share" -> shares \cup {n} [] step = "eraseShare" -> shares \ {n}
                        [] OTHER -> shares
         /\ children' = IF step = "erase" THEN children \ {n} ELSE children
         /\ active' = IF step = "erase" THEN active \ {n} ELSE active
  /\ Done(t)
  /\ UNCHANGED <<running, paused, processing, mode, calls, faults>>

\* is_active; updateChildKernelStatus looks the name up.
Activity(t) ==
  /\ At(t, "active") \/ At(t, "inactive")
  /\ active' = IF Now(t).do = "active" THEN active \cup {Now(t).arg} ELSE active \ {Now(t).arg}
  /\ Done(t)
  /\ UNCHANGED <<running, paused, processing, children, quotas, shares, mode, calls, faults>>

Moved(step, m) ==
  CASE step = "start" -> IF m = "stopped" THEN "running" ELSE m
    [] step = "stop" -> "stopped"
    [] step = "pause" -> IF m = "running" THEN "paused" ELSE m
    [] step = "resume" -> IF m = "paused" THEN "running" ELSE m
    [] step \in {"message", "flags"} -> m

\* A call of a child.  KernelBase::start sets running_ before it can throw and
\* takes it back; stop() and pause() throw with their work done.
ChildCall(t) ==
  /\ \E step \in {"start", "stop", "pause", "resume", "message", "flags"} : At(t, step)
  /\ LET n == Now(t).arg
         step == Now(t).do
     IN  \/ /\ mode' = [mode EXCEPT ![n] = Moved(step, @)]
            /\ Done(t) /\ UNCHANGED faults
         \/ /\ faults < MaxFaults /\ faults' = faults + 1
            /\ mode' = [mode EXCEPT ![n] = IF step = "start" THEN @ ELSE Moved(step, @)]
            /\ Throw(t)
  /\ UNCHANGED <<running, paused, processing, children, active, quotas, shares, calls>>

Each(t) ==
  /\ At(t, "each")
  /\ Proceed(t, FlattenSeq([i \in 1..Cardinality(children) |->
                              EachBody(Now(t).arg, SetToSeq(children)[i])]))
  /\ UNCHANGED <<parent, calls, faults>>

\* checkChildKernelHealth and recoverChildKernel.
Check(t) ==
  /\ At(t, "check")
  /\ LET n == Now(t).arg
         healthy == mode[n] # "stopped"
     IN  /\ active' = IF healthy THEN active \cup {n} ELSE active \ {n}
         /\ Proceed(t, IF healthy THEN <<>> ELSE RecoverChild(n))
  /\ UNCHANGED <<running, paused, processing, children, quotas, shares, mode, calls, faults>>

Collect(t) == At(t, "collect") /\ Done(t) /\ UNCHANGED <<parent, calls, faults>>

\* The flags of the parent.  start() creates both threads; a step of pause()
\* or resume() has no effect on a parent that is not running.
SetFlags(t) ==
  /\ At(t, "running") \/ At(t, "paused") \/ At(t, "quiet")
  /\ LET step == Now(t).do
         on == Now(t).arg
     IN  /\ running' = IF step = "running" THEN on ELSE running
         /\ paused' = CASE step = "running" -> FALSE
                        [] step = "paused" -> running /\ on
                        [] OTHER -> paused
         /\ processing' = CASE step = "quiet" -> on [] step = "running" /\ on -> TRUE
                            [] OTHER -> processing
         /\ todo' = [u \in Threads |->
                       IF u = t THEN Tail(todo[u])
                       ELSE IF step = "running" /\ on /\ u = Monitor THEN Do("round", 0)
                       ELSE IF step = "running" /\ on /\ u = Worker THEN Do("await", 0)
                       ELSE todo[u]]
  /\ UNCHANGED <<platform, holder, depth, dead, children, active, quotas, shares, mode, calls, faults>>

Round(t) ==
  /\ At(t, "round")
  /\ Proceed(t, IF running THEN MonitorRound ELSE <<>>)
  /\ UNCHANGED <<parent, calls, faults>>

\* processTaskQueue: the queue stays empty, so the thread waits until it is
\* told to leave; resume() does not bring it back.  The flag is reset without
\* task_queue_mutex_, so the notification may be missed: nothing here is fair,
\* and a thread that never leaves is a behaviour of the module.
LeaveQueue(t) ==
  /\ At(t, "await") /\ ~processing
  /\ Done(t)
  /\ UNCHANGED <<parent, calls, faults>>

Join(t) ==
  /\ At(t, "join") /\ Idle(Now(t).arg)
  /\ Done(t)
  /\ UNCHANGED <<parent, calls, faults>>

ThreadStep(t) ==
  \/ LockStep(t) /\ UNCHANGED <<parent, calls, faults>>
  \/ Find(t) \/ Table(t) \/ Activity(t) \/ ChildCall(t) \/ Each(t) \/ Check(t)
  \/ Collect(t) \/ SetFlags(t) \/ Round(t) \/ LeaveQueue(t) \/ Join(t)

Next ==
  \E t \in Threads : Invoke(t) \/ ThreadStep(t)

Spec == Init /\ [][Next]_vars

-----------------------------------------------------------------------------
\* The locks of a parent are always taken in one order: where a thread may
\* take its own mutex twice, no threads wait for one another.
NoLockCycle == \A S \in SUBSET Threads : ~Entangled(S)

\* A child marked active runs, whenever the children are not being changed.
ActiveChildrenRun ==
  (~dead /\ holder["children"] = Free) => \A n \in active : n \in children /\ mode[n] # "stopped"
=============================================================================
