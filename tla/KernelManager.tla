---------------------------- MODULE KernelManager ----------------------------
(***************************************************************************)
(* cloud::KernelManager (kernel_manager.cpp): named kernels, their configs *)
(* and their status under three mutexes, and a monitoring thread that      *)
(* checks every kernel.  Public methods call one another with the mutexes  *)
(* held; exceptions of a kernel lead to handleKernelError, which recovers, *)
(* which may fail and report again.                                        *)
(*                                                                         *)
(* The numbers handed to a kernel (threads, queue, timeout) are those of   *)
(* KernelLimits and are left out here, and so is updateMetrics, which      *)
(* nothing calls.  By the same module a kernel counts no failed messages   *)
(* and its load is 0 or NaN: the check finds every kernel healthy, and     *)
(* balanceLoad never finds a difference.  updateKernelStatus is called and *)
(* defined nowhere: it is taken to set is_running under statuses_mutex_.   *)
(***************************************************************************)
EXTENDS LockedCalls

CONSTANTS
  Names,        \* the names of kernels
  Clients, Monitor,
  MaxRestarts,  \* the limit in recoverKernel: 3 in the code
  MaxCalls,     \* bound: public calls in a behaviour
  MaxFaults     \* bound: how often a kernel throws

VARIABLES
  kernels,     \* kernels_: the names registered
  configs,     \* the names with an entry in kernel_configs_
  status,      \* kernel_statuses_
  mode,        \* of each kernel object: "stopped", "running" or "paused"
  autoRecovery, monitoring,   \* auto_recovery_enabled_, monitoring_active_
  calls, faults

managed == <<kernels, configs, status, mode, autoRecovery, monitoring>>
vars == <<callVars, managed, calls, faults>>

NoStatus == [healthy |-> FALSE, restarts |-> -1]
NewStatus == [healthy |-> TRUE, restarts |-> 0]

TypeOK ==
  /\ CallsTypeOK
  /\ kernels \subseteq Names /\ configs \subseteq Names
  /\ \A n \in Names : status[n].restarts \in -1..(MaxRestarts + MaxCalls)
  /\ mode \in [Names -> {"stopped", "running", "paused"}]
  /\ autoRecovery \in BOOLEAN /\ monitoring \in BOOLEAN
  /\ calls \in 0..MaxCalls /\ faults \in 0..MaxFaults

-----------------------------------------------------------------------------
(* The methods, as what a thread does.                                     *)

GetKernel(n) == Locked("kernels", Do("find", n))

SetKernelConfig(n) == Locked("configs", Do("config", n) \o GetKernel(n))

OptimizeKernel(n) == GetKernel(n) \o Do("flags", n)

InitializeKernel(n) ==
  GetKernel(n) \o SetKernelConfig(n)
    \o Locked("statuses", Do("newStatus", n) \o OptimizeKernel(n))

CleanupKernel(n) ==
  Locked("configs", Do("eraseConfig", n) \o Locked("statuses", Do("eraseStatus", n)))

\* Mutant: a kernel is unregistered in name only.
UnregisterPartly(n) == Locked("kernels", Do("find", n) \o CleanupKernel(n))

RegisterKernel(n) == Locked("kernels", Do("insert", n) \o InitializeKernel(n))
UnregisterKernel(n) == Locked("kernels", Do("find", n) \o CleanupKernel(n) \o Do("erase", n))

\* Mutant: the status is updated the way updateMetrics reads it, with a call
\* of getKernel inside the lock.
UpdateStatusLookup(n) == Locked("statuses", GetKernel(n))

UpdateStatus(n) == Locked("statuses", Do("skip", n))

\* startKernel, stopKernel, pauseKernel and resumeKernel.
StartKernel(n) == GetKernel(n) \o Try(Do("start", n) \o UpdateStatus(n), Do("handle", n))
StopKernel(n) == GetKernel(n) \o Try(Do("stop", n) \o UpdateStatus(n), Do("handle", n))
PauseKernel(n) == GetKernel(n) \o Try(Do("pause", n), Do("handle", n))
ResumeKernel(n) == GetKernel(n) \o Try(Do("resume", n), Do("handle", n))

\* startAll, stopAll, pauseAll, resumeAll and optimizeAllKernels.
All(step) == Locked("kernels", Do("each", step))
EachBody(step, n) ==
  CASE step \in {"start", "stop"} -> Try(Do(step, n) \o UpdateStatus(n), Do("handle", n))
    [] step \in {"pause", "resume"} -> Try(Do(step, n), Do("handle", n))
    [] step = "optimize" -> OptimizeKernel(n)
    [] step = "check" -> GetKernel(n) \o Do("check", n)

MonitorRound == Locked("kernels", Do("each", "check")) \o Do("round", 0)

\* The body of recoverKernel below the limit.
Restart(n) == Try(StopKernel(n) \o StartKernel(n) \o Do("count", n), Do("handle", n))

Destructor == All("stop") \o Do("stopMonitoring", 0) \o Do("join", 0)

-----------------------------------------------------------------------------
Init ==
  /\ CallsInit
  /\ todo = [t \in Threads |-> IF t = Monitor THEN Do("round", 0) ELSE <<>>]
  /\ kernels = {} /\ configs = {} /\ status = [n \in Names |-> NoStatus]
  /\ mode = [n \in Names |-> "stopped"] 
  /\ autoRecovery = TRUE /\ monitoring = TRUE
  /\ calls = 0 /\ faults = 0

Public(n) ==
  {RegisterKernel(n), UnregisterKernel(n), SetKernelConfig(n), StartKernel(n), StopKernel(n),
   PauseKernel(n), ResumeKernel(n), Do("handle", n)}

Invoke(t) ==
  /\ t \in Clients /\ monitoring /\ calls < MaxCalls
  /\ calls' = calls + 1
  /\ \/ \E n \in Names : \E steps \in Public(n) : Call(t, steps)
     \/ \E step \in {"start", "stop", "pause", "resume", "optimize"} : Call(t, All(step))
     \/ \A u \in Clients : Idle(u) /\ Call(t, Destructor)
  /\ UNCHANGED <<managed, faults>>

SetAutoRecovery ==
  /\ ~dead /\ calls < MaxCalls
  /\ autoRecovery' = ~autoRecovery /\ calls' = calls + 1
  /\ UNCHANGED <<callVars, kernels, configs, status, mode, monitoring, faults>>

-----------------------------------------------------------------------------
(* The steps.                                                              *)

\* A lookup or an insertion that fails throws.
Find(t) ==
  /\ At(t, "find") \/ At(t, "insert")
  /\ IF (Now(t).arg \in kernels) = (Now(t).do = "find")
     THEN /\ kernels' = kernels \cup {Now(t).arg}
          /\ Done(t)
     ELSE UNCHANGED kernels /\ Throw(t)
  /\ UNCHANGED <<configs, status, mode, autoRecovery, monitoring, calls, faults>>

Skip(t) == At(t, "skip") /\ Done(t) /\ UNCHANGED <<managed, calls, faults>>

Erase(t) ==
  /\ At(t, "erase") \/ At(t, "eraseConfig") \/ At(t, "config")
  /\ kernels' = IF Now(t).do = "erase" THEN kernels \ {Now(t).arg} ELSE kernels
  /\ configs' = CASE Now(t).do = "eraseConfig" -> configs \ {Now(t).arg}
                  [] Now(t).do = "config" -> configs \cup {Now(t).arg}
                  [] OTHER -> configs
  /\ Done(t)
  /\ UNCHANGED <<status, mode, autoRecovery, monitoring, calls, faults>>

SetStatus(t) ==
  /\ At(t, "newStatus") \/ At(t, "eraseStatus")
  /\ status' = [status EXCEPT ![Now(t).arg] =
                  IF Now(t).do = "newStatus" THEN NewStatus ELSE NoStatus]
  /\ Done(t)
  /\ UNCHANGED <<kernels, configs, mode, autoRecovery, monitoring, calls, faults>>

Moved(step, m) ==
  CASE step = "start" -> IF m = "stopped" THEN "running" ELSE m
    [] step = "stop" -> "stopped"
    [] step = "pause" -> IF m = "running" THEN "paused" ELSE m
    [] step = "resume" -> IF m = "paused" THEN "running" ELSE m
    [] step = "flags" -> m

\* A call of the kernel.  Setting a flag throws where KernelLimits says so.
KernelCall(t) ==
  /\ \E step \in {"start", "stop", "pause", "resume", "flags"} : At(t, step)
  /\ LET n == Now(t).arg
     IN  \/ /\ mode' = [mode EXCEPT ![n] = Moved(Now(t).do, @)]
            /\ Done(t) /\ UNCHANGED faults
         \/ /\ faults < MaxFaults /\ faults' = faults + 1
            /\ Throw(t) /\ UNCHANGED mode
  /\ UNCHANGED <<kernels, configs, status, autoRecovery, monitoring, calls>>

Each(t) ==
  /\ At(t, "each")
  /\ Proceed(t, FlattenSeq([i \in 1..Cardinality(kernels) |->
                              EachBody(Now(t).arg, SetToSeq(kernels)[i])]))
  /\ UNCHANGED <<managed, calls, faults>>

\* checkKernelHealth reads and writes the status without statuses_mutex_.
Check(t) ==
  /\ At(t, "check")
  /\ status' = [status EXCEPT ![Now(t).arg] =
                  IF @ = NoStatus THEN NewStatus ELSE [@ EXCEPT !.healthy = TRUE]]
  /\ Done(t)
  /\ UNCHANGED <<kernels, configs, mode, autoRecovery, monitoring, calls, faults>>

Handle(t) ==
  /\ At(t, "handle")
  /\ Proceed(t, IF autoRecovery THEN Do("recover", Now(t).arg) ELSE <<>>)
  /\ UNCHANGED <<managed, calls, faults>>

MayRestart(n) == status[n].restarts < MaxRestarts

\* recoverKernel: operator[] creates the status of a name that has none.  At
\* the limit it calls handleKernelError, which calls it again, and so does the
\* handler of the lookup of an unknown kernel, or of any kernel where to lock
\* kernels_mutex_ again throws: the recursion ends when somebody switches the
\* recovery off (or registers the kernel), or with the stack.
Recover(t) ==
  /\ At(t, "recover")
  /\ LET n == Now(t).arg
     IN  \/ /\ MayRestart(n)
            /\ status' = IF status[n] = NoStatus
                         THEN [status EXCEPT ![n] = [healthy |-> FALSE, restarts |-> 0]]
                         ELSE status
            /\ Proceed(t, Restart(n))
         \/ /\ ~MayRestart(n)
            /\ Proceed(t, Do("handle", n))
            /\ UNCHANGED status
         \/ /\ autoRecovery
            /\ \/ ~MayRestart(n) \/ n \notin kernels
               \/ platform = "throws" /\ holder["kernels"] = t
            /\ EndProcess
            /\ UNCHANGED status
  /\ UNCHANGED <<kernels, configs, mode, autoRecovery, monitoring, calls, faults>>

\* status.restart_count++ is a read and a write without a lock, through a
\* reference that dangles when the kernel was unregistered meanwhile.
Count(t) ==
  /\ At(t, "count")
  /\ Proceed(t, <<[do |-> "store", arg |-> Now(t).arg, seen |-> status[Now(t).arg].restarts]>>)
  /\ UNCHANGED <<managed, calls, faults>>

Store(t) ==
  /\ At(t, "store")
  /\ status' = [status EXCEPT ![Now(t).arg] =
                  IF @ = NoStatus THEN @ ELSE [healthy |-> TRUE, restarts |-> Now(t).seen + 1]]
  /\ Done(t)
  /\ UNCHANGED <<kernels, configs, mode, autoRecovery, monitoring, calls, faults>>

Round(t) ==
  /\ At(t, "round")
  /\ Proceed(t, IF monitoring THEN MonitorRound ELSE <<>>)
  /\ UNCHANGED <<managed, calls, faults>>

StopMonitoring(t) ==
  /\ At(t, "stopMonitoring") \/ (At(t, "join") /\ Idle(Monitor))
  /\ monitoring' = FALSE
  /\ Done(t)
  /\ UNCHANGED <<kernels, configs, status, mode, autoRecovery, calls, faults>>

Next ==
  \/ \E t \in Threads :
       \/ Invoke(t) \/ (LockStep(t) /\ UNCHANGED <<managed, calls, faults>>)
       \/ Find(t) \/ Skip(t) \/ Erase(t) \/ SetStatus(t) \/ KernelCall(t) \/ Each(t) \/ Check(t)
       \/ Handle(t) \/ Recover(t) \/ Count(t) \/ Store(t) \/ Round(t)
       \/ StopMonitoring(t)
  \/ SetAutoRecovery

Spec == Init /\ [][Next]_vars

-----------------------------------------------------------------------------
\* The only lock cycle: setKernelConfig, which takes configs_mutex_ and then
\* kernels_mutex_, against the registrations, which take them the other way.
OnlyConfigCycle ==
  \A S \in SUBSET Threads :
    Entangled(S) => \E t \in S : holder["configs"] = t /\ Wants(t) = {"kernels"}

\* What is registered is configured and has a status, whenever the registry is
\* not locked.  (Where locking twice throws, registerKernel stops half way.)
RegisteredComplete ==
  (platform = "counts" /\ ~dead /\ holder["kernels"] = Free)
    => \A n \in kernels : n \in configs /\ status[n] # NoStatus
=============================================================================
