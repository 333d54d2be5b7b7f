--------------------------- MODULE CloudIntegration ---------------------------
(***************************************************************************)
(* cloud::CloudIntegration (cloud_integration.cpp): instances with their   *)
(* metrics, a monitoring thread that refreshes the metrics and scales,     *)
(* load balancers, security groups, snapshots and quotas.                  *)
(*                                                                         *)
(* The ids of instances and of snapshots are the second of their birth: a  *)
(* second one in the same second takes the place of the first.  The        *)
(* instance table is written by startInstance and read by validations and  *)
(* createSnapshot without metrics_mutex.                                   *)
(*                                                                         *)
(* What the code calls and does not define (the firewall, the routing, the *)
(* storage of snapshots) is external: it returns or throws.  The price of  *)
(* a snapshot is 0, so current_cost stays 0, and nothing reads the budget. *)
(* There is one load balancer and one security group.                      *)
(***************************************************************************)
EXTENDS MonitoredCalls

CONSTANTS
  Clients,
  MinInstances, MaxInstances,
  Loads, Threshold,  \* of the CPU; an idle instance has load 0
  Certificates,      \* whether the certificate paths are configured
  MaxTime,           \* bound: seconds
  MaxCalls,          \* bound: public calls in a behaviour
  MaxFaults          \* bound: how often an external part throws

VARIABLES
  now,
  scaling,    \* config.auto_scaling
  load,       \* instance_metrics: of the ids in its domain, the CPU usage
  seen,       \* the monitor's instance_count and total_load
  snapshots,  \* the pairs of a snapshot's id and its instance
  targets,    \* of the load balancer; Unset while it is not configured
  rules,      \* of the security group: "unset", or what was configured
  enforced,   \* the rules the firewall has
  quotas, granted,  \* resource_quotas, and what the resource manager holds
  calls, faults

cloud == <<scaling, load, seen, snapshots, targets, rules, enforced, quotas, granted>>
vars == <<callVars, monitor, cloud, now, calls, faults>>

Times == 0..MaxTime
Instances == DOMAIN load
Unset == {-1}

TypeOK ==
  /\ CallsTypeOK /\ MonitorTypeOK
  /\ now \in Times /\ scaling \in BOOLEAN /\ Instances \subseteq Times
  /\ \A i \in Instances : load[i] \in Loads
  /\ snapshots \subseteq Times \X Times /\ targets \subseteq Times \cup Unset
  /\ rules \in {"unset", "valid"} /\ enforced \in {"unset", "valid"}
  /\ quotas \subseteq Times /\ granted \subseteq Times
  /\ calls \in 0..MaxCalls /\ faults \in 0..MaxFaults

TotalLoad == FoldFunction(LAMBDA x, y : x + y, 0, load)

-----------------------------------------------------------------------------
(* The methods, as what a thread does.                                     *)

External == Do("external", 0)

ListInstances == Locked("metrics", <<>>)
StartInstance == Do("insert", 0)

\* Mutant: an instance that stops leaves the load balancer as well.
StopBalanced(i) == Locked("metrics", Locked("lb", Do("erase", i)))

StopInstance(i) == Locked("metrics", Do("erase", i))

UpdateInstanceMetrics == Locked("metrics", Do("refresh", 0))

\* With auto_scaling: instance_count is read before the lock is taken, and the
\* decision made after it is released; the least loaded instance is stopped
\* with it held.
EvaluateScaling == Do("evaluate", 0)
Scale == Do("count", 0) \o Locked("metrics", Do("sum", 0)) \o Do("decide", 0)
ScaleIn == Locked("metrics", Do("least", 0))

\* With the load balancers locked, and the instances not.  The health checks
\* and the triggers are set up around the certificates.
ConfigureLoadBalancer(S) ==
  Locked("lb", Do("validate", S) \o Do("targets", S) \o External \o Do("ssl", 0) \o External)

\* rebalanceLoadBalancer locks the instances while it copies their metrics.
\* The entry is replaced after the routing.
UpdateLoadBalancer(S) ==
  Locked("lb", Do("configured", 0) \o Do("validate", S) \o Do("targets", S) \o External
                 \o Locked("metrics", <<>>) \o External \o Do("distribution", 0))

EnforceRules == External \o Do("enforce", 0) \o External

ConfigureSecurityGroup(r) == Locked("security", Do("valid", r) \o Do("rules", r) \o EnforceRules)

UpdateSecurityGroup(r) ==
  Locked("security", Do("grouped", 0) \o Do("valid", r) \o Do("rules", r) \o EnforceRules)

CreateSnapshot(i) == Do("find", i) \o Do("copy", i)

\* createInstanceSnapshot stops a running instance, and starts it again if it
\* is running after the copy.
SnapshotSteps(id, i) ==
  Do("stopRunning", i) \o External \o Do("startRunning", i) \o Do("snapshot", <<id, i>>)

\* Both restoreInstanceFromSnapshot and its caller stop and start; then every
\* instance is refreshed, with the callback.
RestoreFromSnapshot(s) ==
  Do("findSnapshot", s) \o Do("stopRunning", s[2]) \o Do("stopRunning", s[2]) \o External
    \o StartInstance \o StartInstance \o UpdateInstanceMetrics

AllocateResources(i) == Locked("resources", Do("quota", i) \o External \o Do("grant", i))
ReleaseResources(i) == Locked("resources", Do("noQuota", i) \o External \o Do("revoke", i))

\* The destructor of Impl.
Destroy == StopMonitoring \o Locked("resources", Do("cleanup", 0))

-----------------------------------------------------------------------------
Init ==
  /\ CallsInit /\ MonitorInit
  /\ todo = [t \in Threads |-> <<>>]
  /\ now = 0 /\ scaling \in BOOLEAN
  /\ load = [i \in {} |-> 0] /\ seen = [count |-> 0, total |-> 0]
  /\ snapshots = {} /\ targets = Unset /\ rules = "unset" /\ enforced = "unset"
  /\ quotas = {} /\ granted = {} /\ calls = 0 /\ faults = 0

Tick ==
  /\ now < MaxTime /\ now' = now + 1
  /\ UNCHANGED <<callVars, monitor, cloud, calls, faults>>

Invoke(t) ==
  /\ t \in Clients /\ calls < MaxCalls /\ calls' = calls + 1
  /\ \/ Call(t, StartInstance) \/ Call(t, ListInstances)
     \/ Call(t, StartMonitoring) \/ Call(t, StopMonitoring)
     \/ \E kind \in {"none", "reads", "balances", "stops"} \ {callback} : Call(t, Do("callback", kind))
     \/ Call(t, Do("scaling", ~scaling))
     \/ \E i \in Instances :
          \/ Call(t, StopInstance(i)) \/ Call(t, CreateSnapshot(i))
          \/ Call(t, AllocateResources(i)) \/ Call(t, ReleaseResources(i))
          \/ Call(t, ConfigureLoadBalancer({i})) \/ Call(t, UpdateLoadBalancer({i}))
     \/ \E s \in snapshots : Call(t, RestoreFromSnapshot(s))
     \/ \E r \in {"valid", "invalid"} :
          Call(t, ConfigureSecurityGroup(r)) \/ Call(t, UpdateSecurityGroup(r))
  /\ UNCHANGED <<monitor, cloud, now, faults>>

\* The destructor ends the behaviour.
Delete(t) ==
  /\ t \in Clients /\ calls < MaxCalls /\ calls' = MaxCalls
  /\ (\A u \in Clients : Idle(u)) /\ Call(t, Destroy)
  /\ UNCHANGED <<monitor, cloud, now, faults>>
-----------------------------------------------------------------------------
(* The steps.                                                              *)

\* What a method looks up or validates before it goes on.
Passes(step, arg) ==
  CASE step = "find" -> arg \in Instances
    [] step = "findSnapshot" -> \E s \in snapshots : s[1] = arg[1]
    [] step = "configured" -> targets # Unset
    [] step = "grouped" -> rules # "unset"
    [] step = "validate" -> arg \subseteq Instances
    [] step = "valid" -> arg # "invalid"
    [] step = "ssl" -> Certificates

Check(t) ==
  /\ \E step \in {"find", "findSnapshot", "configured", "grouped", "validate", "valid", "ssl"} : At(t, step)
  /\ IF Passes(Now(t).do, Now(t).arg) THEN Done(t) ELSE Throw(t)
  /\ UNCHANGED <<monitor, cloud, now, calls, faults>>

CallExternal(t) ==
  /\ At(t, "external")
  /\ \/ Done(t) /\ UNCHANGED faults
     \/ faults < MaxFaults /\ faults' = faults + 1 /\ Throw(t)
  /\ UNCHANGED <<monitor, cloud, now, calls>>

Insert(t) ==
  /\ At(t, "insert")
  /\ load' = [i \in Instances \cup {now} |-> IF i = now THEN 0 ELSE load[i]]
  /\ Done(t)
  /\ UNCHANGED <<monitor, scaling, seen, snapshots, targets, rules, enforced, quotas, granted, now, calls, faults>>

Erase(t) ==
  /\ At(t, "erase")
  /\ load' = [i \in Instances \ {Now(t).arg} |-> load[i]]
  /\ Done(t)
  /\ UNCHANGED <<monitor, scaling, seen, snapshots, targets, rules, enforced, quotas, granted, now, calls, faults>>

Copy(t) ==
  /\ At(t, "copy") \/ At(t, "stopRunning") \/ At(t, "startRunning")
  /\ LET i == Now(t).arg
     IN  Proceed(t, IF At(t, "copy") THEN SnapshotSteps(now, i)
                    ELSE IF i \notin Instances THEN <<>>
                    ELSE IF At(t, "stopRunning") THEN StopInstance(i) ELSE StartInstance)
  /\ UNCHANGED <<monitor, cloud, now, calls, faults>>

\* The distribution of a balanced load balancer is calculated elsewhere.
Record(t) ==
  /\ \E step \in {"targets", "distribution", "rules", "enforce", "scaling", "snapshot", "quota",
                   "noQuota", "grant", "revoke", "cleanup"} : At(t, step)
  /\ LET step == Now(t).do
         arg == Now(t).arg
     IN  /\ targets' \in CASE step = "targets" -> {arg}
                           [] step = "distribution" -> SUBSET targets
                           [] OTHER -> {targets}
         /\ rules' = IF step = "rules" THEN arg ELSE rules
         /\ enforced' = IF step = "enforce" THEN rules ELSE enforced
         /\ scaling' = IF step = "scaling" THEN arg ELSE scaling
         /\ snapshots' = IF step = "snapshot" THEN {s \in snapshots : s[1] # arg[1]} \cup {arg}
                         ELSE snapshots
         /\ quotas' = CASE step = "quota" -> quotas \cup {arg} [] step = "noQuota" -> quotas \ {arg}
                        [] step = "cleanup" -> {} [] OTHER -> quotas
         /\ granted' = CASE step = "grant" -> granted \cup {arg} [] step = "revoke" -> granted \ {arg}
                         [] step = "cleanup" -> {} [] OTHER -> granted
  /\ Done(t)
  /\ UNCHANGED <<monitor, load, seen, now, calls, faults>>

\* Every entry gets the usage of the system, and the callback runs.
Refresh(t) ==
  /\ At(t, "refresh")
  /\ \E x \in Loads : load' = [i \in Instances |-> x]
  /\ Proceed(t, CASE Instances = {} \/ callback = "none" -> <<>>
                  [] OTHER -> CalledBack(CASE callback = "reads" -> ListInstances
                                           [] callback = "balances" -> ConfigureLoadBalancer(Instances)
                                           [] callback = "stops" -> StopMonitoring))
  /\ UNCHANGED <<monitor, scaling, seen, snapshots, targets, rules, enforced, quotas, granted, now, calls, faults>>

Evaluate(t) ==
  /\ At(t, "evaluate")
  /\ Proceed(t, IF scaling THEN Scale ELSE <<>>)
  /\ UNCHANGED <<monitor, cloud, now, calls, faults>>

Count(t) ==
  /\ At(t, "count") \/ At(t, "sum")
  /\ seen' = IF At(t, "count") THEN [seen EXCEPT !.count = Cardinality(Instances)]
             ELSE [seen EXCEPT !.total = TotalLoad]
  /\ Done(t)
  /\ UNCHANGED <<monitor, scaling, load, snapshots, targets, rules, enforced, quotas, granted, now, calls, faults>>

\* The average over no instances is 0.
Overloaded == seen.count > 0 /\ seen.total > Threshold * seen.count
Underloaded == 2 * seen.total < Threshold * seen.count

Decide(t) ==
  /\ At(t, "decide")
  /\ Proceed(t, IF Overloaded /\ seen.count < MaxInstances THEN StartInstance
                ELSE IF Underloaded /\ seen.count > MinInstances THEN ScaleIn ELSE <<>>)
  /\ UNCHANGED <<monitor, cloud, now, calls, faults>>

Least(t) ==
  /\ At(t, "least")
  /\ \/ \E i \in Instances :
          (\A j \in Instances : load[i] <= load[j]) /\ Proceed(t, StopInstance(i))
     \/ Instances = {} /\ Done(t)
  /\ UNCHANGED <<monitor, cloud, now, calls, faults>>

\* A round leaves seen behind, which nothing reads before the next one.
Round(t) ==
  /\ At(t, "round")
  /\ Proceed(t, IF active THEN UpdateInstanceMetrics \o EvaluateScaling \o Do("round", 0) ELSE <<>>)
  /\ seen' = [count |-> 0, total |-> 0]
  /\ UNCHANGED <<monitor, scaling, load, snapshots, targets, rules, enforced, quotas, granted, now, calls, faults>>

Next ==
  \/ Tick
  \/ \E t \in Threads :
       \/ Invoke(t) \/ Delete(t)
       \/ LockStep(t) /\ UNCHANGED <<monitor, cloud, now, calls, faults>>
       \/ MonitorStep(t) /\ UNCHANGED <<cloud, now, calls, faults>>
       \/ Check(t) \/ CallExternal(t) \/ Insert(t) \/ Erase(t) \/ Copy(t) \/ Record(t)
       \/ Refresh(t) \/ Evaluate(t) \/ Count(t) \/ Decide(t) \/ Least(t) \/ Round(t)

Spec == Init /\ [][Next]_vars

-----------------------------------------------------------------------------
\* updateLoadBalancer locks the instances with the load balancers locked, and
\* only a metrics callback can lock or join anything with the instances locked:
\* threads wait for one another only by way of a callback.
CyclesThroughCallback == \A S \in SUBSET Threads : Tangled(S) => \E t \in S : InCallback(t)
=============================================================================
