--------------------------- MODULE ContainerManager ---------------------------
(***************************************************************************)
(* cloud::ContainerManager (container_manager.cpp): the tables of the      *)
(* containers and of their metrics, one mutex each, and a thread that      *)
(* refreshes the metrics and checks the health.                            *)
(*                                                                         *)
(* A container's processes, namespaces, limits and security are            *)
(* placeholders in the code, and isContainerHealthy returns true: starting *)
(* and stopping a container only looks its name up, and                    *)
(* handleContainerFailure, which would lock containers_mutex again, is     *)
(* never reached.  container_metrics is guarded by metrics_mutex for the   *)
(* monitor and by containers_mutex for the clients: an insertion during    *)
(* the monitor's loop is a race, whose damage is left out.                 *)
(***************************************************************************)
EXTENDS MonitoredCalls

CONSTANTS
  Clients,
  MaxCalls  \* bound: public calls in a behaviour

VARIABLES
  counter,  \* the static counter of generateContainerID
  containers, metrics,
  calls

tables == <<counter, containers, metrics>>
vars == <<callVars, monitor, tables, calls>>

TypeOK ==
  /\ CallsTypeOK /\ MonitorTypeOK
  /\ counter \in 0..MaxCalls /\ calls \in 0..MaxCalls
  /\ containers \subseteq 1..counter /\ metrics \subseteq 1..counter

-----------------------------------------------------------------------------
(* The methods, as what a thread does.                                     *)

ListContainers == Locked("containers", <<>>)
GetContainerMetrics(c) == Locked("metrics", Do("findMetrics", c))

\* Mutant: the metrics are inserted with their own mutex locked as well.
CreateGuarded == Locked("containers", Locked("metrics", Do("number", 0)))

\* generateContainerID, and both tables.
CreateContainer == Locked("containers", Do("number", 0))

\* startContainer, stopContainer and updateContainerResources.
Touch(c) == Locked("containers", Do("find", c))

\* Stop, and then a second critical section without another look.
RemoveContainer(c) == Touch(c) \o Locked("containers", Do("erase", c))
RestartContainer(c) == Touch(c) \o Touch(c)

\* optimizeContainer looks the name up without the lock.
OptimizeContainer(c) == Do("find", c)

\* updateContainerMetrics, which calls back with metrics_mutex held.
UpdateContainerMetrics == Locked("metrics", Do("refresh", 0))

\* checkContainerHealth finds every container healthy.
CheckContainerHealth == Locked("containers", <<>>)

\* The monitor first, then the containers; their metrics stay.
Destroy == StopMonitoring \o Locked("containers", Do("clear", 0))

-----------------------------------------------------------------------------
Init ==
  /\ CallsInit /\ MonitorInit
  /\ todo = [t \in Threads |-> <<>>]
  /\ counter = 0 /\ containers = {} /\ metrics = {} /\ calls = 0

Invoke(t) ==
  /\ t \in Clients /\ calls < MaxCalls /\ calls' = calls + 1
  /\ \/ Call(t, CreateContainer) \/ Call(t, ListContainers)
     \/ \E c \in 1..counter :
          \/ Call(t, Touch(c)) \/ Call(t, RemoveContainer(c)) \/ Call(t, RestartContainer(c))
          \/ Call(t, GetContainerMetrics(c)) \/ Call(t, OptimizeContainer(c))
     \/ Call(t, StartMonitoring) \/ Call(t, StopMonitoring)
     \/ \E kind \in {"none", "lists", "reads", "stops"} \ {callback} : Call(t, Do("callback", kind))
  /\ UNCHANGED <<tables, monitor>>

\* The destructor ends the behaviour.
Delete(t) ==
  /\ t \in Clients /\ calls < MaxCalls /\ calls' = MaxCalls
  /\ (\A u \in Clients : Idle(u)) /\ Call(t, Destroy)
  /\ UNCHANGED <<tables, monitor>>

-----------------------------------------------------------------------------
(* The steps.                                                              *)

Tables(t) ==
  /\ At(t, "number") \/ At(t, "erase") \/ At(t, "clear")
  /\ LET step == Now(t).do
         new == IF step = "number" THEN {counter + 1} ELSE {}
         old == IF step = "erase" THEN {Now(t).arg} ELSE {}
     IN  /\ counter' = counter + Cardinality(new)
         /\ containers' = IF step = "clear" THEN {} ELSE (containers \cup new) \ old
         /\ metrics' = (metrics \cup new) \ old
  /\ Done(t)
  /\ UNCHANGED <<monitor, calls>>

Find(t) ==
  /\ At(t, "find") \/ At(t, "findMetrics")
  /\ IF Now(t).arg \in (IF Now(t).do = "find" THEN containers ELSE metrics) THEN Done(t) ELSE Throw(t)
  /\ UNCHANGED <<tables, monitor, calls>>

\* One entry of the loop over the metrics stands for all.
Refresh(t) ==
  /\ At(t, "refresh")
  /\ IF metrics = {} THEN Done(t)
     ELSE \E c \in metrics :
            Proceed(t, CASE callback = "none" -> <<>>
                         [] callback = "lists" -> CalledBack(ListContainers)
                         [] callback = "reads" -> CalledBack(GetContainerMetrics(c))
                         [] callback = "stops" -> CalledBack(StopMonitoring))
  /\ UNCHANGED <<tables, monitor, calls>>

\* monitorContainers
Round(t) ==
  /\ At(t, "round")
  /\ Proceed(t, IF active THEN UpdateContainerMetrics \o CheckContainerHealth \o Do("round", 0)
                ELSE <<>>)
  /\ UNCHANGED <<tables, monitor, calls>>

Next ==
  \E t \in Threads :
    \/ Invoke(t) \/ Delete(t)
    \/ LockStep(t) /\ UNCHANGED <<tables, monitor, calls>>
    \/ MonitorStep(t) /\ UNCHANGED <<tables, calls>>
    \/ Tables(t) \/ Find(t) \/ Refresh(t) \/ Round(t)

Spec == Init /\ [][Next]_vars

-----------------------------------------------------------------------------
\* However clients, the monitor and its callback interleave, no threads wait
\* for one another: the only order is metrics_mutex before containers_mutex,
\* and the join holds neither.
NoLockCycle == \A S \in SUBSET Threads : ~Tangled(S)
=============================================================================
