------------------------------ MODULE MCServices ------------------------------
(***************************************************************************)
(* The two engines and the managers of containers and of cloud instances   *)
(* for TLC.  None of the four calls another: a behaviour is about one of   *)
(* them, focus, and the variables of the other three are absent.           *)
(***************************************************************************)
EXTENDS Integers, Sequences

CONSTANTS Clients, Monitor, Worker, Owner, Async, Free,
          EngineCalls, MaxBroken, CoreCalls, ContainerCalls, CloudCalls, MaxFaults

VARIABLES
  focus,
  platform, holder, depth, todo, dead,
  life, contexts, devices, pool, broken,
  queued, guarded, context, poolOpen, upkeep, releases, entered, ended,
  active, joinable, callback, counter, containers, metrics,
  now, scaling, load, seen, snapshots, targets, rules, enforced, quotas, granted,
  running, calls, faults

engineOnly == <<contexts, devices, pool, broken>>
coreOnly == <<queued, guarded, context, poolOpen, upkeep, releases, entered, ended>>
monitorOnly == <<active, joinable, callback>>
containerOnly == <<counter, containers, metrics>>
cloudOnly == <<now, scaling, load, seen, snapshots, targets, rules, enforced, quotas, granted>>
lockVars == <<platform, holder, depth, todo, dead>>
allVars == <<focus, lockVars, life, engineOnly, coreOnly, monitorOnly, containerOnly, cloudOnly,
             running, calls, faults>>

Monitored == Clients \cup {Monitor}

Engine == INSTANCE DistributedEngine WITH
  Threads <- {Owner, Async}, Services <- {}, Mutexes <- {}, MaxNesting <- 8, MaxCalls <- EngineCalls,
  Parts <- {"profiler", "monitor", "cleanup", "telemetry", "security", "crypto", "ledger", "vault"}

Core == INSTANCE CoreEngine WITH
  Threads <- Clients \cup {Worker}, Services <- {Worker}, Mutexes <- {}, MaxCalls <- CoreCalls

Container == INSTANCE ContainerManager WITH
  Threads <- Monitored, Services <- {Monitor}, Mutexes <- {"containers", "metrics"},
  MaxCalls <- ContainerCalls

Cloud == INSTANCE CloudIntegration WITH
  Threads <- Monitored, Services <- {Monitor}, Mutexes <- {"metrics", "lb", "security", "resources"},
  MinInstances <- 1, MaxInstances <- 2, Loads <- {0, 100}, Threshold <- 50, Certificates <- TRUE,
  MaxTime <- 1, MaxCalls <- CloudCalls

-----------------------------------------------------------------------------
Absent == "absent"

EngineAbsent == contexts = Absent /\ devices = Absent /\ pool = Absent /\ broken = Absent
CoreAbsent ==
  /\ queued = Absent /\ guarded = Absent /\ context = Absent /\ poolOpen = Absent
  /\ upkeep = Absent /\ releases = Absent /\ entered = Absent /\ ended = Absent
MonitorAbsent == active = Absent /\ joinable = Absent /\ callback = Absent
ContainerAbsent == counter = Absent /\ containers = Absent /\ metrics = Absent
CloudAbsent ==
  /\ now = Absent /\ scaling = Absent /\ load = Absent /\ seen = Absent /\ snapshots = Absent
  /\ targets = Absent /\ rules = Absent /\ enforced = Absent /\ quotas = Absent /\ granted = Absent

\* A CloudIntegration three calls and a second after it was made: an instance was
\* started, the load balancer configured with it and a callback set.  The behaviour
\* has two calls left.
CloudServing ==
  /\ Cloud!CallsInit /\ platform = "hangs"
  /\ todo = [t \in Monitored |-> <<>>]
  /\ active = FALSE /\ joinable = FALSE /\ callback \in {"none", "reads", "balances", "stops"}
  /\ now = 1 /\ scaling = TRUE /\ load = [i \in {0} |-> 0] /\ seen = [count |-> 0, total |-> 0]
  /\ snapshots = {} /\ targets = {0} /\ rules = "unset" /\ enforced = "unset"
  /\ quotas = {} /\ granted = {} /\ calls = CloudCalls - 2 /\ faults = 0

\* The two engines have no mutexes, so that the platform does not matter.
MCInit ==
  \/ /\ focus = "engine" /\ Engine!Init /\ platform = "hangs" /\ CoreAbsent /\ MonitorAbsent /\ ContainerAbsent
     /\ CloudAbsent /\ running = Absent /\ faults = Absent
  \/ /\ focus = "core" /\ Core!Init /\ platform = "hangs" /\ EngineAbsent /\ MonitorAbsent /\ ContainerAbsent
     /\ CloudAbsent
  \/ /\ focus = "container" /\ Container!Init /\ EngineAbsent /\ CoreAbsent
     /\ CloudAbsent /\ life = Absent /\ running = Absent /\ faults = Absent
  \/ /\ focus = "cloud" /\ (Cloud!Init \/ CloudServing) /\ EngineAbsent /\ CoreAbsent /\ ContainerAbsent
     /\ life = Absent /\ running = Absent

MCNext ==
  \/ /\ focus = "engine" /\ Engine!Next
     /\ UNCHANGED <<focus, coreOnly, monitorOnly, containerOnly, cloudOnly, running, faults>>
  \/ /\ focus = "core" /\ Core!Next
     /\ UNCHANGED <<focus, engineOnly, monitorOnly, containerOnly, cloudOnly>>
  \/ /\ focus = "container" /\ Container!Next
     /\ UNCHANGED <<focus, life, engineOnly, coreOnly, cloudOnly, running, faults>>
  \/ /\ focus = "cloud" /\ Cloud!Next
     /\ UNCHANGED <<focus, life, engineOnly, coreOnly, containerOnly, running>>

MCSpec == MCInit /\ [][MCNext]_allVars

-----------------------------------------------------------------------------
\* Every variable of the part in focus keeps its type.
TypesOK ==
  /\ focus = "engine" => Engine!TypeOK
  /\ focus = "core" => Core!TypeOK
  /\ focus = "container" => Container!TypeOK
  /\ focus = "cloud" => Cloud!TypeOK

\* A failure of a DistributedEngine overflows its stack only by way of the
\* hardware monitoring.
OverflowsThroughMonitor == focus = "engine" => Engine!OverflowsThroughMonitor

\* A graceful shutdown of a CoreEngine whose pool runs the io context returns
\* only if an emergency stop has begun.
GracefulNeedsEmergency == focus = "core" => Core!GracefulNeedsEmergency

\* No threads in a ContainerManager wait for one another.
NoContainerCycle == focus = "container" => Container!NoLockCycle

\* Threads in a CloudIntegration wait for one another only by way of a callback.
CloudCyclesThroughCallback == focus = "cloud" => Cloud!CyclesThroughCallback
=============================================================================
