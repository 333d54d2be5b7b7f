-------------------------------- MODULE MCTree --------------------------------
(***************************************************************************)
(* KernelManager, ParentKernel and KernelBase's limits for TLC.  They are  *)
(* three ways to hold kernels and meet only in the kernels themselves,     *)
(* which each of them models as far as it sees them: a behaviour is about  *)
(* one of the three, focus, and the variables of the other two are absent. *)
(***************************************************************************)
EXTENDS KernelLimits, TLC

CONSTANTS Names, Clients, Monitor, Worker, Free,
          MaxRestarts, ManagerCalls, ParentCalls, MaxFaults

ASSUME ThreadsAssumption ==
  Monitor # Worker /\ Free \notin {Monitor, Worker} /\ {Monitor, Worker, Free} \cap Clients = {}

VARIABLES
  focus,
  platform, holder, depth, todo, dead, mode, faults,
  kernels, configs, status, autoRecovery, monitoring,
  running, paused, processing, children, active, quotas, shares

callers == <<platform, holder, depth, todo, dead, mode, faults>>
manager == <<kernels, configs, status, autoRecovery, monitoring>>
parent == <<running, paused, processing, children, active, quotas, shares>>
limited == <<system, config, kernel, limits>>
allVars == <<focus, calls, callers, manager, parent, limited>>

Manager == INSTANCE KernelManager WITH
  Threads <- Clients \cup {Monitor}, Services <- {Monitor},
  Mutexes <- {"kernels", "configs", "statuses"}, MaxCalls <- ManagerCalls

Parent == INSTANCE ParentKernel WITH
  Threads <- Clients \cup {Monitor, Worker}, Services <- {Monitor, Worker},
  Mutexes <- {"children", "quotas", "distributions", "metrics"}, MaxCalls <- ParentCalls

Absent == "absent"

CallersAbsent ==
  /\ platform = Absent /\ holder = Absent /\ depth = Absent /\ todo = Absent /\ dead = Absent
  /\ mode = Absent /\ faults = Absent
ManagerAbsent ==
  /\ kernels = Absent /\ configs = Absent /\ status = Absent
  /\ autoRecovery = Absent /\ monitoring = Absent
ParentAbsent ==
  /\ running = Absent /\ paused = Absent /\ processing = Absent /\ children = Absent
  /\ active = Absent /\ quotas = Absent /\ shares = Absent
\* built rests at FALSE, where FlagsOnlyLower reads it.
KernelAbsent ==
  /\ system = Absent /\ flags = Absent /\ directives = Absent /\ custom = Absent /\ built = FALSE
  /\ state = Absent /\ limits = Absent /\ adaptive = Absent /\ handlers = Absent /\ messages = Absent

MCInit ==
  \/ focus = "manager" /\ Manager!Init /\ ParentAbsent /\ KernelAbsent
  \/ focus = "parent" /\ Parent!Init /\ ManagerAbsent /\ KernelAbsent
  \/ focus = "limits" /\ Init /\ CallersAbsent /\ ManagerAbsent /\ ParentAbsent

MCNext ==
  \/ focus = "manager" /\ Manager!Next /\ UNCHANGED <<focus, parent, limited>>
  \/ focus = "parent" /\ Parent!Next /\ UNCHANGED <<focus, manager, limited>>
  \/ focus = "limits" /\ Next /\ UNCHANGED <<focus, callers, manager, parent>>

MCSpec == MCInit /\ [][MCNext]_allVars

-----------------------------------------------------------------------------
\* Every variable of the part in focus keeps its type.
TypesOK ==
  /\ focus = "manager" => Manager!TypeOK
  /\ focus = "parent" => Parent!TypeOK
  /\ focus = "limits" => TypeOK

\* A registered kernel of a KernelManager has its configuration and status
\* whenever no registration is under way.
RegisteredComplete == focus = "manager" => Manager!RegisteredComplete

\* A child of a ParentKernel that is marked active runs, whenever the children
\* are not being changed.
ActiveChildrenRun == focus = "parent" => Parent!ActiveChildrenRun

\* The managers' mutexes: threads wait for one another only where KernelManager
\* takes its configurations and its kernels in both orders.
LocksOrdered ==
  /\ focus = "manager" => Manager!OnlyConfigCycle
  /\ focus = "parent" => Parent!NoLockCycle
=============================================================================
