------------------------------- MODULE MCTiers -------------------------------
(***************************************************************************)
(* The tiers for TLC: the manager that balances them (KernelBalancer), one *)
(* high or medium kernel, and the background queue of the low kernel; and, *)
(* beside them, the program with its CoreService.  The balancer sees of a  *)
(* kernel its queue and its metrics only, and the kernels never call their *)
(* manager: a behaviour is about one of the four, focus, and the variables *)
(* of the other three are absent.                                          *)
(***************************************************************************)
EXTENDS KernelBalancer, TLC

CONSTANTS Workers, Word, BatchSize, Emptied, Client, Worker, Monitor, Main, Event, Free,
          LowCalls, MaxUpsets

ASSUME TierAssumption ==
  /\ Word \in Nat \ {0} /\ BatchSize \in Nat \ {0}
  /\ Tasks \cap {"out", "loop", "left", "returned"} = {}

VARIABLES
  focus,
  active, paused,
  kind, state, worker, shutting, count, batch, added, stopping,
  platform, holder, depth, todo, dead,
  enabled, submitted, ran, stats, calls,
  built, started, exiting, gone, signalled, faults

balancer == <<total, completed, threads, balancing, left, copied, moved, surplus, passes>>
tier == <<kind, state, worker, shutting, count, batch, added, stopping>>
low == <<enabled, submitted, ran, stats, calls>>
locks == <<platform, holder, depth, todo, dead>>
service == <<built, started, exiting, gone, signalled, faults>>
allVars == <<focus, queue, running, active, paused, balancer, tier, locks, low, service>>

\* At most 3 threads in the high and the low tier and 4 in the medium one.
CeilingValue == [high |-> 3, medium |-> 4, low |-> 3]

Tier == INSTANCE TierKernels

Low == INSTANCE LowPriorityKernel WITH
  Clients <- {Client}, Threads <- {Client, Worker, Monitor}, Services <- {Worker, Monitor},
  Mutexes <- {"background", "resource"}, MaxBackground <- 2, MaxCalls <- LowCalls

Service == INSTANCE CloudService WITH
  Threads <- {Main, Event}, Services <- {Event}, Mutexes <- {"state"}

Absent == "absent"

\* moved and surplus rest at 0, where MovesWithinSurplus reads them.
BalancerAbsent ==
  /\ total = Absent /\ completed = Absent /\ threads = Absent /\ balancing = Absent
  /\ left = Absent /\ copied = Absent /\ passes = Absent /\ moved = 0 /\ surplus = 0
TierAbsent ==
  /\ kind = Absent /\ state = Absent /\ worker = Absent /\ shutting = Absent
  /\ count = Absent /\ batch = Absent /\ added = Absent /\ stopping = Absent
LocksAbsent ==
  platform = Absent /\ holder = Absent /\ depth = Absent /\ todo = Absent /\ dead = Absent
\* signalled rests at 0, where SignalExits reads it.
ServiceAbsent ==
  /\ built = Absent /\ started = Absent /\ exiting = Absent /\ gone = Absent
  /\ signalled = 0 /\ faults = Absent
LowAbsent ==
  /\ enabled = Absent /\ submitted = Absent /\ ran = Absent /\ stats = Absent /\ calls = Absent

MCInit ==
  \/ /\ focus = "balancer" /\ Init /\ TierAbsent /\ LocksAbsent /\ LowAbsent /\ ServiceAbsent
     /\ active = Absent /\ paused = Absent
  \/ focus = "tier" /\ Tier!Init /\ BalancerAbsent /\ LocksAbsent /\ LowAbsent /\ ServiceAbsent
  \/ focus = "low" /\ Low!Init /\ BalancerAbsent /\ TierAbsent /\ ServiceAbsent /\ running = Absent
  \/ /\ focus = "service" /\ Service!Init /\ BalancerAbsent /\ TierAbsent /\ LowAbsent
     /\ queue = Absent /\ active = Absent /\ paused = Absent

OthersThanService == <<focus, queue, active, paused, balancer, tier, low>>

MCNext ==
  \/ focus = "balancer" /\ Next /\ UNCHANGED <<focus, active, paused, tier, locks, low, service>>
  \/ focus = "tier" /\ Tier!Next /\ UNCHANGED <<focus, balancer, locks, low, service>>
  \/ focus = "low" /\ Low!Next /\ UNCHANGED <<focus, running, balancer, tier, service>>
  \/ focus = "service" /\ Service!Next /\ UNCHANGED OthersThanService

\* The fairness of CloudService, where it is in focus.
ServiceStep(t) == focus = "service" /\ Service!ThreadStep(t) /\ UNCHANGED OthersThanService

MCSpec == MCInit /\ [][MCNext]_allVars /\ \A t \in {Main, Event} : SF_allVars(ServiceStep(t))

-----------------------------------------------------------------------------
\* Every variable of the part in focus keeps its type.
TypesOK ==
  /\ focus = "balancer" => TypeOK
  /\ focus = "tier" => Tier!TypeOK
  /\ focus = "low" => Low!TypeOK
  /\ focus = "service" => Service!TypeOK

\* Of the background tasks of a LowPriorityKernel none runs twice.
BackgroundRunsOnce == focus = "low" => Low!BackgroundRunsOnce

\* stop() of a high kernel never returns after a worker has given up a task.
GivenUpBlocksStop == [][focus = "tier" => Tier!Stuck]_allVars

\* A signal ends the program, unless it interrupts a thread in state_mutex_.
SignalExits ==
  (signalled > 0) ~>
    (focus = "service" /\ (gone \/ dead \/ \E t \in {Main, Event} : Service!HandlesLocked(t)))
=============================================================================
