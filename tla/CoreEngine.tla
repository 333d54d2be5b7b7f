------------------------------ MODULE CoreEngine ------------------------------
(***************************************************************************)
(* core::CoreEngine (src/core/engine.cpp): the life cycle of the engine.   *)
(* start() brings up the subsystems, posts the maintenance to the io       *)
(* context and posts the run of that context to the thread pool; there are *)
(* an emergency stop, a graceful shutdown and the destructor, which any    *)
(* thread of the application may call.                                     *)
(*                                                                         *)
(* The subsystems are external: a call of one returns or throws, and what  *)
(* they themselves give the io context to do is left out.  One Worker      *)
(* stands for the threads of the pool, which all run m_io_ctx.run().       *)
(* Nothing calls process_packets: the packet queue is filled and never     *)
(* drained, and it is left out with the contracts and Kubernetes.          *)
(***************************************************************************)
EXTENDS LockedCalls

CONSTANTS
  Clients, Worker,
  MaxCalls,  \* bound: public calls in a behaviour
  MaxFaults  \* bound: how often a subsystem throws

VARIABLES
  life,       \* "none", "alive" or "gone"
  running,    \* m_running
  queued,     \* m_io_ctx.run waits in the pool
  guarded,    \* m_work_guard holds the io context
  context,    \* "open" or "stopped": m_io_ctx
  poolOpen,   \* m_work_pool accepts work
  upkeep,     \* the maintenance waits in the io context
  releases,   \* how often cleanup_resources has released the hardware
  entered,    \* history: a thread of the pool has begun m_io_ctx.run
  ended,      \* history: "emergency": an emergency stop has begun;
              \* "graceful": a graceful shutdown has returned from its join
  calls, faults

engine == <<life, running, queued, guarded, context, poolOpen, upkeep, releases, entered, ended>>
vars == <<callVars, engine, calls, faults>>

TypeOK ==
  /\ CallsTypeOK
  /\ life \in {"none", "alive", "gone"} /\ context \in {"open", "stopped"}
  /\ \A flag \in {running, queued, guarded, poolOpen, upkeep, entered} : flag \in BOOLEAN
  /\ ended \subseteq {"emergency", "graceful"}
  /\ releases \in Nat /\ calls \in 0..MaxCalls /\ faults \in 0..MaxFaults

-----------------------------------------------------------------------------
(* The methods, as what a thread does.                                     *)

\* One or more calls of subsystems, any of which may throw.
Use(subsystem) == Do("use", subsystem)

SaveRecoveryState == Try(Use("snapshot"), <<>>)
CleanupResources == Use("plugins") \o Do("release", 0)

\* The handler itself ends in an exception.
HandleCriticalFailure == SaveRecoveryState \o Use("cluster") \o Use("hardware") \o Do("throw", 0)

\* setup_security_infrastructure uses m_network_stack before it is made.
SetupSecurity == Use("vault") \o Do("null", 0)

\* init_hardware, load_configuration, the stack, the hypervisor, the storage,
\* the REST server, the block chain and the handlers.
Construct ==
  SetupSecurity \o Use("hardware") \o Use("configuration") \o Use("modules") \o Do("alive", 0)

StartBody ==
  Use("network") \o Use("consensus") \o Use("scheduler") \o Use("monitoring")
    \o Do("post", "upkeep") \o Do("post", "run")

\* m_running.exchange(on): the body follows if it changed the flag.
Exchange(on, body) == <<[do |-> "exchange", on |-> on, body |-> body]>>

\* m_running stays set when it fails.
Start == Exchange(TRUE, Try(StartBody, HandleCriticalFailure))

EmergencyStop ==
  Exchange(FALSE, Do("ended", "emergency") \o Do("stop", "guard") \o Do("stop", "pool")
                    \o Do("stop", "context") \o SaveRecoveryState \o CleanupResources)

\* Mutant: the graceful shutdown gives up the work guard as well.
GracefulUnguarded ==
  Exchange(FALSE, Use("scheduler") \o Do("stop", "guard") \o Do("stop", "pool") \o Do("join", Worker)
                    \o Do("ended", "graceful"))

\* The scheduler, the consensus, the REST server and the scaler; the io context
\* keeps its work guard and is not stopped.
GracefulShutdown ==
  Exchange(FALSE, Use("scheduler") \o Do("stop", "pool") \o Do("join", Worker)
                    \o Do("ended", "graceful"))

\* m_shutdown_initiated is set here alone: the destructor always goes on.
Destroy ==
  Try(EmergencyStop \o Do("stop", "pool") \o Do("join", Worker) \o CleanupResources, Do("terminate", 0))
    \o Do("gone", 0)

\* What it catches includes what handle_critical_failure throws.
CheckSystemHealth ==
  Try(Use("scaler") \o Do("health", 0), <<>>)

MaintenanceRound == CheckSystemHealth \o Use("scaler") \o Use("chain") \o Do("maintain", 0)

-----------------------------------------------------------------------------
Init ==
  /\ CallsInit
  /\ todo = [t \in Threads |-> <<>>]
  /\ life = "none" /\ running = FALSE /\ queued = FALSE /\ guarded = TRUE
  /\ context = "open" /\ poolOpen = TRUE /\ upkeep = FALSE
  /\ releases = 0 /\ entered = FALSE /\ ended = {} /\ calls = 0 /\ faults = 0

Invoke(t) ==
  /\ t \in Clients /\ calls < MaxCalls /\ calls' = calls + 1
  /\ \/ life = "none" /\ (\A c \in Clients : Idle(c)) /\ Call(t, Construct)
     \/ /\ life = "alive"
        /\ \/ Call(t, Start) \/ Call(t, EmergencyStop) \/ Call(t, GracefulShutdown)
           \/ (\A c \in Clients : Idle(c)) /\ Call(t, Destroy)
  /\ UNCHANGED <<engine, faults>>

-----------------------------------------------------------------------------
(* The steps.                                                              *)

UseSubsystem(t) ==
  /\ At(t, "use")
  /\ \/ Done(t) /\ UNCHANGED faults
     \/ faults < MaxFaults /\ faults' = faults + 1 /\ Throw(t)
  /\ UNCHANGED <<engine, calls>>

\* A member function on a null pointer: it crashes, unless it touches no member.
NullStack(t) ==
  /\ At(t, "null")
  /\ Done(t) \/ EndProcess
  /\ UNCHANGED <<engine, calls, faults>>

Raise(t) == At(t, "throw") /\ Throw(t) /\ UNCHANGED <<engine, calls, faults>>
Terminate(t) == At(t, "terminate") /\ EndProcess /\ UNCHANGED <<engine, calls, faults>>

Exchanged(t) ==
  /\ At(t, "exchange")
  /\ running' = Now(t).on
  /\ Proceed(t, IF running = Now(t).on THEN <<>> ELSE Now(t).body)
  /\ UNCHANGED <<life, queued, guarded, context, poolOpen, upkeep, releases, entered, ended, calls, faults>>

\* A stopped context and a stopped pool keep what they are given.
Post(t) ==
  /\ At(t, "post")
  /\ upkeep' = (upkeep \/ Now(t).arg = "upkeep")
  /\ queued' = (queued \/ Now(t).arg = "run")
  /\ Done(t)
  /\ UNCHANGED <<life, running, guarded, context, poolOpen, releases, entered, ended, calls, faults>>

\* A thread of the pool takes the job, unless the pool was stopped first.
TakeJob(t) ==
  /\ t = Worker /\ queued /\ poolOpen
  /\ queued' = FALSE /\ entered' = TRUE
  /\ Call(t, Do("run", 0))
  /\ UNCHANGED <<life, running, guarded, context, poolOpen, upkeep, releases, ended, calls, faults>>

\* Whether the io context has work besides its guard, waiting or at hand.
HasWork == upkeep \/ \E n \in DOMAIN todo[Worker] : todo[Worker][n].do = "maintain"

\* The reset of a guard that was all the work of its context stops the context.
StopPart(t) ==
  /\ At(t, "stop")
  /\ LET part == Now(t).arg
     IN  /\ guarded' = (guarded /\ part # "guard")
         /\ poolOpen' = (poolOpen /\ part # "pool")
         /\ context' = IF part = "context" \/ (part = "guard" /\ guarded /\ ~HasWork)
                       THEN "stopped" ELSE context
  /\ Done(t)
  /\ UNCHANGED <<life, running, queued, upkeep, releases, entered, ended, calls, faults>>

Join(t) ==
  /\ At(t, "join") /\ Idle(Now(t).arg)
  /\ Done(t)
  /\ UNCHANGED <<engine, calls, faults>>

Note(t) ==
  /\ At(t, "release") \/ At(t, "ended") \/ At(t, "alive") \/ At(t, "gone")
  /\ releases' = IF Now(t).do = "release" THEN releases + 1 ELSE releases
  /\ ended' = IF Now(t).do = "ended" THEN ended \cup {Now(t).arg} ELSE ended
  /\ life' = IF Now(t).do \in {"alive", "gone"} THEN Now(t).do ELSE life
  /\ Done(t)
  /\ UNCHANGED <<running, queued, guarded, context, poolOpen, upkeep, entered, calls, faults>>

\* m_io_ctx.run() in a thread of the pool: it takes the maintenance, which
\* keeps the thread, and returns when the context is stopped; running out of
\* work, the guard included, stops it.
Run(t) ==
  /\ At(t, "run")
  /\ \/ /\ context = "open" /\ upkeep /\ upkeep' = FALSE /\ UNCHANGED context
        /\ Proceed(t, Do("maintain", 0) \o Do("run", 0))
     \/ /\ context = "stopped" \/ (~upkeep /\ ~guarded)
        /\ context' = "stopped" /\ UNCHANGED upkeep /\ Done(t)
  /\ UNCHANGED <<life, running, queued, guarded, poolOpen, releases, entered, ended, calls, faults>>

Maintain(t) ==
  /\ At(t, "maintain")
  /\ Proceed(t, IF running THEN MaintenanceRound ELSE <<>>)
  /\ UNCHANGED <<engine, calls, faults>>

Health(t) ==
  /\ At(t, "health")
  /\ Done(t) \/ Proceed(t, HandleCriticalFailure)
  /\ UNCHANGED <<engine, calls, faults>>

Next ==
  \E t \in Threads :
    \/ Invoke(t) \/ (LockStep(t) /\ UNCHANGED <<engine, calls, faults>>)
    \/ UseSubsystem(t) \/ NullStack(t) \/ Raise(t) \/ Terminate(t) \/ Exchanged(t) \/ Post(t)
    \/ TakeJob(t) \/ StopPart(t) \/ Join(t) \/ Note(t) \/ Run(t) \/ Maintain(t) \/ Health(t)

Spec == Init /\ [][Next]_vars

-----------------------------------------------------------------------------
\* Once a thread of the pool has begun m_io_ctx.run, graceful_shutdown returns
\* from its join only if an emergency stop has begun as well, which another
\* thread can do only after it has started the engine again.
GracefulNeedsEmergency == "graceful" \in ended /\ entered => "emergency" \in ended
=============================================================================
