--------------------------- MODULE DistributedEngine ---------------------------
(***************************************************************************)
(* cloud::DistributedEngine (distributed_engine.cpp): a facade whose every *)
(* operation is a try block around calls of parts, with a handler that     *)
(* reports the kind of the failure; handleFailure runs the handler of that *)
(* kind or the emergency stop, which is made of such operations itself.    *)
(* The owner calls the operations; graceful_shutdown runs in a thread of   *)
(* std::async.                                                             *)
(*                                                                         *)
(* Most of the parts (the telemetry sink, the vault, the ledger, the       *)
(* accelerators, validate..., track..., stop...) are declared and not      *)
(* defined in the repository: a part works or, once broken, throws.  The   *)
(* three OpenSSL contexts are allocated by the constructor and freed by    *)
(* the destructor; the data that passes through them is left out.          *)
(***************************************************************************)
EXTENDS LockedCalls

CONSTANTS
  Owner, Async,
  Parts,       \* the parts that may break
  MaxNesting,  \* bound: try blocks on a stack; a longer one has overflown
  MaxCalls,    \* bound: calls in a behaviour
  MaxBroken    \* bound: parts broken in a behaviour

VARIABLES
  life,      \* "none", "constructing", "alive", "destroying", "gone" or how the process ended
  contexts,  \* cipher_ctx, md_ctx and rsa_key that are allocated
  devices,   \* monitoring of the hardware and profiling, when on
  pool,      \* "running" or "stopped": io_pool_
  broken,
  calls

engine == <<life, contexts, devices, pool>>
vars == <<callVars, engine, broken, calls>>

TypeOK ==
  /\ CallsTypeOK
  /\ life \in {"none", "constructing", "alive", "destroying", "gone", "overflown", "crashed"}
  /\ contexts \subseteq {"cipher", "md", "rsa"}
  /\ devices \subseteq {"profiler", "monitor"} /\ pool \in {"running", "stopped"}
  /\ broken \subseteq Parts /\ Cardinality(broken) <= MaxBroken /\ calls \in 0..MaxCalls

-----------------------------------------------------------------------------
(* The methods, as what a thread does.                                     *)

Use(part) == Do("use", part)

\* The body of nearly every method.
Guarded(body, kind) == Try(body, Do("fail", kind))

EnableHardwareMonitoring(on) ==
  Guarded(Use("monitor") \o Do(IF on THEN "on" ELSE "off", "monitor"), "monitoring")

CleanupResources == Use("cleanup")

\* stop() and join() of the pool: no job of it waits for the engine.
StopPool == Do("pool", "stopped")

EmergencyBody ==
  Use("profiler") \o Do("off", "profiler") \o EnableHardwareMonitoring(FALSE)
    \o CleanupResources \o StopPool

\* Mutant: the emergency stop reports what fails in it.
EmergencyStopReported == Try(EmergencyBody, Do("fail", "shutdown"))

EmergencyStop == Try(EmergencyBody, <<>>)

\* The kinds that have a handler of their own; the others stop the engine.
Handled == {"hardware", "network", "security", "resource"}

HandleFailure(kind) ==
  Try(Use("telemetry") \o (IF kind \in Handled THEN Use(kind) ELSE EmergencyStop), EmergencyStop)

\* Two try blocks of one kind: what fails inside is handled inside.
ConfigureEncryption == Guarded(Use("crypto"), "security")

InitializeEncryption ==
  Guarded(Do("new", "cipher") \o Do("new", "md") \o Do("new", "rsa") \o ConfigureEncryption, "security")

InitializeHardware == Guarded(Use("accelerators"), "hardware")
SetupInterconnect == Guarded(Use("packets"), "network")
BootstrapBlockchain == Guarded(Use("ledger"), "blockchain")
StartTelemetry == Guarded(Use("telemetry"), "telemetry")

\* No failure leaves the constructor.
Construct ==
  Do("life", "constructing") \o InitializeHardware \o SetupInterconnect \o BootstrapBlockchain
    \o StartTelemetry \o InitializeEncryption \o Do("life", "alive")

CleanupEncryption == Do("free", "cipher") \o Do("free", "md") \o Do("free", "rsa")
Destroy == Do("life", "destroying") \o CleanupEncryption \o EmergencyStop \o Do("life", "gone")

ProcessNetworkBuffers == Guarded(Use("packets"), "network")

Start ==
  Guarded(Use("caching") \o EnableHardwareMonitoring(TRUE) \o Use("profiler") \o Do("on", "profiler")
            \o Guarded(Use("accelerators"), "hardware") \o ProcessNetworkBuffers, "initialization")

GracefulShutdown ==
  Guarded(Use("subsystems") \o CleanupResources \o StopPool, "shutdown")

\* A method that uses one context and reports a security failure.
UsesContext(c) == Guarded(Do("context", c), "security")

\* allocate_resources and release_resources, rebalance_cluster,
\* rotate_credentials, update_security_policy and audit_security_events,
\* reconfigure_accelerators, update_firmware and calibrate_hardware.
Operation ==
  [resources |-> "resource", cluster |-> "cluster", vault |-> "security", accelerators |-> "hardware"]

-----------------------------------------------------------------------------
Init ==
  /\ CallsInit
  /\ todo = [t \in Threads |-> <<>>]
  /\ life = "none" /\ contexts = {} /\ devices = {} /\ pool = "running"
  /\ broken = {} /\ calls = 0

Invoke ==
  /\ calls < MaxCalls /\ calls' = calls + 1
  /\ \/ life = "none" /\ Call(Owner, Construct)
     \/ /\ life = "alive"
        /\ \/ Call(Owner, Start) \/ Call(Owner, EmergencyStop)
           \/ \E part \in DOMAIN Operation : Call(Owner, Guarded(Use(part), Operation[part]))
           \/ \E c \in {"cipher", "md", "rsa"} : Call(Owner, UsesContext(c))
           \/ \E on \in BOOLEAN : Call(Owner, EnableHardwareMonitoring(on))
           \/ Idle(Owner) /\ Call(Async, GracefulShutdown)
           \/ Idle(Async) /\ Call(Owner, Destroy)
  /\ UNCHANGED <<engine, broken>>

Break ==
  /\ ~dead /\ Cardinality(broken) < MaxBroken
  /\ \E part \in Parts \ broken : broken' = broken \cup {part}
  /\ UNCHANGED <<callVars, engine, calls>>

-----------------------------------------------------------------------------
(* The steps.                                                              *)

UsePart(t) ==
  /\ At(t, "use")
  /\ IF Now(t).arg \in broken THEN Throw(t) ELSE Done(t)
  /\ UNCHANGED <<engine, broken, calls>>

\* handle_failure is called from the handler, with one try block less.
Nesting(t) == Cardinality({n \in DOMAIN todo[t] : todo[t][n].do = "end"})

Fail(t) ==
  /\ At(t, "fail")
  /\ IF Nesting(t) >= MaxNesting
     THEN life' = "overflown" /\ EndProcess
     ELSE UNCHANGED life /\ Proceed(t, HandleFailure(Now(t).arg))
  /\ UNCHANGED <<contexts, devices, pool, broken, calls>>

\* OpenSSL has no memory for a context: what comes after it stays null.
NewContext(t) ==
  /\ At(t, "new")
  /\ \/ contexts' = contexts \cup {Now(t).arg} /\ Done(t)
     \/ "crypto" \in broken /\ UNCHANGED contexts /\ Throw(t)
  /\ UNCHANGED <<life, devices, pool, broken, calls>>

FreeContext(t) ==
  /\ At(t, "free")
  /\ contexts' = contexts \ {Now(t).arg} /\ Done(t)
  /\ UNCHANGED <<life, devices, pool, broken, calls>>

\* OpenSSL reports an error or, given a null context, may crash.
UseContext(t) ==
  /\ At(t, "context")
  /\ \/ Now(t).arg \in contexts /\ Done(t) /\ UNCHANGED life
     \/ ("crypto" \in broken \/ Now(t).arg \notin contexts) /\ Throw(t) /\ UNCHANGED life
     \/ Now(t).arg \notin contexts /\ EndProcess /\ life' = "crashed"
  /\ UNCHANGED <<contexts, devices, pool, broken, calls>>

SetState(t) ==
  /\ At(t, "on") \/ At(t, "off") \/ At(t, "pool") \/ At(t, "life")
  /\ LET step == Now(t).do
         arg == Now(t).arg
     IN  /\ devices' = CASE step = "on" -> devices \cup {arg} [] step = "off" -> devices \ {arg}
                         [] OTHER -> devices
         /\ pool' = IF step = "pool" THEN arg ELSE pool
         /\ life' = IF step = "life" THEN arg ELSE life
  /\ Done(t)
  /\ UNCHANGED <<contexts, broken, calls>>

Next ==
  \/ Invoke \/ Break
  \/ \E t \in Threads :
       \/ LockStep(t) /\ UNCHANGED <<engine, broken, calls>>
       \/ UsePart(t) \/ Fail(t) \/ NewContext(t) \/ FreeContext(t) \/ UseContext(t) \/ SetState(t)

Spec == Init /\ [][Next]_vars

-----------------------------------------------------------------------------
\* A failing part is reported at most a few levels deep, unless it is the one
\* that turns the monitoring off: its failure is answered by an emergency
\* stop, which turns the monitoring off.
OverflowsThroughMonitor == life = "overflown" => "monitor" \in broken
=============================================================================
