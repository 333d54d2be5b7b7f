---------------------------- MODULE KernelLimits ----------------------------
(***************************************************************************)
(* The limits of a cloud::KernelBase (threads, queue, task timeout), which *)
(* three parts of the program move: the client's setters and optimizeKernel*)
(* of the managers, the adaptation to the load (SystemInfo), and the flags *)
(* of the process-wide KernelFlags.                                        *)
(*                                                                         *)
(* SystemInfo never fills core_loads: the CPU usage is 0.0 / 0, NaN, which *)
(* no comparison accepts, and so is the load of a kernel once its metrics  *)
(* are updated.  Security and debug flags have no effect and are left out; *)
(* custom flags are the ones optimizeForSystem sets.                       *)
(***************************************************************************)
EXTENDS Integers, Sequences

CONSTANTS
  Cores,      \* std::thread::hardware_concurrency()
  Word,       \* the number of values of size_t
  Loads,      \* the load averages of the system, in whole processes
  Features,   \* the instruction sets of the processor, of {"SSE", "AVX"}
  NaN,
  MaxCalls    \* bound: calls in a behaviour

VARIABLES
  system,     \* SystemInfo: the load and the memory usage read last
  flags,      \* KernelFlags: optimization_flags, of Options
  directives, \* compilation_directives, of {"SSE", "AVX"}
  custom,     \* the options whose custom flags are set
  built,      \* a kernel exists
  state,      \* "stopped", "running" or "paused"
  limits,     \* max_threads_, max_queue_size_, task_timeout_
  adaptive,   \* adaptive_scaling_
  handlers,   \* message_handlers_ is not empty
  messages,   \* metrics_: messages_processed and messages_failed
  calls

vars == <<system, flags, directives, custom, built, state, limits, adaptive, handlers, messages, calls>>
kernel == <<built, state, adaptive, handlers, messages>>
config == <<flags, directives, custom>>

Options == {"CPU", "MEMORY", "NETWORK", "DISK", "POWER", "HIGH"}
Prepared == {"MEMORY", "NETWORK", "DISK", "POWER"}
Usages == {20, 50, 95}

TypeOK ==
  /\ system.load \in Loads /\ system.memory \in Usages
  /\ flags \subseteq Options /\ directives \subseteq {"SSE", "AVX"} /\ custom \subseteq Prepared
  /\ built \in BOOLEAN /\ adaptive \in BOOLEAN /\ handlers \in BOOLEAN
  /\ state \in {"stopped", "running", "paused"}
  /\ limits.threads \in 0..(Word - 1) /\ limits.queue \in 0..(Word - 1)
  /\ limits.timeout \in {500, 1000, 5000, 30000}
  /\ messages.processed \in 0..MaxCalls /\ messages.failed \in 0..MaxCalls
  /\ calls \in 0..MaxCalls

Lower(a, b) == IF a < b THEN a ELSE b
Higher(a, b) == IF a > b THEN a ELSE b

-----------------------------------------------------------------------------
(* SystemInfo.                                                             *)

CpuUsage == NaN
Above(x, bound) == x # NaN /\ x > bound
Below(x, bound) == x # NaN /\ x < bound

Optimal == [threads |-> Cores, queue |-> (Cores * 100) % Word, timeout |-> 1000]

\* updateMetrics, when a second has passed.
Refresh ==
  /\ calls < MaxCalls /\ calls' = calls + 1
  /\ \E load \in Loads, memory \in Usages : system' = [load |-> load, memory |-> memory]
  /\ UNCHANGED <<config, kernel, limits>>

-----------------------------------------------------------------------------
(* The adaptation.                                                         *)

AdaptedThreads(n) ==
  IF Above(CpuUsage, 80) THEN Higher(n \div 2, Cores \div 4)
  ELSE IF Below(CpuUsage, 30) THEN Lower((n * 2) % Word, Cores * 2) ELSE n

AdaptedQueue(n, q) ==
  IF 10 * system.load > 8 * n THEN q \div 2
  ELSE IF 10 * system.load < 3 * n THEN (q * 2) % Word ELSE q

AdaptedTimeout(t) ==
  IF system.memory > 80 THEN 500 ELSE IF system.memory < 30 THEN 5000 ELSE t

\* updateScalingParameters
Scaled(lim) ==
  LET n == AdaptedThreads(lim.threads)
  IN  [threads |-> n, queue |-> AdaptedQueue(n, lim.queue), timeout |-> AdaptedTimeout(lim.timeout)]

Adapted(lim) == IF adaptive THEN Scaled(lim) ELSE lim

\* std::stoul of a custom flag that is not set throws, and what comes after it
\* in applyOptimizations is not applied.
Missing(opts) == {o \in {"MEMORY", "NETWORK", "DISK"} : o \in opts /\ o \notin custom}

Reached(o, missing) ==
  CASE o = "MEMORY" -> "MEMORY" \notin missing
    [] o = "NETWORK" -> missing \cap {"MEMORY", "NETWORK"} = {}
    [] OTHER -> missing = {}

\* Mutant: without the option the queue has its optimal size again.
RestoredQueue(opts, missing, q) ==
  IF "MEMORY" \in opts /\ Reached("MEMORY", missing) THEN 0 ELSE Optimal.queue

\* "4GB" reads as 4 and is divided by 1024.
LimitedQueue(opts, missing, q) ==
  LET pooled == IF "MEMORY" \in opts /\ Reached("MEMORY", missing) THEN Lower(q, 4 \div 1024) ELSE q
  IN  IF "POWER" \in opts \cap custom /\ Reached("POWER", missing) THEN (pooled * 7) \div 10 ELSE pooled

LimitedThreads(opts, dirs, missing, n) ==
  LET cpu == IF "CPU" \notin opts THEN n
             ELSE IF "AVX" \in dirs THEN Lower(n, Cores * 2)
             ELSE IF "SSE" \in dirs THEN Lower(n, (Cores * 3) \div 2) ELSE n
      net == IF "NETWORK" \in opts /\ Reached("NETWORK", missing) THEN Lower(cpu, Cores \div 2) ELSE cpu
      disk == IF "DISK" \in opts /\ Reached("DISK", missing) THEN Lower(net, Cores \div 4) ELSE net
  IN  IF "POWER" \in opts \cap custom /\ Reached("POWER", missing) THEN (disk * 8) \div 10 ELSE disk

\* applyOptimizations
Applied(opts, dirs, lim) ==
  [lim EXCEPT !.threads = LimitedThreads(opts, dirs, Missing(opts), @),
              !.queue = LimitedQueue(opts, Missing(opts), @)]

-----------------------------------------------------------------------------
(* KernelFlags.                                                            *)

\* validateConfiguration
ValidOptions(opts) == IF "HIGH" \in opts THEN opts \ {"POWER"} ELSE opts
ValidDirectives(dirs) == dirs \cap Features

AutoConfigured == IF Cores >= 8 THEN {"HIGH"} ELSE {}

OptimizeForSystem ==
  /\ calls < MaxCalls /\ calls' = calls + 1
  /\ custom' = custom \cup (flags \cap Prepared)
  /\ directives' = ValidDirectives(directives \cup
                     (IF "CPU" \notin flags THEN {}
                      ELSE IF "AVX" \in Features THEN {"AVX"} ELSE Features \cap {"SSE"}))
  /\ flags' = ValidOptions(flags)
  /\ UNCHANGED <<system, kernel, limits>>

\* A configuration that was read and changed is set.
SetConfiguration ==
  /\ calls < MaxCalls /\ calls' = calls + 1
  /\ \E opts \in SUBSET {"HIGH", "POWER", "CPU"} : flags' = ValidOptions(opts)
  /\ directives' = ValidDirectives(directives)
  /\ UNCHANGED <<system, custom, kernel, limits>>

-----------------------------------------------------------------------------
(* The kernel.                                                             *)

Init ==
  /\ \E load \in Loads, memory \in Usages : system = [load |-> load, memory |-> memory]
  /\ flags = AutoConfigured /\ directives = Features /\ custom = {}
  /\ built = FALSE /\ state = "stopped" /\ limits = Optimal
  /\ adaptive = TRUE /\ handlers = FALSE /\ messages = [processed |-> 0, failed |-> 0]
  /\ calls = 0

\* The constructor throws where applyOptimizations does.
Create ==
  /\ ~built /\ calls < MaxCalls /\ calls' = calls + 1
  /\ limits' = Applied(flags, directives, Optimal)
  /\ built' = (Missing(flags) = {})
  /\ state' = "stopped" /\ adaptive' = TRUE /\ handlers' = FALSE
  /\ messages' = [processed |-> 0, failed |-> 0]
  /\ UNCHANGED <<system, config>>

Destroy ==
  /\ built /\ calls < MaxCalls /\ calls' = calls + 1
  /\ built' = FALSE /\ state' = "stopped"
  /\ handlers' = FALSE /\ messages' = [processed |-> 0, failed |-> 0]
  /\ UNCHANGED <<system, config, limits, adaptive>>

\* setOptimizationFlag, clearOptimizationFlag and the same for a directive; a
\* call that throws has changed the flags.
ChangeFlag ==
  /\ built /\ calls < MaxCalls /\ calls' = calls + 1
  /\ \/ /\ \E o \in Options : flags' \in {flags \cup {o}, flags \ {o}}
        /\ UNCHANGED directives
     \/ /\ \E d \in {"SSE", "AVX"} : directives' \in {directives \cup {d}, directives \ {d}}
        /\ UNCHANGED flags
  /\ limits' = Applied(flags', directives', limits)
  /\ UNCHANGED <<system, custom, kernel>>

SetLimit ==
  /\ built /\ calls < MaxCalls /\ calls' = calls + 1
  /\ \/ \E n \in {1, Cores} : limits' = Adapted([limits EXCEPT !.threads = n])
     \/ \E q \in {1, Word \div 2} : limits' = Adapted([limits EXCEPT !.queue = q])
     \/ limits' = Adapted([limits EXCEPT !.timeout = 30000])
  /\ UNCHANGED <<system, config, kernel>>

SetAdaptive ==
  /\ built /\ calls < MaxCalls /\ calls' = calls + 1
  /\ \/ adaptive' = TRUE /\ limits' = Scaled(limits)
     \/ adaptive' = FALSE /\ UNCHANGED limits
  /\ UNCHANGED <<system, config, built, state, handlers, messages>>

\* updateMetrics adapts when the last update is more than a second old.
MetricsUpdated == limits' \in {limits, Adapted(limits)}

\* optimizeKernel and optimizeChildKernel: three setters, which adapt each
\* time, a directive, and two flags as the machine has them.
Optimize ==
  /\ built /\ calls < MaxCalls /\ calls' = calls + 1
  /\ LET first == Adapted([limits EXCEPT !.threads = Optimal.threads])
         second == Adapted([first EXCEPT !.queue = Optimal.queue])
         third == Adapted([second EXCEPT !.timeout = Optimal.timeout])
         dir == IF "AVX" \in Features THEN {"AVX"} ELSE Features \cap {"SSE"}
         dirs == directives \cup dir
         base == IF dir = {} THEN third ELSE Applied(flags, dirs, third)
     IN  \E wanted \in {{}, {"MEMORY"}, {"NETWORK"}, {"MEMORY", "NETWORK"}} :
           LET memory == flags \cup (wanted \cap {"MEMORY"})
               pooled == IF "MEMORY" \in wanted THEN Applied(memory, dirs, base) ELSE base
               stopped == (dir # {} /\ Missing(flags) # {})
               halfway == "MEMORY" \in wanted /\ Missing(memory) # {}
               network == flags \cup wanted
           IN  /\ directives' = dirs
               /\ flags' = IF stopped THEN flags ELSE IF halfway THEN memory ELSE network
               /\ limits' = IF stopped THEN base
                            ELSE IF halfway \/ "NETWORK" \notin wanted THEN pooled
                            ELSE Applied(network, dirs, pooled)
  /\ UNCHANGED <<system, custom, kernel>>

Start ==
  /\ built /\ state = "stopped" /\ calls < MaxCalls /\ calls' = calls + 1
  /\ state' = "running" /\ MetricsUpdated
  /\ UNCHANGED <<system, config, built, adaptive, handlers, messages>>

PauseOrResume ==
  /\ built /\ state # "stopped" /\ calls < MaxCalls /\ calls' = calls + 1
  /\ state' = IF state = "running" THEN "paused" ELSE "running"
  /\ MetricsUpdated
  /\ UNCHANGED <<system, config, built, adaptive, handlers, messages>>

\* stop() clears the handlers and the metrics.
Stop ==
  /\ built /\ state # "stopped" /\ calls < MaxCalls /\ calls' = calls + 1
  /\ state' = "stopped" /\ handlers' = FALSE /\ messages' = [processed |-> 0, failed |-> 0]
  /\ UNCHANGED <<system, config, built, limits, adaptive>>

RegisterMessageHandler ==
  /\ built /\ calls < MaxCalls /\ calls' = calls + 1
  /\ handlers' = TRUE
  /\ UNCHANGED <<system, config, built, state, limits, adaptive, messages>>

\* sendMessage; broadcastMessage calls no handler.  processMessage catches what
\* a handler throws: the message counts as processed, and none as failed.
SendMessage ==
  /\ built /\ state = "running" /\ calls < MaxCalls /\ calls' = calls + 1
  /\ messages' = [messages EXCEPT !.processed = @ + 1] /\ MetricsUpdated
  /\ UNCHANGED <<system, config, built, state, adaptive, handlers>>

Next ==
  \/ Refresh \/ OptimizeForSystem \/ SetConfiguration \/ Create \/ Destroy \/ ChangeFlag
  \/ SetLimit \/ SetAdaptive \/ Optimize \/ Start \/ PauseOrResume \/ Stop
  \/ RegisterMessageHandler \/ SendMessage

Spec == Init /\ [][Next]_vars

-----------------------------------------------------------------------------
LimitsFall ==
  ChangeFlag => limits'.queue <= limits.queue /\ limits'.threads <= limits.threads

\* A change of a flag never raises a limit: clearing an option does not give
\* back what setting it took, and an unset custom flag stops half way.
FlagsOnlyLower == [][LimitsFall]_vars
=============================================================================
