----------------------------- MODULE CloudService -----------------------------
(***************************************************************************)
(* The program (main.cpp) and its CoreService (core_service.cpp): main     *)
(* builds seven components and starts them, the core starts a detached     *)
(* thread that processes events, and SIGINT or SIGTERM runs                *)
(* shutdown_handler on whichever of the two threads the system picks, at   *)
(* any point of its code.  The handler shuts the components down and calls *)
(* exit, whose static destructors run while the other thread goes on.      *)
(*                                                                         *)
(* The components other than the core, and the event bus, are declared and *)
(* not defined in the repository: to start, to process and to shut down    *)
(* may throw.  What the handler may wait for besides state_mutex_ (the     *)
(* locks of cout, of the allocator, of exit and of those components, when  *)
(* the thread that it interrupts holds them) is left out.                  *)
(*                                                                         *)
(* What runs on a destroyed core is undefined and taken to crash; the      *)
(* memory is never used again otherwise.  platform is restricted to what a *)
(* handler can meet: a relock that throws would leave it by an exception.  *)
(***************************************************************************)
EXTENDS LockedCalls

CONSTANTS
  Main, Event,
  MaxUpsets    \* bound: signals delivered, and exceptions of external parts

VARIABLES
  built,      \* the global pointers that are not null
  started,    \* the components other than the core that run
  running,    \* running_ of the core
  exiting,    \* a thread has called exit
  gone,       \* the process has ended by exit
  signalled,  \* signals delivered
  faults

service == <<built, started, running, exiting, gone, signalled, faults>>
vars == <<callVars, service>>

Parts == {"core", "security", "storage", "blockchain", "network", "api", "monitoring"}

TypeOK ==
  /\ CallsTypeOK
  /\ built \subseteq Parts /\ started \subseteq Parts \ {"core"}
  /\ running \in BOOLEAN /\ exiting \in BOOLEAN /\ gone \in BOOLEAN
  /\ signalled + faults \in 0..MaxUpsets

-----------------------------------------------------------------------------
(* The methods and the functions, as what a thread does.                   *)

InOrder(step, parts) == FlattenSeq([i \in 1..Len(parts) |-> Do(step, parts[i])])

CoreStart == Locked("state", Just("run"))

Shutdown == Locked("state", Just("quit"))

\* exit destroys the global pointers in the reverse order of their definition.
Exit ==
  Just("exit")
    \o InOrder("destroy", <<"monitoring", "api", "blockchain", "security", "storage", "network", "core">>)
    \o Just("gone")

\* Mutant: the handler returns, and what it interrupted goes on.
HandlerReturns ==
  InOrder("shutdown", <<"api", "network", "storage", "blockchain", "monitoring", "security", "core">>)

ShutdownHandler ==
  InOrder("shutdown", <<"api", "network", "storage", "blockchain", "monitoring", "security", "core">>)
    \o Exit

StartOrder == <<"core", "security", "storage", "blockchain", "network", "api", "monitoring">>

MainProgram ==
  Try(InOrder("build", StartOrder) \o InOrder("start", StartOrder) \o Just("loop"), ShutdownHandler)

ProcessEvents == Locked("state", Just("check"))

-----------------------------------------------------------------------------
Init ==
  /\ CallsInit /\ platform # "throws"
  /\ todo = [t \in Threads |-> IF t = Main THEN MainProgram ELSE <<>>]
  /\ built = {} /\ started = {} /\ running = FALSE
  /\ exiting = FALSE /\ gone = FALSE /\ signalled = 0 /\ faults = 0

\* A signal is handled by one of the threads, between any two of its steps.
Interrupt(t) ==
  /\ ~gone /\ ~dead /\ todo[t] # <<>> /\ signalled + faults < MaxUpsets
  /\ signalled' = signalled + 1
  /\ todo' = [todo EXCEPT ![t] = ShutdownHandler \o Just("resume") \o @]
  /\ UNCHANGED <<platform, holder, depth, dead, built, started, running, exiting, gone, faults>>

Build(t) ==
  /\ At(t, "build")
  /\ built' = built \cup {Now(t).arg} /\ Done(t)
  /\ UNCHANGED <<started, running, exiting, gone, signalled, faults>>

\* To start a component that exit has destroyed crashes.
Start(t) ==
  /\ At(t, "start")
  /\ LET p == Now(t).arg
     IN  \/ p \notin built /\ EndProcess /\ UNCHANGED <<started, faults>>
         \/ p \in built /\ p = "core" /\ Proceed(t, CoreStart) /\ UNCHANGED <<started, faults>>
         \/ p \in built /\ p # "core" /\ started' = started \cup {p} /\ Done(t) /\ UNCHANGED faults
         \/ /\ p \in built /\ p # "core" /\ signalled + faults < MaxUpsets
            /\ faults' = faults + 1 /\ Throw(t) /\ UNCHANGED started
  /\ UNCHANGED <<built, running, exiting, gone, signalled>>

\* Of the core: running_ and the event thread, with state_mutex_ held.
Run(t) ==
  /\ At(t, "run")
  /\ running' = TRUE
  /\ todo' = [todo EXCEPT ![t] = Tail(@), ![Event] = IF running THEN @ ELSE ProcessEvents]
  /\ UNCHANGED <<platform, holder, depth, dead, built, started, exiting, gone, signalled, faults>>

InTry(t) == \E n \in DOMAIN todo[t] : todo[t][n].do = "end"

\* "if (g_part) g_part->shutdown()"; a part that is not started has nothing to do.
\* An exception of one ends the process, or, where the frames of a signal handler
\* can be unwound, comes to the try block of main that it interrupted.
ShutdownPart(t) ==
  /\ At(t, "shutdown")
  /\ LET p == Now(t).arg
     IN  \/ /\ started' = started \ {p} /\ UNCHANGED faults
            /\ Proceed(t, IF p = "core" /\ "core" \in built THEN Shutdown ELSE <<>>)
         \/ /\ p \in built /\ p # "core" /\ signalled + faults < MaxUpsets
            /\ faults' = faults + 1 /\ UNCHANGED started
            /\ EndProcess \/ (InTry(t) /\ Throw(t))
  /\ UNCHANGED <<built, running, exiting, gone, signalled>>

Quit(t) ==
  /\ At(t, "quit")
  /\ running' = FALSE /\ Done(t)
  /\ UNCHANGED <<built, started, exiting, gone, signalled, faults>>

\* A round of processEvents on a core that still exists.
CheckRunning(t) ==
  /\ At(t, "check")
  /\ todo' = [todo EXCEPT ![t] = <<Head(Tail(@))>> \o (IF running THEN Just("events") ELSE <<>>)
                                    \o Tail(Tail(@))]
  /\ UNCHANGED <<platform, holder, depth, dead, service>>

Events(t) ==
  /\ At(t, "events") /\ "core" \in built
  /\ \/ Proceed(t, ProcessEvents) /\ UNCHANGED faults
     \/ signalled + faults < MaxUpsets /\ faults' = faults + 1 /\ Throw(t)
  /\ UNCHANGED <<built, started, running, exiting, gone, signalled>>

UseDestroyed(t) ==
  /\ At(t, "events") \/ (At(t, "lock") /\ t = Event) \/ At(t, "check") \/ At(t, "run")
  /\ "core" \notin built
  /\ EndProcess
  /\ UNCHANGED service

\* To call exit a second time is undefined: it crashes, or both go on.
CallExit(t) ==
  /\ At(t, "exit")
  /\ exiting' = TRUE
  /\ Done(t) \/ (exiting /\ EndProcess)
  /\ UNCHANGED <<built, started, running, gone, signalled, faults>>

\* The destructor of the core shuts it down if it runs.
Destroy(t) ==
  /\ At(t, "destroy")
  /\ LET p == Now(t).arg
     IN  IF p = "core" /\ p \in built /\ running
         THEN Proceed(t, Shutdown \o Do("destroy", "core")) /\ UNCHANGED <<built, started>>
         ELSE Done(t) /\ built' = built \ {p} /\ started' = started \ {p}
  /\ UNCHANGED <<running, exiting, gone, signalled, faults>>

End(t) ==
  /\ At(t, "gone")
  /\ gone' = TRUE /\ todo' = [u \in Threads |-> <<>>]
  /\ holder' = [m \in Mutexes |-> Free] /\ depth' = [m \in Mutexes |-> 0]
  /\ UNCHANGED <<platform, dead, built, started, running, exiting, signalled, faults>>

ThreadStep(t) ==
  \/ /\ LockStep(t) /\ UNCHANGED service
     /\ ~(t = Event /\ At(t, "lock") /\ "core" \notin built)
  \/ Build(t) \/ Start(t) \/ Run(t) \/ ShutdownPart(t) \/ Quit(t) \/ CheckRunning(t)
  \/ Events(t) \/ UseDestroyed(t) \/ CallExit(t) \/ Destroy(t) \/ End(t)

Next == \E t \in Threads : Interrupt(t) \/ ThreadStep(t)

Spec == Init /\ [][Next]_vars /\ \A t \in Threads : SF_vars(ThreadStep(t))

-----------------------------------------------------------------------------
\* A thread handles a signal with state_mutex_ held by itself.
HandlesLocked(t) ==
  /\ \E n \in DOMAIN todo[t] : todo[t][n].do = "resume"
  /\ holder["state"] = t

\* As far as state_mutex_ goes, a signal ends the program, unless its handler
\* interrupts a thread that holds the mutex, for which it then waits.
SignalExits == (signalled > 0) ~> (gone \/ dead \/ \E t \in Threads : HandlesLocked(t))
=============================================================================
