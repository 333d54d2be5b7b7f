---------------------------- MODULE MonitoredCalls ----------------------------
(***************************************************************************)
(* The monitoring thread of ContainerManager and of CloudIntegration, and  *)
(* the callback for metrics: both classes start, stop and join the thread  *)
(* with the same code.  The callback is the application's and runs with    *)
(* the metrics locked.  It calls nothing back, or one method: one that     *)
(* lists the entities, reads their metrics, configures a load balancer or  *)
(* stops the monitoring.                                                   *)
(***************************************************************************)
EXTENDS LockedCalls

CONSTANT Monitor

VARIABLES
  active,    \* monitoring_active
  joinable,  \* monitoring_thread has a thread that is not joined
  callback   \* metrics_callback: the kind of method it calls

monitor == <<active, joinable, callback>>

MonitorTypeOK ==
  /\ active \in BOOLEAN /\ joinable \in BOOLEAN
  /\ callback \in {"none", "lists", "reads", "balances", "stops"}
MonitorInit == active = FALSE /\ joinable = FALSE /\ callback = "none"

StartMonitoring == Do("activate", 0)
StopMonitoring == Do("deactivate", 0) \o Do("join", 0)

\* monitoring_active.exchange(true), and then a thread for monitoring_thread.
Activate(t) ==
  /\ At(t, "activate")
  /\ active' = TRUE
  /\ Proceed(t, IF active THEN <<>> ELSE Do("spawn", 0))
  /\ UNCHANGED <<joinable, callback>>

\* A thread that is assigned over one not joined ends the process.
Spawn(t) ==
  /\ At(t, "spawn")
  /\ joinable' = TRUE
  /\ IF joinable
     THEN EndProcess
     ELSE /\ todo' = [todo EXCEPT ![t] = Tail(@), ![Monitor] = Do("round", 0)]
          /\ UNCHANGED <<platform, holder, depth, dead>>
  /\ UNCHANGED <<active, callback>>

Deactivate(t) ==
  /\ At(t, "deactivate")
  /\ active' = FALSE /\ Done(t)
  /\ UNCHANGED <<joinable, callback>>

Join(t) ==
  /\ At(t, "join")
  /\ Proceed(t, IF joinable THEN Do("joining", 0) ELSE <<>>)
  /\ UNCHANGED monitor

\* Of two threads that join at once the second has nothing left to join; a
\* thread that joins itself gets an exception.
Joined(t) ==
  /\ At(t, "joining") /\ (t = Monitor \/ Idle(Monitor))
  /\ joinable' = (joinable /\ t = Monitor)
  /\ IF joinable /\ t # Monitor THEN Done(t) ELSE Throw(t)
  /\ UNCHANGED <<active, callback>>

\* What the thread that runs the callback does.
CalledBack(steps) == steps \o Do("returned", 0)

Returned(t) == At(t, "returned") /\ Done(t) /\ UNCHANGED monitor

\* A callback that calls nothing back is as none.
SetCallback(t) ==
  /\ At(t, "callback")
  /\ callback' = Now(t).arg /\ Done(t)
  /\ UNCHANGED <<active, joinable>>

MonitorStep(t) == Activate(t) \/ Spawn(t) \/ Deactivate(t) \/ Join(t) \/ Joined(t) \/ SetCallback(t)
                    \/ Returned(t)

-----------------------------------------------------------------------------
InCallback(t) == \E n \in DOMAIN todo[t] : todo[t][n].do = "returned"

\* Threads that wait for one another: for a mutex or in a join.
Tangled(S) ==
  S # {} /\ \A t \in S : \/ \E m \in Wants(t) : holder[m] \in S \ {t}
                         \/ At(t, "joining") /\ Monitor \in S \ {t}
=============================================================================
