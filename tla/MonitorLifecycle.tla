-------------------------- MODULE MonitorLifecycle --------------------------
(***************************************************************************)
(* What ResourceMonitor promises its owner (resource_monitor.h), with the  *)
(* threads, the lock and the flag left out: callbacks happen one at a time *)
(* and only between Start and the return of Stop, and once a stop has been *)
(* requested at most one more callback begins.                             *)
(***************************************************************************)
VARIABLES
  phase,       \* "stopped", "active", or "draining": Stop is waiting
  delivering,  \* a callback is executing
  lastCall     \* while draining: one more callback may begin

lifecycle == <<phase, delivering, lastCall>>

Init == phase = "stopped" /\ delivering = FALSE /\ lastCall = FALSE

Open ==
  /\ phase = "stopped"
  /\ phase' = "active"
  /\ UNCHANGED <<delivering, lastCall>>

RequestStop ==
  /\ phase = "active"
  /\ phase' = "draining"
  /\ lastCall' \in BOOLEAN
  /\ UNCHANGED delivering

Deliver ==
  /\ ~delivering
  /\ phase = "active" \/ (phase = "draining" /\ lastCall)
  /\ delivering' = TRUE
  /\ lastCall' = FALSE
  /\ UNCHANGED phase

\* The sample in progress ends without a callback.
Forgo ==
  /\ lastCall
  /\ lastCall' = FALSE
  /\ UNCHANGED <<phase, delivering>>

Return ==
  /\ delivering
  /\ delivering' = FALSE
  /\ UNCHANGED <<phase, lastCall>>

Close ==
  /\ phase = "draining" /\ ~delivering /\ ~lastCall
  /\ phase' = "stopped"
  /\ UNCHANGED <<delivering, lastCall>>

Next == Open \/ RequestStop \/ Deliver \/ Forgo \/ Return \/ Close

Spec == Init /\ [][Next]_lifecycle
==============================================================================
