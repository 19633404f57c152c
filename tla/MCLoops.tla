------------------------------ MODULE MCLoops ------------------------------
(* The background loops, each on its own small instance.  They share no     *)
(* variable: `part` names the one that moves, the others rest where they    *)
(* begin, so a run goes through the loops side by side.                     *)
EXTENDS Scheduler, Windows, Reconcile, Alerts, Usage

VARIABLE part
loopsVars == <<vars, windowsVars, reconcileVars, alertsVars, usageVars, part>>

SustainTicks == [r \in Rules |-> CASE r = "instance_unhealthy" -> 2
                                   [] r \in {"instance_stuck_starting", "gpu_temp"} -> 0
                                   [] OTHER -> 1]

LoopsInit ==
  /\ part \in {"scheduler", "windows", "reconcile", "alerts", "usage"}
  /\ Init /\ ReconcileInit /\ AlertsInit /\ UsageInit
  /\ IF part = "windows" THEN WindowsInit
     ELSE now = 0 /\ schedules = [s \in Schedules |-> [days |-> {}, start |-> 0, end |-> 0,
                                                       enabled |-> FALSE]]
  /\ part # "scheduler" => ~scheduled /\ ~open /\ status = "stopped"
  /\ part # "reconcile" => rowStatus = "stopped" /\ ~ever

LoopsNext ==
  /\ \/ /\ part = "scheduler" /\ Next
        /\ UNCHANGED <<windowsVars, reconcileVars, alertsVars, usageVars>>
     \/ /\ part = "windows" /\ WindowsNext
        /\ UNCHANGED <<vars, reconcileVars, alertsVars, usageVars>>
     \/ /\ part = "reconcile" /\ ReconcileNext
        /\ UNCHANGED <<vars, windowsVars, alertsVars, usageVars>>
     \/ /\ part = "alerts" /\ AlertsNext
        /\ UNCHANGED <<vars, windowsVars, reconcileVars, usageVars>>
     \/ /\ part = "usage" /\ UsageNext
        /\ UNCHANGED <<vars, windowsVars, reconcileVars, alertsVars>>
  /\ part' = part

LoopsSpec == LoopsInit /\ [][LoopsNext]_loopsVars
=============================================================================
