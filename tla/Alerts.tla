------------------------------- MODULE Alerts -------------------------------
(***************************************************************************)
(* The alert manager (services/alerts.py): every tick derives facts from    *)
(* the telemetry caches, advances one state machine per rule and subject in *)
(* memory, and then writes what fired or resolved in one transaction.  One  *)
(* node and one instance stand for all; the rules kept are those whose      *)
(* facts come and go with the state of their subject.                       *)
(***************************************************************************)
EXTENDS Integers, FiniteSets, SequencesExt

CONSTANTS
  Sustain,   \* merged_config: how many ticks a condition must hold, by rule
  MaxTicks,  \* bound on the clock
  MaxAlerts, \* bound on alert rows
  MaxLapses  \* bound on failed ticks and restarts

Rules == {"node_offline", "gpu_temp", "instance_unhealthy", "kv_cache_full",
          "instance_stuck_starting"}
ASSUME AlertsAssumption == Sustain \in [Rules -> Nat]
ASSUME AlertsBounds == MaxTicks \in Nat /\ MaxAlerts \in Nat /\ MaxLapses \in Nat

VARIABLES
  alertTick, \* the time of the last evaluation
  state,     \* _states: since, fired, alert_id; since is -1 for None
  alerts,    \* Alert rows: rule and whether resolved_at is null
  missed,    \* history: rules that fired in a tick that was not written
  leftOver,  \* history: rows whose state was dropped or whose end was lost
  badSince,  \* history: since when the instance was seen not serving
  lapses

alertsVars == <<alertTick, state, alerts, missed, leftOver, badSince, lapses>>

None == 0 - 1
Fresh0 == [since |-> None, fired |-> FALSE, id |-> 0]
(* What the telemetry caches hold when a tick reads them.                   *)
InstanceSeen == {"running", "unhealthy", "error", "loading", "stuck", "stopped"}
Seen == [reachable : BOOLEAN, hot : BOOLEAN, kvFull : BOOLEAN,
         instance : InstanceSeen]

AlertsTypeOK ==
  /\ alertTick \in 0..MaxTicks /\ lapses \in 0..MaxLapses
  /\ state \in [Rules -> [since : None..MaxTicks, fired : BOOLEAN,
                         id : 0 .. MaxAlerts + Cardinality(Rules)]]
  /\ \E n \in 0..MaxAlerts : alerts \in [1..n -> [rule : Rules, open : BOOLEAN]]
  /\ missed \subseteq Rules /\ leftOver \subseteq 1..MaxAlerts
  /\ badSince \in None..MaxTicks

AlertsInit ==
  /\ alertTick = 0 /\ state = [r \in Rules |-> Fresh0]
  /\ alerts = << >> /\ missed = {} /\ leftOver = {}
  /\ badSince = None /\ lapses = 0

-----------------------------------------------------------------------------
(* gather_facts: what is observed of each rule, or that nothing is.         *)
Observed(active) == IF active THEN "active" ELSE "clear"

(* Mutant: only a running instance has a health fact.                       *)
BugInstanceFact(seen, rule) ==
  LET i == seen.instance IN
  CASE rule = "instance_stuck_starting" ->
         IF i \in {"loading", "stuck"} THEN Observed(i = "stuck") ELSE "absent"
    [] rule = "instance_unhealthy" ->
         IF i \in {"running", "unhealthy"} THEN Observed(i = "unhealthy") ELSE "absent"
    [] rule = "kv_cache_full" ->
         IF i \in {"running", "unhealthy"} THEN Observed(seen.kvFull) ELSE "absent"

InstanceFact(seen, rule) ==
  LET i == seen.instance IN
  CASE rule = "instance_stuck_starting" ->
         IF i \in {"loading", "stuck"} THEN Observed(i = "stuck") ELSE "absent"
    [] rule = "instance_unhealthy" ->
         IF i \in {"running", "unhealthy", "error"}
         THEN Observed(i # "running") ELSE "absent"
    [] rule = "kv_cache_full" ->
         IF i \in {"running", "unhealthy"} THEN Observed(seen.kvFull) ELSE "absent"

NodeFact(seen, rule) ==
  CASE rule = "node_offline" -> Observed(~seen.reachable)
    [] rule = "gpu_temp" -> IF seen.reachable THEN Observed(seen.hot) ELSE "absent"

Fact(seen, rule) ==
  IF rule \in {"node_offline", "gpu_temp"} THEN NodeFact(seen, rule)
  ELSE InstanceFact(seen, rule)

(* evaluate, for one rule and subject at time t.                            *)
Advanced(seen, rule, t) ==
  LET since == IF state[rule].since = None THEN t ELSE state[rule].since
  IN IF Fact(seen, rule) # "active" THEN Fresh0
     ELSE [state[rule] EXCEPT !.since = since,
                              !.fired = @ \/ t - since >= Sustain[rule]]

Fires(seen, t)    == {r \in Rules : ~state[r].fired /\ Advanced(seen, r, t).fired}
Resolves(seen, t) == {r \in Rules : state[r].fired /\ Fact(seen, r) = "clear"}
Vanishes(seen, t) == {r \in Rules : state[r].fired /\ Fact(seen, r) = "absent"}

-----------------------------------------------------------------------------
OpenRows(rule) == {i \in DOMAIN alerts : alerts[i].rule = rule /\ alerts[i].open}

(* Mutant: the oldest open row is the one that is resolved.                 *)
BugEnded(rule) == {i \in OpenRows(rule) : \A j \in OpenRows(rule) : i <= j}

(* The row a resolution ends: the newest that is open, if there is one.     *)
Ended(rule) == {i \in OpenRows(rule) : \A j \in OpenRows(rule) : j <= i}

EndedBy(seen, t) == UNION {Ended(r) : r \in Resolves(seen, t)}
NewRows(seen, t) ==
  LET order == SetToSeq(Fires(seen, t))
  IN [i \in DOMAIN order |-> [rule |-> order[i], open |-> TRUE]]
IdOf(seen, r, t) ==
  LET rows == NewRows(seen, t)
  IN Len(alerts) + (CHOOSE i \in DOMAIN rows : rows[i].rule = r)

(* What evaluate leaves in memory, when the rows of `flushed` got their id. *)
AdvanceAll(seen, t, flushed) ==
  state' = [r \in Rules |->
    IF r \in flushed THEN [Advanced(seen, r, t) EXCEPT !.id = IdOf(seen, r, t)]
    ELSE Advanced(seen, r, t)]

Serving(seen) == seen.instance \notin {"unhealthy", "error"}

Evaluated(seen, t) ==
  /\ alertTick < MaxTicks /\ alertTick' = t
  /\ badSince' = IF Serving(seen) THEN None
                 ELSE IF badSince = None THEN t ELSE badSince

IdsOf(rules) == {state[r].id : r \in rules \ missed}

(* _tick, written.                                                          *)
AlertTick(seen) ==
  LET t == alertTick + 1 IN
  /\ Evaluated(seen, t)
  /\ AdvanceAll(seen, t, Fires(seen, t))
  /\ Len(alerts) + Cardinality(Fires(seen, t)) <= MaxAlerts
  /\ LET closed == EndedBy(seen, t) IN
     alerts' = [i \in DOMAIN alerts |-> [alerts[i] EXCEPT !.open = @ /\ i \notin closed]]
               \o NewRows(seen, t)
  /\ missed' = {r \in missed : state'[r].fired}
  /\ leftOver' = (leftOver \union IdsOf(Vanishes(seen, t))) \ EndedBy(seen, t)
  /\ UNCHANGED lapses

(* _tick whose flush or commit fails: the loop goes on, the states stay.    *)
TickFails(seen) ==
  LET t == alertTick + 1 IN
  /\ Fires(seen, t) \union Resolves(seen, t) # {}
  /\ lapses < MaxLapses /\ lapses' = lapses + 1
  /\ Evaluated(seen, t)
  /\ \E flushed \in SUBSET Fires(seen, t) : AdvanceAll(seen, t, flushed)
  /\ missed' = {r \in missed \union Fires(seen, t) : state'[r].fired}
  /\ leftOver' = leftOver \union IdsOf(Vanishes(seen, t) \union Resolves(seen, t))
  /\ UNCHANGED alerts

(* The portal restarts: the states are gone.                                *)
AlertsRestart ==
  /\ lapses < MaxLapses /\ lapses' = lapses + 1
  /\ state' = [r \in Rules |-> Fresh0] /\ badSince' = None
  /\ leftOver' = leftOver \union IdsOf({r \in Rules : state[r].fired})
  /\ missed' = {}
  /\ UNCHANGED <<alertTick, alerts>>

AlertsNext ==
  \/ \E seen \in Seen : AlertTick(seen) \/ TickFails(seen)
  \/ AlertsRestart

AlertsSpec == AlertsInit /\ [][AlertsNext]_alertsVars

-----------------------------------------------------------------------------
(* An alert that fired in a tick that was written has its row: alert_id     *)
(* names it, it is open, and it is the row its resolution will end.  Any    *)
(* other open row was left over: its subject vanished while the alert was   *)
(* on, the portal restarted, or the tick that should end it was not written *)
(* (services/alerts.py:272-284, 214-216).                                   *)
AlertRowsKnown ==
  /\ \A r \in Rules \ missed : state[r].fired => Ended(r) = {state[r].id}
  /\ \A i \in DOMAIN alerts : alerts[i].open =>
       i \in leftOver \/ i \in IdsOf({r \in Rules : state[r].fired})

(* An instance seen not serving for as long as the rule asks for has its    *)
(* alert, also when the observer demoted it from running to error on the    *)
(* way (services/alerts.py:150-161).                                        *)
AlertOutlivesDemotion ==
  badSince # None /\ alertTick - badSince >= Sustain["instance_unhealthy"]
    => state["instance_unhealthy"].fired

(* What the alert engine keeps: the types, the rows of its alerts, and      *)
(* alerts that outlive a demotion (services/alerts.py:120-284).             *)
AlertsInv == AlertsTypeOK /\ AlertRowsKnown /\ AlertOutlivesDemotion
=============================================================================
