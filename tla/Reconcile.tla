------------------------------ MODULE Reconcile ------------------------------
(***************************************************************************)
(* The status observer's decision with its clocks (services/reconcile.py):  *)
(* sustain timers in memory, a start deadline anchored in the row, and      *)
(* probes read from a cache that a slower loop refreshes when it can.       *)
(* InstanceLifecycle keeps the interleaving of a pass with the jobs and     *)
(* leaves the timers open; here a pass is one step and the timers are exact.*)
(***************************************************************************)
EXTENDS Integers

CONSTANTS
  UnitDeadAfter,  \* reconcile_unit_dead_seconds, in ticks of the loop
  UnhealthyAfter, \* reconcile_unhealthy_seconds
  StartDeadline,  \* reconcile_start_deadline_seconds
  CrashLoop,      \* reconcile_crashloop_restarts
  MaxClock,       \* bound on the time
  MaxRestarts,    \* bound on restarts of the unit
  MaxReboots,     \* bound on portal restarts
  MaxRowJobs      \* bound on start and stop jobs

ASSUME ReconcileAssumption ==
  /\ {UnitDeadAfter, UnhealthyAfter, StartDeadline, CrashLoop} \subseteq Nat
  /\ {MaxClock, MaxRestarts, MaxReboots, MaxRowJobs} \subseteq Nat

VARIABLES
  rowStatus, ever, startedAt, \* the row: status, last_healthy_at, started_at
  flight,   \* the start or stop job registered for the instance
  restarts, \* the unit's NRestarts on the node
  cache,    \* the last slow tick's reading
  timers,   \* Reconciler._pending for the instance
  clock, ticked, sampled,  \* time, and what has run at this time
  jobs, reboots,
  dark,     \* history: when a pass last saw anything but a dead unit
  ill       \* history: when one last saw anything but a failing /health

reconcileVars == <<rowStatus, ever, startedAt, flight, restarts, cache, timers, clock,
                  ticked, sampled, jobs, reboots, dark, ill>>
rowVars == <<rowStatus, ever, startedAt>>
time    == <<clock, ticked, sampled>>
reconcileBounds == <<jobs, reboots>>
lookout == <<dark, ill>>

NoTime    == -1
RowStatuses == {"stopped", "starting", "running", "error"}

NoTimers == [dead |-> NoTime, unhealthy |-> NoTime, first |-> NoTime,
             base |-> NoTime]
NoCache  == [known |-> FALSE, active |-> "unknown", health |-> FALSE,
             restarts |-> NoTime]

ReconcileTypeOK ==
  /\ rowStatus \in RowStatuses /\ ever \in BOOLEAN
  /\ startedAt \in {NoTime} \union (0..clock)
  /\ flight \in {"none", "start", "stop"}
  /\ restarts \in 0..MaxRestarts
  /\ cache \in [known : BOOLEAN, active : {"yes", "no", "unknown"},
                health : BOOLEAN, restarts : {NoTime} \union (0..MaxRestarts)]
  /\ LET Since == {NoTime} \union (0..clock)
     IN timers \in [dead : Since, unhealthy : Since, first : Since,
                    base : {NoTime} \union (0..MaxRestarts)]
  /\ clock \in 0..MaxClock /\ ticked \in BOOLEAN /\ sampled \in BOOLEAN
  /\ jobs \in 0..MaxRowJobs /\ reboots \in 0..MaxReboots
  /\ dark \in 0..clock /\ ill \in 0..clock

(* A portal that has just started over rows of any age.                     *)
ReconcileInit ==
  /\ rowStatus \in RowStatuses /\ ever \in BOOLEAN
  /\ startedAt \in {NoTime, 0}
  /\ rowStatus = "stopped" => startedAt = NoTime
  /\ flight = "none"
  /\ restarts = 0
  /\ cache = NoCache /\ timers = NoTimers
  /\ clock = 0 /\ ticked = FALSE /\ sampled = FALSE
  /\ jobs = 0 /\ reboots = 0
  /\ dark = 0 /\ ill = 0

-----------------------------------------------------------------------------
(* Mutant: an unreachable node keeps the timers.                            *)
BugTimers(reach) ==
  LET p == [timers EXCEPT !.first = IF @ = NoTime THEN clock ELSE @]
      since(t) == IF t = NoTime THEN clock ELSE t
  IN IF ~reach THEN p
     ELSE IF cache.health
     THEN [p EXCEPT !.dead = NoTime, !.unhealthy = NoTime]
     ELSE [p EXCEPT !.dead = IF cache.active = "no" THEN since(@) ELSE NoTime,
                    !.unhealthy = IF rowStatus = "running" THEN since(@) ELSE @]

(* decide.  The sustain timers after a look at the reading: a node that     *)
(* cannot be reached and a green /health clear them.                        *)
Timers(reach) ==
  LET p == [timers EXCEPT !.first = IF @ = NoTime THEN clock ELSE @]
      since(t) == IF t = NoTime THEN clock ELSE t
  IN IF ~reach \/ cache.health
     THEN [p EXCEPT !.dead = NoTime, !.unhealthy = NoTime]
     ELSE [p EXCEPT !.dead = IF cache.active = "no" THEN since(@) ELSE NoTime,
                    !.unhealthy = IF rowStatus = "running" THEN since(@) ELSE @]

Sustained(since, after) == since # NoTime /\ clock - since >= after

(* Rule 1, and the three that follow it.                                    *)
UnitDead(p) == Sustained(p.dead, UnitDeadAfter)

Based(p) ==
  IF ever \/ cache.restarts = NoTime \/ p.base # NoTime THEN p
  ELSE [p EXCEPT !.base = cache.restarts]

CrashLooping(p) ==
  ~ever /\ cache.restarts # NoTime /\ cache.restarts - p.base >= CrashLoop

(* Mutant: the deadline runs from the first pass of this process.           *)
BugAnchor(p) == p.first
Anchor(p) == IF startedAt # NoTime THEN startedAt ELSE p.first
PastDeadline(p) == ~ever /\ Sustained(Anchor(p), StartDeadline)

HealthLost(p) ==
  /\ ever /\ rowStatus = "running"
  /\ Sustained(p.unhealthy, UnhealthyAfter)

Watched == rowStatus \in {"starting", "running"}

(* Mutant: a verdict is given on rows that nothing watches.                 *)
BugReason(reach) ==
  LET p == Timers(reach) q == Based(p) IN
  IF ~reach THEN "none"
  ELSE IF cache.health THEN "green"
  ELSE IF UnitDead(p) THEN "unit dead"
  ELSE IF PastDeadline(q) THEN "deadline"
  ELSE IF HealthLost(q) THEN "health lost" ELSE "none"
(* Why a verdict is given, if one is; the first rule that applies.          *)
Reason(reach) ==
  LET p == Timers(reach)
      q == Based(p)
  IN IF ~reach THEN "none"
     ELSE IF cache.health
     THEN IF rowStatus \in {"starting", "error"} THEN "green" ELSE "none"
     ELSE IF ~Watched THEN "none"
     ELSE IF UnitDead(p) THEN "unit dead"
     ELSE IF CrashLooping(q) THEN "crash loop"
     ELSE IF PastDeadline(q) THEN "deadline"
     ELSE IF HealthLost(q) THEN "health lost" ELSE "none"

(* The timers a pass leaves when it gives no verdict.                       *)
TimersAfter(reach) ==
  IF ~reach \/ cache.health \/ ~Watched \/ UnitDead(Timers(reach))
  THEN Timers(reach)
  ELSE Based(Timers(reach))

-----------------------------------------------------------------------------
(* Reconciler.tick: one pass of the loop, or the one a request asks for.    *)
Decided(reach) ==
  LET why == Reason(reach) IN
  /\ dark' = IF ~reach \/ cache.health \/ cache.active # "no" THEN clock
             ELSE dark
  /\ ill' = IF ~reach \/ cache.health THEN clock ELSE ill
  /\ timers' = IF why = "none" THEN TimersAfter(reach) ELSE NoTimers
  /\ rowStatus' = IF why = "none" THEN rowStatus
                  ELSE IF why = "green" THEN "running" ELSE "error"
  /\ ever' = (ever \/ why = "green")
  /\ UNCHANGED startedAt

ObserverTick(reach) ==
  /\ ticked' = TRUE
  /\ IF cache.known /\ flight = "none" THEN Decided(reach)
     ELSE /\ dark' = clock /\ ill' = clock
          /\ timers' = IF cache.known THEN NoTimers ELSE timers
          /\ UNCHANGED rowVars
  /\ UNCHANGED <<flight, restarts, cache, clock, sampled, reconcileBounds>>

(* telemetry._slow_loop, with the unit in any state since the reading       *)
(* before.  "active" is the state active and nothing else; an SSH failure   *)
(* leaves it unknown; NRestarts may be missing; /health may time out.  The  *)
(* slow loop's period is longer than the observer's.                        *)
Sample(active, health, n) ==
  /\ ~sampled
  /\ health => active # "no"
  /\ restarts' \in {restarts, restarts + 1} /\ restarts' <= MaxRestarts
  /\ n \in {NoTime, restarts'}
  /\ sampled' = TRUE
  /\ cache' = [known |-> TRUE, active |-> active, health |-> health,
               restarts |-> n]
  /\ UNCHANGED <<rowVars, flight, timers, clock, ticked, reconcileBounds, lookout>>

(* A tick's worth of time.  The slow loop may have replaced the readings; it*)
(* is slower than the observer, and keeps the old ones when it raises.      *)
SecondPasses ==
  /\ clock < MaxClock /\ ticked
  /\ clock' = clock + 1
  /\ ticked' = FALSE /\ sampled' = FALSE
  /\ UNCHANGED <<rowVars, flight, restarts, cache, timers, reconcileBounds, lookout>>

-----------------------------------------------------------------------------
(* Jobs.  A start claims the row and restarts the unit ...                  *)
BeginStart ==
  /\ flight = "none" /\ jobs < MaxRowJobs
  /\ jobs' = jobs + 1
  /\ flight' = "start"
  /\ rowStatus' = "starting" /\ ever' = FALSE /\ startedAt' = clock
  /\ restarts' = 0
  /\ UNCHANGED <<cache, timers, time, reboots, lookout>>

(* ... and ends with it serving, failed, given up on or cancelled.          *)
EndStart ==
  /\ flight = "start"
  /\ flight' = "none"
  /\ \/ rowStatus' = "running" /\ ever' = TRUE
     \/ rowStatus' = "error" /\ UNCHANGED ever
     \/ UNCHANGED <<rowStatus, ever>>
  /\ UNCHANGED <<startedAt, restarts, cache, timers, time, reconcileBounds, lookout>>

BeginStop ==
  /\ flight = "none" /\ jobs < MaxRowJobs
  /\ jobs' = jobs + 1
  /\ flight' = "stop"
  /\ UNCHANGED <<rowVars, restarts, cache, timers, time, reboots, lookout>>

EndStop ==
  /\ flight = "stop"
  /\ flight' = "none"
  /\ \/ rowStatus' = "stopped" /\ startedAt' = NoTime
     \/ UNCHANGED <<rowStatus, startedAt>>
  /\ UNCHANGED <<ever, restarts, cache, timers, time, reconcileBounds, lookout>>

(* The portal restarts: timers, cache and registry are gone.                *)
ObserverBoot ==
  /\ reboots < MaxReboots
  /\ reboots' = reboots + 1
  /\ flight' = "none" /\ cache' = NoCache /\ timers' = NoTimers
  /\ dark' = clock /\ ill' = clock
  /\ UNCHANGED <<rowVars, restarts, time, jobs>>

ReconcileNext ==
  \/ \E reach \in BOOLEAN : ObserverTick(reach)
  \/ \E active \in {"yes", "no", "unknown"}, health \in BOOLEAN,
        n \in {NoTime} \union (0..MaxRestarts) : Sample(active, health, n)
  \/ SecondPasses
  \/ BeginStart \/ EndStart \/ BeginStop \/ EndStop
  \/ ObserverBoot

ReconcileSpec == ReconcileInit /\ [][ReconcileNext]_reconcileVars
-----------------------------------------------------------------------------
(* What a pass decides, if there is one now.                                *)
Decides(why) ==
  /\ cache.known /\ flight = "none"
  /\ \E reach \in BOOLEAN : ObserverTick(reach) /\ Reason(reach) = why

(* reconcile.decide never answers outside what InstanceLifecycle allows the *)
(* observer, whatever its timers have been through.                         *)
Lifecycle ==
  INSTANCE InstanceLifecycle
    WITH Slots <- {}, MaxRequests <- 0, MaxRestarts <- 0,
         row <- rowStatus, job <- <<>>, flight <- "no slot", unit <- "absent",
         probe <- cache, tick <- cache, requests <- 0, left <- {}
DecideAllowed ==
  \A reach \in BOOLEAN :
    LET why == Reason(reach)
        to  == IF why = "none" THEN "keep"
               ELSE IF why = "green" THEN "running" ELSE "error"
    IN cache.known => to \in Lifecycle!Verdicts(rowStatus, ever, cache, reach)

(* tests/test_reconcile.py:120: "Time spent blind must not count toward a   *)
(* demotion": the time a dead unit or a failing /health is held against a   *)
(* row is an unbroken run of passes that saw exactly that.                  *)
DemotionSustained ==
  [][/\ Decides("unit dead")   => clock - dark >= UnitDeadAfter
     /\ Decides("health lost") => clock - ill >= UnhealthyAfter]_reconcileVars

(* services/instances.py:273-275: the deadline survives portal restarts.  A *)
(* row that never was healthy is `starting` past it only while its node is  *)
(* out of reach, or its job still runs, or its first pass is due.           *)
DeadlineSurvives ==
  [][SecondPasses /\ rowStatus = "starting" /\ ~ever /\ startedAt # NoTime
     /\ clock - startedAt >= StartDeadline + 1
     => ill = clock]_reconcileVars

(* What the observer keeps: the types, and decisions that                   *)
(* InstanceLifecycle allows it (services/reconcile.py:94-200).              *)
ReconcileInv == ReconcileTypeOK /\ DecideAllowed
=============================================================================
