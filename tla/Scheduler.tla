------------------------------ MODULE Scheduler ------------------------------
(***************************************************************************)
(* The schedule loop on one instance (services/scheduler.py): a tick reads  *)
(* the weekly windows and the row, acts when the desired state changes, and *)
(* retries an action whose effect it has not seen.  The start and stop jobs *)
(* it issues, those of an operator, and the status observer move the row in *)
(* between.                                                                 *)
(***************************************************************************)
EXTENDS Naturals

CONSTANTS
  MaxAttempts,  \* MAX_ATTEMPTS
  Retry,        \* RETRY_SECONDS, in ticks of the loop
  MaxJobs,      \* bound on jobs of one kind in one stage
  MaxEdges,     \* bound on openings and closings of the window
  MaxRequests,  \* bound on an operator's requests
  MaxBoots      \* bound on portal restarts

ASSUME SchedulerAssumption ==
  /\ MaxAttempts \in Nat \ {0} /\ Retry \in Nat /\ MaxJobs \in Nat
  /\ MaxEdges \in Nat /\ MaxRequests \in Nat /\ MaxBoots \in Nat

VARIABLES
  scheduled, \* the instance has schedules
  open,      \* one of its windows is live
  status,    \* Instance.status
  queued,    \* jobs created and not begun, per action
  begun,     \* start jobs that have written `starting`
  last,      \* _last_desired: "none", "open" or "closed"
  pending,   \* _pending: the action, ticks since its attempt, attempts
  tick,      \* a tick between its read and its decision
  edges, requests, boots,
  issued,    \* history: actions issued since the last edge or boot
  settled    \* history: a tick has seen the pending action take effect

vars == <<scheduled, open, status, queued, begun, last, pending, tick, edges,
          requests, boots, issued, settled>>
memory == <<last, pending, issued, settled>>
bounds == <<edges, requests, boots>>

Actions  == {"start", "stop"}
Statuses == {"stopped", "starting", "running", "error"}

NonePending == [act |-> "none", age |-> 0, attempts |-> 0]
NoTick      == [pc |-> "idle", open |-> FALSE, status |-> "stopped"]

TypeOK ==
  /\ scheduled \in BOOLEAN /\ open \in BOOLEAN
  /\ status \in Statuses
  /\ queued \in [Actions -> 0..MaxJobs] /\ begun \in 0..MaxJobs
  /\ last \in {"none", "open", "closed"}
  /\ pending = NonePending \/ pending \in [act : Actions, age : 0..Retry,
                                           attempts : 1..MaxAttempts]
  /\ tick \in [pc : {"idle", "read"}, open : BOOLEAN, status : Statuses]
  /\ edges \in 0..MaxEdges /\ requests \in 0..MaxRequests
  /\ boots \in 0..MaxBoots
  /\ issued \in Nat /\ settled \in BOOLEAN

Init ==
  /\ scheduled \in BOOLEAN /\ open \in BOOLEAN
  /\ status \in Statuses
  /\ queued = [act \in Actions |-> 0] /\ begun = 0
  /\ last = "none" /\ pending = NonePending /\ tick = NoTick
  /\ edges = 0 /\ requests = 0 /\ boots = 0
  /\ issued = 0 /\ settled = FALSE

-----------------------------------------------------------------------------
(* The pure decision: act on a change of the desired state, or at boot.     *)
BugDecide(prev, desired, st) ==
  IF desired /\ st \in {"stopped", "error"} THEN "start"
  ELSE IF ~desired /\ st \in {"running", "starting"} THEN "stop" ELSE "none"

Edge(prev, desired) == prev = "none" \/ desired # (prev = "open")

Decide(prev, desired, st) ==
  IF ~Edge(prev, desired) THEN "none"
  ELSE IF desired /\ st \in {"stopped", "error"} THEN "start"
  ELSE IF ~desired /\ st \in {"running", "starting"} THEN "stop" ELSE "none"

(* Has the pending action taken effect, or has its window passed?           *)
BugReached(act, st) == FALSE
Reached(act, st) == \/ act = "start" /\ st = "running"
                    \/ act = "stop"  /\ st = "stopped"

BugFlipped(act, desired) == FALSE
Flipped(act, desired) == desired # (act = "start")

Exhausted(p) == p.attempts >= MaxAttempts

Possible(act, st) ==
  \/ act = "start" /\ st \in {"stopped", "error"}
  \/ act = "stop"  /\ st \in {"running", "starting", "error"}

(* _retry_action: what to do again, and what stays pending.                 *)
RetryAction(p, desired, st) ==
  LET nothing(q) == [act |-> "none", pending |-> q] IN
  IF p = NonePending \/ Reached(p.act, st) \/ Flipped(p.act, desired)
  THEN nothing(NonePending)
  ELSE IF p.age < Retry THEN nothing(p)
  ELSE IF Exhausted(p) THEN nothing(NonePending)
  ELSE IF ~Possible(p.act, st) THEN nothing(p)
  ELSE [act |-> p.act,
        pending |-> [act |-> p.act, age |-> 0, attempts |-> p.attempts + 1]]

(* The action did what it was issued for.                                   *)
TakenEffect(act, st) == <<act, st>> \in {<<"start", "running">>,
                                         <<"stop", "stopped">>}

(* What one evaluation issues and remembers.                                *)
Outcome(desired, st) ==
  LET act == Decide(last, desired, st) IN
  IF act = "none" THEN RetryAction(pending, desired, st)
  ELSE [act |-> act, pending |-> [act |-> act, age |-> 0, attempts |-> 1]]

-----------------------------------------------------------------------------
(* tick: the windows are evaluated and the rows read ...                    *)
TickRead ==
  /\ tick.pc = "idle" /\ scheduled
  /\ tick' = [pc |-> "read", open |-> open, status |-> status]
  /\ UNCHANGED <<scheduled, open, status, queued, begun, memory, bounds>>

(* ... and the instance is decided about; jobs started for instances before *)
(* it are awaited in between.  The job may fail to be created.              *)
TickAct ==
  /\ tick.pc = "read"
  /\ LET o == Outcome(tick.open, tick.status)
         fresh == Edge(last, tick.open)
     IN /\ pending' = o.pending
        /\ \/ o.act \in Actions /\ queued[o.act] < MaxJobs
              /\ queued' = [queued EXCEPT ![o.act] = @ + 1]
           \/ UNCHANGED queued
        /\ issued' = (IF fresh THEN 0 ELSE issued)
                       + (IF o.act \in Actions THEN 1 ELSE 0)
        /\ settled' = /\ o.act = "none"
                       /\ \/ settled /\ ~fresh
                          \/ TakenEffect(pending.act, tick.status)
  /\ last' = IF tick.open THEN "open" ELSE "closed"
  /\ tick' = NoTick
  /\ UNCHANGED <<scheduled, open, status, begun, bounds>>

(* An instance without schedules is forgotten at the next tick.             *)
TickForget ==
  /\ tick.pc = "idle" /\ ~scheduled /\ last # "none"
  /\ last' = "none" /\ pending' = NonePending
  /\ issued' = 0 /\ settled' = FALSE
  /\ UNCHANGED <<scheduled, open, status, queued, begun, tick, bounds>>

(* Time passes between ticks.                                               *)
Wait ==
  /\ pending # NonePending /\ pending.age < Retry
  /\ pending' = [pending EXCEPT !.age = @ + 1]
  /\ UNCHANGED <<scheduled, open, status, queued, begun, last, tick, bounds,
                 issued, settled>>

-----------------------------------------------------------------------------
(* The window opens or closes; schedules are added or removed.              *)
Turn ==
  /\ edges < MaxEdges
  /\ edges' = edges + 1
  /\ \/ open' = ~open /\ UNCHANGED scheduled
     \/ scheduled' = ~scheduled /\ UNCHANGED open
  /\ UNCHANGED <<status, queued, begun, memory, tick, requests, boots>>

(* An operator starts or stops the instance (routers/instances.py).         *)
Operate(act) ==
  /\ requests < MaxRequests /\ queued[act] < MaxJobs
  /\ requests' = requests + 1
  /\ queued' = [queued EXCEPT ![act] = @ + 1]
  /\ UNCHANGED <<scheduled, open, status, begun, memory, tick, edges, boots>>

(* A start job claims the row, and ends with it healthy, failed, or still   *)
(* loading; a stop job stops it, or fails.                                  *)
StartBegins ==
  /\ queued["start"] > 0 /\ begun < MaxJobs
  /\ queued' = [queued EXCEPT !["start"] = @ - 1]
  /\ \/ begun' = begun + 1 /\ status' = "starting"
     \/ UNCHANGED <<begun, status>>
  /\ UNCHANGED <<scheduled, open, memory, tick, bounds>>

StartEnds ==
  /\ begun > 0
  /\ begun' = begun - 1
  /\ status' \in {status, "running", "error"}
  /\ UNCHANGED <<scheduled, open, queued, memory, tick, bounds>>

StopRuns ==
  /\ queued["stop"] > 0
  /\ queued' = [queued EXCEPT !["stop"] = @ - 1]
  /\ status' \in {status, "stopped"}
  /\ UNCHANGED <<scheduled, open, begun, memory, tick, bounds>>

(* The status observer (InstanceLifecycle).                                 *)
Observe ==
  /\ \/ status \in {"starting", "error"} /\ status' = "running"
     \/ status \in {"starting", "running"} /\ status' = "error"
  /\ UNCHANGED <<scheduled, open, queued, begun, memory, tick, bounds>>

(* The portal restarts: jobs and what the scheduler remembers are gone.     *)
Boot ==
  /\ boots < MaxBoots
  /\ boots' = boots + 1
  /\ queued' = [act \in Actions |-> 0] /\ begun' = 0
  /\ last' = "none" /\ pending' = NonePending /\ tick' = NoTick
  /\ issued' = 0 /\ settled' = FALSE
  /\ UNCHANGED <<scheduled, open, status, edges, requests>>

Next ==
  \/ TickRead \/ TickAct \/ TickForget \/ Wait
  \/ Turn \/ (\E act \in Actions : Operate(act))
  \/ StartBegins \/ StartEnds \/ StopRuns \/ Observe
  \/ Boot

Spec == Init /\ [][Next]_vars
-----------------------------------------------------------------------------
(* What a step of the loop issues: "none", "start" or "stop".               *)
Issues(act) ==
  TickAct /\ Outcome(tick.open, tick.status).act = act

(* However jobs fail and statuses flap, one edge of a window costs at most  *)
(* MaxAttempts jobs.                                                        *)
AttemptsBounded == issued <= MaxAttempts

(* A retry never outlives its window: nothing is started on a reading that  *)
(* says the windows are closed, nor stopped on one that says they are open. *)
WithinWindow ==
  [][(Issues("start") => tick.open) /\ (Issues("stop") => ~tick.open)]_vars

(* services/scheduler.py:8-9: "a manual start/stop between edges is         *)
(* respected": once a tick has seen its action take effect, nothing is      *)
(* issued until the next edge, whatever the row then says.                  *)
SettledStays ==
  [][settled /\ ~Edge(last, tick.open) => ~Issues("start") /\ ~Issues("stop")
    ]_vars
=============================================================================
