------------------------- MODULE InstanceLifecycle -------------------------
(***************************************************************************)
(* One model instance: its row, the start, stop and delete jobs that work   *)
(* on it through ORM sessions of their own, the in-flight registry, the     *)
(* systemd unit on the node, the telemetry probe cache and the status       *)
(* observer that reads it (services/instances.py, inst_state.py,            *)
(* reconcile.py, routers/instances.py).                                     *)
(*                                                                          *)
(* A job loads the row once.  The session keeps what it loaded and writes   *)
(* a column only when its new value differs from the value the session      *)
(* holds (db.py: expire_on_commit=False), so `mem` below is part of what a  *)
(* job does.                                                                *)
(***************************************************************************)
EXTENDS Naturals

CONSTANTS
  Slots,       \* jobs on this instance that may exist at the same time
  MaxRequests, \* bound on start, stop and delete requests
  MaxRestarts  \* bound on portal restarts

ASSUME LifecycleAssumption ==
  MaxRequests \in Nat /\ MaxRestarts \in Nat

NoSlot == "no slot"
ASSUME NoSlotAssumption == NoSlot \notin Slots

VARIABLES
  row,     \* Instance.status, "deleted" once the row is gone
  ever,    \* Instance.last_healthy_at is not None
  job,     \* per slot: the job's kind, place and ORM snapshot
  flight,  \* inst_state._IN_FLIGHT: the slot registered for the instance
  unit,    \* the vLLM unit on the node
  probe,   \* the slow telemetry tick's cached reading
  tick,    \* the observer's pass over this instance
  requests, restarts,  \* how many there have been
  left     \* history: how commands of a delete job's cleanup failed

vars == <<row, ever, job, flight, unit, probe, tick, requests, restarts,
          left>>
observer == <<probe, tick>>
rest == <<requests, restarts, left>>

Statuses == {"stopped", "starting", "running", "error", "deleted"}
Kinds    == {"start", "stop", "delete"}
Units    == {"absent", "down", "loading", "serving"}

(* How a command of the unit's cleanup may fail: by an exception, which is  *)
(* logged, or with an exit status nobody looks at.                          *)
Failures == {"raised", "ignored"}

IdleJob == [kind |-> "stop", pc |-> "idle", mem |-> "stopped", ever |-> FALSE]
Jobs == [kind : Kinds,
         pc : {"idle", "queued", "loaded", "installing", "waiting",
               "confirmed", "failed", "commanded"},
         mem : Statuses, ever : BOOLEAN]

Tri      == {"yes", "no", "unknown"}
NoProbe  == [active |-> "unknown", health |-> FALSE, known |-> FALSE]
IdleTick == [pc |-> "idle", status |-> "stopped", ever |-> FALSE,
             seen |-> NoProbe, to |-> "keep"]
Probes   == [active : Tri, health : BOOLEAN, known : BOOLEAN]
Ticks    == [pc : {"idle", "begun", "selected", "decided"},
             status : Statuses, ever : BOOLEAN, seen : Probes,
             to : {"keep", "running", "error"}]

TypeOK ==
  /\ row \in Statuses /\ ever \in BOOLEAN
  /\ job \in [Slots -> Jobs]
  /\ flight \in Slots \union {NoSlot}
  /\ unit \in Units
  /\ probe \in Probes
  /\ tick \in Ticks
  /\ requests \in 0..MaxRequests /\ restarts \in 0..MaxRestarts
  /\ left \subseteq Failures

(* A row as the create handler leaves it: stopped, never started.           *)
Init ==
  /\ row = "stopped" /\ ever = FALSE
  /\ job = [s \in Slots |-> IdleJob]
  /\ flight = NoSlot
  /\ unit = "absent"
  /\ probe = NoProbe /\ tick = IdleTick
  /\ requests = 0 /\ restarts = 0
  /\ left = {}

-----------------------------------------------------------------------------
(* Requests.  Each handler reads the row, checks what it checks, and hands  *)
(* a coroutine to the job manager; the job itself runs later.               *)
InFlight == flight # NoSlot

Enqueue(s, kind) ==
  /\ requests < MaxRequests
  /\ job[s].pc = "idle" /\ row # "deleted"
  /\ requests' = requests + 1
  /\ job' = [job EXCEPT ![s] = [IdleJob EXCEPT !.kind = kind, !.pc = "queued"]]
  /\ UNCHANGED <<row, ever, flight, unit, observer, restarts, left>>

RequestStart(s)  == ~InFlight /\ Enqueue(s, "start")
RequestStop(s)   == Enqueue(s, "stop")
RequestDelete(s) == Enqueue(s, "delete")

(* The scheduler asks only for the status its decision needs.               *)
ScheduledStart(s) == row \in {"stopped", "error"} /\ Enqueue(s, "start")

-----------------------------------------------------------------------------
(* Jobs.                                                                    *)
Goto(s, place) == job' = [job EXCEPT ![s].pc = place]

(* Mutant: the registration is dropped only when the job succeeds.          *)
BugDoneKeepsClaim(s) ==
  /\ job' = [job EXCEPT ![s] = IdleJob]
  /\ flight' = IF job[s].pc \in {"confirmed", "commanded"} THEN NoSlot
               ELSE flight

(* The `finally` of start_instance and stop_instance drops whatever is      *)
(* registered for the instance; a delete job registers nothing.             *)
Done(s) ==
  /\ job' = [job EXCEPT ![s] = IdleJob]
  /\ flight' = IF job[s].kind = "delete" THEN flight ELSE NoSlot

(* A commit writes the status column only if it changed in the session; a   *)
(* row deleted meanwhile makes it raise.                                    *)
Put(s, status) == IF job[s].mem = status THEN row ELSE status

At(s, kind, place) == job[s].kind = kind /\ job[s].pc = place

Stopped == IF unit = "absent" THEN "absent" ELSE "down"

(* Where the unit may be when a job is cut off at a remote command: the     *)
(* commands sent so far may have reached the node or not.                   *)
CutOff(s) ==
  {unit}
    \union (IF At(s, "start", "installing") THEN {"down", "loading"} ELSE {})
    \union (IF At(s, "stop", "loaded") THEN {Stopped} ELSE {})
    \union (IF At(s, "delete", "loaded") THEN {Stopped, "absent"} ELSE {})

(* inst_state.register and load_instance; a vanished row ends the job.      *)
Load(s) ==
  /\ job[s].pc = "queued"
  /\ IF row = "deleted" THEN Done(s)
     ELSE /\ flight' = IF job[s].kind = "delete" THEN flight ELSE s
          /\ job' = [job EXCEPT ![s].pc = "loaded", ![s].mem = row,
                                ![s].ever = ever]
  /\ UNCHANGED <<row, ever, unit, observer, rest>>

(* _start_instance: the row becomes `starting`, its health history is       *)
(* cleared and its deadline anchored, in one commit.                        *)
CommitStarting(s) ==
  /\ At(s, "start", "loaded")
  /\ IF row = "deleted" THEN Done(s) /\ UNCHANGED <<row, ever>>
     ELSE /\ row' = Put(s, "starting")
          /\ ever' = IF job[s].ever THEN FALSE ELSE ever
          /\ job' = [job EXCEPT ![s].pc = "installing", ![s].mem = "starting",
                                ![s].ever = FALSE]
          /\ UNCHANGED flight
  /\ UNCHANGED <<unit, observer, rest>>

(* The unit file is written and the unit restarted: a new life of the       *)
(* container.  systemctl's exit status is not looked at, so the unit may    *)
(* also stay down.                                                          *)
Install(s) ==
  /\ At(s, "start", "installing")
  /\ unit' \in {"loading", "down"}
  /\ Goto(s, "waiting")
  /\ UNCHANGED <<row, ever, flight, observer, rest>>

(* The model is missing, SSH or the TLS proxy fails: the except clause.     *)
StartRaises(s) ==
  /\ job[s].kind = "start" /\ job[s].pc \in {"installing", "waiting"}
  /\ unit' \in CutOff(s)
  /\ Goto(s, "failed")
  /\ UNCHANGED <<row, ever, flight, observer, rest>>

CommitError(s) ==
  /\ At(s, "start", "failed")
  /\ row' = IF row = "deleted" THEN row ELSE Put(s, "error")
  /\ Done(s)
  /\ UNCHANGED <<ever, unit, observer, rest>>

(* _stream_startup_logs polls /health every five seconds ...                *)
SeeHealthy(s) ==
  /\ At(s, "start", "waiting") /\ unit = "serving"
  /\ Goto(s, "confirmed")
  /\ UNCHANGED <<row, ever, flight, unit, observer, rest>>

(* ... and gives up when the journal ends or after fifteen minutes; the job *)
(* then succeeds and the row stays `starting`.                              *)
GiveUp(s) ==
  /\ At(s, "start", "waiting")
  /\ Done(s)
  /\ UNCHANGED <<row, ever, unit, observer, rest>>

(* The promotion is committed after the journal task has been cancelled and *)
(* awaited.                                                                 *)
CommitRunning(s) ==
  /\ At(s, "start", "confirmed")
  /\ IF row = "deleted" THEN UNCHANGED <<row, ever>>
     ELSE row' = Put(s, "running") /\ ever' = TRUE
  /\ Done(s)
  /\ UNCHANGED <<unit, observer, rest>>

(* _stop_instance: systemctl stop, whose exit status is not looked at ...   *)
StopUnit(s) ==
  /\ At(s, "stop", "loaded")
  /\ unit' \in {unit, Stopped}
  /\ Goto(s, "commanded")
  /\ UNCHANGED <<row, ever, flight, observer, rest>>

(* ... or SSH fails and the job with it, the command sent or not.           *)
StopRaises(s) ==
  /\ At(s, "stop", "loaded")
  /\ unit' \in CutOff(s)
  /\ Done(s)
  /\ UNCHANGED <<row, ever, observer, rest>>

CommitStopped(s) ==
  /\ At(s, "stop", "commanded")
  /\ row' = IF row = "deleted" THEN row ELSE Put(s, "stopped")
  /\ Done(s)
  /\ UNCHANGED <<ever, unit, observer, rest>>

(* delete_instance: unit cleanup is best effort.  remove_systemd_unit takes *)
(* a failing test for the unit file as "not installed", and looks at the    *)
(* exit status of neither systemctl stop nor rm: a unit whose stop failed   *)
(* goes on running without its file.                                        *)
BugRemoveStopsOnly(test, stop, rm) == IF test /\ stop THEN Stopped ELSE unit

Removed(test, stop, rm) ==
  IF test /\ stop /\ rm THEN "absent"
  ELSE IF test /\ stop THEN Stopped ELSE unit

RemoveUnit(s) ==
  /\ At(s, "delete", "loaded")
  /\ \E test, stop, rm \in BOOLEAN :
       /\ unit' = Removed(test, stop, rm)
       /\ left' = IF unit = "absent" \/ (test /\ stop /\ rm) THEN left
                  ELSE left \union {"ignored"}
  /\ Goto(s, "commanded")
  /\ UNCHANGED <<row, ever, flight, observer, requests, restarts>>

(* SSH fails, or the reload after the unit file went does.                  *)
RemoveRaises(s) ==
  /\ At(s, "delete", "loaded")
  /\ unit' \in CutOff(s)
  /\ left' = left \union {"raised"}
  /\ Goto(s, "commanded")
  /\ UNCHANGED <<row, ever, flight, observer, requests,
                 restarts>>

(* ... and the row goes either way.                                         *)
DeleteRow(s) ==
  /\ At(s, "delete", "commanded")
  /\ row' = "deleted"
  /\ Done(s)
  /\ UNCHANGED <<ever, unit, observer, rest>>

(* POST /api/jobs/{id}/cancel: CancelledError at the job's await; only the  *)
(* `finally` clauses run, and for a job not yet begun not even those.       *)
CancelJob(s) ==
  /\ job[s].pc # "idle"
  /\ unit' \in CutOff(s)
  /\ IF job[s].pc = "queued"
     THEN job' = [job EXCEPT ![s] = IdleJob] /\ UNCHANGED flight
     ELSE Done(s)
  /\ UNCHANGED <<row, ever, observer, rest>>

-----------------------------------------------------------------------------
(* The node: vLLM comes up, hangs or dies; systemd or a reboot revives it.  *)
UnitStep ==
  /\ \/ unit = "loading" /\ unit' \in {"serving", "down"}
     \/ unit = "serving" /\ unit' \in {"loading", "down"}
     \/ unit = "down"    /\ unit' = "loading"
  /\ UNCHANGED <<row, ever, job, flight, observer, rest>>

(* telemetry._slow_loop and status_svc._instance_status: ActiveState over   *)
(* SSH, unknown when that fails, and /health, which may also time out.  A   *)
(* unit whose pre-start steps run is "activating", which reads as not       *)
(* active.  The reading stays in the cache until the next slow tick.        *)
Probe ==
  /\ row # "deleted"
  /\ \E active \in {"unknown", "no"}
                   \union (IF unit \in {"loading", "serving"}
                           THEN {"yes"} ELSE {}),
        green \in {FALSE, unit = "serving"} :
       probe' = [active |-> active, health |-> green, known |-> TRUE]
  /\ UNCHANGED <<row, ever, job, flight, unit, tick, rest>>

-----------------------------------------------------------------------------
(* Mutants: any green /health promotes; the start deadline is dropped.      *)
BugVerdictsResurrect(status, healthyOnce, p, reachable) ==
  IF p.health THEN {"running"} ELSE {"keep", "error"}
BugVerdictsNoDeadline(status, healthyOnce, p, reachable) ==
  IF p.health /\ status \in {"starting", "error"} THEN {"running"}
  ELSE IF status = "running" THEN {"keep", "error"} ELSE {"keep"}

(* The observer.  What reconcile.decide may answer for an observation, over *)
(* every state of its timers: "keep", or the status to move to.             *)
Verdicts(status, healthyOnce, p, reachable) ==
  IF ~reachable THEN {"keep"}
  ELSE IF p.health
  THEN IF status \in {"starting", "error"} THEN {"running"} ELSE {"keep"}
  ELSE IF status \notin {"starting", "running"} THEN {"keep"}
  ELSE IF p.active = "no" \/ ~healthyOnce \/ status = "running"
  THEN {"keep", "error"}
  ELSE {"keep"}

(* Reconciler.tick takes the cached readings ...                            *)
TickBegin ==
  /\ tick.pc = "idle" /\ probe.known
  /\ tick' = [IdleTick EXCEPT !.pc = "begun", !.seen = probe]
  /\ UNCHANGED <<row, ever, job, flight, unit, probe, rest>>

(* ... selects the rows of the instances they are about ...                 *)
TickSelect ==
  /\ tick.pc = "begun"
  /\ tick' = IF row = "deleted" THEN IdleTick
             ELSE [tick EXCEPT !.pc = "selected", !.status = row, !.ever = ever]
  /\ UNCHANGED <<row, ever, job, flight, unit, probe, rest>>

(* ... skips an instance a job owns, and asks decide about the others ...   *)
TickDecide(reachable, to) ==
  /\ tick.pc = "selected"
  /\ IF InFlight THEN to = "keep"
     ELSE to \in Verdicts(tick.status, tick.ever, tick.seen, reachable)
  /\ tick' = IF to = "keep" THEN IdleTick
             ELSE [IdleTick EXCEPT !.pc = "decided",
                               !.status = tick.status, !.to = to]
  /\ UNCHANGED <<row, ever, job, flight, unit, probe, rest>>

(* ... and writes a verdict only over the status it was made for.           *)
BugStillObserved == row # "deleted"
StillObserved == row = tick.status

TickApply ==
  /\ tick.pc = "decided"
  /\ IF StillObserved
     THEN /\ row' = tick.to
          /\ ever' = (ever \/ tick.to = "running")
     ELSE UNCHANGED <<row, ever>>
  /\ tick' = IdleTick
  /\ UNCHANGED <<job, flight, unit, probe, rest>>

-----------------------------------------------------------------------------
(* The portal dies and comes back: jobs, registry and caches are gone, the  *)
(* row and the unit are not.                                                *)
Restart ==
  /\ restarts < MaxRestarts
  /\ restarts' = restarts + 1
  /\ job' = [s \in Slots |-> IdleJob]
  /\ flight' = NoSlot
  /\ probe' = NoProbe /\ tick' = IdleTick
  /\ unit' \in {unit} \union UNION {CutOff(s) : s \in Slots}
  /\ UNCHANGED <<row, ever, requests, left>>

StartStep(s) ==
  \/ CommitStarting(s) \/ Install(s) \/ StartRaises(s) \/ CommitError(s)
  \/ SeeHealthy(s) \/ GiveUp(s) \/ CommitRunning(s)
StopStep(s)   == StopUnit(s) \/ StopRaises(s) \/ CommitStopped(s)
DeleteStep(s) == RemoveUnit(s) \/ RemoveRaises(s) \/ DeleteRow(s)
JobStep(s)    == Load(s) \/ StartStep(s) \/ StopStep(s) \/ DeleteStep(s)

Request(s) ==
  RequestStart(s) \/ RequestStop(s) \/ RequestDelete(s) \/ ScheduledStart(s)

ObserverStep ==
  \/ TickBegin \/ TickSelect \/ TickApply
  \/ \E reachable \in BOOLEAN, to \in {"keep", "running", "error"} :
       TickDecide(reachable, to)

Next ==
  \/ \E s \in Slots : Request(s) \/ JobStep(s) \/ CancelJob(s)
  \/ UnitStep \/ Probe \/ ObserverStep
  \/ Restart

Spec == Init /\ [][Next]_vars

(* Only the observer's loop is fair: a pass reads caches and the database   *)
(* and sends no remote command.  Jobs and the slow telemetry loop do, some  *)
(* of them without a timeout, so nothing says that they go on.              *)
FairSpec == Spec /\ WF_vars(ObserverStep)
-----------------------------------------------------------------------------
Working(s) == job[s].pc \notin {"idle", "queued"}

(* The registry never names a job that is over, so a claim cannot outlive   *)
(* its job and refuse every later start.                                    *)
NoStaleClaim ==
  flight # NoSlot => Working(flight) /\ job[flight].kind # "delete"

(* The observer never moves a row out of `stopped`, or brings back a        *)
(* deleted one, however late its write lands after its reading.             *)
ObserverLeavesStopped ==
  [][TickApply /\ row \in {"stopped", "deleted"} => row' = row]_vars

(* What an operator took down stays down until something starts it again.   *)
StoppedStays ==
  [][row = "stopped" => row' \in {"stopped", "starting", "deleted"}]_vars

(* A deleted instance leaves no unit on the node, unless a command of its   *)
(* cleanup failed: by an exception, which the job logs, or with an exit     *)
(* status nobody looked at.                                                 *)
NoOrphanUnit ==
  row = "deleted" /\ (\A s \in Slots : ~Working(s)) =>
    unit = "absent" \/ left # {}

(* What the start deadline needs from its surroundings.  A job at a remote  *)
(* command without a timeout keeps its claim, and the observer away ...     *)
JobsEnd == []<>(flight = NoSlot)

(* ... the slow loop may hang the same way and then caches no reading ...   *)
ProbeAnswers == []<>probe.known

(* ... and a pass that might answer, after the deadline of an instance      *)
(* never healthy or on a green /health, in the end finds the node reachable *)
(* and does.                                                                *)
DecideError == TickDecide(TRUE, "error") /\ ~tick.ever
DeadlinePasses ==
  SF_vars(DecideError) /\ SF_vars(TickDecide(TRUE, "running"))

(* The start deadline: given these, an instance that has never been healthy *)
(* does not stay `starting`, whatever became of the job that started it.    *)
DeadlineWorks ==
  JobsEnd /\ ProbeAnswers /\ DeadlinePasses =>
    ((row = "starting" /\ ~ever) ~> (row # "starting" \/ ever))
=============================================================================
