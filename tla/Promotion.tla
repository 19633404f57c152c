------------------------------ MODULE Promotion ------------------------------
(***************************************************************************)
(* An endpoint and the promotions that move it between its member instances *)
(* (services/endpoints.py, routers/endpoints.py): the pointer to the        *)
(* instance that serves, the history rows, and the promote jobs that stop   *)
(* one instance, start another and flip the pointer.  Each job keeps what   *)
(* its session loaded.  What other jobs and the status observer do to the   *)
(* instances (InstanceLifecycle) may happen at any time.                    *)
(***************************************************************************)
EXTENDS Naturals, Sequences

CONSTANTS
  Instances,   \* members of the endpoint
  Promotions,  \* promote jobs; also the ids of their history rows
  MaxWorld,    \* bound on what others do to the instances
  MaxCrashes   \* bound on portal restarts

Nobody == "nobody"
ASSUME PromotionAssumption ==
  Nobody \notin Instances /\ MaxWorld \in Nat /\ MaxCrashes \in Nat

VARIABLES
  pointer, \* Endpoint.current_instance_id
  status,  \* Instance.status, "deleted" once the row is gone
  busy,    \* inst_state._IN_FLIGHT
  job,     \* each promote job: its place, target and what it loaded
  hist,    \* EndpointPromotion: status, to_instance_id, from_instance_id
  started, \* the history rows, oldest first
  before,  \* history: who served before the pointer last moved
  overlap, \* history: two promotions were under way at once
  world, crashes

vars == <<pointer, status, busy, job, hist, started, before, overlap, world,
          crashes>>
endpoint == <<pointer, hist, started, before>>
others   == <<overlap, world, crashes>>

Holders  == Instances \union {Nobody}
Statuses == {"stopped", "starting", "running", "error"}
UnderWay == {"loaded", "to stop", "stopping", "to start", "starting",
             "to flip", "flipping", "failed", "to restore", "restoring"}
Places   == UnderWay \union {"none", "queued", "over", "cut", "lost", "refused"}
RowStates == {"none", "pending", "active", "superseded", "failed"}

NoJob == [pc |-> "none", to |-> Nobody, prev |-> Nobody, prevRuns |-> FALSE,
          serves |-> FALSE, active |-> {}]
NoRow == [status |-> "none", to |-> Nobody, from |-> Nobody]

PromoteJobs == [pc : Places, to : Holders, prev : Holders,
                prevRuns : BOOLEAN, serves : BOOLEAN,
                active : SUBSET Promotions]
HistoryRows == [status : RowStates, to : Holders, from : Holders]

TypeOK ==
  /\ pointer \in Holders /\ before \in Holders
  /\ status \in [Instances -> Statuses \union {"deleted"}]
  /\ busy \subseteq Instances
  /\ job \in [Promotions -> PromoteJobs]
  /\ hist \in [Promotions -> HistoryRows]
  /\ started \in Seq(Promotions)
  /\ overlap \in BOOLEAN
  /\ world \in 0..MaxWorld /\ crashes \in 0..MaxCrashes

Init ==
  /\ pointer = Nobody /\ before = Nobody
  /\ status \in [Instances -> {"stopped", "running"}]
  /\ busy = {}
  /\ job = [p \in Promotions |-> NoJob]
  /\ hist = [p \in Promotions |-> NoRow] /\ started = <<>>
  /\ overlap = FALSE /\ world = 0 /\ crashes = 0

-----------------------------------------------------------------------------
Exists(i) == i # Nobody /\ status[i] # "deleted"
At(p, place) == job[p].pc = place
Goto(p, place) == job' = [job EXCEPT ![p].pc = place]

(* Mutant: the latest promotion counts, however it went.                    *)
BugPreviousHolder ==
  IF started = <<>> THEN Nobody ELSE hist[started[Len(started)]].from

(* previous_holder: where the latest active promotion came from.            *)
PreviousHolder ==
  LET active == {k \in DOMAIN started : hist[started[k]].status = "active"}
      latest == CHOOSE k \in active : \A j \in active : j <= k
  IN IF active = {} THEN Nobody ELSE hist[started[latest]].from

(* The promote and rollback handlers: a target, and a job of its own.       *)
Request(p, i) ==
  /\ At(p, "none") /\ Exists(i)
  /\ job' = [job EXCEPT ![p].pc = "queued", ![p].to = i]
  /\ UNCHANGED <<endpoint, status, busy, others>>

Rollback(p) == \E i \in Instances : i = PreviousHolder /\ Request(p, i)

(* The session of the job loads the endpoint, the target and the instance   *)
(* that serves; from here on it works with what it loaded.                  *)
Load(p) ==
  /\ At(p, "queued")
  /\ IF Exists(job[p].to)
     THEN job' = [job EXCEPT
            ![p].pc = "loaded", ![p].prev = pointer,
            ![p].prevRuns = pointer # Nobody /\ status[pointer] = "running",
            ![p].serves = pointer = job[p].to /\ status[pointer] = "running"]
     ELSE Goto(p, "over")
  /\ overlap' = (overlap \/ \E q \in Promotions : job[q].pc \in UnderWay)
  /\ UNCHANGED <<endpoint, status, busy, world, crashes>>

(* Nothing to do, or refused: not a member, a busy instance, no certificate,*)
(* or a row that vanished.  Membership and certificate are not followed.    *)
Refuse(p) ==
  /\ At(p, "loaded")
  /\ Goto(p, "over")
  /\ UNCHANGED <<endpoint, status, busy, others>>

(* The checks pass and the history row is committed as pending.             *)
Admit(p) ==
  /\ At(p, "loaded") /\ ~job[p].serves
  /\ {job[p].to, job[p].prev} \cap busy = {}
  /\ Exists(job[p].to) /\ (job[p].prev # Nobody => Exists(job[p].prev))
  /\ hist' = [hist EXCEPT ![p] = [status |-> "pending", to |-> job[p].to,
                                  from |-> job[p].prev]]
  /\ started' = Append(started, p)
  /\ Goto(p, IF job[p].prevRuns THEN "to stop" ELSE "to start")
  /\ UNCHANGED <<pointer, before, status, busy, others>>

(* stop_instance and start_instance claim the instance, work on the node    *)
(* for minutes, and drop whatever claim there is when they end; they may    *)
(* raise before they do anything, as they do when the row is gone.          *)
Claim(p, i, shown, from, to, fallback) ==
  /\ At(p, from)
  /\ \/ /\ Exists(i)
        /\ busy' = busy \union {i}
        /\ status' = [status EXCEPT ![i] = shown]
        /\ Goto(p, to)
     \/ /\ busy' = busy \ {i}
        /\ Goto(p, fallback)
        /\ UNCHANGED status
  /\ UNCHANGED <<endpoint, others>>

Release(p, i, shown, from, to) ==
  /\ At(p, from)
  /\ busy' = busy \ {i}
  /\ IF Exists(i) THEN \E s \in shown : status' = [status EXCEPT ![i] = s]
     ELSE UNCHANGED status
  /\ Goto(p, to)
  /\ UNCHANGED <<endpoint, others>>

(* A write of the instance's row fails: the row is gone (StaleDataError), or*)
(* the database refuses.  stop_instance and start_instance do not roll the  *)
(* session back, so promote's own commit of `failed` raises at once as well *)
(* and the job is over, its row still pending.                              *)
WriteFails(p, i, from) ==
  /\ At(p, from)
  /\ busy' = busy \ {i}
  /\ Goto(p, IF Exists(i) THEN "refused" ELSE "lost")
  /\ UNCHANGED <<endpoint, status, others>>

StopBegins(p) ==
  /\ job[p].prev # Nobody
  /\ Claim(p, job[p].prev, status[job[p].prev], "to stop", "stopping",
           "failed")
StopEnds(p) ==
  /\ job[p].prev # Nobody
  /\ \/ /\ Exists(job[p].prev)
        /\ Release(p, job[p].prev, {"stopped"}, "stopping", "to start")
     \/ Release(p, job[p].prev, {status[job[p].prev]}, "stopping", "failed")
     \/ WriteFails(p, job[p].prev, "stopping")

(* A start that returns has seen the target healthy, or has given up        *)
(* waiting and left it as it is; a start that raises leaves it in error.    *)
StartBegins(p) ==
  \/ Claim(p, job[p].to, "starting", "to start", "starting", "failed")
  \/ WriteFails(p, job[p].to, "to start")
StartEnds(p) ==
  \/ Release(p, job[p].to, {"running", status[job[p].to]}, "starting",
             "to flip")
  \/ /\ Exists(job[p].to)
     /\ Release(p, job[p].to, {"error"}, "starting", "failed")
  \/ WriteFails(p, job[p].to, "starting")

(* Mutant: the failure is reported and not recorded.                        *)
BugFail(p) ==
  /\ At(p, "failed")
  /\ Goto(p, IF job[p].prev = Nobody THEN "over" ELSE "to restore")
  /\ UNCHANGED <<endpoint, status, busy, others>>

(* The except clause records the failure, then starts the instance that     *)
(* served before, whether or not it had been stopped.                       *)
Fail(p) ==
  /\ At(p, "failed")
  /\ hist' = [hist EXCEPT ![p].status = "failed"]
  /\ Goto(p, IF job[p].prev = Nobody THEN "over" ELSE "to restore")
  /\ UNCHANGED <<pointer, before, started, status, busy, others>>

(* The database refuses the commit of `failed`, and nothing is restored, or *)
(* that of the flip below, which no except clause is around.                *)
RecordFails(p) ==
  /\ job[p].pc \in {"failed", "flipping"}
  /\ Goto(p, "refused")
  /\ UNCHANGED <<endpoint, status, busy, others>>

RestoreBegins(p) ==
  /\ job[p].prev # Nobody
  /\ Claim(p, job[p].prev, "starting", "to restore", "restoring", "over")
RestoreEnds(p) ==
  /\ job[p].prev # Nobody
  /\ Release(p, job[p].prev, {"running", "error", status[job[p].prev]},
             "restoring", "over")

(* The active rows are read ...                                             *)
FlipRead(p) ==
  /\ At(p, "to flip")
  /\ job' = [job EXCEPT
       ![p].pc = "flipping",
       ![p].active = {q \in Promotions : hist[q].status = "active"}]
  /\ UNCHANGED <<endpoint, status, busy, others>>

(* Mutant: the rows are left as they are.                                   *)
BugSupersede(p, q) == IF q = p THEN "active" ELSE hist[q].status
Supersede(p, q) ==
  IF q = p THEN "active"
  ELSE IF q \in job[p].active THEN "superseded" ELSE hist[q].status

(* ... and superseded, the pointer is flipped and the row made active, in   *)
(* one commit.  The pointer is written only if it differs from the one the  *)
(* session loaded; a target deleted since makes that write raise.           *)
FlipCommit(p) ==
  LET moves == job[p].prev # job[p].to IN
  /\ At(p, "flipping")
  /\ \/ /\ moves => Exists(job[p].to)
        /\ hist' = [q \in Promotions |->
                      [hist[q] EXCEPT !.status = Supersede(p, q)]]
        /\ pointer' = IF moves THEN job[p].to ELSE pointer
        /\ before' = IF pointer' = pointer THEN before ELSE pointer
        /\ Goto(p, "over")
        /\ UNCHANGED started
     \/ /\ moves /\ ~Exists(job[p].to)
        /\ Goto(p, "lost")
        /\ UNCHANGED endpoint
  /\ UNCHANGED <<status, busy, others>>

(* The job is cancelled at an await: only the claim is dropped.             *)
Claimed(p) ==
  {i \in Instances : \/ At(p, "starting") /\ i = job[p].to
                     \/ /\ job[p].pc \in {"stopping", "restoring"}
                        /\ i = job[p].prev}

Cancel(p) ==
  /\ job[p].pc \in UnderWay \union {"queued"}
  /\ Goto(p, "cut")
  /\ busy' = busy \ Claimed(p)
  /\ UNCHANGED <<endpoint, status, others>>

-----------------------------------------------------------------------------
(* Other jobs on an instance, its delete job and the status observer.       *)
InWorld == world < MaxWorld /\ world' = world + 1

OtherJob(i) ==
  /\ InWorld /\ Exists(i)
  /\ busy' \in {busy \union {i}, busy \ {i}}
  /\ UNCHANGED <<endpoint, status, job, overlap, crashes>>

Moves(i, s) ==
  /\ InWorld /\ Exists(i)
  /\ status' = [status EXCEPT ![i] = s]
  /\ UNCHANGED <<endpoint, busy, job, overlap, crashes>>

(* The foreign keys to a deleted instance are set to NULL.                  *)
Delete(i) ==
  LET without(h) == IF h = i THEN Nobody ELSE h IN
  /\ InWorld /\ Exists(i)
  /\ status' = [status EXCEPT ![i] = "deleted"]
  /\ pointer' = without(pointer) /\ before' = without(before)
  /\ hist' = [p \in Promotions |->
                [hist[p] EXCEPT !.to = without(@), !.from = without(@)]]
  /\ UNCHANGED <<busy, job, started, overlap, crashes>>

(* The portal restarts: jobs and claims are gone.                           *)
Crash ==
  /\ crashes < MaxCrashes
  /\ crashes' = crashes + 1
  /\ busy' = {}
  /\ job' = [p \in Promotions |->
               IF job[p].pc \in UnderWay \union {"queued"}
               THEN [job[p] EXCEPT !.pc = "cut"] ELSE job[p]]
  /\ UNCHANGED <<endpoint, status, overlap, world>>

Next ==
  \/ \E p \in Promotions :
       \/ (\E i \in Instances : Request(p, i)) \/ Rollback(p)
       \/ Load(p) \/ Refuse(p) \/ Admit(p)
       \/ StopBegins(p) \/ StopEnds(p) \/ StartBegins(p) \/ StartEnds(p)
       \/ Fail(p) \/ RecordFails(p) \/ RestoreBegins(p) \/ RestoreEnds(p)
       \/ FlipRead(p) \/ FlipCommit(p) \/ Cancel(p)
  \/ \E i \in Instances :
       OtherJob(i) \/ Delete(i) \/ (\E s \in Statuses : Moves(i, s))
  \/ Crash

Spec == Init /\ [][Next]_vars
-----------------------------------------------------------------------------
(* models.py:705-713: the pointer says who serves, the history how it came  *)
(* to.  As long as promotions do not overlap, an endpoint that is served    *)
(* has one active row and no other, the one that put the pointer where it   *)
(* is, whatever was cancelled, crashed or deleted on the way.               *)
ActiveIsPointer ==
  LET rows == {p \in Promotions : hist[p].status = "active"}
  IN ~overlap => /\ \A p \in rows : rows = {p} /\ hist[p].to = pointer
                 /\ pointer # Nobody => rows # {}

(* services/endpoints.py:392-402: a rollback goes to the instance that      *)
(* served before the current one, from the first promotion on, unless it    *)
(* was deleted or the current holder was itself promoted again.             *)
RollbackGoesBack ==
  ~overlap => \A p \in Promotions :
                hist[p].status = "active" /\ hist[p].from # hist[p].to
                  => PreviousHolder = before

(* A row stays pending only while its job is at work, or because the job    *)
(* was cancelled or lost in a restart, the database refused a write of it,  *)
(* or the target or the instance that served was deleted under it.          *)
PendingHasCause ==
  \A p \in Promotions :
    hist[p].status = "pending" =>
      \/ job[p].pc \in UnderWay \union {"cut", "refused"}
      \/ /\ job[p].pc = "lost"
         /\ \E i \in {job[p].to, job[p].prev} \ {Nobody} : ~Exists(i)

(* services/endpoints.py:217-219: "prod-class instances are TP=2 across the *)
(* whole box, so the outgoing one MUST stop before the incoming one can     *)
(* start".                                                                  *)
OutgoingStopsFirst ==
  \A p \in Promotions :
    At(p, "starting") /\ job[p].prev \in Instances \ {job[p].to}
      => status[job[p].prev] \notin {"starting", "running"}
=============================================================================
