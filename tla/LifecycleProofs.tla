-------------------------- MODULE LifecycleProofs --------------------------
(***************************************************************************)
(* One instance, for any set of jobs, requests and restarts: its types, the *)
(* in-flight registry, what the observer may write; and, when jobs on the   *)
(* instance never overlap, what stopping and deleting promise.              *)
(***************************************************************************)
EXTENDS InstanceLifecycle, TLAPS

(* A bounded counter that has not reached its bound may be stepped.         *)
LEMMA StepBound ==
  ASSUME NEW n \in Nat, NEW k \in 0..n, k < n
  PROVE  k + 1 \in 0..n
OBVIOUS

(* A row seen by the observer in a status it is responsible for.            *)
Observable == {"starting", "running", "error"}

(* Strengthening of TypeOK: who holds the claim, what a verdict is about.   *)
LifeInv ==
  /\ TypeOK
  /\ NoStaleClaim
  /\ tick.pc = "decided" => tick.status \in Observable /\ tick.to # "keep"

LEMMA LifeInit == Init => LifeInv
<1> SUFFICES ASSUME Init PROVE LifeInv
  OBVIOUS
<1>1. IdleJob \in Jobs
  BY DEF IdleJob, Jobs, Kinds, Statuses
<1>2. NoProbe \in Probes
  BY DEF NoProbe, Probes, Tri
<1>3. IdleTick \in Ticks /\ IdleTick.pc = "idle"
  BY <1>2 DEF IdleTick, Ticks, Statuses
<1>4. TypeOK
  <2>1. job \in [Slots -> Jobs]
    BY <1>1 DEF Init
  <2>2. requests \in 0..MaxRequests /\ restarts \in 0..MaxRestarts
    BY LifecycleAssumption DEF Init
  <2> QED
    BY <1>2, <1>3, <2>1, <2>2 DEF Init, TypeOK, Statuses, Units
<1>5. NoStaleClaim /\ tick.pc # "decided"
  BY <1>3 DEF Init, NoStaleClaim
<1> QED
  BY <1>4, <1>5 DEF LifeInv

(* A slot without a start or stop job at work does not hold the claim.      *)
LEMMA NoClaim ==
  ASSUME LifeInv, NEW s \in Slots, ~Working(s) \/ job[s].kind = "delete"
  PROVE  flight # s
BY NoSlotAssumption DEF LifeInv, NoStaleClaim

(* A job that ends leaves no claim of its own behind.                       *)
LEMMA DoneInv ==
  ASSUME LifeInv, NEW s \in Slots, Done(s)
  PROVE  /\ job' \in [Slots -> Jobs]
         /\ flight' \in Slots \union {NoSlot}
         /\ NoStaleClaim'
<1>1. IdleJob \in Jobs
  BY DEF IdleJob, Jobs, Kinds, Statuses
<1>2. job' \in [Slots -> Jobs]
  BY <1>1 DEF Done, LifeInv, TypeOK
<1>3. flight' \in {flight, NoSlot}
  BY DEF Done
<1>4. CASE flight' = NoSlot
  BY <1>2, <1>4 DEF NoStaleClaim
<1>5. CASE flight' # NoSlot
  <2>1. flight' = flight /\ job[s].kind = "delete"
    BY <1>5 DEF Done
  <2>2. flight # s
    BY <2>1, NoClaim
  <2>3. job'[flight] = job[flight]
    BY <2>1, <2>2 DEF Done, LifeInv, TypeOK
  <2>4. NoStaleClaim'
    BY <2>1, <2>3 DEF LifeInv, NoStaleClaim, Working
  <2> QED
    BY <1>2, <2>1, <2>4 DEF LifeInv, TypeOK
<1> QED
  BY <1>2, <1>4, <1>5 DEF LifeInv, TypeOK

(* A job that moves on keeps its kind, and the claim with it.               *)
LEMMA GotoInv ==
  ASSUME LifeInv, NEW s \in Slots, UNCHANGED flight,
         NEW place \in {"loaded", "installing", "waiting", "confirmed",
                        "failed", "commanded"},
         Goto(s, place)
  PROVE  job' \in [Slots -> Jobs] /\ NoStaleClaim'
<1>1. job' \in [Slots -> Jobs]
  BY DEF Goto, LifeInv, TypeOK, Jobs
<1>2. \A t \in Slots : job'[t].kind = job[t].kind
                       /\ (Working(t) => Working(t)')
  BY DEF Goto, LifeInv, TypeOK, Jobs, Working
<1> QED
  BY <1>1, <1>2 DEF LifeInv, TypeOK, NoStaleClaim

(* What a commit of the status column leaves in the row is a status.        *)
LEMMA PutStatus ==
  ASSUME LifeInv, NEW s \in Slots, NEW status \in Statuses
  PROVE  Put(s, status) \in Statuses
BY DEF Put, LifeInv, TypeOK

(* What a job cut off at a remote command leaves is a state of the unit.    *)
LEMMA CutOffUnits ==
  ASSUME LifeInv, NEW s \in Slots
  PROVE  CutOff(s) \subseteq Units
BY DEF CutOff, Stopped, LifeInv, TypeOK, Units

(* The steps of a job leave the observer and the counters alone.            *)
LEMMA JobFrame ==
  ASSUME LifeInv, UNCHANGED <<observer, requests, restarts>>,
         row' \in Statuses, ever' \in BOOLEAN, job' \in [Slots -> Jobs],
         flight' \in Slots \union {NoSlot}, NoStaleClaim',
         unit' \in Units, left' \subseteq Failures
  PROVE  LifeInv'
BY DEF LifeInv, TypeOK, observer

(* Queueing a job on an idle slot touches no claim: the slot holds none.    *)
LEMMA EnqueueInv ==
  ASSUME LifeInv, NEW s \in Slots, NEW kind \in Kinds, Enqueue(s, kind)
  PROVE  LifeInv'
<1> DEFINE new == [IdleJob EXCEPT !.kind = kind, !.pc = "queued"]
<1>1. new \in Jobs
  BY DEF IdleJob, Jobs, Statuses
<1>2. job' = [job EXCEPT ![s] = new]
  BY DEF Enqueue
<1> HIDE DEF new
<1>3. job' \in [Slots -> Jobs]
  BY <1>1, <1>2 DEF LifeInv, TypeOK
<1>4. requests' \in 0..MaxRequests
  BY StepBound, LifecycleAssumption DEF Enqueue, LifeInv, TypeOK
<1>5. NoStaleClaim'
  <2>1. flight' = flight /\ flight # s
    BY NoClaim DEF Enqueue, Working
  <2>2. flight # NoSlot => job'[flight] = job[flight]
    BY <1>2, <2>1 DEF LifeInv, TypeOK
  <2> QED
    BY <2>1, <2>2 DEF LifeInv, NoStaleClaim, Working
<1> QED
  BY <1>3, <1>4, <1>5 DEF Enqueue, LifeInv, TypeOK, observer

(* Loading the row registers a start or stop job, whatever was registered.  *)
LEMMA LoadInv ==
  ASSUME LifeInv, NEW s \in Slots, Load(s)
  PROVE  LifeInv'
<1>1. CASE row = "deleted"
  <2>1. Done(s) /\ UNCHANGED <<row, ever, unit, observer, rest>>
    BY <1>1 DEF Load
  <2> QED
    BY <2>1, DoneInv, JobFrame DEF LifeInv, TypeOK, rest
<1>2. CASE row # "deleted"
  <2> DEFINE new == [job[s] EXCEPT !.pc = "loaded", !.mem = row,
                                   !.ever = ever]
  <2>1. /\ job' = [job EXCEPT ![s] = new]
        /\ flight' = IF job[s].kind = "delete" THEN flight ELSE s
        /\ UNCHANGED <<row, ever, unit, observer, rest>>
    BY <1>2 DEF Load
  <2>2. new \in Jobs /\ new.kind = job[s].kind /\ new.pc = "loaded"
    BY DEF LifeInv, TypeOK, Jobs
  <2>3. job[s].pc = "queued"
    BY DEF Load
  <2> HIDE DEF new
  <2>4. job' \in [Slots -> Jobs]
    BY <2>1, <2>2 DEF LifeInv, TypeOK
  <2>5. flight' \in Slots \union {NoSlot}
    BY <2>1 DEF LifeInv, TypeOK
  <2>6. NoStaleClaim'
    <3>1. flight # s
      BY <2>3, NoClaim DEF Working
    <3>2. CASE job[s].kind = "delete"
      <4>1. flight' = flight
        BY <2>1, <3>2
      <4>2. flight # NoSlot => job'[flight] = job[flight]
        BY <2>1, <3>1 DEF LifeInv, TypeOK
      <4> QED
        BY <4>1, <4>2 DEF LifeInv, NoStaleClaim, Working
    <3>3. CASE job[s].kind # "delete"
      <4>1. flight' = s /\ job'[s] = new
        BY <2>1, <3>3 DEF LifeInv, TypeOK
      <4> QED
        BY <2>2, <3>3, <4>1 DEF NoStaleClaim, Working
    <3> QED
      BY <3>2, <3>3
  <2> QED
    BY <2>1, <2>4, <2>5, <2>6, JobFrame DEF LifeInv, TypeOK, rest
<1> QED
  BY <1>1, <1>2

(* Every step of a start, stop or delete job.                               *)
LEMMA JobStepInv ==
  ASSUME LifeInv, NEW s \in Slots, JobStep(s)
  PROVE  LifeInv'
<1>1. CASE Load(s)
  BY <1>1, LoadInv
<1>2. CASE CommitStarting(s)
  <2>1. CASE row = "deleted"
    BY <1>2, <2>1, DoneInv, JobFrame
       DEF CommitStarting, LifeInv, TypeOK, rest
  <2>2. CASE row # "deleted"
    <3> DEFINE new == [job[s] EXCEPT !.pc = "installing", !.mem = "starting",
                                     !.ever = FALSE]
    <3>1. job' = [job EXCEPT ![s] = new] /\ flight' = flight
      BY <1>2, <2>2 DEF CommitStarting
    <3>2. new \in Jobs /\ new.kind = job[s].kind /\ new.pc = "installing"
      BY DEF LifeInv, TypeOK, Jobs, Statuses
    <3> HIDE DEF new
    <3>3. job' \in [Slots -> Jobs]
      BY <3>1, <3>2 DEF LifeInv, TypeOK
    <3>4. NoStaleClaim'
      BY <3>1, <3>2 DEF LifeInv, TypeOK, NoStaleClaim, Working
    <3>5. row' \in Statuses
      BY <1>2, <2>2, PutStatus DEF CommitStarting, Statuses
    <3>6. ever' \in BOOLEAN
      BY <1>2, <2>2 DEF CommitStarting, LifeInv, TypeOK
    <3> QED
      BY <1>2, <3>1, <3>3, <3>4, <3>5, <3>6, JobFrame
         DEF CommitStarting, LifeInv, TypeOK, rest
  <2> QED
    BY <2>1, <2>2
<1>3. CASE Install(s) \/ StartRaises(s) \/ SeeHealthy(s)
  <2>1. UNCHANGED flight /\ \/ Goto(s, "waiting") \/ Goto(s, "failed")
                            \/ Goto(s, "confirmed")
    BY <1>3 DEF Install, StartRaises, SeeHealthy
  <2>2. job' \in [Slots -> Jobs] /\ NoStaleClaim'
    BY <2>1, GotoInv
  <2>3. unit' \in Units
    BY <1>3, CutOffUnits
       DEF Install, StartRaises, SeeHealthy, LifeInv, TypeOK, Units
  <2> QED
    BY <1>3, <2>1, <2>2, <2>3, JobFrame
       DEF Install, StartRaises, SeeHealthy, LifeInv, TypeOK, rest
<1>4. CASE \/ CommitError(s) \/ GiveUp(s) \/ CommitRunning(s)
           \/ StopRaises(s) \/ CommitStopped(s) \/ DeleteRow(s)
  <2>1. Done(s)
    BY <1>4 DEF CommitError, GiveUp, CommitRunning, StopRaises,
                CommitStopped, DeleteRow
  <2>2. row' \in Statuses
    BY <1>4, PutStatus
       DEF CommitError, GiveUp, CommitRunning, StopRaises, CommitStopped,
           DeleteRow, LifeInv, TypeOK, Statuses
  <2>3. unit' \in Units /\ ever' \in BOOLEAN
    BY <1>4, CutOffUnits
            DEF CommitError, GiveUp, CommitRunning, StopRaises,
                CommitStopped, DeleteRow, LifeInv, TypeOK, Units
  <2> QED
    BY <1>4, <2>1, <2>2, <2>3, DoneInv, JobFrame
       DEF CommitError, GiveUp, CommitRunning, StopRaises, CommitStopped,
           DeleteRow, LifeInv, TypeOK, rest
<1>5. CASE StopUnit(s) \/ RemoveUnit(s) \/ RemoveRaises(s)
  <2>1. UNCHANGED flight /\ Goto(s, "commanded")
    BY <1>5 DEF StopUnit, RemoveUnit, RemoveRaises
  <2>2. unit' \in Units
    BY <1>5, CutOffUnits
       DEF StopUnit, RemoveUnit, RemoveRaises, LifeInv, TypeOK, Units,
           Removed, Stopped
  <2>4. left' \subseteq Failures
    BY <1>5 DEF StopUnit, RemoveUnit, RemoveRaises, LifeInv, TypeOK, rest,
                Failures
  <2>3. job' \in [Slots -> Jobs] /\ NoStaleClaim'
    BY <2>1, GotoInv
  <2> QED
    BY <1>5, <2>1, <2>2, <2>3, <2>4, JobFrame
       DEF StopUnit, RemoveUnit, RemoveRaises, LifeInv, TypeOK, rest
<1> QED
  BY <1>1, <1>2, <1>3, <1>4, <1>5
     DEF JobStep, StartStep, StopStep, DeleteStep

(* A cancelled job drops its claim, or never had one.                       *)
LEMMA CancelInv ==
  ASSUME LifeInv, NEW s \in Slots, CancelJob(s)
  PROVE  LifeInv'
<1>0. unit' \in Units
  BY CutOffUnits DEF CancelJob
<1>1. CASE job[s].pc = "queued"
  <2>1. job' = [job EXCEPT ![s] = IdleJob] /\ flight' = flight
    BY <1>1 DEF CancelJob
  <2>2. IdleJob \in Jobs
    BY DEF IdleJob, Jobs, Kinds, Statuses
  <2>3. flight # s
    BY <1>1, NoClaim DEF Working
  <2>4. flight # NoSlot => job'[flight] = job[flight]
    BY <2>1, <2>3 DEF LifeInv, TypeOK
  <2>5. job' \in [Slots -> Jobs] /\ NoStaleClaim'
    BY <2>1, <2>2, <2>4 DEF LifeInv, TypeOK, NoStaleClaim, Working
  <2> QED
    BY <1>0, <2>1, <2>5, JobFrame DEF CancelJob, LifeInv, TypeOK, rest
<1>2. CASE job[s].pc # "queued"
  BY <1>0, <1>2, DoneInv, JobFrame DEF CancelJob, LifeInv, TypeOK, rest
<1> QED
  BY <1>1, <1>2

(* A verdict is only ever made about a row the observer is to watch.        *)
LEMMA VerdictAbout ==
  ASSUME NEW status \in Statuses, NEW once \in BOOLEAN, NEW p \in Probes,
         NEW reachable \in BOOLEAN, NEW to \in {"running", "error"},
         to \in Verdicts(status, once, p, reachable)
  PROVE  status \in Observable
BY DEF Verdicts, Observable

LEMMA ObserverInv ==
  ASSUME LifeInv, ObserverStep
  PROVE  LifeInv'
<1> USE DEF LifeInv, TypeOK, rest
<1>0. IdleTick \in Ticks /\ IdleTick.pc = "idle"
  BY DEF IdleTick, Ticks, NoProbe, Probes, Tri, Statuses
<1>1. CASE TickBegin
  <2>1. tick' \in Ticks /\ tick'.pc = "begun"
    BY <1>0, <1>1 DEF TickBegin, Ticks
  <2> QED
    BY <1>1, <2>1 DEF TickBegin, NoStaleClaim, Working
<1>2. CASE TickSelect
  <2>1. tick' \in Ticks /\ tick'.pc \in {"idle", "selected"}
    BY <1>0, <1>2 DEF TickSelect, Ticks
  <2> QED
    BY <1>2, <2>1 DEF TickSelect, NoStaleClaim, Working
<1>3. ASSUME NEW reachable \in BOOLEAN,
             NEW to \in {"keep", "running", "error"},
             TickDecide(reachable, to)
      PROVE  LifeInv'
  <2>1. CASE to = "keep"
    BY <1>0, <1>3, <2>1 DEF TickDecide, NoStaleClaim, Working
  <2>2. CASE to # "keep"
    <3>1. to \in Verdicts(tick.status, tick.ever, tick.seen, reachable)
      BY <1>3, <2>2 DEF TickDecide
    <3>2. tick.status \in Statuses /\ tick.ever \in BOOLEAN
          /\ tick.seen \in Probes
      BY DEF Ticks
    <3>3. tick.status \in Observable
      BY <2>2, <3>1, <3>2, VerdictAbout
    <3>4. tick' = [IdleTick EXCEPT !.pc = "decided",
                                   !.status = tick.status, !.to = to]
      BY <1>3, <2>2 DEF TickDecide
    <3>5. tick' \in Ticks /\ tick'.status = tick.status /\ tick'.to = to
      BY <1>0, <3>2, <3>4 DEF Ticks
    <3> QED
      BY <1>3, <2>2, <3>3, <3>5 DEF TickDecide, NoStaleClaim, Working
  <2> QED
    BY <2>1, <2>2
<1>4. CASE TickApply
  <2>1. row' \in Statuses /\ ever' \in BOOLEAN
    BY <1>4 DEF TickApply, Ticks, Statuses
  <2> QED
    BY <1>0, <1>4, <2>1 DEF TickApply, NoStaleClaim, Working
<1> QED
  BY <1>1, <1>2, <1>3, <1>4 DEF ObserverStep

(* The node, the probe and a restart of the portal.                         *)
LEMMA WorldInv ==
  ASSUME LifeInv, UnitStep \/ Probe \/ Restart
  PROVE  LifeInv'
<1> USE DEF LifeInv, TypeOK, NoStaleClaim, Working, observer, rest
<1>1. CASE UnitStep
  BY <1>1 DEF UnitStep, Units
<1>2. CASE Probe
  <2>1. PICK active \in {"unknown", "no"}
                        \union (IF unit \in {"loading", "serving"}
                                THEN {"yes"} ELSE {}),
             green \in {FALSE, unit = "serving"} :
          probe' = [active |-> active, health |-> green, known |-> TRUE]
    BY <1>2 DEF Probe
  <2>2. active \in Tri
    BY DEF Tri
  <2>3. green \in BOOLEAN
    OBVIOUS
  <2>4. probe' \in Probes
    BY <2>1, <2>2, <2>3 DEF Probes
  <2> QED
    BY <1>2, <2>4 DEF Probe
<1>3. CASE Restart
  <2>1. IdleJob \in Jobs
    BY DEF IdleJob, Jobs, Kinds, Statuses
  <2>2. NoProbe \in Probes
    BY DEF NoProbe, Probes, Tri
  <2>3. IdleTick \in Ticks /\ IdleTick.pc = "idle"
    BY <2>2 DEF IdleTick, Ticks, Statuses
  <2>4. job' \in [Slots -> Jobs]
    BY <1>3, <2>1 DEF Restart
  <2>5. restarts' \in 0..MaxRestarts
    BY <1>3, StepBound, LifecycleAssumption DEF Restart
  <2>6. \A s \in Slots : CutOff(s) \subseteq Units
    BY CutOffUnits
  <2>7. unit' \in Units
    BY <1>3, <2>6 DEF Restart
  <2> QED
    BY <1>3, <2>2, <2>3, <2>4, <2>5, <2>7 DEF Restart
<1> QED
  BY <1>1, <1>2, <1>3

LEMMA LifeNext == LifeInv /\ [Next]_vars => LifeInv'
<1> SUFFICES ASSUME LifeInv, [Next]_vars PROVE LifeInv'
  OBVIOUS
<1>1. ASSUME NEW s \in Slots, Request(s) PROVE LifeInv'
  BY <1>1, EnqueueInv
     DEF Request, RequestStart, RequestStop, RequestDelete, ScheduledStart,
         Kinds
<1>2. CASE UNCHANGED vars
  BY <1>2 DEF vars, LifeInv, TypeOK, NoStaleClaim, Working
<1> QED
  BY <1>1, <1>2, JobStepInv, CancelInv, WorldInv, ObserverInv
     DEF Next

(* The types, for any number of jobs, requests and restarts.                *)
THEOREM LifecycleTypes == Spec => []TypeOK
<1>1. LifeInv => TypeOK
  BY DEF LifeInv
<1> QED
  BY <1>1, LifeInit, LifeNext, PTL DEF Spec

(* A claim never outlives its job, however many jobs overlap: no order of   *)
(* starts, stops, deletes, cancellations and restarts leaves an instance    *)
(* that refuses every later start and that the observer never looks at.     *)
THEOREM ClaimsEnd == Spec => []NoStaleClaim
<1>1. LifeInv => NoStaleClaim
  BY DEF LifeInv
<1> QED
  BY <1>1, LifeInit, LifeNext, PTL DEF Spec

(* The observer's late write never brings back a stopped or deleted row.    *)
LEMMA ApplyKeeps ==
  ASSUME LifeInv, TickApply, row \in {"stopped", "deleted"}
  PROVE  row' = row
<1>1. tick.status \in Observable
  BY DEF LifeInv, TickApply
<1>2. ~StillObserved
  BY <1>1 DEF StillObserved, Observable
<1> QED
  BY <1>2 DEF TickApply

THEOREM ObserverKeepsOut == Spec => ObserverLeavesStopped
<1>1. LifeInv /\ [Next]_vars =>
        [TickApply /\ row \in {"stopped", "deleted"} => row' = row]_vars
  BY ApplyKeeps
<1> QED
  BY <1>1, LifeInit, LifeNext, PTL DEF Spec, ObserverLeavesStopped

-----------------------------------------------------------------------------
(* When one job on the instance runs at a time.                             *)
OneJob == \A s, t \in Slots : s = t

(* A start job past its first commit holds `starting` in its session.       *)
SoloJob(s) ==
  /\ Working(s) => row # "deleted"
  /\ At(s, "start", "loaded") => (job[s].mem = "stopped" <=> row = "stopped")
  /\ /\ job[s].kind = "start"
     /\ job[s].pc \in {"installing", "waiting", "confirmed", "failed"}
     => row # "stopped" /\ job[s].mem = "starting"
  /\ At(s, "delete", "commanded") => unit = "absent" \/ left # {}

SoloInv ==
  /\ LifeInv
  /\ \A s \in Slots : SoloJob(s)
  /\ row = "deleted" => unit = "absent" \/ left # {}

LEMMA SoloInit == Init => SoloInv
BY LifeInit DEF Init, SoloInv, SoloJob, Working, At, IdleJob

(* A slot without a job at work asks nothing of the row.                    *)
LEMMA IdleSolo ==
  ASSUME NEW s \in Slots, job[s].pc \in {"idle", "queued"}
  PROVE  SoloJob(s)
BY DEF SoloJob, Working, At

LEMMA SoloRequest ==
  ASSUME OneJob, SoloInv, NEW s \in Slots, Request(s)
  PROVE  \A t \in Slots : SoloJob(t)'
<1>1. PICK kind \in Kinds : Enqueue(s, kind)
  BY DEF Request, RequestStart, RequestStop, RequestDelete, ScheduledStart,
         Kinds
<1>2. job'[s].pc = "queued"
  BY <1>1 DEF Enqueue, IdleJob, SoloInv, LifeInv, TypeOK
<1> QED
  BY <1>2 DEF OneJob, SoloJob, Working, At

LEMMA SoloDone ==
  ASSUME OneJob, SoloInv, NEW s \in Slots, Done(s)
  PROVE  \A t \in Slots : SoloJob(t)'
<1>1. job'[s].pc = "idle"
  BY DEF Done, IdleJob, SoloInv, LifeInv, TypeOK
<1> QED
  BY <1>1 DEF OneJob, SoloJob, Working, At

(* A job that moves on keeps its kind and its snapshot.                     *)
LEMMA GotoKeeps ==
  ASSUME LifeInv, NEW s \in Slots, NEW place, Goto(s, place)
  PROVE  /\ job'[s].pc = place /\ job'[s].kind = job[s].kind
         /\ job'[s].mem = job[s].mem
BY DEF Goto, LifeInv, TypeOK, Jobs

LEMMA SoloStep ==
  ASSUME OneJob, SoloInv, NEW s \in Slots, JobStep(s)
  PROVE  \A t \in Slots : SoloJob(t)'
<1> USE DEF SoloInv, LifeInv, TypeOK
<1>1. CASE Done(s)
  BY <1>1, SoloDone
<1>2. CASE ~Done(s)
  <2> SUFFICES SoloJob(s)'
    BY DEF OneJob
  <2>1. SoloJob(s)
    OBVIOUS
  <2>2. CASE Load(s)
    <3>1. row # "deleted" /\ row' = row
          /\ job' = [job EXCEPT ![s].pc = "loaded", ![s].mem = row,
                                ![s].ever = ever]
      BY <1>2, <2>2 DEF Load
    <3>2. job'[s].pc = "loaded" /\ job'[s].mem = row
      BY <3>1 DEF Jobs
    <3> HIDE DEF SoloInv, LifeInv, TypeOK
    <3> QED
      BY <3>1, <3>2 DEF SoloJob, Working, At
  <2>3. CASE CommitStarting(s)
    <3>1. /\ row # "deleted" /\ row' = Put(s, "starting")
          /\ job' = [job EXCEPT ![s].pc = "installing",
                                ![s].mem = "starting", ![s].ever = FALSE]
          /\ At(s, "start", "loaded")
      BY <1>2, <2>3 DEF CommitStarting
    <3>2. job'[s].pc = "installing" /\ job'[s].mem = "starting"
          /\ job'[s].kind = job[s].kind
      BY <3>1 DEF Jobs
    <3> HIDE DEF SoloInv, LifeInv, TypeOK
    <3>3. row' # "stopped" /\ row' # "deleted"
      BY <2>1, <3>1 DEF SoloJob, Put
    <3> QED
      BY <3>1, <3>2, <3>3 DEF SoloJob, Working, At
  <2>4. CASE Install(s)
    BY <2>1, <2>4 DEF Install, SoloJob, Working, At, Goto
  <2>5. CASE StartRaises(s) \/ SeeHealthy(s)
    <3>1. PICK place \in {"failed", "confirmed"} : Goto(s, place)
      BY <2>5 DEF StartRaises, SeeHealthy
    <3>2. /\ job[s].kind = "start" /\ UNCHANGED row
          /\ job[s].pc \in {"installing", "waiting"}
      BY <2>5 DEF StartRaises, SeeHealthy, At
    <3>3. /\ job'[s].pc \in {"failed", "confirmed"}
          /\ job'[s].kind = "start" /\ job'[s].mem = job[s].mem
      BY <3>1, <3>2, GotoKeeps
    <3> HIDE DEF SoloInv, LifeInv, TypeOK
    <3> QED
      BY <2>1, <3>2, <3>3 DEF SoloJob, Working, At
  <2>7. CASE StopUnit(s)
    BY <2>1, <2>7 DEF StopUnit, SoloJob, Working, At, Goto
  <2>8. CASE RemoveUnit(s)
    <3>1. unit' = "absent" \/ left' # {}
      BY <2>8 DEF RemoveUnit, Removed, Stopped
    <3> QED
      BY <2>1, <2>8, <3>1 DEF RemoveUnit, SoloJob, Working, At, Goto
  <2>9. CASE RemoveRaises(s)
    BY <2>1, <2>9 DEF RemoveRaises, SoloJob, Working, At, Goto
  <2> QED
    BY <1>2, <2>2, <2>3, <2>4, <2>5, <2>7, <2>8, <2>9
       DEF JobStep, StartStep, StopStep, DeleteStep, CommitError, GiveUp,
           CommitRunning, StopRaises, CommitStopped, DeleteRow
<1> QED
  BY <1>1, <1>2

(* The observer moves rows among the statuses it watches, and nothing else  *)
(* outside a job takes a row to or from `stopped`.                          *)
LEMMA SoloWorld ==
  ASSUME OneJob, SoloInv,
         UnitStep \/ Probe \/ ObserverStep \/ Restart
  PROVE  \A t \in Slots : SoloJob(t)'
<1> USE DEF SoloInv, LifeInv, TypeOK, SoloJob, Working, At
<1>1. CASE Restart
  BY <1>1 DEF Restart, IdleJob
<1>2. CASE TickApply
  <2>1. row' = row \/ (row \in Observable /\ row' \in Observable)
    BY <1>2 DEF TickApply, StillObserved, Observable, Ticks
  <2> QED
    BY <1>2, <2>1 DEF TickApply, Observable, rest
<1>3. CASE UnitStep \/ Probe
  BY <1>3 DEF UnitStep, Probe, rest
<1>4. CASE ObserverStep /\ ~TickApply
  BY <1>4 DEF ObserverStep, TickBegin, TickSelect, TickDecide, rest
<1> QED
  BY <1>1, <1>2, <1>3, <1>4

(* Once the row is gone no job reaches the node, so the unit stays gone.    *)
LEMMA SoloOrphan ==
  ASSUME OneJob, SoloInv, [Next]_vars, row' = "deleted"
  PROVE  unit' = "absent" \/ left' # {}
<1> USE DEF SoloInv, LifeInv, TypeOK
<1>1. CASE row = "deleted"
  <2>1. unit = "absent" \/ left # {}
    BY <1>1
  <2>2. \A s \in Slots : ~Working(s)
    BY <1>1 DEF SoloJob
  <2>3. ASSUME NEW s \in Slots, JobStep(s) PROVE UNCHANGED <<unit, left>>
    BY <2>2, <2>3
       DEF JobStep, StartStep, StopStep, DeleteStep, Working, At, Load,
           CommitStarting, Install, StartRaises, CommitError, SeeHealthy,
           GiveUp, CommitRunning, StopUnit, StopRaises, CommitStopped,
           RemoveUnit, RemoveRaises, DeleteRow, rest
  <2>4. ASSUME NEW s \in Slots, Request(s) \/ CancelJob(s)
        PROVE  UNCHANGED <<unit, left>>
    BY <2>2, <2>4
       DEF Request, RequestStart, RequestStop, RequestDelete,
           ScheduledStart, Enqueue, CancelJob, CutOff, At, Working, rest
  <2>5. CASE UnitStep
    BY <2>1, <2>5 DEF UnitStep, rest
  <2>6. CASE Probe \/ ObserverStep
    BY <2>1, <2>6 DEF Probe, ObserverStep, TickBegin,
                      TickSelect, TickDecide, TickApply, rest
  <2>8. CASE Restart
    <3>1. \A s \in Slots : CutOff(s) = {unit}
      BY <2>2 DEF CutOff, At, Working
    <3> QED
      BY <2>1, <2>8, <3>1 DEF Restart
  <2>7. CASE UNCHANGED vars
    BY <2>1, <2>7 DEF vars
  <2> QED
    BY <2>1, <2>3, <2>4, <2>5, <2>6, <2>7, <2>8 DEF Next
<1>2. CASE row # "deleted"
  <2>1. PICK s \in Slots : DeleteRow(s)
    <3>1. ASSUME NEW s \in Slots, Request(s) \/ CancelJob(s) PROVE FALSE
      BY <1>2, <3>1 DEF Request, RequestStart, RequestStop, RequestDelete,
                        ScheduledStart, Enqueue, CancelJob
    <3>2. ASSUME NEW s \in Slots, JobStep(s), ~DeleteRow(s) PROVE FALSE
      BY <1>2, <3>2
         DEF JobStep, StartStep, StopStep, DeleteStep, Load, CommitStarting,
             Install, StartRaises, CommitError, SeeHealthy, GiveUp,
             CommitRunning, StopUnit, StopRaises, CommitStopped, RemoveUnit,
             RemoveRaises, Put
    <3>3. CASE TickApply
      BY <1>2, <3>3 DEF TickApply, Ticks
    <3>4. CASE ObserverStep /\ ~TickApply
      BY <1>2, <3>4 DEF ObserverStep, TickBegin, TickSelect, TickDecide
    <3>5. CASE \/ UnitStep \/ Probe \/ Restart
               \/ UNCHANGED vars
      BY <1>2, <3>5 DEF UnitStep, Probe, Restart, vars
    <3> QED
      BY <3>1, <3>2, <3>3, <3>4, <3>5 DEF Next
  <2> QED
    BY <2>1 DEF DeleteRow, SoloJob, rest
<1> QED
  BY <1>1, <1>2

LEMMA SoloNext == OneJob /\ SoloInv /\ [Next]_vars => SoloInv'
<1> SUFFICES ASSUME OneJob, SoloInv, [Next]_vars PROVE SoloInv'
  OBVIOUS
<1>1. LifeInv'
  BY LifeNext DEF SoloInv
<1>2. \A t \in Slots : SoloJob(t)'
  <2>1. ASSUME NEW s \in Slots, CancelJob(s) PROVE \A t \in Slots : SoloJob(t)'
    <3>1. job'[s].pc = "idle"
      BY <2>1 DEF CancelJob, Done, IdleJob, SoloInv, LifeInv, TypeOK
    <3> QED
      BY <3>1 DEF OneJob, SoloJob, Working, At
  <2>2. CASE UNCHANGED vars
    BY <2>2 DEF vars, SoloInv, SoloJob, Working, At
  <2> QED
    BY <2>1, <2>2, SoloRequest, SoloStep, SoloWorld DEF Next
<1> QED
  BY <1>1, <1>2, SoloOrphan DEF SoloInv

(* With one job at a time nothing but a start takes a row out of `stopped`. *)
LEMMA SoloStopped ==
  ASSUME SoloInv, [Next]_vars, row = "stopped"
  PROVE  row' \in {"stopped", "starting", "deleted"}
<1> USE DEF SoloInv, LifeInv, TypeOK
<1>1. ASSUME NEW s \in Slots, JobStep(s)
      PROVE  row' \in {"stopped", "starting", "deleted"}
  <2>1. SoloJob(s)
    OBVIOUS
  <2> QED
    BY <1>1, <2>1
       DEF SoloJob, JobStep, StartStep, StopStep, DeleteStep, At, Load,
           CommitStarting, Install, StartRaises, CommitError, SeeHealthy,
           GiveUp, CommitRunning, StopUnit, StopRaises, CommitStopped,
           RemoveUnit, RemoveRaises, DeleteRow, Put
<1>2. ASSUME NEW s \in Slots, Request(s) \/ CancelJob(s) PROVE row' = row
  BY <1>2 DEF Request, RequestStart, RequestStop, RequestDelete,
              ScheduledStart, Enqueue, CancelJob
<1>3. CASE ObserverStep
  <2>1. CASE TickApply
    BY <2>1, ApplyKeeps
  <2> QED
    BY <1>3, <2>1 DEF ObserverStep, TickBegin, TickSelect, TickDecide
<1>4. CASE \/ UnitStep \/ Probe \/ Restart
           \/ UNCHANGED vars
  BY <1>4 DEF UnitStep, Probe, Restart, vars
<1> QED
  BY <1>1, <1>2, <1>3, <1>4 DEF Next

(* What an operator took down stays down until something starts it, over    *)
(* any number of jobs one after the other, restarts and late probes.        *)
THEOREM StoppedStaysDown ==
  ASSUME OneJob PROVE Spec => StoppedStays
<1>1. Init => SoloInv
  BY SoloInit
<1>2. SoloInv /\ [Next]_vars => SoloInv'
  BY SoloNext
<1>3. SoloInv /\ [Next]_vars =>
        [row = "stopped" => row' \in {"stopped", "starting", "deleted"}]_vars
  BY SoloStopped
<1> QED
  BY <1>1, <1>2, <1>3, PTL DEF Spec, StoppedStays

(* And a deleted instance leaves no unit behind that nobody was told of.    *)
THEOREM DeleteLeavesNoUnit ==
  ASSUME OneJob PROVE Spec => []NoOrphanUnit
<1>1. Init => SoloInv
  BY SoloInit
<1>2. SoloInv /\ [Next]_vars => SoloInv'
  BY SoloNext
<1>3. SoloInv => NoOrphanUnit
  BY DEF SoloInv, NoOrphanUnit
<1> QED
  BY <1>1, <1>2, <1>3, PTL DEF Spec
=============================================================================
