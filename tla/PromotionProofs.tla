--------------------------- MODULE PromotionProofs ---------------------------
(***************************************************************************)
(* The promotions of one endpoint, for any number of members, promotions,   *)
(* outside changes and restarts: what each history row says, and that the   *)
(* one active row is the pointer, and a rollback goes back to where the     *)
(* pointer came from, as long as promotions do not overlap.                 *)
(***************************************************************************)
EXTENDS Promotion, SequenceTheorems, TLAPS

(* A reference to an instance, as the foreign keys keep it.                 *)
Alive(i) == IF Exists(i) THEN i ELSE Nobody

Early   == {"none", "queued", "loaded"}
Working == {"to stop", "stopping", "to start", "starting", "to flip",
            "flipping", "failed"}

(* Where the job of a row is tells what the row says, until the job ends.   *)
RowPlaces ==
  \A p \in Promotions :
    /\ job[p].pc \in Early => hist[p].status = "none"
    /\ job[p].pc \in Working => hist[p].status = "pending"
    /\ job[p].pc \in {"to restore", "restoring"} => hist[p].status = "failed"
    /\ job[p].pc = "over" => hist[p].status # "pending"

(* What a job read as active is active, or was superseded since.            *)
ReadRows ==
  \A p, q \in Promotions :
    At(p, "flipping") /\ q \in job[p].active
      => hist[q].status \in {"active", "superseded"}

RowTargets ==
  \A p \in Promotions :
    job[p].pc \in Working => hist[p].to = Alive(job[p].to)

(* A job that is alone loaded the pointer, and read every active row.       *)
Alone ==
  ~overlap =>
    \A p \in Promotions : job[p].pc \in UnderWay =>
      /\ \A q \in Promotions : job[q].pc \in UnderWay => q = p
      /\ pointer = Alive(job[p].prev)
      /\ At(p, "flipping") =>
           job[p].active = {q \in Promotions : hist[q].status = "active"}

RowInv == TypeOK /\ RowPlaces /\ ReadRows
PromInv == RowInv /\ RowTargets /\ Alone /\ pointer = Alive(pointer)
                  /\ ActiveIsPointer

-----------------------------------------------------------------------------
LEMMA NoneYet == NoJob \in PromoteJobs /\ NoRow \in HistoryRows
BY DEF NoJob, NoRow, PromoteJobs, HistoryRows, Places, RowStates, Holders

LEMMA TypeInit == Init => TypeOK
<1> SUFFICES ASSUME Init PROVE TypeOK
  OBVIOUS
<1>1. /\ job \in [Promotions -> PromoteJobs]
      /\ hist \in [Promotions -> HistoryRows]
  BY NoneYet DEF Init
<1>2. world \in 0..MaxWorld /\ crashes \in 0..MaxCrashes
  BY PromotionAssumption DEF Init
<1>3. started \in Seq(Promotions)
  BY DEF Init
<1> QED
  BY <1>1, <1>2, <1>3 DEF Init, TypeOK, Holders, Statuses

(* Updates of a job and of a row.                                           *)
LEMMA JobMoves ==
  ASSUME NEW p \in Promotions, NEW pl \in Places, Goto(p, pl),
         job \in [Promotions -> PromoteJobs]
  PROVE  job' \in [Promotions -> PromoteJobs]
<1>1. ASSUME NEW j \in PromoteJobs
      PROVE  [j EXCEPT !.pc = pl] \in PromoteJobs
  BY <1>1 DEF PromoteJobs
<1> QED
  BY <1>1 DEF Goto

LEMMA RowMoves ==
  ASSUME NEW p \in Promotions, NEW s \in RowStates,
         hist \in [Promotions -> HistoryRows]
  PROVE  [hist EXCEPT ![p].status = s] \in [Promotions -> HistoryRows]
<1>1. ASSUME NEW h \in HistoryRows
      PROVE  [h EXCEPT !.status = s] \in HistoryRows
  BY <1>1 DEF HistoryRows
<1> QED
  BY <1>1

(* What an action on an instance leaves well typed.                         *)
LEMMA ClaimType ==
  ASSUME TypeOK, NEW p \in Promotions, NEW i \in Holders,
         NEW shown, i \in Instances => shown \in Statuses \union {"deleted"},
         NEW from, NEW to \in Places, NEW fallback \in Places,
         Claim(p, i, shown, from, to, fallback)
  PROVE  TypeOK'
<1>1. job' \in [Promotions -> PromoteJobs]
  BY JobMoves DEF Claim, TypeOK
<1>2. busy' \subseteq Instances
  BY DEF Claim, Exists, TypeOK, Holders
<1>3. status' \in [Instances -> Statuses \union {"deleted"}]
  BY DEF Claim, Exists, TypeOK, Holders
<1> QED
  BY <1>1, <1>2, <1>3 DEF Claim, TypeOK, endpoint, others

LEMMA ReleaseType ==
  ASSUME TypeOK, NEW p \in Promotions, NEW i \in Holders, NEW shown,
         i \in Instances => shown \subseteq Statuses \union {"deleted"},
         NEW from, NEW to \in Places, Release(p, i, shown, from, to)
  PROVE  TypeOK'
<1>1. job' \in [Promotions -> PromoteJobs]
  BY JobMoves DEF Release, TypeOK
<1>2. busy' \subseteq Instances
  BY DEF Release, TypeOK
<1>3. status' \in [Instances -> Statuses \union {"deleted"}]
  BY DEF Release, Exists, TypeOK, Holders
<1> QED
  BY <1>1, <1>2, <1>3 DEF Release, TypeOK, endpoint, others

LEMMA WriteFailsType ==
  ASSUME TypeOK, NEW p \in Promotions, NEW i \in Holders, NEW from,
         WriteFails(p, i, from)
  PROVE  TypeOK'
<1>1. job' \in [Promotions -> PromoteJobs]
  BY JobMoves DEF WriteFails, TypeOK, Places
<1>2. busy' \subseteq Instances
  BY DEF WriteFails, TypeOK
<1> QED
  BY <1>1, <1>2 DEF WriteFails, TypeOK, endpoint, others

LEMMA NodeWorkType ==
  ASSUME TypeOK, NEW p \in Promotions,
         \/ StopBegins(p) \/ StopEnds(p) \/ StartBegins(p)
         \/ StartEnds(p) \/ RestoreBegins(p) \/ RestoreEnds(p)
  PROVE  TypeOK'
<1> DEFINE S == Statuses \union {"deleted"}
           prev == job[p].prev
           to == job[p].to
<1>1. prev \in Holders /\ to \in Holders
  BY DEF TypeOK, PromoteJobs
<1>2. /\ prev \in Instances => status[prev] \in S
      /\ to \in Instances => status[to] \in S
  BY DEF TypeOK
<1>3. {"to stop", "stopping", "to start", "starting", "to flip", "failed",
       "to restore", "restoring", "over"} \subseteq Places
  BY DEF Places, UnderWay
<1>4. {"starting", "running", "stopped", "error"} \subseteq S
  BY DEF Statuses
<1> HIDE DEF S
<1>5. CASE StopBegins(p)
  BY <1>1, <1>2, <1>3, <1>5, ClaimType DEF StopBegins, S
<1>6. CASE StopEnds(p)
  BY <1>1, <1>2, <1>3, <1>4, <1>6, ReleaseType, WriteFailsType
     DEF StopEnds, S
<1>7. CASE StartBegins(p)
  BY <1>1, <1>3, <1>4, <1>7, ClaimType, WriteFailsType DEF StartBegins, S
<1>8. CASE StartEnds(p)
  BY <1>1, <1>2, <1>3, <1>4, <1>8, ReleaseType, WriteFailsType
     DEF StartEnds, S
<1>9. CASE RestoreBegins(p)
  BY <1>1, <1>3, <1>4, <1>9, ClaimType DEF RestoreBegins, S
<1>10. CASE RestoreEnds(p)
  BY <1>1, <1>2, <1>3, <1>4, <1>10, ReleaseType DEF RestoreEnds, S
<1> QED
  BY <1>5, <1>6, <1>7, <1>8, <1>9, <1>10

LEMMA TypeStep == TypeOK /\ [Next]_vars => TypeOK'
<1> SUFFICES ASSUME TypeOK, [Next]_vars PROVE TypeOK'
  OBVIOUS
<1> USE PromotionAssumption
<1>1. ASSUME NEW p \in Promotions, NEW i \in Instances, Request(p, i)
      PROVE  TypeOK'
  <2>1. ASSUME NEW j \in PromoteJobs
        PROVE  [j EXCEPT !.pc = "queued", !.to = i] \in PromoteJobs
    BY <2>1 DEF PromoteJobs, Places, Holders
  <2>2. job' \in [Promotions -> PromoteJobs]
    BY <1>1, <2>1 DEF TypeOK, Request
  <2> QED
    BY <1>1, <2>2 DEF TypeOK, Request, endpoint, others
<1>2. ASSUME NEW p \in Promotions, Load(p) PROVE TypeOK'
  <2>1. ASSUME NEW j \in PromoteJobs, NEW h \in Holders,
               NEW b \in BOOLEAN, NEW c \in BOOLEAN
        PROVE  [j EXCEPT !.pc = "loaded", !.prev = h, !.prevRuns = b,
                         !.serves = c] \in PromoteJobs
    BY <2>1 DEF PromoteJobs, Places, UnderWay
  <2>2. job' \in [Promotions -> PromoteJobs]
    <3>1. CASE Exists(job[p].to)
      <4> DEFINE b == pointer # Nobody /\ status[pointer] = "running"
                 c == pointer = job[p].to /\ status[pointer] = "running"
                 j == [job[p] EXCEPT !.pc = "loaded", !.prev = pointer,
                                     !.prevRuns = b, !.serves = c]
      <4>1. b \in BOOLEAN /\ c \in BOOLEAN
        OBVIOUS
      <4>2. job' = [job EXCEPT ![p] = j]
        BY <1>2, <3>1 DEF Load, TypeOK
      <4> HIDE DEF b, c
      <4>3. j \in PromoteJobs
        BY <2>1, <4>1 DEF TypeOK
      <4> QED
        BY <4>2, <4>3 DEF TypeOK
    <3>2. CASE ~Exists(job[p].to)
      BY <1>2, <3>2, JobMoves DEF Load, TypeOK, Places
    <3> QED
      BY <3>1, <3>2
  <2>3. overlap' \in BOOLEAN
    BY <1>2 DEF Load
  <2> QED
    BY <1>2, <2>2, <2>3 DEF TypeOK, Load, endpoint
<1>3. ASSUME NEW p \in Promotions, Refuse(p) \/ Cancel(p) \/ RecordFails(p)
      PROVE  TypeOK'
  <2>1. job' \in [Promotions -> PromoteJobs]
    BY <1>3, JobMoves DEF TypeOK, Refuse, Cancel, RecordFails, Places
  <2> QED
    BY <1>3, <2>1 DEF TypeOK, Refuse, Cancel, RecordFails, endpoint, others
<1>4. ASSUME NEW p \in Promotions, Admit(p) PROVE TypeOK'
  <2>1. job' \in [Promotions -> PromoteJobs]
    BY <1>4, JobMoves DEF TypeOK, Admit, Places, UnderWay
  <2>2. hist' \in [Promotions -> HistoryRows]
    BY <1>4 DEF TypeOK, Admit, PromoteJobs, HistoryRows, RowStates
  <2>3. started' \in Seq(Promotions)
    <3>1. started \in Seq(Promotions) /\ started' = Append(started, p)
      BY <1>4 DEF TypeOK, Admit
    <3> QED
      BY <3>1
  <2> QED
    BY <1>4, <2>1, <2>2, <2>3 DEF TypeOK, Admit, others
<1>5. ASSUME NEW p \in Promotions, Fail(p) PROVE TypeOK'
  <2>1. job' \in [Promotions -> PromoteJobs]
    BY <1>5, JobMoves DEF TypeOK, Fail, Places, UnderWay
  <2>2. hist' \in [Promotions -> HistoryRows]
    BY <1>5, RowMoves DEF TypeOK, Fail, RowStates
  <2> QED
    BY <1>5, <2>1, <2>2 DEF TypeOK, Fail, others
<1>6. ASSUME NEW p \in Promotions, FlipRead(p) PROVE TypeOK'
  <2>1. ASSUME NEW j \in PromoteJobs, NEW A \in SUBSET Promotions
        PROVE  [j EXCEPT !.pc = "flipping", !.active = A] \in PromoteJobs
    BY <2>1 DEF PromoteJobs, Places, UnderWay
  <2>2. job' \in [Promotions -> PromoteJobs]
    BY <1>6, <2>1 DEF TypeOK, FlipRead
  <2> QED
    BY <1>6, <2>2 DEF TypeOK, FlipRead, endpoint, others
<1>7. ASSUME NEW p \in Promotions, FlipCommit(p) PROVE TypeOK'
  <2>1. job' \in [Promotions -> PromoteJobs]
    BY <1>7, JobMoves DEF TypeOK, FlipCommit, Places
  <2>2. pointer' \in Holders /\ before' \in Holders
    BY <1>7 DEF TypeOK, PromoteJobs, FlipCommit, endpoint
  <2>3. hist' \in [Promotions -> HistoryRows]
    BY <1>7 DEF TypeOK, FlipCommit, endpoint, HistoryRows, Supersede,
               RowStates
  <2> QED
    BY <1>7, <2>1, <2>2, <2>3 DEF TypeOK, FlipCommit, endpoint, others
<1>8. ASSUME NEW i \in Instances, OtherJob(i) PROVE TypeOK'
  BY <1>8 DEF TypeOK, OtherJob, InWorld, endpoint
<1>9. ASSUME NEW i \in Instances, NEW s \in Statuses, Moves(i, s)
      PROVE  TypeOK'
  BY <1>9 DEF TypeOK, Moves, InWorld, endpoint
<1>10. ASSUME NEW i \in Instances, Delete(i) PROVE TypeOK'
  <2>1. hist' \in [Promotions -> HistoryRows]
    BY <1>10 DEF TypeOK, Delete, HistoryRows, Holders
  <2>2. pointer' \in Holders /\ before' \in Holders
    BY <1>10 DEF TypeOK, Delete, Holders
  <2>3. status' \in [Instances -> Statuses \union {"deleted"}]
    BY <1>10 DEF TypeOK, Delete
  <2>4. world' \in 0..MaxWorld
    <3>1. world < MaxWorld /\ world' = world + 1
      BY <1>10 DEF Delete, InWorld
    <3> QED
      BY <3>1 DEF TypeOK
  <2>5. UNCHANGED <<busy, job, started, overlap, crashes>>
    BY <1>10 DEF Delete
  <2> QED
    BY <2>1, <2>2, <2>3, <2>4, <2>5 DEF TypeOK
<1>11. CASE Crash
  <2>1. ASSUME NEW j \in PromoteJobs
        PROVE  [j EXCEPT !.pc = "cut"] \in PromoteJobs
    BY <2>1 DEF PromoteJobs, Places
  <2>2. job' \in [Promotions -> PromoteJobs]
    BY <1>11, <2>1 DEF TypeOK, Crash
  <2> QED
    BY <1>11, <2>2 DEF TypeOK, Crash, endpoint
<1>12. CASE UNCHANGED vars
  BY <1>12 DEF TypeOK, vars
<1> QED
  BY <1>1, <1>2, <1>3, <1>4, <1>5, <1>6, <1>7, <1>8, <1>9, <1>10, <1>11,
     <1>12, NodeWorkType DEF Next, Rollback

-----------------------------------------------------------------------------
LEMMA PromInit == Init => PromInv
<1> SUFFICES ASSUME Init PROVE PromInv
  OBVIOUS
<1>1. \A p \in Promotions : job[p].pc = "none" /\ hist[p].status = "none"
  BY DEF Init, NoJob, NoRow
<1> QED
  BY <1>1, TypeInit
     DEF Init, PromInv, RowInv, RowPlaces, ReadRows, RowTargets, Alone, Alive,
         ActiveIsPointer, Early, Working, UnderWay, At, Exists

(* What a move of one job leaves as it was.                                 *)
LEMMA MoveFacts ==
  ASSUME TypeOK, NEW p \in Promotions, NEW pl, Goto(p, pl)
  PROVE  /\ job'[p].pc = pl
         /\ \A q \in Promotions : q # p => job'[q] = job[q]
         /\ \A q \in Promotions : /\ job'[q].to = job[q].to
                                  /\ job'[q].prev = job[q].prev
                                  /\ job'[q].active = job[q].active
BY DEF TypeOK, PromoteJobs, Goto

(* Most steps of a job move it on, or end it, and touch no row, pointer or  *)
(* reference.                                                               *)
Quiet(p, pl) ==
  /\ Goto(p, pl)
  /\ pl \notin Early /\ pl # "flipping"
  /\ pl \in Working => job[p].pc \in Working
  /\ pl \in {"to restore", "restoring"} =>
       job[p].pc \in {"to restore", "restoring"}
  /\ pl = "over" => job[p].pc \in {"loaded", "to restore", "restoring"}
  /\ UNCHANGED <<pointer, hist, overlap>>
  /\ \A i \in Holders : Exists(i)' <=> Exists(i)

LEMMA RefsOfRows ==
  ASSUME TypeOK
  PROVE  /\ pointer \in Holders
         /\ \A p \in Promotions :
              job[p].to \in Holders /\ job[p].prev \in Holders
BY DEF TypeOK, PromoteJobs

LEMMA SameRefs ==
  ASSUME \A i \in Holders : Exists(i)' <=> Exists(i)
  PROVE  \A i \in Holders : Alive(i)' = Alive(i)
BY DEF Alive

LEMMA QuietKeeps ==
  ASSUME PromInv, NEW p \in Promotions, NEW pl, Quiet(p, pl), TypeOK'
  PROVE  PromInv'
<1> DEFINE pc(q) == job[q].pc
<1>1. TypeOK /\ Goto(p, pl) /\ UNCHANGED <<pointer, hist, overlap>>
  BY DEF Quiet, PromInv, RowInv
<1>2. /\ job'[p].pc = pl
      /\ \A q \in Promotions : q # p => job'[q] = job[q]
      /\ \A q \in Promotions : /\ job'[q].to = job[q].to
                               /\ job'[q].prev = job[q].prev
                               /\ job'[q].active = job[q].active
  BY <1>1, MoveFacts
<1>3. \A i \in Holders : Alive(i)' = Alive(i)
  BY SameRefs DEF Quiet
<1>4. RowPlaces'
  BY <1>1, <1>2 DEF Quiet, PromInv, RowInv, RowPlaces, Early
<1>5. ReadRows'
  BY <1>1, <1>2 DEF Quiet, PromInv, RowInv, ReadRows, At
<1>6. RowTargets'
  <2> SUFFICES ASSUME NEW q \in Promotions, job'[q].pc \in Working
               PROVE  hist'[q].to = Alive(job[q].to)'
    BY DEF RowTargets
  <2>1. job[q].pc \in Working
    BY <1>2 DEF Quiet
  <2>2. job'[q].to = job[q].to /\ job[q].to \in Holders
    BY <1>1, <1>2, RefsOfRows
  <2>3. hist[q].to = Alive(job[q].to)
    BY <2>1 DEF PromInv, RowTargets
  <2> QED
    BY <1>1, <1>3, <2>2, <2>3 DEF Alive
<1>7. Alone'
  <2> SUFFICES ASSUME ~overlap', NEW q \in Promotions, job'[q].pc \in UnderWay
               PROVE  /\ \A r \in Promotions : job'[r].pc \in UnderWay => r = q
                      /\ pointer' = Alive(job[q].prev)'
                      /\ At(q, "flipping")' =>
                           job'[q].active =
                             {r \in Promotions : hist'[r].status = "active"}
    BY DEF Alone
  <2>1. ASSUME NEW r \in Promotions, job'[r].pc \in UnderWay
        PROVE  job[r].pc \in UnderWay
    BY <1>2, <2>1 DEF Quiet, UnderWay, Working, Early
  <2>2. /\ \A r \in Promotions : job[r].pc \in UnderWay => r = q
        /\ pointer = Alive(job[q].prev)
        /\ At(q, "flipping") =>
             job[q].active = {r \in Promotions : hist[r].status = "active"}
    BY <1>1, <2>1 DEF PromInv, Alone
  <2>3. pointer' = Alive(job[q].prev)'
    <3>1. job'[q].prev = job[q].prev /\ job[q].prev \in Holders
      BY <1>1, <1>2, RefsOfRows
    <3> QED
      BY <1>1, <1>3, <2>2, <3>1 DEF Alive
  <2>4. At(q, "flipping")' => At(q, "flipping")
    BY <1>2 DEF Quiet, At
  <2> QED
    BY <1>1, <1>2, <2>1, <2>2, <2>3, <2>4
<1>8. (pointer = Alive(pointer))'
  <2>1. Alive(pointer)' = Alive(pointer)
    BY <1>1, <1>3, RefsOfRows DEF Alive
  <2> QED
    BY <1>1, <2>1 DEF PromInv
<1>9. ActiveIsPointer'
  BY <1>1 DEF PromInv, ActiveIsPointer
<1> QED
  BY <1>4, <1>5, <1>6, <1>7, <1>8, <1>9 DEF PromInv, RowInv

LEMMA ClaimQuiet ==
  ASSUME TypeOK, NEW p \in Promotions, NEW i \in Holders, NEW shown,
         shown # "deleted" \/ ~Exists(i),
         NEW from, NEW to, NEW fallback, Claim(p, i, shown, from, to, fallback)
  PROVE  /\ job[p].pc = from /\ (Goto(p, to) \/ Goto(p, fallback))
         /\ UNCHANGED <<pointer, hist, overlap>>
         /\ \A k \in Holders : Exists(k)' <=> Exists(k)
BY DEF Claim, At, endpoint, others, Exists, TypeOK, Holders

LEMMA ReleaseQuiet ==
  ASSUME TypeOK, NEW p \in Promotions, NEW i \in Holders, NEW shown,
         "deleted" \notin shown \/ ~Exists(i),
         NEW from, NEW to, Release(p, i, shown, from, to)
  PROVE  /\ job[p].pc = from /\ Goto(p, to)
         /\ UNCHANGED <<pointer, hist, overlap>>
         /\ \A k \in Holders : Exists(k)' <=> Exists(k)
BY DEF Release, At, endpoint, others, Exists, TypeOK, Holders

LEMMA WriteFailsQuiet ==
  ASSUME NEW p \in Promotions, NEW i, NEW from, WriteFails(p, i, from)
  PROVE  /\ job[p].pc = from /\ (Goto(p, "lost") \/ Goto(p, "refused"))
         /\ UNCHANGED <<pointer, hist, overlap>>
         /\ \A k \in Holders : Exists(k)' <=> Exists(k)
BY DEF WriteFails, At, endpoint, others, Exists

LEMMA NodeWorkQuiet ==
  ASSUME TypeOK, NEW p \in Promotions,
         \/ StopBegins(p) \/ StopEnds(p) \/ StartBegins(p)
         \/ StartEnds(p) \/ RestoreBegins(p) \/ RestoreEnds(p)
  PROVE  \E pl : Quiet(p, pl)
<1> DEFINE prev == job[p].prev
           to == job[p].to
           Same == /\ UNCHANGED <<pointer, hist, overlap>>
                   /\ \A k \in Holders : Exists(k)' <=> Exists(k)
<1>1. prev \in Holders /\ to \in Holders
  BY RefsOfRows
<1>2. /\ status[prev] # "deleted" \/ ~Exists(prev)
      /\ status[to] # "deleted" \/ ~Exists(to)
  BY DEF Exists
<1>3. CASE StopBegins(p)
  <2>1. /\ job[p].pc = "to stop" /\ Same
        /\ Goto(p, "stopping") \/ Goto(p, "failed")
    BY <1>1, <1>2, <1>3, ClaimQuiet DEF StopBegins
  <2> QED
    BY <2>1 DEF Quiet, Early, Working
<1>4. CASE StopEnds(p)
  <2>1. /\ job[p].pc = "stopping" /\ Same
        /\ \/ Goto(p, "to start") \/ Goto(p, "failed")
           \/ Goto(p, "lost") \/ Goto(p, "refused")
    BY <1>1, <1>2, <1>4, ReleaseQuiet, WriteFailsQuiet DEF StopEnds
  <2> QED
    BY <2>1 DEF Quiet, Early, Working
<1>5. CASE StartBegins(p)
  <2>1. /\ job[p].pc = "to start" /\ Same
        /\ \/ Goto(p, "starting") \/ Goto(p, "failed")
           \/ Goto(p, "lost") \/ Goto(p, "refused")
    BY <1>1, <1>5, ClaimQuiet, WriteFailsQuiet DEF StartBegins
  <2> QED
    BY <2>1 DEF Quiet, Early, Working
<1>6. CASE StartEnds(p)
  <2>1. /\ job[p].pc = "starting" /\ Same
        /\ \/ Goto(p, "to flip") \/ Goto(p, "failed")
           \/ Goto(p, "lost") \/ Goto(p, "refused")
    BY <1>1, <1>2, <1>6, ReleaseQuiet, WriteFailsQuiet DEF StartEnds
  <2> QED
    BY <2>1 DEF Quiet, Early, Working
<1>7. CASE RestoreBegins(p)
  <2>1. /\ job[p].pc = "to restore" /\ Same
        /\ Goto(p, "restoring") \/ Goto(p, "over")
    BY <1>1, <1>7, ClaimQuiet DEF RestoreBegins
  <2> QED
    BY <2>1 DEF Quiet, Early, Working
<1>8. CASE RestoreEnds(p)
  <2>1. job[p].pc = "restoring" /\ Same /\ Goto(p, "over")
    BY <1>1, <1>2, <1>8, ReleaseQuiet DEF RestoreEnds
  <2> QED
    BY <2>1 DEF Quiet, Early, Working
<1> QED
  BY <1>3, <1>4, <1>5, <1>6, <1>7, <1>8

LEMMA EndQuiet ==
  ASSUME NEW p \in Promotions, Refuse(p) \/ Cancel(p) \/ RecordFails(p)
  PROVE  \E pl : Quiet(p, pl)
<1>1. /\ \/ Goto(p, "over") /\ job[p].pc = "loaded"
         \/ Goto(p, "cut") \/ Goto(p, "refused")
      /\ UNCHANGED <<pointer, hist, overlap, status>>
  BY DEF Refuse, Cancel, RecordFails, At, endpoint, others
<1>2. \A k \in Holders : Exists(k)' <=> Exists(k)
  BY <1>1 DEF Exists
<1> QED
  BY <1>1, <1>2 DEF Quiet, Early, Working

-----------------------------------------------------------------------------
(* The steps that touch a row, the pointer or a reference, one by one.      *)
LEMMA RequestKeeps ==
  ASSUME PromInv, NEW p \in Promotions, NEW i \in Instances, Request(p, i),
         TypeOK'
  PROVE  PromInv'
<1>1. /\ job[p].pc = "none" /\ job'[p].pc = "queued"
      /\ \A q \in Promotions : q # p => job'[q] = job[q]
      /\ UNCHANGED <<pointer, hist, overlap, status>>
  BY DEF Request, At, PromInv, RowInv, TypeOK, PromoteJobs, endpoint, others
<1>2. RowPlaces' /\ ReadRows'
  BY <1>1 DEF PromInv, RowInv, RowPlaces, ReadRows, At, Early, Working
<1>3. RowTargets'
  BY <1>1 DEF PromInv, RowTargets, Alive, Exists, Working
<1>4. Alone'
  <2>1. ~overlap => Alone
    BY DEF PromInv
  <2>2. \A q \in Promotions : job'[q].pc \in UnderWay =>
          q # p /\ job'[q] = job[q]
    BY <1>1 DEF UnderWay
  <2> QED
    BY <1>1, <2>1, <2>2 DEF Alone, Alive, Exists, At
<1>5. (pointer = Alive(pointer))' /\ ActiveIsPointer'
  BY <1>1 DEF PromInv, Alive, Exists, ActiveIsPointer
<1> QED
  BY <1>2, <1>3, <1>4, <1>5 DEF PromInv, RowInv

LEMMA LoadKeeps ==
  ASSUME PromInv, NEW p \in Promotions, Load(p), TypeOK'
  PROVE  PromInv'
<1>1. /\ job[p].pc = "queued" /\ job'[p].pc \in {"loaded", "over"}
      /\ job'[p].pc = "loaded" => job'[p].prev = pointer
      /\ \A q \in Promotions : q # p => job'[q] = job[q]
  BY DEF Load, Goto, At, PromInv, RowInv, TypeOK, PromoteJobs
<1>2. UNCHANGED <<pointer, hist, status>>
  BY DEF Load, endpoint
<1>3. RowPlaces' /\ ReadRows'
  BY <1>1, <1>2 DEF PromInv, RowInv, RowPlaces, ReadRows, At, Early, Working
<1>4. RowTargets'
  BY <1>1, <1>2 DEF PromInv, RowTargets, Alive, Exists, Working
<1>5. Alone'
  <2> SUFFICES ASSUME ~overlap', NEW q \in Promotions, job'[q].pc \in UnderWay
               PROVE  /\ \A r \in Promotions : job'[r].pc \in UnderWay => r = q
                      /\ pointer' = Alive(job[q].prev)'
                      /\ At(q, "flipping")' =>
                           job'[q].active =
                             {r \in Promotions : hist'[r].status = "active"}
    BY DEF Alone
  <2>1. \A r \in Promotions : job[r].pc \notin UnderWay
    BY DEF Load
  <2>2. \A r \in Promotions : job'[r].pc \in UnderWay => r = p
    BY <1>1, <2>1
  <2>3. q = p /\ job'[p].pc = "loaded"
    BY <1>1, <2>2 DEF UnderWay
  <2>4. pointer = Alive(pointer)
    BY DEF PromInv
  <2> QED
    BY <1>1, <1>2, <2>2, <2>3, <2>4 DEF Alive, Exists, At
<1>6. (pointer = Alive(pointer))'
  BY <1>2 DEF PromInv, Alive, Exists
<1>7. ActiveIsPointer'
  BY <1>2 DEF PromInv, ActiveIsPointer, Load
<1> QED
  BY <1>3, <1>4, <1>5, <1>6, <1>7 DEF PromInv, RowInv

(* A step after which the same jobs, or fewer, are under way leaves a job   *)
(* that is alone with what it loaded.                                       *)
ActiveRows == {q \in Promotions : hist[q].status = "active"}

LEMMA AloneKeeps ==
  ASSUME PromInv, UNCHANGED <<pointer, overlap, status>>,
         ActiveRows' = ActiveRows,
         \A q \in Promotions : job'[q].pc \in UnderWay =>
           job[q].pc \in UnderWay /\ job'[q].prev = job[q].prev,
         \A q \in Promotions : job'[q].pc = "flipping" =>
           \/ job'[q].active = ActiveRows
           \/ job[q].pc = "flipping" /\ job'[q].active = job[q].active
  PROVE  Alone'
<1> SUFFICES ASSUME ~overlap', NEW q \in Promotions, job'[q].pc \in UnderWay
             PROVE  /\ \A r \in Promotions : job'[r].pc \in UnderWay => r = q
                    /\ pointer' = Alive(job[q].prev)'
                    /\ At(q, "flipping")' => job'[q].active = ActiveRows'
  BY DEF Alone, ActiveRows
<1>1. /\ \A r \in Promotions : job[r].pc \in UnderWay => r = q
      /\ pointer = Alive(job[q].prev)
      /\ At(q, "flipping") => job[q].active = ActiveRows
  BY DEF PromInv, Alone, ActiveRows
<1>2. pointer' = Alive(job[q].prev)'
  BY <1>1 DEF Alive, Exists
<1> QED
  BY <1>1, <1>2 DEF At

LEMMA AdmitKeeps ==
  ASSUME PromInv, NEW p \in Promotions, Admit(p), TypeOK'
  PROVE  PromInv'
<1>1. TypeOK
  BY DEF PromInv, RowInv
<1>2. PICK pl \in {"to stop", "to start"} : Goto(p, pl)
  BY DEF Admit
<1>3. /\ job[p].pc = "loaded" /\ job'[p].pc = pl
      /\ \A q \in Promotions : q # p => job'[q] = job[q]
      /\ \A q \in Promotions : /\ job'[q].to = job[q].to
                               /\ job'[q].prev = job[q].prev
                               /\ job'[q].active = job[q].active
  BY <1>1, <1>2, MoveFacts DEF Admit, At
<1>4. /\ UNCHANGED <<pointer, overlap, status>>
      /\ Exists(job[p].to)
      /\ hist'[p].status = "pending" /\ hist'[p].to = job[p].to
      /\ \A q \in Promotions : q # p => hist'[q] = hist[q]
  BY <1>1 DEF Admit, TypeOK, others
<1>5. hist[p].status = "none"
  BY <1>3 DEF PromInv, RowInv, RowPlaces, Early
<1>6. RowPlaces'
  BY <1>2, <1>3, <1>4 DEF PromInv, RowInv, RowPlaces, Early, Working
<1>7. ReadRows'
  BY <1>2, <1>3, <1>4, <1>5 DEF PromInv, RowInv, ReadRows, At
<1>8. RowTargets'
  <2> SUFFICES ASSUME NEW q \in Promotions, job'[q].pc \in Working
               PROVE  hist'[q].to = Alive(job[q].to)'
    BY DEF RowTargets
  <2>1. CASE q = p
    BY <1>3, <1>4, <2>1 DEF Alive, Exists
  <2>2. CASE q # p
    BY <1>3, <1>4, <2>2 DEF PromInv, RowTargets, Alive, Exists
  <2> QED
    BY <2>1, <2>2
<1>9. Alone'
  <2>1. \A q \in Promotions : job'[q].pc \in UnderWay => job[q].pc \in UnderWay
    BY <1>3 DEF UnderWay
  <2>2. ActiveRows' = ActiveRows
    BY <1>4, <1>5 DEF ActiveRows
  <2> QED
    BY <1>2, <1>3, <1>4, <2>1, <2>2, AloneKeeps
<1>10. (pointer = Alive(pointer))'
  BY <1>4 DEF PromInv, Alive, Exists
<1>11. ActiveIsPointer'
  <2>1. \A q \in Promotions : hist'[q].status = "active"
                               => hist'[q] = hist[q]
    BY <1>4
  <2>2. {q \in Promotions : hist'[q].status = "active"}
          = {q \in Promotions : hist[q].status = "active"}
    BY <1>4, <1>5
  <2> QED
    BY <1>4, <2>1, <2>2 DEF PromInv, ActiveIsPointer
<1> QED
  BY <1>6, <1>7, <1>8, <1>9, <1>10, <1>11 DEF PromInv, RowInv

LEMMA FailKeeps ==
  ASSUME PromInv, NEW p \in Promotions, Fail(p), TypeOK'
  PROVE  PromInv'
<1>1. TypeOK
  BY DEF PromInv, RowInv
<1>2. PICK pl \in {"over", "to restore"} : Goto(p, pl)
  BY DEF Fail
<1>3. /\ job[p].pc = "failed" /\ job'[p].pc = pl
      /\ \A q \in Promotions : q # p => job'[q] = job[q]
      /\ \A q \in Promotions : /\ job'[q].to = job[q].to
                               /\ job'[q].prev = job[q].prev
                               /\ job'[q].active = job[q].active
  BY <1>1, <1>2, MoveFacts DEF Fail, At
<1>4. /\ UNCHANGED <<pointer, overlap, status>>
      /\ hist'[p].status = "failed"
      /\ \A q \in Promotions : hist'[q].to = hist[q].to
      /\ \A q \in Promotions : q # p => hist'[q] = hist[q]
  BY <1>1 DEF Fail, TypeOK, HistoryRows, others
<1>5. hist[p].status = "pending"
  BY <1>3 DEF PromInv, RowInv, RowPlaces, Working
<1>6. RowPlaces'
  BY <1>2, <1>3, <1>4 DEF PromInv, RowInv, RowPlaces, Early, Working
<1>7. ReadRows'
  BY <1>2, <1>3, <1>4, <1>5 DEF PromInv, RowInv, ReadRows, At
<1>8. RowTargets'
  BY <1>2, <1>3, <1>4 DEF PromInv, RowTargets, Alive, Exists, Working
<1>9. ActiveRows' = ActiveRows
  BY <1>4, <1>5 DEF ActiveRows
<1>10. Alone'
  <2>1. \A q \in Promotions : job'[q].pc \in UnderWay => job[q].pc \in UnderWay
    BY <1>3 DEF UnderWay
  <2> QED
    BY <1>2, <1>3, <1>4, <1>9, <2>1, AloneKeeps
<1>11. (pointer = Alive(pointer))'
  BY <1>4 DEF PromInv, Alive, Exists
<1>12. ActiveIsPointer'
  BY <1>4, <1>9 DEF PromInv, ActiveIsPointer, ActiveRows
<1> QED
  BY <1>6, <1>7, <1>8, <1>10, <1>11, <1>12 DEF PromInv, RowInv

LEMMA FlipReadKeeps ==
  ASSUME PromInv, NEW p \in Promotions, FlipRead(p), TypeOK'
  PROVE  PromInv'
<1>1. /\ job[p].pc = "to flip" /\ job'[p].pc = "flipping"
      /\ job'[p].active = ActiveRows
      /\ \A q \in Promotions : q # p => job'[q] = job[q]
      /\ job'[p].to = job[p].to
      /\ job'[p].prev = job[p].prev
  <2>1. /\ At(p, "to flip")
        /\ job' = [job EXCEPT ![p].pc = "flipping", ![p].active = ActiveRows]
    BY DEF FlipRead, ActiveRows
  <2>2. job \in [Promotions -> PromoteJobs]
    BY DEF PromInv, RowInv, TypeOK
  <2>3. job' = [job EXCEPT ![p] = [job[p] EXCEPT !.pc = "flipping",
                                                 !.active = ActiveRows]]
    BY <2>1, <2>2
  <2>4. job'[p] = [job[p] EXCEPT !.pc = "flipping", !.active = ActiveRows]
    BY <2>2, <2>3
  <2>5. job[p] \in PromoteJobs
    BY <2>2
  <2> QED
    BY <2>1, <2>2, <2>3, <2>4, <2>5 DEF At, PromoteJobs
<1>2. UNCHANGED <<pointer, hist, status, overlap>>
  BY DEF FlipRead, endpoint, others
<1>3. RowPlaces'
  BY <1>1, <1>2 DEF PromInv, RowInv, RowPlaces, Early, Working
<1>4. ReadRows'
  BY <1>1, <1>2 DEF PromInv, RowInv, ReadRows, At, ActiveRows
<1>5. RowTargets'
  <2> SUFFICES ASSUME NEW q \in Promotions, job'[q].pc \in Working
               PROVE  hist'[q].to = Alive(job[q].to)'
    BY DEF RowTargets
  <2>1. job'[q].to = job[q].to /\ job[q].pc \in Working
    BY <1>1 DEF Working
  <2> QED
    BY <1>2, <2>1 DEF PromInv, RowTargets, Alive, Exists
<1>6. Alone'
  <2>1. \A q \in Promotions : job'[q].pc \in UnderWay =>
          job[q].pc \in UnderWay /\ job'[q].prev = job[q].prev
    BY <1>1 DEF UnderWay
  <2>2. ActiveRows' = ActiveRows
    BY <1>2 DEF ActiveRows
  <2> QED
    BY <1>1, <1>2, <2>1, <2>2, AloneKeeps
<1>7. (pointer = Alive(pointer))' /\ ActiveIsPointer'
  BY <1>2 DEF PromInv, Alive, Exists, ActiveIsPointer
<1> QED
  BY <1>3, <1>4, <1>5, <1>6, <1>7 DEF PromInv, RowInv

(* The commit of a promotion that flips.  Alone, it supersedes every row    *)
(* that is active; overlapped, it may leave one behind.                     *)
LEMMA FlipKeeps ==
  ASSUME PromInv, NEW p \in Promotions, FlipCommit(p), TypeOK',
         ~(job[p].prev # job[p].to /\ ~Exists(job[p].to))
  PROVE  PromInv'
<1>1. TypeOK
  BY DEF PromInv, RowInv
<1>2. /\ Goto(p, "over") /\ UNCHANGED <<status, overlap>>
      /\ job[p].pc = "flipping"
      /\ pointer' = IF job[p].prev # job[p].to THEN job[p].to ELSE pointer
  BY DEF FlipCommit, At, endpoint, others
<1>3. /\ job'[p].pc = "over"
      /\ \A q \in Promotions : q # p => job'[q] = job[q]
  BY <1>1, <1>2, MoveFacts
<1>4. \A q \in Promotions : /\ hist'[q].status = Supersede(p, q)
                            /\ hist'[q].to = hist[q].to
  <2>1. hist' = [q \in Promotions |->
                   [hist[q] EXCEPT !.status = Supersede(p, q)]]
    BY DEF FlipCommit
  <2> QED
    BY <1>1, <2>1 DEF TypeOK, HistoryRows
<1>5. \A q \in Promotions : q \in job[p].active =>
        hist[q].status \in {"active", "superseded"}
  BY <1>2 DEF PromInv, RowInv, ReadRows, At
<1>6. RowPlaces'
  BY <1>3, <1>4, <1>5
     DEF PromInv, RowInv, RowPlaces, Early, Working, Supersede
<1>7. ReadRows'
  BY <1>3, <1>4 DEF PromInv, RowInv, ReadRows, At, Supersede
<1>8. RowTargets'
  <2> SUFFICES ASSUME NEW q \in Promotions, job'[q].pc \in Working
               PROVE  hist'[q].to = Alive(job[q].to)'
    BY DEF RowTargets
  <2>1. job'[q] = job[q]
    BY <1>3 DEF Working
  <2> QED
    BY <1>2, <1>4, <2>1 DEF PromInv, RowTargets, Alive, Exists
<1>9. hist[p].to = Alive(job[p].to)
  BY <1>2 DEF PromInv, RowTargets, Working
<1>10. (pointer = Alive(pointer))'
  BY <1>2 DEF PromInv, Alive, Exists
<1>11. ASSUME ~overlap
       PROVE  /\ \A q \in Promotions : job[q].pc \in UnderWay => q = p
              /\ pointer = Alive(job[p].prev)
              /\ job[p].active = ActiveRows
  BY <1>2, <1>11 DEF PromInv, Alone, At, ActiveRows, UnderWay
<1>12. Alone'
  BY <1>2, <1>3, <1>11 DEF Alone, UnderWay
<1>13. ActiveIsPointer'
  <2> SUFFICES ASSUME ~overlap
               PROVE  ActiveRows' = {p} /\ hist'[p].to = pointer'
    BY <1>2 DEF ActiveIsPointer, ActiveRows
  <2>1. ActiveRows' = {p}
    BY <1>4, <1>11 DEF ActiveRows, Supersede
  <2>2. hist'[p].to = pointer'
    BY <1>2, <1>4, <1>9, <1>11 DEF Alive
  <2> QED
    BY <2>1, <2>2
<1> QED
  BY <1>6, <1>7, <1>8, <1>10, <1>12, <1>13 DEF PromInv, RowInv

LEMMA WorldKeeps ==
  ASSUME PromInv, TypeOK',
         \/ \E i \in Instances : OtherJob(i)
         \/ \E i \in Instances, s \in Statuses : Moves(i, s)
         \/ UNCHANGED vars
  PROVE  PromInv'
<1>1. UNCHANGED <<pointer, job, hist, overlap>>
  BY DEF OtherJob, Moves, endpoint, vars
<1>2. \A i \in Holders : Alive(i)' = Alive(i)
  BY DEF OtherJob, Moves, Exists, Alive, Statuses, PromInv, RowInv, TypeOK,
         Holders, vars
<1>3. /\ pointer \in Holders
      /\ \A p \in Promotions :
           job[p].to \in Holders /\ job[p].prev \in Holders
  BY RefsOfRows DEF PromInv, RowInv
<1>4. RowPlaces' /\ ReadRows' /\ ActiveIsPointer'
  BY <1>1 DEF PromInv, RowInv, RowPlaces, ReadRows, ActiveIsPointer, At
<1>5. RowTargets'
  <2> SUFFICES ASSUME NEW q \in Promotions, job'[q].pc \in Working
               PROVE  hist'[q].to = Alive(job[q].to)'
    BY DEF RowTargets
  <2>1. hist[q].to = Alive(job[q].to)
    BY <1>1 DEF PromInv, RowTargets
  <2>2. Alive(job[q].to)' = Alive(job[q].to)
    BY <1>1, <1>2, <1>3 DEF Alive
  <2> QED
    BY <1>1, <2>1, <2>2
<1>6. (pointer = Alive(pointer))'
  BY <1>1, <1>2, <1>3 DEF PromInv, Alive
<1>7. Alone'
  <2> SUFFICES ASSUME ~overlap', NEW q \in Promotions, job'[q].pc \in UnderWay
               PROVE  /\ \A r \in Promotions : job'[r].pc \in UnderWay => r = q
                      /\ pointer' = Alive(job[q].prev)'
                      /\ At(q, "flipping")' => job'[q].active = ActiveRows'
    BY DEF Alone, ActiveRows
  <2>1. Alive(job[q].prev)' = Alive(job[q].prev)
    BY <1>1, <1>2, <1>3 DEF Alive
  <2> QED
    BY <1>1, <2>1 DEF PromInv, Alone, At, ActiveRows
<1> QED
  BY <1>4, <1>5, <1>6, <1>7 DEF PromInv, RowInv

(* The foreign keys follow a deletion together: pointer, rows, and what     *)
(* the objects of a job still refer to.                                     *)
LEMMA DeleteKeeps ==
  ASSUME PromInv, NEW i \in Instances, Delete(i), TypeOK'
  PROVE  PromInv'
<1> DEFINE without(h) == IF h = i THEN Nobody ELSE h
<1>1. TypeOK
  BY DEF PromInv, RowInv
<1>2. /\ UNCHANGED <<job, overlap>>
      /\ pointer' = without(pointer)
      /\ \A p \in Promotions : /\ hist'[p].status = hist[p].status
                               /\ hist'[p].to = without(hist[p].to)
  BY <1>1 DEF Delete, TypeOK, HistoryRows
<1>3. \A k \in Holders : Exists(k)' <=> Exists(k) /\ k # i
  BY <1>1 DEF Delete, Exists, TypeOK, Holders
<1>4. \A k \in Holders : Alive(k)' = without(Alive(k))
  BY <1>3 DEF Alive
<1>5. /\ pointer \in Holders
      /\ \A p \in Promotions :
           job[p].to \in Holders /\ job[p].prev \in Holders
  BY <1>1, RefsOfRows
<1>6. RowPlaces' /\ ReadRows'
  BY <1>2 DEF PromInv, RowInv, RowPlaces, ReadRows, At
<1>7. RowTargets'
  <2> SUFFICES ASSUME NEW q \in Promotions, job'[q].pc \in Working
               PROVE  hist'[q].to = Alive(job[q].to)'
    BY DEF RowTargets
  <2>1. hist[q].to = Alive(job[q].to)
    BY <1>2 DEF PromInv, RowTargets
  <2>2. Alive(job[q].to)' = without(Alive(job[q].to))
    BY <1>2, <1>4, <1>5 DEF Alive
  <2> QED
    BY <1>2, <2>1, <2>2
<1>8. (pointer = Alive(pointer))'
  <2>1. pointer' \in Holders
    BY DEF TypeOK
  <2>2. pointer' # Nobody =>
          Exists(pointer) /\ pointer' = pointer /\ pointer # i
    BY <1>2 DEF PromInv, Alive
  <2> QED
    BY <1>3, <1>5, <2>1, <2>2 DEF Alive, Exists
<1>9. ActiveRows' = ActiveRows
  BY <1>2 DEF ActiveRows
<1>10. Alone'
  <2> SUFFICES ASSUME ~overlap', NEW q \in Promotions, job'[q].pc \in UnderWay
               PROVE  /\ \A r \in Promotions : job'[r].pc \in UnderWay => r = q
                      /\ pointer' = Alive(job[q].prev)'
                      /\ At(q, "flipping")' => job'[q].active = ActiveRows'
    BY DEF Alone, ActiveRows
  <2>1. /\ \A r \in Promotions : job[r].pc \in UnderWay => r = q
        /\ pointer = Alive(job[q].prev)
        /\ At(q, "flipping") => job[q].active = ActiveRows
    BY <1>2 DEF PromInv, Alone, ActiveRows
  <2>2. Alive(job[q].prev)' = without(Alive(job[q].prev))
    BY <1>2, <1>4, <1>5 DEF Alive
  <2> QED
    BY <1>2, <1>9, <2>1, <2>2 DEF At
<1>11. ActiveIsPointer'
  <2> SUFFICES ASSUME ~overlap
               PROVE  /\ \A q \in ActiveRows :
                           ActiveRows = {q} /\ hist'[q].to = pointer'
                      /\ pointer' # Nobody => ActiveRows # {}
    BY <1>2, <1>9 DEF ActiveIsPointer, ActiveRows
  <2>1. /\ \A q \in ActiveRows : ActiveRows = {q} /\ hist[q].to = pointer
        /\ pointer # Nobody => ActiveRows # {}
    BY DEF PromInv, ActiveIsPointer, ActiveRows
  <2>2. ActiveRows \subseteq Promotions
    BY DEF ActiveRows
  <2> QED
    BY <1>2, <2>1, <2>2
<1> QED
  BY <1>6, <1>7, <1>8, <1>10, <1>11 DEF PromInv, RowInv

LEMMA CrashKeeps ==
  ASSUME PromInv, Crash, TypeOK'
  PROVE  PromInv'
<1>1. UNCHANGED <<pointer, hist, overlap, status>>
  BY DEF Crash, endpoint
<1>2. \A p \in Promotions :
        \/ job'[p].pc = "cut"
        \/ job'[p] = job[p] /\ job[p].pc \notin UnderWay \union {"queued"}
  BY DEF Crash, PromInv, RowInv, TypeOK, PromoteJobs
<1>3. \A p \in Promotions : job'[p].pc \notin UnderWay
  BY <1>2 DEF UnderWay
<1>4. RowPlaces'
  BY <1>1, <1>2 DEF PromInv, RowInv, RowPlaces, Early, Working, UnderWay
<1>5. ReadRows' /\ RowTargets' /\ Alone'
  BY <1>3 DEF ReadRows, RowTargets, Alone, At, UnderWay, Working
<1>6. (pointer = Alive(pointer))' /\ ActiveIsPointer'
  BY <1>1 DEF PromInv, Alive, Exists, ActiveIsPointer
<1> QED
  BY <1>4, <1>5, <1>6 DEF PromInv, RowInv

LEMMA PromStep == PromInv /\ [Next]_vars => PromInv'
<1> SUFFICES ASSUME PromInv, [Next]_vars PROVE PromInv'
  OBVIOUS
<1>1. TypeOK /\ TypeOK'
  BY TypeStep DEF PromInv, RowInv
<1>2. ASSUME NEW p \in Promotions, FlipCommit(p) PROVE PromInv'
  <2>1. CASE job[p].prev # job[p].to /\ ~Exists(job[p].to)
    <3>1. Goto(p, "lost") /\ UNCHANGED <<pointer, hist, overlap, status>>
      BY <1>2, <2>1 DEF FlipCommit, endpoint, others
    <3>2. Quiet(p, "lost")
      BY <3>1 DEF Quiet, Early, Working, Exists
    <3> QED
      BY <1>1, <3>2, QuietKeeps
  <2>2. CASE ~(job[p].prev # job[p].to /\ ~Exists(job[p].to))
    BY <1>1, <1>2, <2>2, FlipKeeps
  <2> QED
    BY <2>1, <2>2
<1>3. ASSUME NEW p \in Promotions,
             \/ Refuse(p) \/ Cancel(p) \/ RecordFails(p)
             \/ StopBegins(p) \/ StopEnds(p) \/ StartBegins(p)
             \/ StartEnds(p) \/ RestoreBegins(p) \/ RestoreEnds(p)
      PROVE  PromInv'
  <2>1. \E pl : Quiet(p, pl)
    BY <1>1, <1>3, EndQuiet, NodeWorkQuiet
  <2> QED
    BY <1>1, <2>1, QuietKeeps
<1> QED
  BY <1>1, <1>2, <1>3, RequestKeeps, LoadKeeps, AdmitKeeps, FailKeeps,
     FlipReadKeeps, WorldKeeps, DeleteKeeps, CrashKeeps DEF Next, Rollback

-----------------------------------------------------------------------------
LEMMA PromAlways == Spec => []PromInv
BY PromInit, PromStep, PTL DEF Spec

(* Every reachable state is of the right type.                              *)
THEOREM PromotionTypes == Spec => []TypeOK
<1>1. PromInv => TypeOK
  BY DEF PromInv, RowInv
<1> QED
  BY <1>1, PromAlways, PTL

(* models.py:705-713: without overlap, an endpoint that is served has one   *)
(* active history row, and it is the one that put the pointer where it is.  *)
THEOREM HistoryAgrees == Spec => []ActiveIsPointer
<1>1. PromInv => ActiveIsPointer
  BY DEF PromInv
<1> QED
  BY <1>1, PromAlways, PTL

(* A job that lost a row lost one of the two it works on, for good.         *)
Gone(p) == \E i \in {job[p].to, job[p].prev} \ {Nobody} : ~Exists(i)

LostRows ==
  \A p \in Promotions :
    /\ job[p].pc # "none" => job[p].to \in Instances
    /\ At(p, "lost") => Gone(p)

LEMMA LostInit == Init => LostRows
BY DEF Init, NoJob, LostRows, At

(* Nothing brings a deleted row back.                                       *)
LEMMA DeletedStays ==
  ASSUME TypeOK, [Next]_vars, NEW i \in Instances, status[i] = "deleted"
  PROVE  status'[i] = "deleted"
<1> USE DEF TypeOK
<1>1. ASSUME NEW p \in Promotions, NEW k, NEW shown, NEW from, NEW to,
             NEW fallback, Claim(p, k, shown, from, to, fallback)
      PROVE  status'[i] = "deleted"
  BY <1>1 DEF Claim, Exists
<1>2. ASSUME NEW p \in Promotions, NEW k, NEW shown, NEW from, NEW to,
             Release(p, k, shown, from, to)
      PROVE  status'[i] = "deleted"
  BY <1>2 DEF Release, Exists
<1>3. ASSUME NEW p \in Promotions,
             \/ StopBegins(p) \/ StopEnds(p) \/ StartBegins(p)
             \/ StartEnds(p) \/ RestoreBegins(p) \/ RestoreEnds(p)
      PROVE  status'[i] = "deleted"
  BY <1>1, <1>2, <1>3 DEF StopBegins, StopEnds, StartBegins, StartEnds,
                          RestoreBegins, RestoreEnds, WriteFails
<1>4. ASSUME NEW p \in Promotions,
             \/ (\E k \in Instances : Request(p, k)) \/ Rollback(p)
             \/ Load(p) \/ Refuse(p) \/ Admit(p) \/ Fail(p)
             \/ RecordFails(p) \/ FlipRead(p) \/ FlipCommit(p) \/ Cancel(p)
      PROVE  status' = status
  BY <1>4 DEF Request, Rollback, Load, Refuse, Admit, Fail, RecordFails,
              FlipRead, FlipCommit, Cancel
<1>5. ASSUME NEW k \in Instances,
             OtherJob(k) \/ Delete(k) \/ (\E s \in Statuses : Moves(k, s))
      PROVE  status'[i] = "deleted"
  BY <1>5 DEF OtherJob, Delete, Moves, Exists
<1>6. CASE Crash \/ UNCHANGED vars
  BY <1>6 DEF Crash, vars
<1> QED
  BY <1>3, <1>4, <1>5, <1>6 DEF Next

(* A job keeps its target and what it loaded when it moves.                 *)
MovesOn(p) == \E pl : Goto(p, pl) /\ (pl = "lost" => Gone(p))

LEMMA WriteFailsMoves ==
  ASSUME NEW p \in Promotions, NEW i \in {job[p].to, job[p].prev} \ {Nobody},
         NEW from, WriteFails(p, i, from)
  PROVE  MovesOn(p)
<1>1. CASE Exists(i)
  <2>1. Goto(p, "refused")
    BY <1>1 DEF WriteFails
  <2> QED
    BY <2>1 DEF MovesOn
<1>2. CASE ~Exists(i)
  <2>1. Goto(p, "lost") /\ Gone(p)
    BY <1>2 DEF WriteFails, Gone
  <2> QED
    BY <2>1 DEF MovesOn
<1> QED
  BY <1>1, <1>2

LEMMA PlainMoves ==
  ASSUME NEW p \in Promotions, NEW pl, pl # "lost", Goto(p, pl)
  PROVE  MovesOn(p)
BY DEF MovesOn

LEMMA WorkMovesOn ==
  ASSUME LostRows, NEW p \in Promotions,
         \/ Refuse(p) \/ Cancel(p) \/ RecordFails(p) \/ Admit(p) \/ Fail(p)
         \/ StopBegins(p) \/ StopEnds(p) \/ StartBegins(p)
         \/ StartEnds(p) \/ RestoreBegins(p) \/ RestoreEnds(p)
         \/ FlipCommit(p)
  PROVE  MovesOn(p) /\ job[p].pc # "none"
<1>1. CASE StartBegins(p) \/ StartEnds(p) \/ FlipCommit(p)
  <2>1. job[p].pc # "none"
    BY <1>1 DEF StartBegins, StartEnds, FlipCommit, Claim, Release,
                WriteFails, At
  <2>2. job[p].to # Nobody
    BY <2>1, PromotionAssumption DEF LostRows
  <2>3. CASE \E from : WriteFails(p, job[p].to, from)
    BY <2>1, <2>2, <2>3, WriteFailsMoves
  <2>4. CASE \E pl \in {"starting", "failed", "to flip", "over"} : Goto(p, pl)
    BY <2>1, <2>4, PlainMoves
  <2>5. CASE Goto(p, "lost") /\ ~Exists(job[p].to)
    BY <2>1, <2>2, <2>5 DEF MovesOn, Gone
  <2> QED
    BY <1>1, <2>3, <2>4, <2>5
       DEF StartBegins, StartEnds, FlipCommit, Claim, Release
<1>2. CASE StopBegins(p) \/ StopEnds(p)
  <2>1. job[p].prev # Nobody /\ job[p].pc # "none"
    BY <1>2 DEF StopBegins, StopEnds, Claim, Release, WriteFails, At
  <2>2. CASE \E from : WriteFails(p, job[p].prev, from)
    BY <2>1, <2>2, WriteFailsMoves
  <2>3. CASE \E pl \in {"stopping", "failed", "to start"} : Goto(p, pl)
    BY <2>1, <2>3, PlainMoves
  <2> QED
    BY <1>2, <2>2, <2>3 DEF StopBegins, StopEnds, Claim, Release
<1>3. CASE RestoreBegins(p) \/ RestoreEnds(p)
  <2>1. PICK pl \in {"restoring", "over"} : Goto(p, pl)
    BY <1>3 DEF RestoreBegins, RestoreEnds, Claim, Release
  <2>2. job[p].pc # "none"
    BY <1>3 DEF RestoreBegins, RestoreEnds, Claim, Release, At
  <2> QED
    BY <2>1, <2>2 DEF MovesOn
<1>4. CASE \/ Refuse(p) \/ Cancel(p) \/ RecordFails(p) \/ Admit(p)
           \/ Fail(p)
  <2>1. PICK pl \in {"over", "cut", "refused", "to stop", "to start",
                     "to restore"} : Goto(p, pl)
    BY <1>4 DEF Refuse, Cancel, RecordFails, Admit, Fail
  <2>2. job[p].pc # "none"
    BY <1>4 DEF Refuse, Cancel, RecordFails, Admit, Fail, At, UnderWay
  <2> QED
    BY <2>1, <2>2 DEF MovesOn
<1> QED
  BY <1>1, <1>2, <1>3, <1>4

(* The jobs of a step: the same, moved on, or begun.                        *)
SameOrMoved ==
  \A q \in Promotions :
    \/ /\ job'[q].to = job[q].to /\ job'[q].prev = job[q].prev
       /\ job[q].pc = "none" => job'[q].pc = "none"
       /\ job'[q].pc = "lost" => job[q].pc = "lost" \/ Gone(q)
    \/ job'[q].to \in Instances /\ job'[q].pc # "lost"

LEMMA StepMoves ==
  ASSUME TypeOK, LostRows, [Next]_vars
  PROVE  SameOrMoved
<1>0. job \in [Promotions -> PromoteJobs]
  BY DEF TypeOK
<1>1. ASSUME NEW p \in Promotions, MovesOn(p) /\ job[p].pc # "none"
      PROVE  SameOrMoved
  <2>1. PICK pl : Goto(p, pl) /\ (pl = "lost" => Gone(p))
    BY <1>1 DEF MovesOn
  <2>2. /\ job'[p].pc = pl
        /\ \A q \in Promotions : q # p => job'[q] = job[q]
        /\ \A q \in Promotions : /\ job'[q].to = job[q].to
                                 /\ job'[q].prev = job[q].prev
                                 /\ job'[q].active = job[q].active
    BY <2>1, MoveFacts
  <2> QED
    BY <1>1, <2>1, <2>2 DEF SameOrMoved
<1>2. ASSUME NEW p \in Promotions, NEW i \in Instances, Request(p, i)
      PROVE  SameOrMoved
  <2>1. /\ job'[p].to = i /\ job'[p].pc = "queued"
        /\ \A q \in Promotions : q # p => job'[q] = job[q]
    BY <1>0, <1>2 DEF Request, PromoteJobs
  <2> QED
    BY <2>1 DEF SameOrMoved
<1>3. ASSUME NEW p \in Promotions, Load(p) PROVE SameOrMoved
  <2>1. /\ job'[p].pc \in {"loaded", "over"}
        /\ job'[p].to = job[p].to /\ job[p].pc = "queued"
        /\ \A q \in Promotions : q # p => job'[q] = job[q]
    BY <1>0, <1>3 DEF Load, Goto, At, PromoteJobs
  <2>2. job'[p].to \in Instances
    BY <2>1 DEF LostRows
  <2> QED
    BY <2>1, <2>2 DEF SameOrMoved
<1>4. ASSUME NEW p \in Promotions, FlipRead(p) PROVE SameOrMoved
  <2>1. PICK j \in {[job[p] EXCEPT !.pc = "flipping", !.active = ActiveRows]} :
          job' = [job EXCEPT ![p] = j]
    BY <1>0, <1>4 DEF FlipRead, ActiveRows
  <2>2. j.to = job[p].to /\ j.prev = job[p].prev /\ j.pc = "flipping"
    BY <1>0, <2>1 DEF PromoteJobs
  <2>3. job[p].pc # "none"
    BY <1>4 DEF FlipRead, At
  <2> QED
    BY <1>0, <2>1, <2>2, <2>3 DEF SameOrMoved
<1>5. CASE Crash
  <2>1. ASSUME NEW q \in Promotions
        PROVE  \/ job'[q] = job[q]
               \/ /\ job'[q].to = job[q].to /\ job'[q].pc = "cut"
                  /\ job[q].pc # "none"
    BY <1>0, <1>5 DEF Crash, PromoteJobs, UnderWay
  <2>2. \A q \in Promotions : job[q].pc # "none" => job[q].to \in Instances
    BY DEF LostRows
  <2> QED
    BY <2>1, <2>2 DEF SameOrMoved
<1>6. CASE \/ UNCHANGED vars
           \/ \E i \in Instances :
                OtherJob(i) \/ Delete(i) \/ (\E s \in Statuses : Moves(i, s))
  <2>1. job' = job
    BY <1>6 DEF vars, OtherJob, Delete, Moves
  <2> QED
    BY <2>1 DEF SameOrMoved
<1> QED
  BY <1>1, <1>2, <1>3, <1>4, <1>5, <1>6, WorkMovesOn DEF Next, Rollback

LEMMA LostStep == TypeOK /\ LostRows /\ [Next]_vars => LostRows'
<1> SUFFICES ASSUME TypeOK, LostRows, [Next]_vars, NEW q \in Promotions
             PROVE  /\ job'[q].pc # "none" => job'[q].to \in Instances
                    /\ At(q, "lost")' => Gone(q)'
  BY DEF LostRows
<1>1. SameOrMoved
  BY StepMoves
<1>2. job'[q].pc # "none" => job'[q].to \in Instances
  BY <1>1 DEF SameOrMoved, LostRows
<1>3. ASSUME job'[q].pc = "lost" PROVE Gone(q)'
  <2>1. /\ job'[q].to = job[q].to /\ job'[q].prev = job[q].prev
        /\ Gone(q)
    BY <1>1, <1>3 DEF SameOrMoved, LostRows, At
  <2>2. PICK i \in {job[q].to, job[q].prev} \ {Nobody} : ~Exists(i)
    BY <2>1 DEF Gone
  <2>3. i \in Instances
    BY <2>2, RefsOfRows DEF Holders
  <2>4. status'[i] = "deleted"
    BY <2>2, <2>3, DeletedStays DEF Exists
  <2> QED
    BY <2>1, <2>2, <2>4 DEF Gone, Exists
<1> QED
  BY <1>2, <1>3 DEF At

(* A row is pending only while its job is at work, or because the job was   *)
(* cut, the database refused a write of it, or an instance it worked on was *)
(* deleted under it.                                                        *)
THEOREM PendingExplained == Spec => []PendingHasCause
<1>1. PromInv /\ LostRows => PendingHasCause
  <2> SUFFICES ASSUME PromInv, LostRows, NEW p \in Promotions,
                      hist[p].status = "pending",
                      job[p].pc \notin UnderWay \union {"cut", "refused"}
               PROVE  At(p, "lost") /\ Gone(p)
    BY DEF PendingHasCause, Gone, At
  <2>1. job[p].pc \in Places
    BY DEF PromInv, RowInv, TypeOK, PromoteJobs
  <2>2. job[p].pc = "lost"
    BY <2>1 DEF PromInv, RowInv, RowPlaces, Places, UnderWay, Early, Working
  <2> QED
    BY <2>2 DEF LostRows, At
<1>2. PromInv /\ LostRows /\ [Next]_vars => LostRows'
  BY LostStep DEF PromInv, RowInv
<1> QED
  BY <1>1, <1>2, LostInit, PromInit, PromStep, PTL DEF Spec
-----------------------------------------------------------------------------
(* Every history row is in the list once, and refers to where its job came  *)
(* from as the foreign keys have kept it.                                   *)
Listed ==
  /\ \A p \in Promotions :
       hist[p].status # "none" <=> \E k \in DOMAIN started : started[k] = p
  /\ \A j, k \in DOMAIN started : started[j] = started[k] => j = k

RowOrigins ==
  \A p \in Promotions :
    job[p].pc \in Working => hist[p].from = Alive(job[p].prev)

(* The active row of a pointer that was moved says where it was before.     *)
CameFrom ==
  ~overlap => \A p \in ActiveRows :
                hist[p].from = hist[p].to \/ hist[p].from = before

OriginInv == Listed /\ RowOrigins /\ CameFrom

(* A step that leaves the endpoint and the references alone.                *)
Aside ==
  /\ UNCHANGED endpoint
  /\ overlap => overlap'
  /\ \A i \in Holders : Exists(i)' <=> Exists(i)
  /\ \A p \in Promotions : job'[p].pc \in Working =>
       job[p].pc \in Working /\ job'[p].prev = job[p].prev

LEMMA AsideKeeps ==
  ASSUME TypeOK, OriginInv, Aside
  PROVE  OriginInv'
<1>1. UNCHANGED <<hist, started, before, pointer>>
  BY DEF Aside, endpoint
<1>2. Listed'
  BY <1>1 DEF Listed, OriginInv
<1>3. RowOrigins'
  <2> SUFFICES ASSUME NEW p \in Promotions, job'[p].pc \in Working
               PROVE  hist'[p].from = Alive(job[p].prev)'
    BY DEF RowOrigins
  <2>1. job[p].pc \in Working /\ job'[p].prev = job[p].prev
    BY DEF Aside
  <2>2. hist[p].from = Alive(job[p].prev)
    BY <2>1 DEF OriginInv, RowOrigins
  <2>3. Alive(job[p].prev)' = Alive(job[p].prev)
    <3>1. job[p].prev \in Holders
      BY RefsOfRows
    <3> QED
      BY <2>1, <3>1 DEF Aside, Alive
  <2> QED
    BY <1>1, <2>2, <2>3
<1>4. CameFrom'
  BY <1>1 DEF Aside, OriginInv, CameFrom, ActiveRows
<1> QED
  BY <1>2, <1>3, <1>4 DEF OriginInv

LEMMA JobsAside ==
  ASSUME PromInv, NEW p \in Promotions,
         \/ Refuse(p) \/ Cancel(p) \/ RecordFails(p)
         \/ StopBegins(p) \/ StopEnds(p) \/ StartBegins(p)
         \/ StartEnds(p) \/ RestoreBegins(p) \/ RestoreEnds(p)
  PROVE  Aside
<1>1. TypeOK
  BY DEF PromInv, RowInv
<1>2. PICK pl : Quiet(p, pl)
  BY <1>1, EndQuiet, NodeWorkQuiet
<1>3. UNCHANGED endpoint
  BY DEF Refuse, Cancel, RecordFails, StopBegins, StopEnds, StartBegins,
         StartEnds, RestoreBegins, RestoreEnds, Claim, Release, WriteFails
<1>4. Goto(p, pl)
  BY <1>2 DEF Quiet
<1>5. /\ job'[p].pc = pl
      /\ \A q \in Promotions : q # p => job'[q] = job[q]
      /\ \A q \in Promotions : job'[q].prev = job[q].prev
  BY <1>1, <1>4, MoveFacts
<1> QED
  BY <1>2, <1>3, <1>5 DEF Quiet, Aside

LEMMA LoadFacts ==
  ASSUME PromInv, NEW p \in Promotions, Load(p)
  PROVE  /\ job[p].pc = "queued" /\ job'[p].pc \in {"loaded", "over"}
         /\ job'[p].pc = "loaded" => job'[p].prev = pointer
         /\ \A q \in Promotions : q # p => job'[q] = job[q]
BY DEF Load, Goto, At, PromInv, RowInv, TypeOK, PromoteJobs

LEMMA OthersAside ==
  ASSUME PromInv,
         \/ \E p \in Promotions, i \in Instances : Request(p, i)
         \/ \E p \in Promotions : Load(p) \/ FlipRead(p)
         \/ \E i \in Instances : OtherJob(i)
         \/ \E i \in Instances, s \in Statuses : Moves(i, s)
         \/ Crash \/ UNCHANGED vars
  PROVE  Aside
<1>0. TypeOK /\ job \in [Promotions -> PromoteJobs]
  BY DEF PromInv, RowInv, TypeOK
<1>1. ASSUME NEW p \in Promotions, NEW i \in Instances, Request(p, i)
      PROVE  Aside
  <2>1. /\ job'[p].pc = "queued"
        /\ \A q \in Promotions : q # p => job'[q] = job[q]
    BY <1>0, <1>1 DEF Request, PromoteJobs
  <2> QED
    BY <1>1, <2>1 DEF Aside, Request, Exists, others, Working
<1>2. ASSUME NEW p \in Promotions, Load(p) PROVE Aside
  <2>1. /\ job'[p].pc \in {"loaded", "over"}
        /\ \A q \in Promotions : q # p => job'[q] = job[q]
    BY <1>2, LoadFacts
  <2> QED
    BY <1>2, <2>1 DEF Aside, Load, Exists, Working
<1>3. ASSUME NEW p \in Promotions, FlipRead(p) PROVE Aside
  <2>1. PICK j \in {[job[p] EXCEPT !.pc = "flipping", !.active = ActiveRows]} :
          job' = [job EXCEPT ![p] = j]
    BY <1>0, <1>3 DEF FlipRead, ActiveRows
  <2>2. j.prev = job[p].prev
    BY <1>0, <2>1 DEF PromoteJobs
  <2>3. /\ \A q \in Promotions : q # p => job'[q] = job[q]
        /\ job'[p].prev = job[p].prev /\ job[p].pc \in Working
    BY <1>0, <1>3, <2>1, <2>2 DEF FlipRead, At, Working
  <2> QED
    BY <1>3, <2>3 DEF Aside, FlipRead, Exists, others
<1>4. ASSUME NEW i \in Instances, OtherJob(i) PROVE Aside
  BY <1>4 DEF Aside, OtherJob, Exists
<1>5. ASSUME NEW i \in Instances, NEW s \in Statuses, Moves(i, s) PROVE Aside
  BY <1>0, <1>5 DEF Aside, Moves, Exists, TypeOK, Statuses, Holders
<1>6. CASE Crash
  <2>1. \A q \in Promotions :
          \/ job'[q].pc = "cut"
          \/ job'[q] = job[q]
    BY <1>0, <1>6 DEF Crash, PromoteJobs
  <2> QED
    BY <1>6, <2>1 DEF Crash, Aside, Exists, Working
<1>7. CASE UNCHANGED vars
  BY <1>7 DEF vars, Aside, Exists, endpoint
<1> QED
  BY <1>1, <1>2, <1>3, <1>4, <1>5, <1>6, <1>7

(* A list with one more element at a place of its own.                      *)
OneMore(t, s, e) ==
  \E m : /\ m \notin DOMAIN s /\ DOMAIN t = DOMAIN s \union {m}
         /\ t[m] = e /\ \A k \in DOMAIN s : t[k] = s[k]

LEMMA AppendOnce ==
  ASSUME NEW S, NEW s \in Seq(S), NEW e \in S
  PROVE  OneMore(Append(s, e), s, e)
<1>1. Len(s) \in Nat /\ DOMAIN s = 1..Len(s)
  BY LenProperties
<1>2. /\ Append(s, e) \in Seq(S)
      /\ Len(Append(s, e)) = Len(s) + 1
      /\ Append(s, e)[Len(s) + 1] = e
      /\ \A k \in 1..Len(s) : Append(s, e)[k] = s[k]
  BY AppendProperties
<1>3. DOMAIN Append(s, e) = 1..Len(Append(s, e))
  BY <1>2, LenProperties
<1>4. /\ Len(s) + 1 \notin 1..Len(s)
      /\ 1..(Len(s) + 1) = 1..Len(s) \union {Len(s) + 1}
  BY <1>1
<1> QED
  BY <1>1, <1>2, <1>3, <1>4 DEF OneMore

LEMMA AdmitOrigin ==
  ASSUME PromInv, OriginInv, NEW p \in Promotions, Admit(p)
  PROVE  OriginInv'
<1>0. TypeOK /\ started \in Seq(Promotions) /\ hist \in [Promotions -> HistoryRows]
  BY DEF PromInv, RowInv, TypeOK
<1>2. PICK pl \in {"to stop", "to start"} : Goto(p, pl)
  BY DEF Admit
<1>3. /\ job[p].pc = "loaded" /\ job'[p].pc = pl
      /\ \A q \in Promotions : q # p => job'[q] = job[q]
      /\ \A q \in Promotions : job'[q].prev = job[q].prev
  BY <1>0, <1>2, MoveFacts DEF Admit, At
<1>4. /\ UNCHANGED <<before, overlap, status>>
      /\ job[p].prev # Nobody => Exists(job[p].prev)
      /\ hist'[p].status = "pending" /\ hist'[p].from = job[p].prev
      /\ \A q \in Promotions : q # p => hist'[q] = hist[q]
      /\ started' = Append(started, p)
  BY <1>0 DEF Admit, others
<1>5. hist[p].status = "none"
  BY <1>3 DEF PromInv, RowInv, RowPlaces, Early
<1>6. Listed'
  <2>1. PICK m : /\ m \notin DOMAIN started
                 /\ DOMAIN started' = DOMAIN started \union {m}
                 /\ started'[m] = p
                 /\ \A k \in DOMAIN started : started'[k] = started[k]
    <3>1. OneMore(Append(started, p), started, p)
      BY <1>0, AppendOnce
    <3>2. OneMore(started', started, p)
      BY <1>4, <3>1
    <3> QED
      BY <3>2 DEF OneMore
  <2>2. /\ \A q \in Promotions :
             hist[q].status # "none" <=> \E k \in DOMAIN started : started[k] = q
        /\ \A j, k \in DOMAIN started : started[j] = started[k] => j = k
    BY DEF OriginInv, Listed
  <2>3. \A k \in DOMAIN started : started[k] # p
    BY <1>5, <2>2
  <2>4. ASSUME NEW q \in Promotions
        PROVE  hist'[q].status # "none" <=> \E k \in DOMAIN started' : started'[k] = q
    <3>1. CASE q = p
      BY <1>4, <2>1, <3>1
    <3>2. CASE q # p
      <4>1. (\E k \in DOMAIN started' : started'[k] = q)
              <=> \E k \in DOMAIN started : started[k] = q
        BY <2>1, <3>2
      <4> QED
        BY <1>4, <2>2, <3>2, <4>1
    <3> QED
      BY <3>1, <3>2
  <2>5. ASSUME NEW j \in DOMAIN started', NEW k \in DOMAIN started',
               started'[j] = started'[k]
        PROVE  j = k
    BY <2>1, <2>2, <2>3, <2>5
  <2> QED
    BY <2>4, <2>5 DEF Listed
<1>7. RowOrigins'
  <2> SUFFICES ASSUME NEW q \in Promotions, job'[q].pc \in Working
               PROVE  hist'[q].from = Alive(job[q].prev)'
    BY DEF RowOrigins
  <2>1. CASE q = p
    BY <1>3, <1>4, <2>1 DEF Alive, Exists
  <2>2. CASE q # p
    BY <1>3, <1>4, <2>2 DEF OriginInv, RowOrigins, Alive, Exists
  <2> QED
    BY <2>1, <2>2
<1>8. CameFrom'
  BY <1>4, <1>5 DEF OriginInv, CameFrom, ActiveRows
<1> QED
  BY <1>6, <1>7, <1>8 DEF OriginInv

LEMMA FailOrigin ==
  ASSUME PromInv, OriginInv, NEW p \in Promotions, Fail(p)
  PROVE  OriginInv'
<1>0. TypeOK /\ hist \in [Promotions -> HistoryRows]
  BY DEF PromInv, RowInv, TypeOK
<1>1. PICK pl \in {"over", "to restore"} : Goto(p, pl)
  BY DEF Fail
<1>2. /\ job[p].pc = "failed" /\ job'[p].pc = pl
      /\ \A q \in Promotions : q # p => job'[q] = job[q]
  BY <1>0, <1>1, MoveFacts DEF Fail, At
<1>3. /\ UNCHANGED <<before, overlap, status, started>>
      /\ hist'[p].status = "failed"
      /\ \A q \in Promotions : hist'[q].from = hist[q].from
      /\ \A q \in Promotions : q # p => hist'[q] = hist[q]
  BY <1>0 DEF Fail, HistoryRows, others
<1>4. hist[p].status = "pending"
  BY <1>2 DEF PromInv, RowInv, RowPlaces, Working
<1>5. Listed'
  BY <1>3, <1>4 DEF OriginInv, Listed
<1>6. RowOrigins'
  BY <1>1, <1>2, <1>3 DEF OriginInv, RowOrigins, Alive, Exists, Working
<1>7. CameFrom'
  BY <1>3, <1>4 DEF OriginInv, CameFrom, ActiveRows
<1> QED
  BY <1>5, <1>6, <1>7 DEF OriginInv

LEMMA FlipOrigin ==
  ASSUME PromInv, OriginInv, NEW p \in Promotions, FlipCommit(p),
         ~(job[p].prev # job[p].to /\ ~Exists(job[p].to))
  PROVE  OriginInv'
<1>0. TypeOK /\ hist \in [Promotions -> HistoryRows]
  BY DEF PromInv, RowInv, TypeOK
<1>1. /\ Goto(p, "over") /\ UNCHANGED <<status, overlap, started>>
      /\ job[p].pc = "flipping"
      /\ pointer' = IF job[p].prev # job[p].to THEN job[p].to ELSE pointer
      /\ before' = IF pointer' = pointer THEN before ELSE pointer
  BY DEF FlipCommit, At, endpoint, others
<1>2. /\ job'[p].pc = "over"
      /\ \A q \in Promotions : q # p => job'[q] = job[q]
  BY <1>0, <1>1, MoveFacts
<1>3. \A q \in Promotions : /\ hist'[q].status = Supersede(p, q)
                            /\ hist'[q].to = hist[q].to
                            /\ hist'[q].from = hist[q].from
  <2>1. hist' = [q \in Promotions |->
                   [hist[q] EXCEPT !.status = Supersede(p, q)]]
    BY DEF FlipCommit
  <2> QED
    BY <1>0, <2>1 DEF HistoryRows
<1>4. /\ hist[p].status = "pending"
      /\ hist[p].to = Alive(job[p].to) /\ hist[p].from = Alive(job[p].prev)
  BY <1>1 DEF PromInv, RowInv, RowPlaces, RowTargets, OriginInv, RowOrigins, Working
<1>5. \A q \in job[p].active \cap Promotions : hist[q].status \in {"active", "superseded"}
  BY <1>1 DEF PromInv, RowInv, ReadRows, At
<1>6. Listed'
  <2>1. \A q \in Promotions : hist'[q].status # "none" <=> hist[q].status # "none"
    BY <1>3, <1>4, <1>5 DEF Supersede
  <2> QED
    BY <1>1, <2>1 DEF OriginInv, Listed
<1>7. RowOrigins'
  <2> SUFFICES ASSUME NEW q \in Promotions, job'[q].pc \in Working
               PROVE  hist'[q].from = Alive(job[q].prev)'
    BY DEF RowOrigins
  <2>1. job'[q] = job[q]
    BY <1>2 DEF Working
  <2> QED
    BY <1>1, <1>3, <2>1 DEF OriginInv, RowOrigins, Alive, Exists
<1>8. CameFrom'
  <2> SUFFICES ASSUME ~overlap
               PROVE  \A q \in ActiveRows' : hist'[q].from = hist'[q].to
                                             \/ hist'[q].from = before'
    BY <1>1 DEF CameFrom
  <2>1. /\ pointer = Alive(job[p].prev) /\ job[p].active = ActiveRows
    BY <1>1 DEF PromInv, Alone, At, ActiveRows, UnderWay
  <2>2. ActiveRows' = {p}
    BY <1>3, <2>1 DEF ActiveRows, Supersede
  <2>3. hist'[p].from = pointer /\ hist'[p].to = Alive(job[p].to)
    BY <1>3, <1>4, <2>1
  <2>4. CASE job[p].prev = job[p].to
    BY <2>1, <2>2, <2>3, <2>4
  <2>5. CASE job[p].prev # job[p].to
    <3>1. pointer' = job[p].to /\ Alive(job[p].to) = job[p].to
      BY <1>1, <2>5 DEF Alive
    <3> QED
      BY <1>1, <2>2, <2>3, <3>1
  <2> QED
    BY <2>4, <2>5
<1> QED
  BY <1>6, <1>7, <1>8 DEF OriginInv

LEMMA DeleteOrigin ==
  ASSUME PromInv, OriginInv, NEW i \in Instances, Delete(i)
  PROVE  OriginInv'
<1> DEFINE without(h) == IF h = i THEN Nobody ELSE h
<1>0. TypeOK /\ hist \in [Promotions -> HistoryRows]
  BY DEF PromInv, RowInv, TypeOK
<1>1. /\ UNCHANGED <<job, overlap, started>>
      /\ before' = without(before)
      /\ \A p \in Promotions : /\ hist'[p].status = hist[p].status
                               /\ hist'[p].to = without(hist[p].to)
                               /\ hist'[p].from = without(hist[p].from)
  BY <1>0 DEF Delete, HistoryRows
<1>2. \A k \in Holders : Exists(k)' <=> Exists(k) /\ k # i
  BY <1>0 DEF Delete, Exists, TypeOK, Holders
<1>3. \A k \in Holders : Alive(k)' = without(Alive(k))
  BY <1>2 DEF Alive
<1>4. Listed'
  BY <1>1 DEF OriginInv, Listed
<1>5. RowOrigins'
  <2> SUFFICES ASSUME NEW q \in Promotions, job'[q].pc \in Working
               PROVE  hist'[q].from = Alive(job[q].prev)'
    BY DEF RowOrigins
  <2>1. hist[q].from = Alive(job[q].prev)
    BY <1>1 DEF OriginInv, RowOrigins
  <2>2. Alive(job[q].prev)' = without(Alive(job[q].prev))
    <3>1. job[q].prev \in Holders
      BY <1>0, RefsOfRows
    <3> QED
      BY <1>1, <1>3, <3>1 DEF Alive
  <2> QED
    BY <1>1, <2>1, <2>2
<1>6. CameFrom'
  BY <1>1 DEF OriginInv, CameFrom, ActiveRows
<1> QED
  BY <1>4, <1>5, <1>6 DEF OriginInv

LEMMA OriginInit == Init => OriginInv
<1> SUFFICES ASSUME Init PROVE OriginInv
  OBVIOUS
<1>1. /\ \A p \in Promotions : job[p].pc = "none" /\ hist[p].status = "none"
      /\ started = <<>>
  BY DEF Init, NoJob, NoRow
<1>2. DOMAIN started = {}
  BY <1>1
<1> QED
  BY <1>1, <1>2 DEF OriginInv, Listed, RowOrigins, CameFrom, ActiveRows, Working

LEMMA OriginStep == PromInv /\ OriginInv /\ [Next]_vars => OriginInv'
<1> SUFFICES ASSUME PromInv, OriginInv, [Next]_vars PROVE OriginInv'
  OBVIOUS
<1>1. TypeOK
  BY DEF PromInv, RowInv
<1>2. ASSUME NEW p \in Promotions, FlipCommit(p) PROVE OriginInv'
  <2>1. CASE job[p].prev # job[p].to /\ ~Exists(job[p].to)
    <3>1. Goto(p, "lost") /\ UNCHANGED <<endpoint, overlap, status>>
      BY <1>2, <2>1 DEF FlipCommit, others
    <3>2. /\ job'[p].pc = "lost"
          /\ \A q \in Promotions : q # p => job'[q] = job[q]
      BY <1>1, <3>1, MoveFacts
    <3>3. Aside
      BY <3>1, <3>2 DEF Aside, Working, Exists
    <3> QED
      BY <1>1, <3>3, AsideKeeps
  <2>2. CASE ~(job[p].prev # job[p].to /\ ~Exists(job[p].to))
    BY <1>2, <2>2, FlipOrigin
  <2> QED
    BY <2>1, <2>2
<1>3. ASSUME NEW p \in Promotions,
             \/ Refuse(p) \/ Cancel(p) \/ RecordFails(p)
             \/ StopBegins(p) \/ StopEnds(p) \/ StartBegins(p)
             \/ StartEnds(p) \/ RestoreBegins(p) \/ RestoreEnds(p)
      PROVE  OriginInv'
  BY <1>1, <1>3, JobsAside, AsideKeeps
<1>4. ASSUME \/ \E p \in Promotions, i \in Instances : Request(p, i)
             \/ \E p \in Promotions : Load(p) \/ FlipRead(p)
             \/ \E i \in Instances : OtherJob(i)
             \/ \E i \in Instances, s \in Statuses : Moves(i, s)
             \/ Crash \/ UNCHANGED vars
      PROVE  OriginInv'
  BY <1>1, <1>4, OthersAside, AsideKeeps
<1> QED
  BY <1>2, <1>3, <1>4, AdmitOrigin, FailOrigin, DeleteOrigin DEF Next, Rollback

(* services/endpoints.py:392-402: without overlap, a rollback goes to the   *)
(* instance that served before, unless the current one was promoted again.  *)
THEOREM RollbackIsBack == Spec => []RollbackGoesBack
<1>1. PromInv /\ OriginInv => RollbackGoesBack
  <2> SUFFICES ASSUME PromInv, OriginInv, ~overlap, NEW p \in Promotions,
                      hist[p].status = "active", hist[p].from # hist[p].to
               PROVE  PreviousHolder = before
    BY DEF RollbackGoesBack
  <2> DEFINE active == {k \in DOMAIN started :
                          hist[started[k]].status = "active"}
  <2>1. ActiveRows = {p} /\ hist[p].from = before
    BY DEF PromInv, ActiveIsPointer, OriginInv, CameFrom, ActiveRows
  <2>2. /\ started \in Seq(Promotions)
        /\ \A j, k \in DOMAIN started : started[j] = started[k] => j = k
    BY DEF PromInv, RowInv, TypeOK, OriginInv, Listed
  <2>3. PICK m \in DOMAIN started : started[m] = p
    BY DEF OriginInv, Listed
  <2>4. m \in Nat /\ \A k \in DOMAIN started : started[k] \in Promotions
    BY <2>2
  <2>5. active = {m}
    BY <2>1, <2>2, <2>3, <2>4 DEF ActiveRows
  <2> HIDE DEF active
  <2>6. (CHOOSE k \in active : \A j \in active : j <= k) = m
    BY <2>4, <2>5
  <2>7. PreviousHolder = hist[started[m]].from
    BY <2>5, <2>6 DEF PreviousHolder, active
  <2> QED
    BY <2>1, <2>3, <2>7
<1>2. Spec => [](PromInv /\ OriginInv)
  BY PromAlways, OriginInit, OriginStep, PTL DEF Spec
<1> QED
  BY <1>1, <1>2, PTL
=============================================================================
