----------------------------- MODULE JobsProofs -----------------------------
(***************************************************************************)
(* The job manager, for any set of jobs, any number of crashes and any      *)
(* number of status writes given up: the inductive invariant of Jobs, what  *)
(* follows from it, and that the manager implements the ledger.             *)
(***************************************************************************)
EXTENDS Jobs, TLAPS

(* A bounded counter that has not reached its bound may be stepped.         *)
LEMMA StepBound ==
  ASSUME NEW n \in Nat, NEW k \in 0..n, k < n
  PROVE  k + 1 \in 0..n
OBVIOUS

(* The initial state satisfies the invariant: no row and no task exists.    *)
LEMMA InitInv == Init => Inv
BY JobsAssumption
   DEF Init, Inv, TypeOK, JobInv, Adrift, Statuses, Live, Terminal, Places,
       Fates

(* Every step of the manager preserves it: the step of one job leaves the   *)
(* others alone, and a crash or a restart touches all of them alike.        *)
LEMMA NextInv == Inv /\ [Next]_vars => Inv'
<1> SUFFICES ASSUME Inv, [Next]_vars PROVE Inv'
  OBVIOUS
<1> USE JobsAssumption
    DEF Inv, TypeOK, JobInv, Adrift, Statuses, Live, Terminal, Places, Fates,
        Goto, IsRunning
<1>1. ASSUME NEW j \in JobIds, Create(j) PROVE Inv'
  BY <1>1 DEF Create
<1>2. ASSUME NEW j \in JobIds, Launch(j) PROVE Inv'
  BY <1>2 DEF Launch
<1>3. ASSUME NEW j \in JobIds, Cancel(j) PROVE Inv'
  BY <1>3 DEF Cancel
<1>4. ASSUME NEW j \in JobIds, Begin(j) PROVE Inv'
  BY <1>4 DEF Begin
<1>5. ASSUME NEW j \in JobIds, MarkRunning(j) PROVE Inv'
  <2>1. CASE row' = [row EXCEPT ![j] = "running"] /\ UNCHANGED <<fate, lost>>
    BY <1>5, <2>1 DEF MarkRunning
  <2>2. CASE /\ lost < MaxLost /\ lost' = lost + 1
             /\ fate' = [fate EXCEPT ![j] = "write lost"]
             /\ UNCHANGED row
    <3>1. lost' \in 0..MaxLost
      BY <2>2, StepBound
    <3>2. fate' \in [JobIds -> Fates]
      BY <2>2
    <3> QED
      BY <1>5, <2>2, <3>1, <3>2 DEF MarkRunning
  <2> QED
    BY <1>5, <2>1, <2>2 DEF MarkRunning, Written
<1>6. ASSUME NEW j \in JobIds, CancelledEarly(j) PROVE Inv'
  BY <1>6 DEF CancelledEarly, PerhapsWritten
<1>7. ASSUME NEW j \in JobIds, Work(j) PROVE Inv'
  <2>1. PICK outcome \in Terminal : verdict' = [verdict EXCEPT ![j] = outcome]
    BY <1>7 DEF Work, Outcomes
  <2>2. TypeOK'
    BY <1>7, <2>1 DEF Work
  <2>3. ASSUME NEW i \in JobIds PROVE JobInv(i)'
    BY <1>7, <2>1 DEF Work
  <2> QED
    BY <2>2, <2>3
<1>8. ASSUME NEW j \in JobIds, WorkCancelled(j) PROVE Inv'
  BY <1>8 DEF WorkCancelled, PerhapsWritten
<1>9. ASSUME NEW j \in JobIds, Finish(j) PROVE Inv'
  <2>1. CASE row' = [row EXCEPT ![j] = verdict[j]] /\ UNCHANGED <<fate, lost>>
    BY <1>9, <2>1 DEF Finish
  <2>2. CASE /\ lost < MaxLost /\ lost' = lost + 1
             /\ fate' = [fate EXCEPT ![j] = "write lost"]
             /\ UNCHANGED row
    <3>1. lost' \in 0..MaxLost
      BY <2>2, StepBound
    <3>2. fate' \in [JobIds -> Fates]
      BY <2>2
    <3> QED
      BY <1>9, <2>2, <3>1, <3>2 DEF Finish
  <2> QED
    BY <1>9, <2>1, <2>2 DEF Finish, Written
<1>10. ASSUME NEW j \in JobIds, FinishCut(j) PROVE Inv'
  BY <1>10 DEF FinishCut, PerhapsWritten
<1>11. ASSUME Crash PROVE Inv'
  <2>1. TypeOK'
    <3>1. crashes' \in 0..MaxCrashes
      BY <1>11, StepBound DEF Crash
    <3>2. pc' \in [JobIds -> Places]
      BY <1>11 DEF Crash
    <3> QED
      BY <1>11, <3>1, <3>2 DEF Crash
  <2>2. ASSUME NEW i \in JobIds PROVE JobInv(i)'
    BY <1>11 DEF Crash
  <2> QED
    BY <2>1, <2>2
<1>12. ASSUME Restart PROVE Inv'
  BY <1>12 DEF Restart, Orphans
<1>13. ASSUME RestartUnswept PROVE Inv'
  <2>1. TypeOK'
    <3>1. lost' \in 0..MaxLost
      BY <1>13, StepBound DEF RestartUnswept
    <3>2. fate' \in [JobIds -> Fates]
      BY <1>13 DEF RestartUnswept
    <3> QED
      BY <1>13, <3>1, <3>2 DEF RestartUnswept
  <2>2. ASSUME NEW i \in JobIds PROVE JobInv(i)'
    BY <1>13 DEF RestartUnswept, Orphans
  <2> QED
    BY <2>1, <2>2
<1>14. ASSUME NEW j \in JobIds, WorkSwallows(j) PROVE Inv'
  BY <1>14 DEF WorkSwallows
<1>15. ASSUME UNCHANGED vars PROVE Inv'
  BY <1>15 DEF vars
<1> QED
  BY <1>1, <1>2, <1>3, <1>4, <1>5, <1>6, <1>7, <1>8, <1>9, <1>10, <1>11, <1>12,
     <1>13, <1>14, <1>15 DEF Next, TaskStep

(* Type correctness and the rest of the inductive invariant.                *)
THEOREM InvAlways == Spec => []Inv
BY InitInv, NextInv, PTL DEF Spec

(* A row adrift has a named cause, whatever crashes and cancellations come. *)
THEOREM AdriftCause == Spec => []AdriftHasCause
<1>1. Inv => AdriftHasCause
  BY DEF Inv, JobInv, AdriftHasCause
<1> QED
  BY <1>1, InvAlways, PTL

(* The per-model guard cannot overlook a job that is at work.               *)
THEOREM WorkVisible == Spec => []ActiveJobVisible
<1>1. Inv => ActiveJobVisible
  BY DEF Inv, JobInv, ActiveJobVisible, IsRunning
<1> QED
  BY <1>1, InvAlways, PTL

(* Closing some live rows, each with a terminal status, is a ledger step.   *)
LEMMA CloseStep ==
  ASSUME NEW js \in SUBSET JobIds,
         \A j \in js : row[j] \in Live,
         NEW outcome \in [js -> Terminal],
         row' = [j \in JobIds |-> IF j \in js THEN outcome[j] ELSE row[j]]
  PROVE  Ledger!LedgerNext
<1>1. Ledger!Close(js)
  BY DEF Ledger!Close, Ledger!Live, Live, Ledger!Terminal, Terminal
<1> QED
  BY <1>1 DEF Ledger!LedgerNext

(* In particular a job that closes its own live row.                        *)
LEMMA CloseOne ==
  ASSUME Inv, NEW j \in JobIds, row[j] \in Live,
         NEW status \in Terminal, row' = [row EXCEPT ![j] = status]
  PROVE  Ledger!LedgerNext
<1> DEFINE outcome == [i \in {j} |-> status]
<1>1. outcome \in [{j} -> Terminal]
  OBVIOUS
<1>2. row' = [i \in JobIds |-> IF i \in {j} THEN outcome[i] ELSE row[i]]
  BY DEF Inv, TypeOK
<1>3. {j} \in SUBSET JobIds /\ \A i \in {j} : row[i] \in Live
  OBVIOUS
<1> HIDE DEF outcome
<1> QED
  BY <1>1, <1>2, <1>3, CloseStep

(* Opening, marking and amending one row are ledger steps.                  *)
LEMMA RowStep ==
  ASSUME NEW j \in JobIds,
         \/ row[j] = "none"    /\ row' = [row EXCEPT ![j] = "pending"]
         \/ row[j] = "pending" /\ row' = [row EXCEPT ![j] = "running"]
         \/ row[j] = "success" /\ row' = [row EXCEPT ![j] = "cancelled"]
  PROVE  Ledger!LedgerNext
BY DEF Ledger!LedgerNext, Ledger!Open, Ledger!Run, Ledger!Amend

(* Every step of the manager is a ledger step or leaves the table alone.    *)
LEMMA StepLedger == Inv /\ [Next]_vars => [Ledger!LedgerNext]_row
<1> SUFFICES ASSUME Inv, [Next]_vars PROVE Ledger!LedgerNext \/ UNCHANGED row
  OBVIOUS
<1>1. ASSUME NEW j \in JobIds, Create(j) PROVE Ledger!LedgerNext
  BY <1>1, RowStep DEF Create
<1>2. ASSUME NEW j \in JobIds,
             Launch(j) \/ Cancel(j) \/ Begin(j) \/ Work(j) \/ WorkSwallows(j)
      PROVE  UNCHANGED row
  BY <1>2 DEF Launch, Cancel, Begin, Work, WorkSwallows
<1>3. ASSUME NEW j \in JobIds, MarkRunning(j) \/ CancelledEarly(j)
      PROVE  Ledger!LedgerNext \/ UNCHANGED row
  <2>1. pc[j] = "marking" => row[j] = "pending"
    BY DEF Inv, JobInv
  <2>2. \/ UNCHANGED row
        \/ row[j] = "pending" /\ row' = [row EXCEPT ![j] = "running"]
    BY <1>3, <2>1 DEF MarkRunning, CancelledEarly, Written, PerhapsWritten
  <2> QED
    BY <2>2, RowStep
<1>4. ASSUME NEW j \in JobIds, WorkCancelled(j) \/ Finish(j) \/ FinishCut(j)
      PROVE  Ledger!LedgerNext \/ UNCHANGED row
  <2>1. CASE UNCHANGED row
    BY <2>1
  <2>2. CASE ~UNCHANGED row
    <3>1. pc[j] = "closing" /\ row' = [row EXCEPT ![j] = verdict[j]]
      BY <1>4, <2>2
         DEF WorkCancelled, Finish, FinishCut, Written, PerhapsWritten
    <3>2. row[j] \in Live \/ (row[j] = "success" /\ verdict[j] = "cancelled")
      BY <3>1 DEF Inv, JobInv
    <3>3. verdict[j] \in Terminal
      BY DEF Inv, TypeOK
    <3> QED
      BY <3>1, <3>2, <3>3, CloseOne, RowStep
  <2> QED
    BY <2>1, <2>2
<1>5. ASSUME Restart PROVE Ledger!LedgerNext
  <2> DEFINE outcome == [j \in Orphans |-> "error"]
  <2>1. outcome \in [Orphans -> Terminal]
    BY DEF Terminal
  <2>2. row' = [j \in JobIds |-> IF j \in Orphans THEN outcome[j] ELSE row[j]]
    BY <1>5 DEF Restart
  <2>3. Orphans \in SUBSET JobIds /\ \A j \in Orphans : row[j] \in Live
    BY DEF Orphans
  <2> HIDE DEF outcome
  <2> QED
    BY <2>1, <2>2, <2>3, CloseStep
<1>6. ASSUME Crash \/ RestartUnswept \/ UNCHANGED vars PROVE UNCHANGED row
  BY <1>6 DEF Crash, RestartUnswept, vars
<1> QED
  BY <1>1, <1>2, <1>3, <1>4, <1>5, <1>6 DEF Next, TaskStep

(* The manager implements the ledger: no reader of the `jobs` table ever    *)
(* sees a closed job reopen, across cancellations, lost writes and crashes. *)
THEOREM JobsImplementLedger == Spec => LedgerKept
<1>1. Init => Ledger!LedgerInit
  BY DEF Init, Ledger!LedgerInit
<1> QED
  BY <1>1, StepLedger, InvAlways, PTL DEF Spec, LedgerKept, Ledger!LedgerSpec
=============================================================================
