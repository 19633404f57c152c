-------------------------------- MODULE Evals --------------------------------
(***************************************************************************)
(* Evaluation runs (services/evals.py, routers/evals.py): a row that keeps  *)
(* a status of its own, and the job that drives it.  A run may be deleted   *)
(* while it is driven, and an id comes free with the newest row that had    *)
(* it; the job may be cancelled; the portal may die; a write may be skipped *)
(* or fail.                                                                 *)
(***************************************************************************)
EXTENDS Naturals, FiniteSets

CONSTANTS
  EvalJobs,  \* jobs, each started by one create_eval
  MaxRuns,   \* bound on the rows present at once; ids are 1..MaxRuns
  MaxPrompts,\* bound on the measurements of a run
  MaxFaults  \* bound on lost writes, cancellations and restarts

ASSUME EvalsBounds == MaxRuns \in Nat /\ MaxPrompts \in Nat /\ MaxFaults \in Nat

VARIABLES
  run,      \* EvalRun rows: status, and what their PerfResult rows and suite say
  eval,     \* each job: its place, its run id and plan, what is left to measure
  stranded, \* history: runs whose job ended without their end being written
  mixed,    \* history: runs with a job that began with another row of that id
  lost,     \* history: runs of which a measurement was not written
  faults

evalVars == <<run, eval, stranded, mixed, lost, faults>>

RunIds   == 1..MaxRuns
Rows     == [status : {"none", "pending", "running", "success", "error"},
             answered : BOOLEAN, failed : BOOLEAN, quality : BOOLEAN]
NoRun    == [status |-> "none", answered |-> FALSE, failed |-> FALSE, quality |-> FALSE]
NewRun   == [NoRun EXCEPT !.status = "pending"]
NoEval   == [pc |-> "none", id |-> 0, suite |-> FALSE, prompts |-> 0]
AtWork   == {"queued", "resolve", "suite", "prompts", "finalize", "failing"}
Driving(r) == {j \in EvalJobs : eval[j].pc \in AtWork /\ eval[j].id = r}

EvalsTypeOK ==
  /\ run \in [RunIds -> Rows]
  /\ eval \in [EvalJobs -> [pc : AtWork \union {"none", "over"}, id : 0..MaxRuns,
                            suite : BOOLEAN, prompts : 0..MaxPrompts]]
  /\ stranded \subseteq RunIds /\ mixed \subseteq RunIds /\ lost \subseteq RunIds
  /\ faults \in 0..MaxFaults

EvalsInit ==
  /\ run = [r \in RunIds |-> NoRun] /\ eval = [j \in EvalJobs |-> NoEval]
  /\ stranded = {} /\ mixed = {} /\ lost = {} /\ faults = 0

-----------------------------------------------------------------------------
There(r) == run[r].status # "none"
LiveRun(r) == run[r].status \in {"pending", "running"}
Fault == faults < MaxFaults /\ faults' = faults + 1
History == <<stranded, mixed, lost>>

(* SQLite gives a new row the id after the greatest one present.            *)
NextId == Cardinality({r \in RunIds : \E s \in RunIds : s >= r /\ There(s)}) + 1

(* create_eval: a run measures something, and its job is started.           *)
CreateEval(j) ==
  /\ eval[j].pc = "none" /\ NextId \in RunIds
  /\ \E suite \in BOOLEAN, n \in 0..MaxPrompts :
       /\ suite \/ n > 0
       /\ eval' = [eval EXCEPT ![j] =
            [pc |-> "queued", id |-> NextId, suite |-> suite, prompts |-> n]]
  /\ run' = [run EXCEPT ![NextId] = NewRun]
  /\ stranded' = stranded \ {NextId} /\ lost' = lost \ {NextId}
  /\ mixed' = IF Driving(NextId) = {} THEN mixed \ {NextId} ELSE mixed \union {NextId}
  /\ UNCHANGED faults

(* delete_eval, at any time; the results go with the row.                   *)
DeleteEval(r) ==
  /\ There(r) /\ run' = [run EXCEPT ![r] = NoRun]
  /\ UNCHANGED <<eval, History, faults>>

Proceeds(j, place) == eval' = [eval EXCEPT ![j].pc = place]

(* The job ends here; a run that it leaves live is stranded.                *)
Over(j) ==
  /\ Proceeds(j, "over")
  /\ stranded' = IF LiveRun(eval[j].id) THEN stranded \union {eval[j].id} ELSE stranded

InTry(j) == eval[j].pc \in {"suite", "prompts"}

(* _commit: the write is made; it is skipped after six tries, and the next  *)
(* look at the expired row may raise; or the session is broken.             *)
Commit(j, row, place) ==
  LET r == eval[j].id IN
  \/ /\ There(r) /\ run' = [run EXCEPT ![r] = row] /\ Proceeds(j, place)
     /\ UNCHANGED <<stranded, faults>>
  \/ /\ There(r) /\ Fault /\ UNCHANGED run
     /\ \/ place # "over" /\ Proceeds(j, place) /\ UNCHANGED stranded
        \/ InTry(j) /\ Proceeds(j, "failing") /\ UNCHANGED stranded
        \/ Over(j)
  \/ /\ ~There(r) /\ UNCHANGED <<run, faults>> /\ Over(j)

Forgot(j, row) == lost' = IF run'[eval[j].id] = row THEN lost ELSE lost \union {eval[j].id}

(* run_eval: the row is loaded and marked running, or is not there.         *)
BeginEval(j) ==
  LET r == eval[j].id
      begun == [run[r] EXCEPT !.status = "running"] IN
  /\ eval[j].pc = "queued"
  /\ Commit(j, begun, "resolve")
  /\ UNCHANGED <<mixed, lost>>

(* _instance_endpoint, outside the try: what it raises ends the job.        *)
Resolve(j) ==
  /\ eval[j].pc = "resolve"
  /\ \/ Proceeds(j, IF eval[j].suite THEN "suite" ELSE "prompts") /\ UNCHANGED stranded
     \/ Over(j)
  /\ UNCHANGED <<run, mixed, lost, faults>>

(* _run_quality: the suite is run and its results written, or it raises.    *)
Suite(j) ==
  LET r == eval[j].id
      graded == [run[r] EXCEPT !.quality = TRUE] IN
  /\ eval[j].pc = "suite" /\ UNCHANGED mixed
  /\ \/ Commit(j, graded, "prompts") /\ Forgot(j, graded)
     \/ Proceeds(j, "failing") /\ UNCHANGED <<run, stranded, lost, faults>>

(* _run_perf: a measurement, which may be that no request was answered.     *)
Measured(j, answered) ==
  [run[eval[j].id] EXCEPT !.answered = @ \/ answered, !.failed = @ \/ ~answered]

Measure(j) ==
  /\ eval[j].pc = "prompts" /\ eval[j].prompts > 0 /\ UNCHANGED mixed
  /\ \E answered \in BOOLEAN :
       \/ /\ There(eval[j].id) /\ run' = [run EXCEPT ![eval[j].id] = Measured(j, answered)]
          /\ eval' = [eval EXCEPT ![j].prompts = @ - 1]
          /\ UNCHANGED <<stranded, lost, faults>>
       \/ /\ There(eval[j].id) /\ Fault /\ UNCHANGED run
          /\ lost' = lost \union {eval[j].id}
          /\ \/ eval' = [eval EXCEPT ![j].prompts = @ - 1] /\ UNCHANGED stranded
             \/ Proceeds(j, "failing") /\ UNCHANGED stranded
             \/ Over(j)
       \/ /\ ~There(eval[j].id) /\ Over(j) /\ UNCHANGED <<run, lost, faults>>

(* Mutant: a run whose every measurement failed is a success.               *)
BugNothingAnswered(row) == FALSE

(* _finalize: there are measurements, and every one has an error.           *)
NothingAnswered(row) == row.failed /\ ~row.answered

Finalize(j) ==
  LET r == eval[j].id
      won == [run[r] EXCEPT !.status = "success"] IN
  /\ eval[j].pc = "prompts" /\ eval[j].prompts = 0 /\ UNCHANGED <<mixed, lost>>
  /\ IF NothingAnswered(run[r])
     THEN Proceeds(j, "failing") /\ UNCHANGED <<run, stranded, faults>>
     ELSE Commit(j, won, "over")

(* Mutant: the handler re-raises and leaves the row alone.                  *)
BugFailed(row) == row

(* The except clause: the run ends in error.                                *)
Failed(row) == [row EXCEPT !.status = "error"]

FailEval(j) ==
  /\ eval[j].pc = "failing"
  /\ Commit(j, Failed(run[eval[j].id]), "over")
  /\ UNCHANGED <<mixed, lost>>

(* JobManager.cancel: CancelledError is no Exception.                       *)
CancelEval(j) ==
  /\ eval[j].pc \in AtWork /\ Fault
  /\ Over(j) /\ UNCHANGED <<run, mixed, lost>>

(* Mutant: the sweep looks at jobs only.                                    *)
BugSwept(row) == row

(* _sweep_eval_runs ends every run that is still live.                      *)
Swept(row) == IF row.status \in {"pending", "running"} THEN Failed(row) ELSE row

EvalsRestart ==
  /\ Fault
  /\ eval' = [j \in EvalJobs |-> IF eval[j].pc \in AtWork
                                 THEN [eval[j] EXCEPT !.pc = "over"] ELSE eval[j]]
  /\ run' = [r \in RunIds |-> Swept(run[r])]
  /\ stranded' = {}
  /\ UNCHANGED <<mixed, lost>>

EvalsNext ==
  \/ \E j \in EvalJobs : \/ CreateEval(j) \/ BeginEval(j) \/ Resolve(j) \/ Suite(j)
                         \/ Measure(j) \/ Finalize(j) \/ FailEval(j) \/ CancelEval(j)
  \/ \E r \in RunIds : DeleteEval(r)
  \/ EvalsRestart

EvalsSpec == EvalsInit /\ [][EvalsNext]_evalVars

-----------------------------------------------------------------------------
(* A run that is pending or running is driven by a job, unless its job was  *)
(* cancelled, found no endpoint or could not write the end; and no such run *)
(* outlives a restart (services/evals.py:378-433, services/jobs.py:190-212).*)
LiveRunDriven == \A r \in RunIds : LiveRun(r) => Driving(r) # {} \/ r \in stranded

(* A run that reads success has an answered measurement or the result of    *)
(* the suite, unless one was not written, or the job of a deleted run with  *)
(* the same id wrote to it (services/evals.py:455-463).                     *)
GreenMeansMeasured ==
  \A r \in RunIds : run[r].status = "success" =>
    run[r].answered \/ run[r].quality \/ r \in lost \/ r \in mixed

(* What an evaluation keeps: the types, a driver for every live run, and    *)
(* green runs that measured something (services/evals.py:366-470).          *)
EvalsInv == EvalsTypeOK /\ LiveRunDriven /\ GreenMeansMeasured
=============================================================================
