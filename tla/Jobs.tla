-------------------------------- MODULE Jobs --------------------------------
(***************************************************************************)
(* The background-job manager (services/jobs.py, class JobManager): the     *)
(* durable row of each job, the asyncio task that drives it, the in-memory  *)
(* registry `_tasks`, cancellation at every await, status writes that are   *)
(* given up when the database stays busy, and portal restarts.              *)
(*                                                                          *)
(* One job is one `_run` coroutine.  Where it stands (pc):                  *)
(*   absent    no task exists for the id (never created, or a restart)      *)
(*   creating  jobs.start is between the row's commit and create_task       *)
(*   scheduled the task exists and has not had its first step               *)
(*   marking   awaiting the write of status "running"                       *)
(*   working   awaiting the job's own coroutine                             *)
(*   closing   awaiting the write of the verdict in _finish                 *)
(*   gone      the task has ended                                           *)
(***************************************************************************)
EXTENDS Naturals

CONSTANTS
  JobIds,       \* ids of the jobs of one run
  MaxCrashes,   \* bound on portal crashes
  MaxLost       \* bound on status writes given up by _db_write

ASSUME JobsAssumption == MaxCrashes \in Nat /\ MaxLost \in Nat

VARIABLES
  row,        \* the `jobs` table: status of each id, "none" before INSERT
  pc,         \* where each job's coroutine stands
  verdict,    \* the status _finish is writing
  registry,   \* keys of JobManager._tasks
  cancelReq,  \* tasks with a cancellation not yet delivered
  withheld,   \* history: jobs whose coroutine took the last cancellation
              \*   accepted for it and neither ended nor passed it on
  portal,     \* "up" or "down"
  fate,       \* history: why a row may be out of step with its task
  crashes,    \* portal crashes so far
  lost        \* status writes given up so far

vars == <<row, pc, verdict, registry, cancelReq, withheld, portal, fate,
          crashes, lost>>

Live     == {"pending", "running"}
Terminal == {"success", "error", "cancelled"}
Statuses == {"none"} \union Live \union Terminal
Places   == {"absent", "creating", "scheduled", "marking", "working",
             "closing", "gone"}
Fates    == {"kept", "write lost", "cancelled early", "cut short",
             "sweep failed"}

TypeOK ==
  /\ row \in [JobIds -> Statuses]
  /\ pc \in [JobIds -> Places]
  /\ verdict \in [JobIds -> Terminal]
  /\ registry \subseteq JobIds
  /\ cancelReq \subseteq registry
  /\ withheld \subseteq JobIds
  /\ portal \in {"up", "down"}
  /\ fate \in [JobIds -> Fates]
  /\ crashes \in 0..MaxCrashes
  /\ lost \in 0..MaxLost

Init ==
  /\ row = [j \in JobIds |-> "none"]
  /\ pc = [j \in JobIds |-> "absent"]
  /\ verdict = [j \in JobIds |-> "error"]
  /\ registry = {}
  /\ cancelReq = {}
  /\ withheld = {}
  /\ portal = "up"
  /\ fate = [j \in JobIds |-> "kept"]
  /\ crashes = 0
  /\ lost = 0

(* JobManager.is_running: what the routers ask before they start a job.     *)
IsRunning(j) == j \in registry

Goto(j, place) == pc' = [pc EXCEPT ![j] = place]

(* A critical _db_write: the commit goes through, or after twenty attempts  *)
(* on a busy database the write is dropped and the job goes on.             *)
Written(j, status) ==
  \/ /\ row' = [row EXCEPT ![j] = status]
     /\ UNCHANGED <<fate, lost>>
  \/ /\ lost < MaxLost
     /\ lost' = lost + 1
     /\ fate' = [fate EXCEPT ![j] = "write lost"]
     /\ UNCHANGED row

(* The same write when a cancellation arrives while it is awaited: the      *)
(* database thread may or may not have committed.                           *)
PerhapsWritten(j, status) ==
  row' \in {row, [row EXCEPT ![j] = status]}

(* JobManager.create: the row is committed as pending ...                   *)
Create(j) ==
  /\ portal = "up"
  /\ row[j] = "none" /\ pc[j] = "absent"
  /\ row' = [row EXCEPT ![j] = "pending"]
  /\ Goto(j, "creating")
  /\ UNCHANGED <<verdict, registry, cancelReq, portal, fate, crashes, lost,
                 withheld>>

(* Mutant: the task is made and nobody registers it.                        *)
BugLaunchUnregistered(j) ==
  /\ pc[j] = "creating"
  /\ Goto(j, "scheduled")
  /\ UNCHANGED <<row, verdict, registry, cancelReq, portal, fate, crashes,
                 lost, withheld>>

(* ... and JobManager.start makes the task and registers it.                *)
Launch(j) ==
  /\ pc[j] = "creating"
  /\ Goto(j, "scheduled")
  /\ registry' = registry \union {j}
  /\ UNCHANGED <<row, verdict, cancelReq, portal, fate, crashes, lost,
                 withheld>>

(* JobManager.cancel: refused unless the id is registered.                  *)
Cancel(j) ==
  /\ portal = "up"
  /\ IsRunning(j) /\ pc[j] # "gone"
  /\ cancelReq' = cancelReq \union {j}
  /\ withheld' = withheld \ {j}
  /\ UNCHANGED <<row, pc, verdict, registry, portal, fate, crashes, lost>>

(* The first step of _run.                                                  *)
Begin(j) ==
  /\ pc[j] = "scheduled" /\ j \notin cancelReq
  /\ Goto(j, "marking")
  /\ UNCHANGED <<row, verdict, registry, cancelReq, portal, fate, crashes,
                 lost, withheld>>

(* _set_status(JOB_RUNNING) returns and the job's coroutine is awaited.     *)
MarkRunning(j) ==
  /\ pc[j] = "marking" /\ j \notin cancelReq
  /\ Written(j, "running")
  /\ Goto(j, "working")
  /\ UNCHANGED <<verdict, registry, cancelReq, portal, crashes, withheld>>

(* A cancellation before the `try`: the task ends there, and neither an     *)
(* except clause nor the finally that clears the registry is reached.       *)
CancelledEarly(j) ==
  /\ j \in cancelReq
  /\ \/ pc[j] = "scheduled" /\ UNCHANGED row
     \/ pc[j] = "marking"   /\ PerhapsWritten(j, "running")
  /\ Goto(j, "gone")
  /\ cancelReq' = cancelReq \ {j}
  /\ fate' = [fate EXCEPT ![j] = "cancelled early"]
  /\ UNCHANGED <<verdict, registry, portal, crashes, lost,
                 withheld>>

(* How a coroutine may end: it returns, or raises an Exception, or passes   *)
(* on a cancellation it took before.                                        *)
Outcomes(j) ==
  {"success", "error"} \union (IF j \in withheld THEN {"cancelled"} ELSE {})

Work(j) ==
  /\ pc[j] = "working" /\ j \notin cancelReq
  /\ \E outcome \in Outcomes(j) : verdict' = [verdict EXCEPT ![j] = outcome]
  /\ Goto(j, "closing")
  /\ UNCHANGED <<row, registry, cancelReq, portal, fate, crashes, lost,
                 withheld>>

(* The job's coroutine takes the cancellation and is still at work: the     *)
(* startup log follower of a start job swallows one that meets its cleanup  *)
(* and the rest of the start goes on, with remote commands that have no     *)
(* timeout; other cleanups hold it while they wait for the node.  No        *)
(* cancellation is pending then, and nothing says that the work ends.       *)
WorkSwallows(j) ==
  /\ pc[j] = "working" /\ j \in cancelReq
  /\ cancelReq' = cancelReq \ {j}
  /\ withheld' = withheld \union {j}
  /\ UNCHANGED <<row, pc, verdict, registry, portal, fate, crashes, lost>>

(* Mutant: _run itself swallows the cancellation and awaits the work again. *)
BugCancelSwallowed(j) ==
  /\ j \in cancelReq /\ pc[j] \in {"working", "closing"}
  /\ cancelReq' = cancelReq \ {j}
  /\ Goto(j, "working")
  /\ UNCHANGED <<row, verdict, registry, portal, fate, crashes, lost,
                 withheld>>

(* A cancellation delivered inside the `try`: `except CancelledError`.      *)
WorkCancelled(j) ==
  /\ j \in cancelReq
  /\ \/ pc[j] = "working" /\ UNCHANGED row
     \/ /\ pc[j] = "closing" /\ verdict[j] = "success"
        /\ PerhapsWritten(j, "success")
  /\ verdict' = [verdict EXCEPT ![j] = "cancelled"]
  /\ Goto(j, "closing")
  /\ cancelReq' = cancelReq \ {j}
  /\ UNCHANGED <<registry, portal, fate, crashes, lost,
                 withheld>>

(* _finish returns; the finally clause drops the registration.              *)
Finish(j) ==
  /\ pc[j] = "closing" /\ j \notin cancelReq
  /\ Written(j, verdict[j])
  /\ Goto(j, "gone")
  /\ registry' = registry \ {j}
  /\ UNCHANGED <<verdict, cancelReq, portal, crashes, withheld>>

(* A cancellation inside an except clause: nothing handles it again.        *)
FinishCut(j) ==
  /\ pc[j] = "closing" /\ j \in cancelReq
  /\ verdict[j] # "success"
  /\ PerhapsWritten(j, verdict[j])
  /\ Goto(j, "gone")
  /\ registry' = registry \ {j}
  /\ cancelReq' = cancelReq \ {j}
  /\ fate' = [fate EXCEPT ![j] = "cut short"]
  /\ UNCHANGED <<verdict, portal, crashes, lost,
                 withheld>>

(* The process dies: every task and the registry go with it.                *)
Crash ==
  /\ portal = "up" /\ crashes < MaxCrashes
  /\ portal' = "down"
  /\ crashes' = crashes + 1
  /\ pc' = [j \in JobIds |-> "absent"]
  /\ registry' = {}
  /\ cancelReq' = {}
  /\ withheld' = {}
  /\ UNCHANGED <<row, verdict, fate, lost>>

(* Mutants: the sweep's status filter misses the pending rows, or is gone.  *)
BugOrphansRunningOnly == {j \in JobIds : row[j] = "running" /\ ~IsRunning(j)}
BugOrphansAnyStatus   == {j \in JobIds : row[j] # "none" /\ ~IsRunning(j)}

(* JobManager.reconcile_orphans: rows still live that no task here drives.  *)
Orphans == {j \in JobIds : row[j] \in Live /\ ~IsRunning(j)}

(* Startup: the sweep runs before the first request is served.              *)
Restart ==
  /\ portal = "down"
  /\ portal' = "up"
  /\ row' = [j \in JobIds |-> IF j \in Orphans THEN "error" ELSE row[j]]
  /\ UNCHANGED <<pc, verdict, registry, cancelReq, fate, crashes, lost,
                 withheld>>

(* main.lifespan: a sweep that raises is logged and startup goes on.        *)
RestartUnswept ==
  /\ portal = "down" /\ lost < MaxLost
  /\ portal' = "up"
  /\ lost' = lost + 1
  /\ fate' = [j \in JobIds |->
                IF j \in Orphans THEN "sweep failed" ELSE fate[j]]
  /\ UNCHANGED <<row, pc, verdict, registry, cancelReq, crashes, withheld>>

TaskStep(j) ==
  \/ Launch(j) \/ Begin(j) \/ MarkRunning(j) \/ CancelledEarly(j)
  \/ WorkCancelled(j) \/ WorkSwallows(j) \/ Finish(j) \/ FinishCut(j)

Next ==
  \/ \E j \in JobIds : Create(j) \/ Cancel(j) \/ Work(j) \/ TaskStep(j)
  \/ Crash \/ Restart \/ RestartUnswept

(* The event loop keeps stepping a task that can step, and the pod is       *)
(* restarted.  Nothing says that a job's own coroutine ever returns.        *)
Fairness ==
  /\ \A j \in JobIds : WF_vars(TaskStep(j))
  /\ WF_vars(Restart \/ RestartUnswept)

Spec == Init /\ [][Next]_vars
FairSpec == Spec /\ Fairness
-----------------------------------------------------------------------------
(* Every step a job takes is a step of the ledger a reader of the table     *)
(* relies on: no closed job reopens, and only a success is ever amended.    *)
Ledger == INSTANCE JobLedger
LedgerKept == Ledger!LedgerSpec

(* A row left saying "running" or "pending" by a portal that is up, with no *)
(* task behind it, has one of the named causes: a status write that was     *)
(* given up, a cancellation before or inside the handlers of _run, or a     *)
(* sweep that failed.  A crash at any point is not among them.              *)
Adrift(j) == portal = "up" /\ row[j] \in Live /\ pc[j] \in {"gone", "absent"}
AdriftHasCause == \A j \in JobIds : Adrift(j) => fate[j] # "kept"

(* What the per-model guard (routers/models.py, _active_file_job) relies    *)
(* on: a job whose coroutine is at work has a live row and is registered,   *)
(* so a check that looks at both cannot miss it.                            *)
ActiveJobVisible ==
  \A j \in JobIds : pc[j] = "working" => row[j] \in Live /\ IsRunning(j)

(* The inductive invariant behind the three above: where a coroutine stands *)
(* fixes what its row may say and whether the registry holds it.            *)
JobInv(j) ==
  /\ pc[j] \in {"creating", "scheduled", "marking"} => row[j] = "pending"
  /\ pc[j] = "working" => row[j] \in Live
  /\ pc[j] = "closing" =>
       row[j] \in Live \/ (row[j] = "success" /\ verdict[j] = "cancelled")
  /\ pc[j] \in {"scheduled", "marking", "working", "closing"} => j \in registry
  /\ pc[j] \in {"absent", "creating"} => j \notin registry
  /\ row[j] = "none" => pc[j] = "absent"
  /\ portal = "down" => pc[j] = "absent"
  /\ Adrift(j) => fate[j] # "kept"

Inv == TypeOK /\ \A j \in JobIds : JobInv(j)

(* A cancellation that was accepted ends the task, wherever in _run it      *)
(* catches it, unless the job's own coroutine took it and is still at work. *)
(* The manager loses none: not before the try block, not in the handlers of *)
(* a former cancellation, not while the verdict is written.                 *)
CancelTakesEffect ==
  \A j \in JobIds :
    (j \in cancelReq) ~> (pc[j] \in {"gone", "absent"} \/ j \in withheld)
=============================================================================
