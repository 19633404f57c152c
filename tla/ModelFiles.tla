----------------------------- MODULE ModelFiles -----------------------------
(***************************************************************************)
(* The files of one model on the nodes, and the registry rows that describe *)
(* them (services/models_svc.py, routers/models.py).  Download, sync and    *)
(* delete are jobs of minutes to hours that commit as they go; Stop, the    *)
(* presence refresh and the disk scan are not held back by them.  A session *)
(* writes only what differs from what it loaded.  Both tables number their  *)
(* rows by SQLite's plain rowid: an id that came free is given out again,   *)
(* and nothing stops a row from being removed under a job.  Containers and  *)
(* directories are on the nodes and outlive the portal.                     *)
(***************************************************************************)
EXTENDS Naturals, FiniteSets

CONSTANTS
  Workers,     \* nodes other than the head
  FileTasks,   \* jobs and requests at work on the model
  MaxOps,      \* bound on requests, and on commits of other models' jobs
  MaxRows,     \* the ids the model's row may have in a run
  MaxCuts      \* bound on portal restarts

HeadNode == "head"
ASSUME FilesAssumption ==
  HeadNode \notin Workers /\ FileTasks \cap {"none", "orphan"} = {}
ASSUME FilesBounds == MaxOps \in Nat /\ MaxRows \in Nat \ {0} /\ MaxCuts \in Nat

VARIABLES
  model,      \* ModelRegistry: id (0: no row) and status
  nodeState,  \* ModelNodeState: status and present, by node
  disk,       \* the model's directory on each node
  container,  \* who started the download container that runs
  task,       \* each job or request: its place and what it loaded
  adrift,     \* history: nodes a job left in flight when it ended
  doubt,      \* history: nodes whose removal the registry may have missed, or
              \* whose row a job of another model has written
  rows, ops, cuts

filesVars == <<model, nodeState, disk, container, task, adrift, doubt,
               rows, ops, cuts>>
bounds == <<rows, ops, cuts>>

Hosts    == Workers \union {HeadNode}
InFlight == {"downloading", "syncing", "verifying"}
ModelStatuses == InFlight \union {"absent", "present", "error"}
FileOps  == {"download", "sync", "delete"}
TaskKinds == FileOps \union {"cancel", "refresh", "scan", "none"}
TaskPlaces == {"idle", "asked", "load", "mark", "prepare", "run", "running", "over",
               "pick", "mark sync", "rsync", "verify", "sync failed", "rm",
               "reap", "reset", "look", "probe"}
NodeRows == [status : ModelStatuses, present : BOOLEAN]
Absent   == [status |-> "absent", present |-> FALSE]
NoCopies == [n \in Hosts |-> Absent]

NoTask == [kind |-> "none", pc |-> "idle", row |-> 0, status |-> "absent",
           nodes |-> NoCopies, at |-> HeadNode, left |-> {},
           saw |-> [n \in Hosts |-> "unknown"], ok |-> TRUE, drop |-> FALSE,
           stale |-> FALSE]

FilesTypeOK ==
  /\ model \in [id : 0..MaxRows, status : ModelStatuses]
  /\ nodeState \in [Hosts -> NodeRows]
  /\ disk \in [Hosts -> {"none", "partial", "full"}]
  /\ container \in FileTasks \union {"none", "orphan"}
  /\ task \in [FileTasks -> [kind : TaskKinds, pc : TaskPlaces,
       row : 0..MaxRows, status : ModelStatuses, nodes : [Hosts -> NodeRows],
       at : Hosts, left : SUBSET Hosts,
       saw : [Hosts -> {"unknown", "none", "there"}],
       ok : BOOLEAN, drop : BOOLEAN, stale : BOOLEAN]]
  /\ adrift \subseteq Hosts /\ doubt \subseteq Hosts
  /\ rows \in 0..MaxRows /\ ops \in 0..MaxOps /\ cuts \in 0..MaxCuts

FilesInit ==
  /\ model = [id |-> 1, status |-> "absent"]
  /\ nodeState = NoCopies
  /\ disk \in [Hosts -> {"none", "full"}]
  /\ container = "none"
  /\ task = [t \in FileTasks |-> NoTask]
  /\ adrift = {} /\ doubt = {}
  /\ rows = 1 /\ ops = 0 /\ cuts = 0

-----------------------------------------------------------------------------
Active(t)   == task[t].pc # "idle"
Launched(t) == task[t].pc \notin {"idle", "asked"}
OpAt(t, kind, place) == task[t].kind = kind /\ task[t].pc = place
Step(t, place) == task' = [task EXCEPT ![t].pc = place]

(* A pending or running row of such a type whose task this process has.     *)
ActiveFileJobs == {t \in FileTasks : Launched(t) /\ task[t].kind \in FileOps}

(* A job stands between its in-flight mark on node n and the outcome.       *)
WorksOn(t, n) ==
  /\ task[t].row = model.id /\ task[t].at = n
  /\ task[t].pc \in {"prepare", "run", "running", "over", "rsync", "verify"}

(* Task t is over; if it leaves node n in flight, n is adrift.              *)
EndOf(t) ==
  /\ task' = [task EXCEPT ![t] = NoTask]
  /\ adrift' = adrift \union
       {n \in Hosts : WorksOn(t, n) /\ nodeState[n].status \in InFlight}
  /\ container' = IF container = t THEN "orphan" ELSE container

-----------------------------------------------------------------------------
(* session.commit() of a session that loaded old copies: an attribute that  *)
(* was set to its loaded value is not written.  When the row it loaded was  *)
(* removed, the commit raises, or writes whatever has the row's id now: the *)
(* model's next row, or a row of another model, and the task goes on.       *)
Kept(now, loaded, new) == IF new = loaded THEN now ELSE new

WriteRows(t, status, ns) ==
  /\ model' = [model EXCEPT !.status = Kept(@, task[t].status, status)]
  /\ nodeState' = [n \in Hosts |->
       [status  |-> Kept(nodeState[n].status, task[t].nodes[n].status, ns[n].status),
        present |-> Kept(nodeState[n].present, task[t].nodes[n].present, ns[n].present)]]
  /\ adrift' = {n \in adrift : nodeState'[n].status \in InFlight}

Commit(t, status, ns, place) ==
  /\ IF task[t].row = model.id THEN WriteRows(t, status, ns)
     ELSE UNCHANGED <<model, nodeState, adrift>>
  /\ task' = [task EXCEPT ![t] =
       IF place = "idle" THEN NoTask
       ELSE [@ EXCEPT !.status = status, !.nodes = ns, !.pc = place]]

CommitRaises(t) ==
  /\ task[t].pc \in {"mark", "over", "mark sync", "rsync", "verify",
                     "sync failed", "rm", "reset", "probe"}
  /\ task[t].row # model.id \/ task[t].stale
  /\ EndOf(t)
  /\ UNCHANGED <<model, nodeState, disk, doubt, bounds>>

At1(t, n, status, present) ==
  [task[t].nodes EXCEPT ![n] = [status |-> status, present |-> present]]
Marked(t, n, status) == [task[t].nodes EXCEPT ![n].status = status]

-----------------------------------------------------------------------------
GuardNoActiveFileJob(kind) == kind \in FileOps => ActiveFileJobs = {}

StopUnderWay == \E t \in FileTasks : Launched(t) /\ task[t].kind = "cancel"

(* A request passes its checks; the job row is written some awaits later.   *)
Request(t, kind) ==
  /\ ~Active(t) /\ ops < MaxOps /\ ops' = ops + 1
  /\ kind = "scan" \/ model.id # 0
  /\ GuardNoActiveFileJob(kind)
  /\ kind = "cancel" => ~StopUnderWay
  /\ \E d \in BOOLEAN, left \in (SUBSET Hosts) \ {{}} :
       /\ kind # "delete" => ~d /\ left = (IF kind = "sync" THEN Workers ELSE Hosts)
       /\ task' = [task EXCEPT ![t] = [NoTask EXCEPT !.kind = kind,
            !.pc = CASE kind = "refresh" -> "load" [] kind = "scan" -> "look"
                     [] OTHER -> "asked",
            !.row = model.id, !.drop = d, !.left = left]]
  /\ doubt' = IF \E u \in FileTasks : \/ task[u].kind = "delete"
                                      \/ Active(u) /\ kind = "delete"
              THEN Hosts ELSE doubt
  /\ UNCHANGED <<model, nodeState, disk, container, adrift, rows, cuts>>

(* JobManager.start; a Stop first cancels the file job that still runs.     *)
StartJob(t) ==
  /\ task[t].pc = "asked" /\ task[t].kind # "cancel"
  /\ Step(t, "load")
  /\ UNCHANGED <<model, nodeState, disk, container, adrift, doubt, bounds>>

CancelBusyJob(t) ==
  /\ OpAt(t, "cancel", "asked")
  /\ \/ /\ ActiveFileJobs = {}
        /\ Step(t, "load") /\ UNCHANGED <<container, adrift>>
     \/ \E busy \in ActiveFileJobs :
          /\ task' = [task EXCEPT ![busy] = NoTask, ![t].pc = "load"]
          /\ adrift' = adrift \union
               {n \in Hosts : WorksOn(busy, n) /\ nodeState[n].status \in InFlight}
          /\ container' = IF container = busy THEN "orphan" ELSE container
  /\ UNCHANGED <<model, nodeState, disk, doubt, bounds>>

(* load_model with its node states; gone: the job fails.  If another model  *)
(* has the id by now the job works on that one, and is over for this model. *)
LoadModel(t) ==
  /\ task[t].pc = "load"
  /\ IF task[t].row # model.id \/ model.id = 0 THEN EndOf(t)
     ELSE /\ task' = [task EXCEPT ![t].status = model.status, ![t].nodes = nodeState,
            ![t].stale = FALSE,
            ![t].pc = CASE task[t].kind = "download" -> "mark"
                        [] task[t].kind = "sync" -> "pick"
                        [] task[t].kind = "delete" -> "rm"
                        [] task[t].kind = "cancel" -> "reap"
                        [] OTHER -> "probe"]
          /\ UNCHANGED <<container, adrift>>
  /\ UNCHANGED <<model, nodeState, disk, doubt, bounds>>

-----------------------------------------------------------------------------
(* docker rm -f of the one container name; whoever waits for it sees it go. *)
Reaped(c) == IF c \in FileTasks /\ task[c].pc = "running"
             THEN [task EXCEPT ![c].pc = "over", ![c].ok = FALSE] ELSE task

MarkDownloading(t) ==
  /\ task[t].pc = "mark"
  /\ Commit(t, "downloading", Marked(t, HeadNode, "downloading"), "prepare")
  /\ UNCHANGED <<disk, container, doubt, bounds>>

(* The head may be out of reach, or the reap fail quietly.                  *)
ReapFirst(t) ==
  /\ task[t].pc = "prepare"
  /\ \/ EndOf(t)
     \/ /\ task' = [Reaped(container) EXCEPT ![t].pc = "run"]
        /\ container' = "none" /\ UNCHANGED adrift
     \/ Step(t, "run") /\ UNCHANGED <<container, adrift>>
  /\ UNCHANGED <<model, nodeState, disk, doubt, bounds>>

(* docker refuses a name that is in use.                                    *)
RunContainer(t) ==
  /\ task[t].pc = "run"
  /\ IF container = "none"
     THEN /\ container' = t /\ Step(t, "running")
          /\ disk' = [disk EXCEPT ![HeadNode] = IF @ = "none" THEN "partial" ELSE @]
     ELSE /\ task' = [task EXCEPT ![t].pc = "over", ![t].ok = FALSE]
          /\ UNCHANGED <<container, disk>>
  /\ UNCHANGED <<model, nodeState, adrift, doubt, bounds>>

ContainerExits(good) ==
  /\ container # "none"
  /\ disk' = [disk EXCEPT ![HeadNode] = IF good THEN "full"
                                    ELSE IF @ = "none" THEN "partial" ELSE @]
  /\ container' = "none"
  /\ task' = IF container \in FileTasks
             THEN [task EXCEPT ![container].pc = "over", ![container].ok = @ /\ good]
             ELSE task
  /\ UNCHANGED <<model, nodeState, adrift, doubt, bounds>>

(* No byte for DOWNLOAD_STALL_SECONDS: the poller reaps, as well as it can. *)
Stalls(t) ==
  /\ task[t].pc = "running" /\ task[t].ok
  /\ \/ task' = Reaped(t) /\ container' = "none"
     \/ task' = [task EXCEPT ![t].ok = FALSE] /\ UNCHANGED container
  /\ UNCHANGED <<model, nodeState, disk, adrift, doubt, bounds>>

(* The SSH connection breaks: the job raises, the container goes on.        *)
ConnectionLost(t) ==
  /\ task[t].pc = "running" /\ EndOf(t)
  /\ UNCHANGED <<model, nodeState, disk, doubt, bounds>>

(* Mutant: a failed download raises before its error is committed.          *)
BugDownloadOver(t) ==
  /\ task[t].pc = "over"
  /\ IF task[t].ok
     THEN Commit(t, "present", At1(t, HeadNode, "present", TRUE), "pick")
     ELSE task' = [task EXCEPT ![t] = NoTask] /\ UNCHANGED <<model, nodeState, adrift>>
  /\ UNCHANGED <<disk, container, doubt, bounds>>

DownloadOver(t) ==
  /\ task[t].pc = "over"
  /\ IF task[t].ok
     THEN \E next \in {"pick", "idle"} :      \* auto_sync or not
            Commit(t, "present", At1(t, HeadNode, "present", TRUE), next)
     ELSE Commit(t, "error", Marked(t, HeadNode, "error"), "idle")
  /\ UNCHANGED <<disk, container, doubt, bounds>>

-----------------------------------------------------------------------------
(* The next worker of a sync, or the end of the job.                        *)
SyncNext(t) ==
  /\ task[t].pc = "pick"
  /\ LET others == task[t].left \ {HeadNode} IN
       \/ others = {} /\ task' = [task EXCEPT ![t] = NoTask]
       \/ \E n \in others : task' = [task EXCEPT ![t].pc = "mark sync", ![t].at = n,
                                               ![t].left = @ \ {n}]
  /\ UNCHANGED <<model, nodeState, disk, container, adrift, doubt, bounds>>

MarkSyncing(t) ==
  /\ task[t].pc = "mark sync"
  /\ Commit(t, task[t].status, Marked(t, task[t].at, "syncing"), "rsync")
  /\ UNCHANGED <<disk, container, doubt, bounds>>

Copied(n) == IF disk[n] = "full" THEN "full" ELSE disk[HeadNode]

Rsync(t) ==
  LET n == task[t].at IN
  /\ task[t].pc = "rsync"
  /\ \/ /\ disk[HeadNode] # "none"
        /\ disk' = [disk EXCEPT ![n] = Copied(n)]
        /\ Commit(t, task[t].status, Marked(t, n, "verifying"), "verify")
     \/ /\ disk' = [disk EXCEPT ![n] = IF @ = "none" THEN "partial" ELSE @]
        /\ Commit(t, task[t].status, Marked(t, n, "error"), "sync failed")
  /\ UNCHANGED <<container, doubt, bounds>>

(* Mutant: an error while verifying is raised and leaves `verifying`.       *)
BugVerify(t) ==
  LET n == task[t].at IN
  /\ task[t].pc = "verify"
  /\ \/ Commit(t, task[t].status, At1(t, n, "present", TRUE), "pick")
     \/ Step(t, "sync failed") /\ UNCHANGED <<model, nodeState, adrift>>
  /\ UNCHANGED <<disk, container, doubt, bounds>>

(* A checksum that does not match is recorded and is no error.              *)
Verify(t) ==
  LET n == task[t].at IN
  /\ task[t].pc = "verify"
  /\ \/ Commit(t, task[t].status, At1(t, n, "present", TRUE), "pick")
     \/ Commit(t, task[t].status, Marked(t, n, "error"), "sync failed")
  /\ UNCHANGED <<disk, container, doubt, bounds>>

(* SSH fails outside what _sync_one handles: before the rsync, or when the  *)
(* size is read after the verification.  The node's row stays in flight.    *)
SyncRaises(t) ==
  /\ task[t].pc \in {"rsync", "verify"}
  /\ adrift' = adrift \union {n \in Hosts : WorksOn(t, n) /\ nodeState[n].status \in InFlight}
  /\ Step(t, "sync failed")
  /\ UNCHANGED <<model, nodeState, disk, container, doubt, bounds>>

(* Only a download says on the model that its sync failed.                  *)
SyncFailed(t) ==
  /\ task[t].pc = "sync failed"
  /\ IF task[t].kind = "download" THEN Commit(t, "error", task[t].nodes, "idle")
     ELSE task' = [task EXCEPT ![t] = NoTask] /\ UNCHANGED <<model, nodeState, adrift>>
  /\ UNCHANGED <<disk, container, doubt, bounds>>

-----------------------------------------------------------------------------
(* cancel_download: reap, then take back what was in flight when it loaded. *)
StopReaps(t) ==
  /\ task[t].pc = "reap"
  /\ \/ /\ task' = [Reaped(container) EXCEPT ![t].pc = "reset"]
        /\ container' = "none"
     \/ Step(t, "reset") /\ UNCHANGED container
  /\ UNCHANGED <<model, nodeState, disk, adrift, doubt, bounds>>

TakenBack(t) == [n \in Hosts |->
  IF task[t].nodes[n].status \in InFlight THEN Absent ELSE task[t].nodes[n]]

StopResets(t) ==
  /\ task[t].pc = "reset"
  /\ Commit(t, IF task[t].status \in InFlight \union {"error"} THEN "absent"
               ELSE task[t].status, TakenBack(t), "idle")
  /\ UNCHANGED <<disk, container, doubt, bounds>>

-----------------------------------------------------------------------------
(* rm -rf on one node; its answer may be lost although it worked.           *)
RemoveFiles(t) ==
  /\ OpAt(t, "delete", "rm")
  /\ \E n \in task[t].left :
       \/ /\ disk' = [disk EXCEPT ![n] = "none"]
          /\ task' = [task EXCEPT ![t].left = @ \ {n}, ![t].saw[n] = "none"]
          /\ UNCHANGED doubt
       \/ /\ disk' \in {disk, [disk EXCEPT ![n] = "none"]}
          /\ doubt' = IF disk' = disk THEN doubt ELSE doubt \union {n}
          /\ task' = [task EXCEPT ![t].left = @ \ {n}, ![t].ok = FALSE]
  /\ UNCHANGED <<model, nodeState, container, adrift, bounds>>

(* What a delete removed or a refresh saw, over what was loaded.            *)
Found(t) == [n \in Hosts |->
  CASE task[t].saw[n] = "none"    -> Absent
    [] task[t].saw[n] = "there"   -> [status |-> "present", present |-> TRUE]
    [] task[t].saw[n] = "unknown" -> task[t].nodes[n]]

Removed(t, n) == task[t].kind = "delete" /\ task[t].saw[n] = "none"

(* Mutant: a node that failed raises before the others are recorded.        *)
BugDeleteOver(t) ==
  /\ OpAt(t, "delete", "rm") /\ task[t].left = {}
  /\ IF task[t].ok THEN Commit(t, "absent", Found(t), "idle")
     ELSE task' = [task EXCEPT ![t] = NoTask] /\ UNCHANGED <<model, nodeState, adrift>>
  /\ UNCHANGED <<disk, container, doubt, bounds>>

(* The one commit of a delete.                                              *)
DeleteOver(t) ==
  /\ OpAt(t, "delete", "rm") /\ task[t].left = {}
  /\ IF task[t].ok /\ task[t].drop
     THEN /\ IF task[t].row = model.id
             THEN /\ model' = [id |-> 0, status |-> "absent"]
                  /\ nodeState' = NoCopies /\ adrift' = {}
             ELSE UNCHANGED <<model, nodeState, adrift>>
          /\ task' = [task EXCEPT ![t] = NoTask]
     ELSE Commit(t, IF task[t].ok THEN "absent" ELSE "error", Found(t), "idle")
  /\ UNCHANGED <<disk, container, doubt, bounds>>

-----------------------------------------------------------------------------
(* A new row has an id that came free or a fresh one: tasks that loaded an  *)
(* earlier row with that id have this one from now on.                      *)
NewId(id) == id \in 1..MaxRows /\ id <= rows + 1 /\ rows' = (IF id > rows THEN id ELSE rows)
Renewed(id) == [t \in FileTasks |->
  IF task[t].row = id THEN [task[t] EXCEPT !.stale = TRUE] ELSE task[t]]

(* discover_models: a directory without a row becomes a row.                *)
Import(t) ==
  /\ task[t].pc = "look"
  /\ \/ /\ model.id = 0 /\ \E n \in Hosts : disk[n] # "none"
        /\ \E id \in 1..MaxRows :
             /\ NewId(id) /\ model' = [id |-> id, status |-> "present"]
             /\ task' = [Renewed(id) EXCEPT ![t].pc = "load", ![t].row = id]
        /\ nodeState' = NoCopies /\ adrift' = {}
     \/ /\ model.id # 0
        /\ task' = [task EXCEPT ![t].pc = "load", ![t].row = model.id]
        /\ UNCHANGED <<model, nodeState, adrift, rows>>
     \/ /\ model.id = 0 /\ \A n \in Hosts : disk[n] = "none"
        /\ task' = [task EXCEPT ![t] = NoTask]
        /\ UNCHANGED <<model, nodeState, adrift, rows>>
  /\ UNCHANGED <<disk, container, doubt, ops, cuts>>

(* refresh_presence probes every node, and skips those out of reach.        *)
Probe(t) ==
  /\ task[t].pc = "probe"
  /\ \E n \in task[t].left, reached \in BOOLEAN :
       task' = [task EXCEPT ![t].left = @ \ {n},
         ![t].saw[n] = IF ~reached THEN "unknown"
                       ELSE IF disk[n] = "none" THEN "none" ELSE "there"]
  /\ UNCHANGED <<model, nodeState, disk, container, adrift, doubt, bounds>>

WritePresence(t) ==
  /\ task[t].pc = "probe" /\ task[t].left = {}
  /\ Commit(t, task[t].status, Found(t), "idle")
  /\ UNCHANGED <<disk, container, doubt, bounds>>

(* remove_registry asks for nothing; the files stay.                        *)
RemoveRegistry ==
  /\ model.id # 0
  /\ model' = [id |-> 0, status |-> "absent"]
  /\ nodeState' = NoCopies /\ adrift' = {}
  /\ UNCHANGED <<disk, container, task, doubt, bounds>>

AddModel ==
  /\ model.id = 0
  /\ \E id \in 1..MaxRows :
       /\ NewId(id) /\ model' = [id |-> id, status |-> "absent"]
       /\ task' = Renewed(id)
  /\ UNCHANGED <<nodeState, disk, container, adrift, doubt, ops, cuts>>

(* A job of a removed row commits, and the id of a node row it loaded, of   *)
(* another model or of another node, is now this node's: what it says of    *)
(* its own files is recorded here.                                          *)
OtherModelCommits ==
  /\ model.id # 0 /\ ops < MaxOps /\ ops' = ops + 1
  /\ \E n \in Hosts, s \in ModelStatuses :
       /\ nodeState' = [nodeState EXCEPT ![n] = [status |-> s,
            present |-> s = "present" \/ (s # "absent" /\ @.present)]]
       /\ model' \in {model, [model EXCEPT !.status = s]}
       /\ adrift' = {m \in adrift \union {n} : nodeState'[m].status \in InFlight}
       /\ doubt' = doubt \union {n}
  /\ UNCHANGED <<disk, container, task, rows, cuts>>

(* The portal restarts: jobs and requests are gone, containers are not.     *)
Restarted ==
  /\ cuts < MaxCuts /\ cuts' = cuts + 1
  /\ task' = [t \in FileTasks |-> NoTask]
  /\ container' = IF container = "none" THEN "none" ELSE "orphan"
  /\ adrift' = adrift \union {n \in Hosts :
       nodeState[n].status \in InFlight /\ \E t \in FileTasks : WorksOn(t, n)}
  /\ doubt' = doubt \union {n \in Hosts : \E t \in FileTasks : Removed(t, n)}
  /\ UNCHANGED <<model, nodeState, disk, rows, ops>>

FilesNext ==
  \/ \E t \in FileTasks :
       \/ \E kind \in TaskKinds \ {"none"} : Request(t, kind)
       \/ StartJob(t) \/ CancelBusyJob(t) \/ LoadModel(t) \/ CommitRaises(t)
       \/ MarkDownloading(t) \/ ReapFirst(t) \/ RunContainer(t) \/ Stalls(t)
       \/ ConnectionLost(t) \/ DownloadOver(t)
       \/ SyncNext(t) \/ MarkSyncing(t) \/ Rsync(t) \/ Verify(t) \/ SyncRaises(t)
       \/ SyncFailed(t) \/ StopReaps(t) \/ StopResets(t)
       \/ RemoveFiles(t) \/ DeleteOver(t)
       \/ Import(t) \/ Probe(t) \/ WritePresence(t)
  \/ \E good \in BOOLEAN : ContainerExits(good)
  \/ RemoveRegistry \/ AddModel \/ OtherModelCommits \/ Restarted

FilesSpec == FilesInit /\ [][FilesNext]_filesVars

-----------------------------------------------------------------------------
(* A node whose row says downloading, syncing or verifying has a job at     *)
(* work on it, or one that ended there without a word: cut off by a restart *)
(* or a Stop, or thrown out by a failure no handler records; or a job of a  *)
(* removed row wrote it, having loaded the id this node's row now has.      *)
(* Stop's reset, a later job and the row's removal take such a node back    *)
(* (services/models_svc.py:371, 528, 542, 455; routers/models.py:229).      *)
InFlightHasCause ==
  \A n \in Hosts : nodeState[n].status \in InFlight =>
    n \in adrift \/ \E t \in FileTasks : WorksOn(t, n)

(* A node is present in the registry and not on its disk only while a       *)
(* delete stands between its removals and its commit, or after a delete     *)
(* overlapped another task, was cut off, or had an answer lost, or after a  *)
(* job of a removed row wrote this one, having loaded the same id for       *)
(* another model or node (routers/models.py:229 removes a row whatever      *)
(* works on it).  Failed transfers, half failed deletes, and jobs that      *)
(* commit to the next row of their own model and node leave no such row     *)
(* (services/models_svc.py:742, 389).                                       *)
PresentIsThere ==
  \A n \in Hosts : nodeState[n].present /\ disk[n] = "none" =>
    n \in doubt \/ \E t \in FileTasks : Removed(t, n)

(* What the model registry keeps: the types, a cause behind every transfer, *)
(* and present files on the disk or a cause why not                         *)
(* (services/models_svc.py:371-800).                                        *)
FilesInv == FilesTypeOK /\ InFlightHasCause /\ PresentIsThere
=============================================================================
