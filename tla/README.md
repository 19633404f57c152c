# Spark Control Plane: a TLA+ model

The repository is a portal that runs vLLM model instances on a small cluster of
GPU machines ("nodes"). It is one Python process (FastAPI, asyncio) with a
SQLite database; it works on the nodes over SSH, where each instance is a
systemd unit around a container, and it relays the public `/v1` API to the
instances that run. Everything concurrent in it is cooperative: many
coroutines, one thread, and a step ends at an `await`. So the interesting
behaviours are interleavings at awaits, cancellation at awaits, ORM sessions
that keep what they loaded, in-memory state next to durable rows, and restarts.

All paths below are under `src/backend/app/` unless they say otherwise.

## 1. The system and what it must get right

| Component | State | Operations | Hard behaviours | Correct when |
|---|---|---|---|---|
| Job manager (`services/jobs.py`) | `jobs` rows, `_tasks` | create, start, run, cancel, finish, startup sweep | cancellation at any await, lost status writes, crash | a closed job never reopens; a live row has a task or a known cause |
| Log stream (`services/jobs.py`, `routers/jobs.py`) | log rows, bounded subscriber queue, a WebSocket's position | log, publish, subscribe, replay, tail, re-check | queue overflow, two writers, end event lost | ordered, nothing twice, no gap between backlog and tail, ends only when the job has |
| Instance lifecycle (`services/instances.py`, `inst_state.py`, `routers/instances.py`) | the row, `_IN_FLIGHT`, the unit on a node | create, edit, start, stop, delete | jobs that overlap, sessions minutes old, restart in the middle | a stopped instance stays down, a deleted one leaves no unit, `starting` resolves |
| Status observer (`services/reconcile.py`) | sustain timers | decide, compare-and-set | stale probes, unreachable nodes, timers lost at restart | demotes on sustained evidence only, never touches a stopped row |
| Scheduler (`services/scheduler.py`) | last desired state, pending action | tick, retry, forget | slow jobs, operators in between, boots, calendar edges | bounded attempts, nothing against its window, settled actions stay settled |
| Gateway path (`routers/gateway.py`, `services/ratelimit.py`) | in-flight counters, rate windows | resolve, admit, send, relay, release | failures and disconnects between admission and relay | counters exact, caps and rates hold, honest Retry-After |
| Gateway names (`routers/gateway.py`, `services/binding.py`) | none: derived from rows | match, order, dial | rows edited while a unit runs with the former settings | requests go where the unit listens, under names it answers to |
| API keys, statistics (`services/apikeys.py`, `gwstats.py`) | digest map, counters | issue, edit, delete, reload, count, flush | reloads that overlap, a flush that fails or dies | the enabled keys are accepted; nothing is counted twice |
| Usage (`services/usage.py`) | last window's counters, history rows | scrape, roll up | counters that restart, cached scrapes, lost writes | the history claims what was served and no more |
| Endpoints (`services/endpoints.py`, `routers/endpoints.py`, `services/binding.py`) | pointer, members, aliases, history rows | create, edit, delete, promote, rollback | a hand-over of minutes that can fail, be cancelled or be overtaken | pointer and history agree, rollback goes back, never two on one box |
| Ports (`services/ports.py`) | none: derived from rows | allot, compare | requests that overlap, pinned and TLS ports | compared instances bind apart |
| Model files (`services/models_svc.py`, `routers/models.py`) | registry and per-node rows, containers, disks | download, sync, verify, stop, delete, scan | jobs of hours, Stops, restarts, half failures | what the registry calls present is there; a transfer has a job |
| Sessions (`services/sessions.py`, `auth.py`, `routers/sessions.py`) | revocations and epochs, in memory and table | issue, check, revoke, load, sweep | two writes with an await, restart, clock set back | an ended session stays ended, nobody else is signed out |
| Telemetry (`services/telemetry.py`) | tasks, samples, baselines per node | manage, sample | nodes that go and whose id comes back | every node is sampled, rates span one reach of one node |
| Alerts (`services/alerts.py`) | rule states, alert rows | derive facts, sustain, fire, resolve | vanishing subjects, lost writes, restart | an alert has its row; a demotion does not hide an outage |
| Node certificates (`services/nodecert.py`, `certrenew.py`, `pki.py`) | key, staged key, certificate, row | sign request, upload, sign, install, renew | an install cut in two, two actors, failing renewals | key matches certificate; renewed before it expires |
| SSH pool (`ssh/pool.py`, `ssh/client.py`) | pooled client, its link | get, drop, connect, run | replaced while in use, re-dial | no connection is left behind |
| Cluster (`services/cluster.py`, `phases.py`) | configuration and settings rows, images, Ray | set up, update image, tear down | jobs that overlap or give up half way | what the rows record is true of the nodes |
| Backup (`services/backup.py`) | bundles in a store, the database | export, prune, restore | rows that change, foreign keys, older bundles | a restore is whole or nothing |
| Evaluations (`services/evals.py`, `routers/evals.py`) | run rows | create, drive, fail, delete, sweep | deletion and cancellation under way, ids reused | a live run is driven, a green one measured something |
| Single sign-on (`services/oidc.py`, `routers/auth.py`) | cached metadata and signing keys, a lock | look a key up, refresh, refuse | callbacks that wait for each other, a provider out of reach, keys withdrawn | trust in a withdrawn key ends; the provider is not asked too often |
| Power, planner, templates, MCP server, front end | see `PROJECT.json` | | | |

How they interact. Request handlers check a row and hand a coroutine to the job
manager. Start, stop and promote jobs claim an instance in `_IN_FLIGHT`, work
on a node over SSH and commit to the row. Telemetry reads nodes into a cache;
the observer, the alerts and the usage roll-up read that cache; the observer
skips rows that are claimed, and writes the rest by compare-and-set on the
status. The scheduler creates the same jobs as an operator. A promotion calls
stop and start inside its own job and then moves the endpoint's pointer. The
gateway reads rows and pointer, and keeps counters and keys of its own. Model,
cluster and certificate work share the SSH pool and nothing else.
`PROJECT.json` lists every part with what is and is not modelled, and under
"hazards" what each line is exposed to.

## 2. Modules

Each component module has its state as VARIABLES, one action per handler, job
stage or loop step, and its properties at the end. An action ends where the
code awaits something that lets another coroutine matter. Operators named
`Bug...` are not part of a specification: each is a plausible mistake in the
definition that follows it, kept so that every property can be seen to fail.
An invariant named `...Inv` is a conjunction of the module's type invariant and
the properties above it, each of which is stated and commented on its own.

Jobs and instances:

* `JobLedger`: the abstract specification. What a reader of the jobs table may
  rely on: opened once, pending, running, closed, never reopened; a success may
  still be amended to cancelled.
* `Jobs`: the job manager. `pc` is where the coroutine `_run` stands, `row` the
  table, `registry` is `_tasks`. `Begin`, `MarkRunning`, `Work`, `Finish` follow
  `_run`; `CancelledEarly`, `WorkCancelled`, `FinishCut` are a cancellation
  before, inside and after its try block; `WorkSwallows` is a job's coroutine
  that takes the cancellation and goes on with the rest of its work, no
  cancellation pending, for as long as that lasts. `Written` and `PerhapsWritten` are status writes that must, or may,
  reach the table. `Crash`, `Restart` and `RestartUnswept` are the process dying
  and the startup sweep. It implements `JobLedger` (`LedgerKept`).
* `JobStream`: one job's lines (number, store, publish; `CutOff` is a writer
  cancelled at either await), the lossy bounded queue (`Put`), and the WebSocket handler (`Connect`, `ReadRow`, `ReadLines`,
  `Replayed`, `Receive`, `Timeout`, `Check`).
* `InstanceLifecycle`: one instance, the jobs on it, the observer. A job's `mem`
  and `ever` are what its ORM session loaded: the session writes a column only
  if it changes relative to that (`Put`), so a late commit can skip or restore
  a column. The observer's pass is four steps (`TickBegin`, `TickSelect`,
  `TickDecide`, `TickApply`) so that jobs fit in between; which demotions are
  due is left open here (`Verdicts`). `Removed` is what is left of a unit when
  each of the removal's commands may fail without anyone looking.
* `Promotion`: an endpoint's pointer, its history rows and promote jobs. A job
  keeps what its session loaded: the target, the previous holder and whether
  that one was running. `Claim` and `Release` are the beginning and end of the
  start and stop it calls; `Fail` and `Restore...` its except clause; `WriteFails`
  a write of an instance that leaves the session inactive, so that the commit of
  the failure raises too; `RecordFails` a commit of its own that is refused;
  `FlipRead` and `FlipCommit` the hand-over. `Delete` sets the foreign keys to null
  everywhere at once.

The background loops:

* `Reconcile`: `decide` with its timers exact, a pass in one step, a clock in
  loop ticks, readings that may be stale. `DecideAllowed` ties it to
  `InstanceLifecycle`: through `INSTANCE ... WITH`, every answer of `Reason` is
  one `Verdicts` allows.
* `Windows`: the calendar as pure operators (`WindowActive`, `DesiredState`,
  `NextWindowOpen`) over a week of `Days` times `Minutes`, compared with a
  reference definition of a window as a set of moments.
* `Scheduler`: the tick (`TickRead`, `TickAct`, `TickForget`), its memory, its
  retries, and the start and stop jobs, operators, observer and boots around it.
* `Alerts`: a tick derives facts from what it sees, advances each rule's state
  and writes the rows it opens and ends in one transaction (`AlertTick`), or
  loses that write (`TickFails`); a restart forgets the states and keeps the rows.
* `Usage`: vLLM's counter, the cached scrape, the collector's last window and
  the history. `Delta` is `_delta` with its reset rule; `Forget` is the pruning
  of an instance that was not scraped, after a lost write too.
* `Sampler`: the manager's reading of the nodes and its acting on it are two
  steps (`ManagerReads`, `ManagerActs`); a sample begins, awaits and ends, and
  is computed against the counters kept under the node's id (`Baseline`).

The gateway:

* `GatewaySlots`: `_proxy` from resolution to the end of the relay, the counters
  and the sliding window of `Limiter`. `Slip` is each way out that does not
  return the slot.
* `GatewayBooks`: key routes (`Issue`, `UpdateKey`, `DeleteKey`, then
  `CommitKey`, `ReadKeys`, `InstallKeys`) over the rows and the digest map, and
  the counters that `Record` fills and `FlushBegin` and `FlushCommit` drain.
* `GatewayNames`: `ServedNames`, `Resolved`, `Collisions` and `Address` as the
  gateway derives them from the rows, and `unit`, what the start job loaded and
  launched. A PATCH reads its guard in one step and commits in another.

What the portal keeps:

* `Sessions`: cookies, revocations and epochs in memory and in the table.
  `CommitRevocation` and `Remember` are the two halves of a revocation;
  `LoadRevocations` is startup with its sweep; `ClockSetBack` the wall clock.
* `SignIn`: callbacks that exchange a code and look its token's key up in the
  cache (`Exchange`), wait for the lock with the time they read before
  (`EnterLock`), and refresh (`FetchDocument`, `KeysFetched`, `KeysFail`), under
  a provider that adds and withdraws keys. `accepted` and `requests` are history.
* `Ports`: a request compares or is allotted (`CreateAuto`, `CreateExplicit`,
  `Edit`) and writes later (`Insert`, `Update`); `Pin` is an endpoint edit.
* `Evals`: run rows and the jobs that drive them, with ids that come free.
* `Backup`: the tables reduced to their references, a bundle read table by table
  (`ReadTable`), and a restore (`Restore`) as the chain of its statements: the
  pointer nulled, tables emptied children first with what each foreign key does
  about it, filled parents first, and the pointer set. Each statement must leave
  the references whole (`RefsHold`) or the transaction is rolled back.
  `Refilled` is what the result should be, said without any of these steps.

On the nodes:

* `ModelFiles`: registry row, a row per node, a container per node and the
  disks; download, sync, delete, Stop, scan and presence refresh as tasks with
  sessions that write only what differs from what they loaded. Ids come free
  with a removed row: a task that loaded it is `stale`, and its commit raises
  (`CommitRaises`) or writes the row that has the id by then (`Commit` for the
  model's own next row, `OtherModelCommits` for a job of another model).
* `NodeCerts`: live key, staged key, certificate and row; an operator and the
  renewal loop as two actors; a clock in intervals of that loop. A pass loads
  the rows (`RenewTick`), comes to the node some time later (`Look`) and may
  take intervals over it (`TickMissed`). An uploaded certificate may be of any
  key, since only its names and dates are looked at.
* `SshPool`: clients, links and operations; `get` under the lock, `drop` without.
* `ClusterSetup`: setup, image update and teardown jobs with what each loaded,
  the image of Ray on each node, an instance's status and the image its unit
  runs. Restarts whose exit status nobody looks at may have done nothing
  (`StartRay`, `Rerun`), a stop or start that raises is logged and skipped
  (`RerunFails`), and instances are listed by their status (`List`).

`JobsProofs`, `StreamProofs`, `LifecycleProofs`, `GatewayProofs`, `LoopsProofs`
(Scheduler, Windows, Usage, Alerts, Reconcile), `PromotionProofs`, `PortalProofs`
(Sessions, SignIn, Evals, Backup, Ports) and `NodesProofs` (SshPool, NodeCerts,
Sampler, ModelFiles, ClusterSetup) hold the theorems. `Reconcile` and `InstanceLifecycle` are two views of the observer:
exact timers with coarse jobs, and coarse timers with exact interleaving.
`Promotion` takes start and stop as `InstanceLifecycle` has them, reduced to
their outcomes.

`MCLoops`, `MCGateway`, `MCPortal` and `MCNodes` put components that share no
state side by side: a variable `part` names the one that moves, and the others
rest in one initial state. The reachable states are the disjoint union of those
of the parts, so a run is exactly the runs of its parts in one, and a property
of one part is decided by that part alone. They are not interleaved because
nothing they do could meet; the components that do meet (jobs, observer and
unit; scheduler and jobs; promotion and instances; gateway names, edits and
starts) are composed inside their modules.

## 3. Runs

Every run finishes in about three minutes. `CHECK_DEADLOCK FALSE` appears where the
bounds let the system stop (requests, jobs, edits or clock used up).

| Run | Bounds | Shows |
|---|---|---|
| `jobs` | 2 jobs, 1 crash, 1 lost write | `AdriftHasCause`, `ActiveJobVisible`, `LedgerKept`, `CancelTakesEffect` |
| `stream` | 2 writers, 3 lines, 1 progress event, queue of 2 | `StreamInv` (types, `SentInOrder`, `EndIsHonest`), `EverythingSent`, `StreamEnds` |
| `lifecycle` | 1 job at a time, 3 requests, 1 portal restart | `NoOrphanUnit`, `NoStaleClaim`, `StoppedStays`, `ObserverLeavesStopped`, `DeadlineWorks` |
| `lifecycle_orphan` | 2 jobs at once, 2 requests | violation of `NoOrphanUnit` |
| `loops` | Scheduler: 2 attempts, 2 edges, 2 operator requests, 1 boot. Windows: 3 days of 3 minutes, every pair of windows. Reconcile: limits of 1 or 2 ticks, clock to 3, 1 job, 1 unit restart, 1 boot. Alerts: 4 ticks, 3 rows, rules that sustain 0, 1 or 2 ticks, 1 lost write or restart. Usage: 4 tokens served, any number of restarts | `AttemptsBounded`, `WithinWindow`, `SettledStays`; `WindowsInv` (`ActiveIsStretch`, `AnnouncedIsNext`); `ReconcileInv` (`DecideAllowed`), `DemotionSustained`, `DeadlineSurvives`; `AlertsInv` (`AlertRowsKnown`, `AlertOutlivesDemotion`); `UsageInv` (`UsageAddsUp`) |
| `gateway` | Slots: 3 requests, 1 client, 2 instances, cap 0 or 1, 2 per window, clock to 3. Books: 1 key, 2 key routes at once, 3 edits, 2 requests, 1 failure | `CountExact`, `RateHolds`, `RetryHonest`; `BooksInv` (`KeysCurrent`, `CountedOnce`) |
| `gateway_slip` | 3 requests, 1 client, 1 instance, no rate limit | violation of `SlotsReturned` |
| `promotion` | 3 promotions, 2 members, 1 outside change, 1 restart | `ActiveIsPointer`, `RollbackGoesBack`, `PendingHasCause` |
| `promotion_outgoing` | 2 promotions, 2 members, nothing else | violation of `OutgoingStopsFirst` |
| `portal` | Names: 2 instances, 1 alias, 2 starts, 1 edit. Ports: 2 rows, 2 editors, 3 edits, ports to 3 with one reserved. Sessions: 1 user, 1 session, 2 revokers, clock to 2, set back once, 1 boot. Sign-in: 2 callbacks, 2 keys, clock to 7, keys fresh for 2 and served for 3 ticks, attempts 2 apart. Evals: 2 jobs, 2 runs, 2 prompts, 1 fault. Backup: 1 instance id, 3 writes, 2 bundles, 1 kept | `NamesInv` (`ReachedAsLaunched`, `LatestTakesOver`); `PortsInv` (`ComparedStayApart`); `SessionsInv` (`EndedStaysEnded`, `LoginLives`); `SignInInv` (`TrustEnds`, `RequestsSpread`); `EvalsInv` (`LiveRunDriven`, `GreenMeansMeasured`); `BackupInv` (`AbortHasCause`, `NewestKept`), `RestoredWhole` |
| `names_mirror` | 1 instance, 1 alias, 1 start, no edit | violation of `NamesMirrorUnit` |
| `nodes` | Sampler: 2 ids, 3 nodes added. Files: 2 nodes, 2 tasks at once, 2 requests or commits of other models, 1 id, 1 cut. Certificates: lifetimes of 3 and 4 intervals, 2 keys, 5 intervals, 2 events (uploads, requests, settings, failures). SSH: 2 operations, 3 clients, 3 links, 2 edits. Cluster: 2 nodes, 2 images, 1 job at a time, 2 in all, any number of starts and stops | `SamplerInv` (`EveryNodeSampled`, `RatesWithinReach`); `FilesInv` (`InFlightHasCause`, `PresentIsThere`); `CertsInv` (`MismatchHasCause`, `RenewedInTime`); `SshInv` (`OpenIsTended`); `ClusterInv` (`ClusterAsRecorded`) |

Why these bounds are enough for the questions asked:

* Jobs do not share state except the sweep and the crash, so two suffice for a
  sweep that meets one live and one closed row.
* A queue of two with two writers and a terminal pair (status, end) overflows,
  evicts a line, evicts a terminal event, and reorders; three lines let one be
  in the backlog, one overtaken and one live.
* Three requests reach start, stop or crash, then start or delete again; each
  property of the lifecycle run speaks of at most two consecutive jobs.
* In `Reconcile` each limit is passed, met exactly and reset within three ticks;
  `UnhealthyAfter` differs from `UnitDeadAfter` so that neither timer can stand
  for the other. In `Alerts` four ticks let a rule sustain, fire and resolve,
  and a subject be gone in between.
* Three requests of one client fill a cap of one, a cap being lowered below
  what is in flight, and a window of two that must slide. Two key routes are
  the fewest that overtake each other, and the third edit comes after both.
* The week needs days that wrap, a window over midnight, one of a full day, and
  a day with none; three by three has them all, and the arithmetic does not
  depend on 7 or 1440.
* Three promotions are a first one, a second and a rollback, with a failed one
  in any of these places.
* Two requests are the fewest that both read before either writes, for ports,
  edits, revocations, connections and files; every hazard of these components
  is between a pair. The third node or client is one that follows such a pair,
  where what the pair left behind shows. One id for the model makes every row
  that follows a removed one take its id.
* Cluster jobs that overlap are excused by `ClusterAsRecorded`, so one at a time
  shows all it says; the second meets what the first left behind, complete,
  failed or given up. The theorem is about any number of slots.
* Lifetimes of 3 and 4 intervals leave the renewal one and two in hand, so a
  pass that fails or is late is in time for one of them and not for the other;
  five intervals hold an install, its renewal and an expiry. Two keys are the
  live one and its successor, and a foreign one needs no number.
* Seven ticks let cached keys be fetched, go stale and pass the ceiling, with a
  failed refresh in between; `TrustEnds` allows a tick for each callback that a
  callback may have to wait for at the lock, and one for its own requests.
* A session with a lifetime of 2 expires within the clock, and a clock set back
  comes to a moment that was already over.

Symmetry is used only in runs without liveness properties. The pair that two
tasks, operations or jobs are permuted over is one pair of model values for all
parts of a run, since only one part moves.

### What the properties excuse

Several invariants name the cases in which the code does not do what one would
first expect, as history variables: `fate`, `withheld` (Jobs), `missed` (JobStream,
Alerts), `left` (InstanceLifecycle), `overlap` and the places "cut", "lost" and
"refused" (Promotion), `adrift`, `doubt` (ModelFiles), `leftOver` (Alerts),
`excused`, `steady`, `failing` (NodeCerts), `overtaken` (GatewayBooks),
`passed` (GatewayNames), `past` (SignIn), `stranded`, `lost`, `mixed` (Evals), `reused`,
`newcomers` (Sampler), `strays` (SshPool), `against` (Ports), `unstarted`, `kept`
(ClusterSetup), `disturbed` (ClusterSetup, Usage). Each records one specific event of the code, named at
its variable, and no guard reads it; the property says that nothing else leads
there. Section 5 describes these cases.

### Fairness

* `jobs`: weak fairness of the task's own steps (the event loop steps what can
  step) and of the restart. Nothing says that a job's coroutine ever returns:
  remote commands run without a timeout by default (`services/nodeops.py:47-57`).
  So `CancelTakesEffect` speaks of what `_run` does with a cancellation, and
  excepts one that the coroutine itself took (`withheld`).
* `stream`: weak fairness of lines already numbered, of the finishing job's
  announcement, and of the WebSocket handler, which wakes at least every five
  seconds. Nothing says that the job ends; `StreamEnds` begins when it has.
* `lifecycle`: weak fairness of the observer's own steps and of nothing else;
  its loop sends no remote command and sleeps for a bounded time. Jobs and the
  slow telemetry loop wait for commands that have no timeout, so their progress
  is not assumed but a premise of `DeadlineWorks`: the instance is again and
  again without a claim (`JobsEnd`), the slow loop again and again has a reading
  (`ProbeAnswers`), and a pass that may decide "error" or "running" again and
  again does (`DeadlinePasses`: the deadline, once passed, stays passed). A job
  or a loop that hangs, and a node out of reach for ever, leave the row
  `starting`, in the model as in the code.

## 4. Proofs

TLAPS proves every safety property that the runs check, and every refinement
and action property, for every value of the constants. The assumptions are the
named ones of each module: bounds are naturals, reserved values are not
members, and where a count is taken (requests, callbacks) the set is finite.
Where an invariant was not inductive by itself, this is what had to be added.

`JobsProofs`:

* `JobInv` says that where a coroutine stands fixes what its row may say and
  whether it is registered; it is inductive and implies `AdriftHasCause` and
  `ActiveJobVisible`. `JobsImplementLedger`: the initial state is the ledger's,
  and each step is `Open`, `Run`, `Amend`, `Close` or a stutter; the sweep is
  one `Close` of several rows.

`StreamProofs`:

* `StreamInv` and `EverythingSent`, for any writers, lines and size of the queue.
  The end of the job is the last event of the queue and nobody writes a line by
  then (`LineInv`, `QueueInv`); an invariant over the queue as a whole says that
  its lines ascend but for those a second writer overtook, which eviction from
  the front keeps. `CoverInv`: a persisted line that is not `missed` has been sent, is yet to be published, or waits in the queue behind the position
  of the socket. Without its second case the gap between backlog and tail would
  not be covered.

`LifecycleProofs`:

* For any number of jobs at once: types, `NoStaleClaim` (the claim belongs to a
  job at work: a job that ends drops it, whoever's it is) and
  `ObserverLeavesStopped` (a decided verdict is about a row in an observable
  status, and the write compares). With one slot: `StoppedStays` and
  `NoOrphanUnit`, from `SoloInv`, which adds what a lone job knows about the
  row and, once a delete has sent its commands, that the unit is gone or one of
  them failed. Without that assumption `NoOrphanUnit` is false, as `lifecycle_orphan`
  shows.

`GatewayProofs`:

* `CountExact`: the counter is the cardinality of what was admitted and not
  returned; each action moves at most one request across that set's border.
  `CapHolds` follows from the guard of `Admit`.
* `RateHolds` and `RetryHonest`. For every instant still in the window, the
  starts from then on are counted by the part of the deque from then on
  (`RateInv`). That speaks of every instant, not of the two ends of one window:
  the pruning of the deque moves the end, so a statement on the present window
  alone would not be kept.
* `BooksInv`, for any keys, key routes and failures. `KeysCurrent` needs that,
  while the memory differs from the rows, a read of the rows that no commit
  overtook, or one still to come, is there to put it right. `CountedOnce` needs
  that an idle collector holds nothing.
* `NamesInv`. What a start loaded, and what an up unit was launched with, is
  what the rows say but for edits made since (`LaunchKept`), a stopped row has
  no unit up, and a later start has a later turn (`StartsOrdered`); the order
  the gateway sorts by is then the order of starts.

`LoopsProofs`:

* `AttemptsBounded` and `WithinWindow` from `SchedInv`: what is pending was
  issued once for each of its attempts, for the window last seen.
  `SettledStays`: once an action has been seen to take effect nothing is pending.
* `WindowsInv`, for weeks and days of any length, any schedules and any moment.
  The proof writes moments as a day and a time of day and shows that a window
  that wraps past midnight covers a moment exactly by its start or by the day
  before. `AnnouncedIsNext`: `NextWindowOpen` takes the least of the starts to
  come. Any moment at which the instance is live has such a start between now and
  itself, because the window that covers it began after now, as it is closed now.
  The existence of a least candidate is well-foundedness of the naturals.
* `UsageInv`. What the windows claim, with what the last scrape and then the
  counter would still add, has been served: an inequality that each step keeps
  because two differences of readings add at least what the outer readings would
  (`Triangle`, by cases on where the counter fell). Exactness, undisturbed, holds
  because all readings are then of one life of the counter.
* `AlertsInv`, for any sustain periods. `AlertRowsKnown` is kept by a tick that
  ends and opens rows together because the rows it opens get distinct new
  positions whatever order the rules come in; `AlertOutlivesDemotion` needs that
  the alert's own clock is the moment the service was first seen out
  (`AlertsIInv`), through a demotion as well.
* `DecideAllowed`, `DemotionSustained` and `DeadlineSurvives`, for any limits and
  restarts. `TimersRecent` ties each timer to the last pass that saw something
  else; `DeadlineMet` says what a pass has seen of a row its deadline has passed.
  Timers are lost at a restart, which only makes them younger; the deadline
  stands in the row, so it is not moved.

`PromotionProofs`:

* `PromInv`: a job's place fixes what its history row says; a job that is alone
  loaded the pointer (as the foreign keys have kept it since) and read every
  active row. A deletion moves pointer, rows and references together, which is
  why the invariant speaks of `Alive` references. `ActiveIsPointer` is not
  inductive alone, because the flip supersedes what it read one step earlier.
* `PendingHasCause`: a job that lost a row lost its target or the previous holder,
  and rows do not come back (`LostRows`).
* `RollbackGoesBack`. The holder before is the one the active row came from
  (`CameFrom`), for which each row must be in the list of promotions once
  (`Listed`) and a job's row must refer to what its job loaded (`RowOrigins`).

`PortalProofs`:

* `SessionsInv`, for any users, sessions, requests, restarts and clock. Memory is
  behind the table by exactly what is committed and not yet remembered;
  `latest`, the greatest time the clock has shown, bounds what a sweep may have
  taken; an ended session is ended in the table (and in memory once loaded) by
  its id or an epoch, and epochs only grow; a spared session is ended by neither
  copy, nor by a request under way.
* `SignInInv`, for any number of callbacks. `RequestsSpread`: who refreshes is
  alone, and read the clock `RefreshGap` after the last attempt. `TrustEnds` for
  a queue of any length: a callback that waits for the lock has waited a tick at
  most for each of the others that have passed it (`Prompt`, with `Passed` the
  set of those), so its reading of the clock is `Delay` ticks old at most, and a
  key in the cache was the provider's when the cache was filled (`CacheHonest`).
* `EvalsInv`. A job's plan fixes what it has to measure (`PlanKept`), and one that
  measures has left its traces in the row unless a write was lost or the row is
  another's (`TracesLeft`).
* `BackupInv`. The references of the database hold at every moment, and a bundle
  that was not written to while it was read agrees with the database in every
  table it has read (`ReadSoFar`), so its references hold too, as far as it
  covers their targets. With that each statement of a restore is allowed: the
  proof follows the rows through the chain (`Midway`), a table at a time.
* `RestoredWhole`: along the same chain, the rows that are committed are those
  `Refilled` asks for, whichever tables the bundle covers. What has to be seen is
  that no later statement undoes an earlier one: the cascades of the deletions
  strike only tables that are emptied or put right after them.
* `PortsInv`. A row is apart from what it was compared with, and so is the row a
  request is about to write (`AskApart`): a comparison counts only as long as
  both rows are as they were read.

`NodesProofs`:

* `SshInv`: an operation's client is the pooled one or a stray (`ClientsKnown`),
  who gets a client holds the pool's lock, and who dials holds the client's,
  which has no connection meanwhile (`LocksHold`).
* `CertsInv`: unless excused, one actor is at work, the key it has in hand is the
  staged one until it is promoted, and the live key is the certificate's but
  between the two writes (`Keyed`); a renewal that is due has lost a pass for each
  interval since, to a failure or to a pass still at work, and a pass under way
  may take one more (`InHand`); `RenewAfter` leaves a third of the lifetime. A
  pass judges by the row it loaded, which is no later than the present one
  (`Loaded`).
* `SamplerInv`: a task under an id that was not reused samples the row that has
  it (`OwnTask`) against counters of that row (`OwnRates`), and an id without a
  task has no caches (`Clean`). Under a reused id the first rates are computed
  against the former node's counters, which is why `RatesWithinReach` excepts it.
* `FilesInv`, for any tasks, workers, rows and restarts. Neither half is
  inductive: a transfer is in flight because of a task that stands in a place
  that fits it (`Placed`), a task about to mark a worker present has delivered
  the files (`Delivered`), and a delete that nothing overlapped still knows which
  copies were present (`Fresh`), so that it cannot take files from under one it
  does not mark. A removed row whose id is given out again makes the tasks that
  loaded it `stale`: a commit of theirs to the next row writes what they did on
  the same nodes, so the facts about disks hold for it; that a delete knows what
  was present does not, and is claimed of tasks that are not stale.
* `ClusterInv`, for any nodes, images, job slots and jobs. A job is a sequence of
  steps, so the invariant has two parts. Every sequence is in the order of its
  kind (`Ordered`: recorded before Ray restarts, listed before rolled, Ray
  stopped before the setup is forgotten), which the tail of a sequence inherits
  and `Begin` establishes for setup, update and teardown. And unless disturbed,
  what is left of the one job at work makes up for what it has yet to do
  (`Makes`): before the wait, each node runs the new image, is still to come or failed to
  restart; before the roll, the image is recorded or is still to be, and the
  instance was listed or its unit runs what is recorded but for a named cause
  (`NothingFormer`).

Only model-checked are the liveness properties `CancelTakesEffect`, `StreamEnds`
and `DeadlineWorks`: they rest on fairness and so on ENABLED, which this prover
does not handle. Nothing else that a passing run checks is without a theorem.

No proof needs induction over data. Where one seemed to, the definition was
given its meaning instead of an evaluation: `PreviousHolder` is the latest
position that qualifies and `Resolved` a member of the matching set that is
served in the first turn, where the code filters or sorts a list; and a least
element comes from well-foundedness (`WFMin`) rather than from an induction.

## 5. Where the code and its own words differ

The violation runs, each with its counterexample in TLC's output:

* `lifecycle_orphan`: the delete handler ignores in-flight jobs
  (`routers/instances.py:384`), so a start still under way installs the unit of
  an instance that is gone.
* `gateway_slip`: some ways out of `_proxy` do not return the slot
  (`routers/gateway.py:361`, 369), although line 345 says every one must.
* `promotion_outgoing`: the outgoing instance is stopped only if its row says
  `running` (`services/endpoints.py:328`). A start that gives up waiting for
  health is not a failure, so the pointer may name a `starting` instance, and
  the next promotion starts a second one on the same box.
* `names_mirror`: `_served_names` (`routers/gateway.py:134`) takes an instance's
  own names, while the unit of an endpoint's member is launched with the
  endpoint's (`services/instances.py:102-112`); lines 137-140 say they mirror.

Noticed while modelling, and kept in mind by the statements of properties rather
than stated as violations.

Jobs and instances:

* A job cancelled before the try block of `_run` leaves a live row
  (`AdriftHasCause` names it). A start job that is cancelled while it ends its
  log follower swallows that (`services/instances.py:556-562`), goes on with the
  rest of the start, and its remote commands have no timeout.
* Lines of two writers can overtake each other, and a writer can be cancelled
  between storing its line and publishing it (`services/jobs.py:291-301`); both
  kinds are then never sent to a socket that listens (`missed` in
  `EverythingSent`). A job that was cut off after its last line was lost leaves
  its stream waiting.
* `remove_systemd_unit` looks at no exit status and takes a failing `test -e` for
  "not installed" (`services/nodeops.py:78-93`), and the delete job drops the row
  all the same: the unit stays and nothing says so (`left`).
* Two start requests pass the in-flight check before either registers; a PATCH
  commits after a start has read the settings; a start that saw the unit
  healthy writes `running` over a stop; a late observer write can restore
  `last_healthy_at` of a former life and so disarm the deadline. The lifecycle
  run has one job at a time, and `DeadlineWorks` speaks of rows never healthy.
* The status `stopping` is read (`routers/instances.py:270`,
  `routers/gateway.py:240`) and never written.
* The observer counts one cached reading at every pass, dates no reading, and
  takes an activating unit for a dead one.
* A scheduled start that is cancelled, or undone by an operator, before any pass
  saw it take effect is issued again.
* A promotion whose target failed reports that the previous instance could not
  be restarted even when it was (`services/endpoints.py:348` raises inside the
  try that 352 catches). A cancelled one leaves its row pending for ever, and
  so does one in which a write of an instance fails: neither `start_instance`
  (387-391) nor `stop_instance` rolls the session back, so the commit of "failed"
  (`services/endpoints.py:338`) raises too. Two promotions with different targets can overlap; `ActiveIsPointer` and
  `RollbackGoesBack` are about those that do not. Promoting the current holder
  again makes it its own rollback target. Deleting an endpoint asks to stop the
  instance first, which never clears the pointer.

The gateway and its books:

* A reload of the keys that read the rows before another route's commit can
  install them after that route's reload: a revoked key is then accepted until
  the next key route or restart (`services/apikeys.py:128-144`).
* Editing an endpoint's port or TLS while a member runs makes the gateway dial a
  port nobody binds (`routers/endpoints.py:164-186`).
* The message for a model that is still loading looks at one instance in row
  order, and an older stopped one hides the one that loads
  (`routers/gateway.py:227`).

What the portal keeps:

* Ports: an edit that leaves an endpoint and changes its port is still compared
  as a member; the pinned port of a member and TLS ports are never compared.
* Sign-out-everywhere misses a session issued in the future of a clock that was
  set back (`routers/sessions.py:64`). The sweep takes a revocation at the very
  moment its session expires, while the check still accepts it then
  (`services/sessions.py:85-92`, `auth.py:126`).
* Within the minute after a failed refresh `_jwks_keys` answers with the cached
  keys of any age (`services/oidc.py:220`), also past the ceiling of which
  `config.py:116-120` speaks; the next refresh that fails refuses again (`past`
  in `TrustEnds`). A failed fetch of the metadata is not counted as an attempt
  (222 stands before the try).
* An evaluation whose job is cancelled or finds no endpoint stays `running`
  (`services/evals.py:390`, 429) until the next start of the portal. Deleting the
  newest run frees its id, and the job that still drives it writes to the next.
* A restore cannot replace a node that a job row refers to: the foreign key of
  the jobs, which no bundle covers, makes it abort (`models.py:540`,
  `services/backup.py:232-235`). A bundle is no snapshot: rows written while it is
  read can make it one that will not restore. A restore of an older bundle clears
  rows and references of tables it does not cover, where `docs/CHANGELOG.md:446`
  lets one expect that they are left alone.

The loops and the nodes:

* Alert rows of subjects that vanished, or that were open at a restart, stay
  open and are shown as active (`services/alerts.py:214`, `routers/alerts.py:21`).
* A node that takes the id of a deleted one between two passes of the manager
  keeps the ended sampler, and is not sampled (`services/telemetry.py:479-512`).
  Its first rates are then computed against the counters of the former node
  (549-554).
  XID events of the second at which the cursor stands are reported again (712-741).
* An install cut between the certificate and the key leaves the two mismatched,
  the order being certificate first (`services/nodecert.py:206-220`). Renewal is
  due by the age of the install and the lifetime now set, not by the
  certificate's own end (189-191), so a lifetime that is raised can let one
  expire. What `services/certrenew.py:53` collects as expiring is read by nobody.
  An uploaded certificate is never compared with the key it is installed with
  (`routers/nodes.py:264-280`). A node whose DNS name was cleared is not renewed
  (`services/certrenew.py:96`). Nodes are renewed one after the other by commands
  without a timeout, so one node that hangs holds up all others.
* A delete of model files holds the database's write lock across its SSH
  commands once a flush came before them. A delete that overlaps a transfer can
  leave `present` on a node without files (`doubt`). `remove_registry`
  (`routers/models.py:229-235`) has no guard: a job of the removed row goes on,
  and as ids come free its commit can mark a new model's node present without
  files, or fail with the row gone and leave its container running.
* Two cluster jobs can overlap: a setup writes the former image's units again, and
  its ORM write of a value it had loaded is no write, so `setup_complete` can
  survive a teardown. A rolling restart starts an instance again that was stopped
  since it was listed, and leaves the former image at work where the stop or the
  start raises (`services/cluster.py:190-194`) or where the row of a unit that
  runs says `error` (176-178). The exit status of the restart of a Ray unit is
  not looked at (`services/nodeops.py:75`), and setup goes on. Teardown leaves distributed instances alone, and marks
  models absent although their removal failed.

## 6. Not modelled, and simplifications

* The fan-out of a distributed start over several nodes and the TLS sidecar: the
  unit is one thing on one node.
* The readings of `promote`'s first three SELECTs are one step. A refusal is
  always possible there, so aliases and certificates do not matter. That the id
  of a deleted instance is given to a new one during a promotion is not followed.
* An extra observer pass from `POST /api/instances/{id}/reconcile` is a pass like
  any other.
* One node and one instance stand for all in `Alerts`, one instance and one
  counter in `Usage`, one node in `SshPool` and `NodeCerts`, one model in
  `ModelFiles`: the code keeps nothing that is shared between two of them but
  the dictionaries they are keys of.
* Ids in `Sampler`, `ModelFiles`, `Evals` and `Backup` come free with the newest
  row, as SQLite's rowids do in tables without AUTOINCREMENT.
* In `NodeCerts` an interval of the loop is one tick of the clock, whatever a pass
  itself takes is counted in whole intervals, and "expires" is what the node's
  row says of the certificate.
* In `ClusterSetup` the preparing phases and the pull leave nothing behind that
  later steps need: docker pulls an image it has not got.
* In `Backup` a restore is one step, since its transaction is one; a bundle that
  is read meanwhile sees tables of before and after it.
* Daylight-saving jumps of the schedule's timezone.
* In `SignIn` a request to the provider is answered or given up within a tick, and
  attempts are more than a tick apart (10 s and 60 s); a token may be signed with
  any key the provider ever had; the portal is not restarted, which would only
  empty the caches. The checks of the token and the transaction cookie are left out.
* Node power, the planner, the unit templates, the MCP server,
  schemas and settings, the remaining routers and the front end; the reason is
  with each in `PROJECT.json`. They are text, floating-point arithmetic, library
  cryptography or request-scoped remote commands, without steps that others meet.

## 7. Plan

Done: the modules of section 2, and proofs about all of them: what is left to
TLC is liveness.

What could follow, in this order:

1. Several nodes in a distributed start, with the head and the workers up in any
   combination when one fails, and the TLS sidecar's reload.
2. `InstanceLifecycle` as the implementation of a small specification of what an
   operator is promised, on the model of `JobLedger`.
3. The three hazards that no property covers yet: overlapping start requests and
   promotions, and a start that an operator undoes between two passes.
