--------------------------------- MODULE Usage ---------------------------------
(***************************************************************************)
(* The usage history of one instance (services/usage.py): every now and     *)
(* then the collector writes what vLLM's counter grew by since its last     *)
(* window.  The counter restarts with the process, the scrape it reads is   *)
(* cached by the metrics loop (services/telemetry.py), and the collector's  *)
(* memory goes with the portal.                                             *)
(***************************************************************************)
EXTENDS Naturals

CONSTANT MaxServed  \* bound on tokens ever served

ASSUME UsageBounds == MaxServed \in Nat

VARIABLES
  counter,   \* vLLM's generation_tokens_total; Absent while no process runs
  listed,    \* the row says running
  cached,    \* telemetry._inst_counters: the last scrape, Absent if none
  lastSeen,  \* _last: the counter at the last window
  rows,      \* UsageSample: sum of the windows written
  served,    \* history: tokens served in truth
  first,     \* history: the counter at the baseline window
  disturbed  \* history: a process, the portal or a write failed, or a stop

usageVars == <<counter, listed, cached, lastSeen, rows, served, first, disturbed>>

Absent == MaxServed + 1

UsageTypeOK ==
  /\ counter \in 0..Absent /\ cached \in 0..Absent
  /\ lastSeen \in 0..Absent /\ first \in 0..Absent
  /\ listed \in BOOLEAN /\ disturbed \in BOOLEAN
  /\ rows \in Nat /\ served \in 0..MaxServed

UsageInit ==
  /\ counter = 0 /\ listed = TRUE /\ cached = Absent /\ lastSeen = Absent
  /\ rows = 0 /\ served = 0 /\ first = Absent /\ disturbed = FALSE

-----------------------------------------------------------------------------
(* vLLM answers a request.                                                  *)
Serve ==
  /\ counter # Absent /\ served < MaxServed
  /\ counter' = counter + 1 /\ served' = served + 1
  /\ UNCHANGED <<listed, cached, lastSeen, rows, first, disturbed>>

(* systemd restarts the unit, or a job stops or starts it: the row and the  *)
(* process need not change together.                                        *)
Restart ==
  /\ counter' \in {0, Absent} /\ listed' \in BOOLEAN /\ disturbed' = TRUE
  /\ UNCHANGED <<cached, lastSeen, rows, served, first>>

(* _vllm_metrics_loop: what answers is kept, anything else is forgotten.    *)
Scrape ==
  /\ cached' \in {Absent} \union (IF listed THEN {counter} ELSE {})
  /\ UNCHANGED <<counter, listed, lastSeen, rows, served, first, disturbed>>

(* Mutant: no baseline window, a first reading counts whole.                *)
BugDelta(cur, prev) == IF prev = Absent \/ cur < prev THEN cur ELSE cur - prev

(* _delta and the baseline window: a shrunk counter restarted from nothing. *)
Delta(cur, prev) ==
  IF prev = Absent THEN 0
  ELSE IF cur < prev THEN cur ELSE cur - prev

(* rollup, for an instance that is not running any more.                    *)
Forget ==
  /\ ~listed /\ lastSeen' = Absent /\ disturbed' = TRUE
  /\ UNCHANGED <<counter, listed, cached, rows, served, first>>

(* rollup: the baseline moves before the rows are committed, or are not.    *)
Rollup ==
  /\ listed /\ cached # Absent /\ lastSeen' = cached
  /\ first' = IF lastSeen = Absent THEN cached ELSE first
  /\ \/ rows' = rows + Delta(cached, lastSeen) /\ UNCHANGED disturbed
     \/ disturbed' = TRUE /\ UNCHANGED rows
  /\ UNCHANGED <<counter, listed, cached, served>>

(* The portal restarts: its memory is gone, the rows stay.                  *)
PortalRestarts ==
  /\ cached' = Absent /\ lastSeen' = Absent /\ disturbed' = TRUE
  /\ UNCHANGED <<counter, listed, rows, served, first>>

UsageNext ==
  Serve \/ Restart \/ Scrape \/ Forget \/ Rollup \/ PortalRestarts

UsageSpec == UsageInit /\ [][UsageNext]_usageVars

-----------------------------------------------------------------------------
(* The history never claims more than was served, whatever restarts, scrapes*)
(* that fail and writes that are lost come in between; and as long as none  *)
(* but scrapes fail it misses nothing of what came after the baseline       *)
(* (services/usage.py:37-43, 111-133).                                      *)
UsageAddsUp ==
  /\ rows <= served
  /\ ~disturbed /\ lastSeen # Absent => rows = lastSeen - first

(* What the usage roll-up keeps: the types, and a history that adds up      *)
(* (services/usage.py:93-138).                                              *)
UsageInv == UsageTypeOK /\ UsageAddsUp
=============================================================================
