----------------------------- MODULE GatewayBooks -----------------------------
(***************************************************************************)
(* What the gateway keeps in memory beside its tables: the API keys it      *)
(* accepts (services/apikeys.py, the key routes of routers/gateway.py) and  *)
(* the requests and key uses it has counted (services/gwstats.py).  A key   *)
(* route commits its row and then reloads the memory, with awaits before,   *)
(* between and after; the collector takes what was counted and then writes. *)
(***************************************************************************)
EXTENDS Naturals, FiniteSets

CONSTANTS
  Keys,        \* API keys, each issued at most once
  Admins,      \* requests that change keys
  KeyLimits,   \* values of a key's overrides
  MaxCalls,    \* bound on gateway requests
  MaxKeyEdits, \* bound on key changes
  MaxLapses    \* bound on failures and crashes

NoKey == "none"
ASSUME BooksAssumption == NoKey \notin KeyLimits /\ KeyLimits # {}
ASSUME BooksBounds == MaxCalls \in Nat /\ MaxKeyEdits \in Nat /\ MaxLapses \in Nat

VARIABLES
  keyRow,   \* ApiKey: enabled and the overrides; NoRow before issue, Gone after delete
  byDigest, \* _BY_DIGEST: the overrides of each key accepted, or NoKey
  admin,    \* each key route: its place, key, what it writes, what it read
  touched,  \* _LAST_USED
  used,     \* keys whose row has a last_used_at
  buckets,  \* Stats.buckets: requests counted since the last drain
  samples,  \* GatewaySample: requests written
  flush,    \* the collector: its place, the window and the uses it took
  recorded, \* history: requests recorded
  overtaken,\* history: the memory was last loaded before the last write, or not at all
  keyEdits, lapses

booksVars == <<keyRow, byDigest, admin, touched, used, buckets, samples, flush,
               recorded, overtaken, keyEdits, lapses>>
counts == <<touched, used, buckets, samples, flush, recorded>>
keyVars == <<keyRow, byDigest, admin, overtaken, keyEdits>>

Row     == [there : BOOLEAN, enabled : BOOLEAN, limit : KeyLimits \union {NoKey}]
NoRow   == [there |-> FALSE, enabled |-> TRUE, limit |-> NoKey]
Gone    == [there |-> FALSE, enabled |-> FALSE, limit |-> NoKey]
KeyMap  == [Keys -> KeyLimits \union {NoKey}]
Nothing == [k \in Keys |-> NoKey]
NoRoute == [pc |-> "idle", key |-> NoKey, op |-> "none", was |-> NoRow, row |-> NoRow,
            snap |-> Nothing, late |-> FALSE]
NoFlush == [pc |-> "idle", window |-> 0, uses |-> {}]

BooksTypeOK ==
  /\ keyRow \in [Keys -> Row] /\ byDigest \in KeyMap
  /\ admin \in [Admins -> [pc : {"idle", "write", "read", "install"},
       key : Keys \union {NoKey}, op : {"none", "issue", "update", "delete"},
       was : Row, row : Row, snap : KeyMap, late : BOOLEAN]]
  /\ touched \subseteq Keys /\ used \subseteq Keys
  /\ buckets \in Nat /\ samples \in Nat /\ recorded \in Nat
  /\ flush \in [pc : {"idle", "writing"}, window : Nat, uses : SUBSET Keys]
  /\ overtaken \in BOOLEAN /\ keyEdits \in Nat /\ lapses \in Nat

BooksInit ==
  /\ keyRow = [k \in Keys |-> NoRow] /\ byDigest = Nothing
  /\ admin = [a \in Admins |-> NoRoute]
  /\ touched = {} /\ used = {} /\ buckets = 0 /\ samples = 0 /\ flush = NoFlush
  /\ recorded = 0 /\ overtaken = FALSE /\ keyEdits = 0 /\ lapses = 0

-----------------------------------------------------------------------------
(* What a select of the enabled rows gives the digest map.                  *)
Live(rows) == [k \in Keys |-> IF rows[k].there /\ rows[k].enabled
                              THEN rows[k].limit ELSE NoKey]

At(a, place) == admin[a].pc = place

(* A route has loaded its row, or made a new one.                           *)
Begin(a, k, op, row) ==
  /\ At(a, "idle") /\ keyEdits < MaxKeyEdits /\ keyEdits' = keyEdits + 1
  /\ admin' = [admin EXCEPT ![a] = [NoRoute EXCEPT !.pc = "write", !.key = k, !.op = op,
                                    !.was = keyRow[k], !.row = row]]
  /\ UNCHANGED <<keyRow, byDigest, overtaken, lapses, counts>>

Issue(a, k) ==
  /\ keyRow[k] = NoRow /\ \A b \in Admins : admin[b].key # k
  /\ \E l \in KeyLimits : Begin(a, k, "issue", [there |-> TRUE, enabled |-> TRUE, limit |-> l])

UpdateKey(a, k) ==
  /\ keyRow[k].there
  /\ \E new \in [there : {TRUE}, enabled : BOOLEAN, limit : KeyLimits] :
       Begin(a, k, "update", new)

DeleteKey(a, k) == keyRow[k].there /\ Begin(a, k, "delete", Gone)

(* An attribute that was set to its loaded value is not written.            *)
Merged(now, was, new) ==
  [now EXCEPT !.enabled = IF new.enabled = was.enabled THEN @ ELSE new.enabled,
              !.limit   = IF new.limit = was.limit THEN @ ELSE new.limit]

(* Mutant: deleting a key leaves the memory alone.                          *)
BugAfterCommit(a) == IF admin[a].op = "delete" THEN NoRoute
                     ELSE [admin[a] EXCEPT !.pc = "read"]
AfterCommit(a) == [admin[a] EXCEPT !.pc = "read"]

(* The commit; who has read the rows already has read the former ones.      *)
CommitKey(a) ==
  LET k == admin[a].key IN
  /\ At(a, "write")
  /\ admin[a].op = "update" => keyRow[k].there
  /\ keyRow' = [keyRow EXCEPT ![k] =
       IF admin[a].op = "update" THEN Merged(@, admin[a].was, admin[a].row)
       ELSE admin[a].row]
  /\ admin' = [b \in Admins |-> IF b = a THEN AfterCommit(a)
                                ELSE [admin[b] EXCEPT !.late = @ \/ admin[b].pc = "install"]]
  /\ UNCHANGED <<byDigest, overtaken, keyEdits, lapses, counts>>

(* The row an update loaded was deleted: if it changes anything, it raises. *)
UpdateRaises(a) ==
  /\ At(a, "write") /\ admin[a].op = "update" /\ ~keyRow[admin[a].key].there
  /\ admin' = [admin EXCEPT ![a] = IF admin[a].row = admin[a].was
                                   THEN AfterCommit(a) ELSE NoRoute]
  /\ UNCHANGED <<keyRow, byDigest, overtaken, keyEdits, lapses, counts>>

ReadKeys(a) ==
  /\ At(a, "read")
  /\ admin' = [admin EXCEPT ![a].pc = "install", ![a].snap = Live(keyRow)]
  /\ UNCHANGED <<keyRow, byDigest, overtaken, keyEdits, lapses, counts>>

(* clear and update, with no await between them.                            *)
InstallKeys(a) ==
  /\ At(a, "install")
  /\ byDigest' = admin[a].snap /\ overtaken' = admin[a].late
  /\ admin' = [admin EXCEPT ![a] = NoRoute]
  /\ UNCHANGED <<keyRow, keyEdits, lapses, counts>>

RefreshFails(a) ==
  /\ admin[a].pc \in {"read", "install"} /\ lapses < MaxLapses /\ lapses' = lapses + 1
  /\ admin' = [admin EXCEPT ![a] = NoRoute] /\ overtaken' = TRUE
  /\ UNCHANGED <<keyRow, byDigest, keyEdits, counts>>

-----------------------------------------------------------------------------
(* _gateway_auth with a key it knows.                                       *)
Authenticate(k) ==
  /\ byDigest[k] # NoKey /\ touched' = touched \union {k}
  /\ UNCHANGED <<keyVars, used, buckets, samples, flush, recorded, lapses>>

(* A request is over, accepted or refused.                                  *)
Record ==
  /\ recorded < MaxCalls /\ recorded' = recorded + 1 /\ buckets' = buckets + 1
  /\ UNCHANGED <<keyVars, touched, used, samples, flush, lapses>>

(* Mutant: the counters are read and not taken.                             *)
BugDrained == buckets
Drained == 0

(* flush: counters and uses are taken before the first await.               *)
FlushBegin ==
  /\ flush.pc = "idle" /\ (buckets # 0 \/ touched # {})
  /\ flush' = [pc |-> "writing", window |-> buckets, uses |-> touched]
  /\ buckets' = Drained /\ touched' = {}
  /\ UNCHANGED <<keyVars, used, samples, recorded, lapses>>

WindowWritten ==
  /\ samples' = samples + flush.window
  /\ used' = used \union {k \in flush.uses : keyRow[k].there}

FlushCommit ==
  /\ flush.pc = "writing" /\ WindowWritten /\ flush' = NoFlush
  /\ UNCHANGED <<keyVars, touched, buckets, recorded, lapses>>

(* The write fails or is cancelled, and may have reached the database.      *)
FlushFails ==
  /\ flush.pc = "writing" /\ lapses < MaxLapses /\ lapses' = lapses + 1
  /\ WindowWritten \/ UNCHANGED <<samples, used>>
  /\ flush' = NoFlush
  /\ UNCHANGED <<keyVars, touched, buckets, recorded>>

(* The process dies; the next one loads the keys before it serves.          *)
BooksRestart ==
  /\ lapses < MaxLapses /\ lapses' = lapses + 1
  /\ byDigest' = Live(keyRow) /\ overtaken' = FALSE
  /\ admin' = [a \in Admins |-> NoRoute]
  /\ buckets' = 0 /\ touched' = {} /\ flush' = NoFlush
  /\ UNCHANGED <<keyRow, used, samples, recorded, keyEdits>>

BooksNext ==
  \/ \E a \in Admins :
       \/ \E k \in Keys : Issue(a, k) \/ UpdateKey(a, k) \/ DeleteKey(a, k)
       \/ CommitKey(a) \/ UpdateRaises(a) \/ ReadKeys(a) \/ InstallKeys(a)
       \/ RefreshFails(a)
  \/ \E k \in Keys : Authenticate(k)
  \/ Record \/ FlushBegin \/ FlushCommit \/ FlushFails \/ BooksRestart

BooksSpec == BooksInit /\ [][BooksNext]_booksVars

-----------------------------------------------------------------------------
(* When no key route is about to reload, the gateway accepts the enabled    *)
(* keys and no other, each with its present limits; unless the last reload  *)
(* failed, or read the rows before another route's commit and installed     *)
(* them after it (services/apikeys.py:128-144, routers/gateway.py:507-529). *)
KeysCurrent ==
  \/ byDigest = Live(keyRow) \/ overtaken
  \/ \E a \in Admins : admin[a].pc \in {"read", "install"}

(* A request is counted in at most one place: the open window, the one the  *)
(* collector is writing, or the table; and in one, unless a flush failed or *)
(* the portal died (services/gwstats.py:84-105, 155-181).                   *)
CountedOnce ==
  /\ buckets + flush.window + samples <= recorded
  /\ lapses = 0 => buckets + flush.window + samples = recorded

(* What the gateway keeps in memory: the types, the present keys, and       *)
(* requests that are counted once (services/apikeys.py:128-144,             *)
(* services/gwstats.py:84-181).                                             *)
BooksInv == BooksTypeOK /\ KeysCurrent /\ CountedOnce
=============================================================================
