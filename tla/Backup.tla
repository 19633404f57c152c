-------------------------------- MODULE Backup --------------------------------
(***************************************************************************)
(* Backup and restore (services/backup.py, routers/backup.py).  A bundle is *)
(* read table by table while the portal goes on; older versions of the      *)
(* portal wrote bundles without the newer tables.  A restore is one         *)
(* transaction, and alone: its first statement takes the lock of SQLite's   *)
(* one writer.  It nulls the pointers, empties the tables the bundle covers *)
(* children first, fills them parents first and points the endpoints back,  *)
(* each statement under the foreign keys of models.py.  Rows are kept down  *)
(* to what refers to what: one node, one endpoint, and one row each of the  *)
(* promotion history, the evaluations and the jobs.                         *)
(***************************************************************************)
EXTENDS Naturals, FiniteSets, Sequences

CONSTANTS
  Ids,       \* ids of instances
  Retention, \* backup_retention, at least 1
  MaxWrites,  \* bound on what others write
  MaxBundles \* bound on bundles built

NoRef == "null"
NoEntry == "no row"
ASSUME BackupAssumption == {NoRef, NoEntry} \cap Ids = {} /\ Retention \in Nat \ {0}
ASSUME BackupBounds == MaxWrites \in Nat /\ MaxBundles \in Nat

VARIABLES
  db,       \* the tables
  export,   \* the bundle being read: its tables so far, those to come
  bundles,  \* bundles at hand: the rows, the tables covered, whether torn
  restored, \* the last restore: its outcome, the bundle, what it could not touch
  objects,  \* the S3 target: the numbers of the bundles stored there
  pruning,  \* uploads whose prune is still to come, with what they listed
  writes

backupVars == <<db, export, bundles, restored, objects, pruning, writes>>

Ref == Ids \union {NoRef}
Db == [insts : SUBSET Ids, members : SUBSET Ids, endpoint : BOOLEAN, current : Ref,
       promo : Ref \union {NoEntry}, scheds : SUBSET Ids, evaluated : Ref \union {NoEntry},
       jobOnNode : BOOLEAN]
EmptyDb == [insts |-> {}, members |-> {}, endpoint |-> FALSE, current |-> NoRef,
            promo |-> NoEntry, scheds |-> {}, evaluated |-> NoEntry, jobOnNode |-> FALSE]

(* _TABLES, parents first, and what older versions had of it.               *)
Tables     == <<"endpoints", "instances", "promotions", "schedules", "evals">>
BeforeEndpoints == <<"instances", "schedules", "evals">>
BeforeEvals     == <<"instances", "schedules">>
Versions   == {Tables, BeforeEndpoints, BeforeEvals}
Covered(v) == {v[k] : k \in DOMAIN v}
Bundle(v)  == [rows |-> EmptyDb, has |-> Covered(v), torn |-> FALSE]
NoExport   == [pc |-> "idle", left |-> << >>, bundle |-> Bundle(Tables)]
NoRestore  == [outcome |-> "none", of |-> 0, jobOnNode |-> FALSE, evaluated |-> NoEntry]

Bundles == [rows : Db, has : {Covered(v) : v \in Versions}, torn : BOOLEAN]

BackupTypeOK ==
  /\ db \in Db
  /\ export.pc \in {"idle", "reading"} /\ export.bundle \in Bundles
  /\ \A k \in DOMAIN bundles : bundles[k] \in Bundles
  /\ restored.outcome \in {"none", "done", "aborted"}
  /\ restored.of \in {0} \union DOMAIN bundles
  /\ objects \subseteq DOMAIN bundles
  /\ pruning \in SUBSET SUBSET DOMAIN bundles /\ writes \in 0..MaxWrites

BackupInit ==
  /\ db = EmptyDb /\ export = NoExport /\ bundles = << >> /\ restored = NoRestore
  /\ objects = {} /\ pruning = {} /\ writes = 0

-----------------------------------------------------------------------------
(* What other requests and jobs write, under the foreign keys.              *)
Replace(new) ==
  /\ db' = new
  /\ export' = IF export.pc = "reading" THEN [export EXCEPT !.bundle.torn = TRUE] ELSE export
  /\ UNCHANGED <<bundles, objects, pruning>>

Write(new) ==
  writes < MaxWrites /\ writes' = writes + 1 /\ Replace(new) /\ UNCHANGED restored

AddInstance(i, member) ==
  /\ i \notin db.insts /\ (member => db.endpoint)
  /\ Write([db EXCEPT !.insts = @ \union {i}, !.scheds = @ \union {i},
                      !.members = IF member THEN @ \union {i} ELSE @])

(* An instance goes with its schedules; what points at it is nulled; an     *)
(* evaluation of it forbids the deletion.                                   *)
Nulled(ref, gone) == IF ref \in gone THEN NoRef ELSE ref
DropInstance(i) ==
  /\ i \in db.insts /\ db.evaluated # i
  /\ Write([db EXCEPT !.insts = @ \ {i}, !.members = @ \ {i}, !.scheds = @ \ {i},
                      !.current = Nulled(@, {i}), !.promo = Nulled(@, {i})])

AddEndpoint == ~db.endpoint /\ Write([db EXCEPT !.endpoint = TRUE])
DropEndpoint ==
  /\ db.endpoint /\ db.current = NoRef /\ db.members = {}
  /\ Write([db EXCEPT !.endpoint = FALSE, !.promo = NoEntry])
Promoted(i) == i \in db.members /\ Write([db EXCEPT !.current = i, !.promo = i])
Evaluated(i) == i \in db.insts /\ Write([db EXCEPT !.evaluated = i])
NodeJob == ~db.jobOnNode /\ Write([db EXCEPT !.jobOnNode = TRUE])

(* The box is replaced by a fresh one.                                      *)
FreshBox ==
  /\ db # EmptyDb /\ export.pc = "idle" /\ Write(EmptyDb)

-----------------------------------------------------------------------------
(* build_bundle, of this version or, before an upgrade, of an older one.    *)
ExportBegin ==
  /\ export.pc = "idle" /\ Len(bundles) < MaxBundles
  /\ \E v \in Versions :
       /\ v = BeforeEvals => ~db.endpoint
       /\ export' = [pc |-> "reading", left |-> v, bundle |-> Bundle(v)]
  /\ UNCHANGED <<db, bundles, restored, objects, pruning, writes>>

(* One select; nothing holds the tables between two of them.                *)
TableRows(rows, name) ==
  CASE name = "endpoints"  -> [rows EXCEPT !.endpoint = db.endpoint, !.current = db.current]
    [] name = "instances"  -> [rows EXCEPT !.insts = db.insts, !.members = db.members]
    [] name = "promotions" -> [rows EXCEPT !.promo = db.promo]
    [] name = "schedules"  -> [rows EXCEPT !.scheds = db.scheds]
    [] name = "evals"      -> [rows EXCEPT !.evaluated = db.evaluated]

ReadTable ==
  LET read == TableRows(export.bundle.rows, Head(export.left)) IN
  /\ export.pc = "reading" /\ Len(export.left) > 0
  /\ export' = [export EXCEPT !.left = Tail(@), !.bundle.rows = read]
  /\ UNCHANGED <<db, bundles, restored, objects, pruning, writes>>

(* run_backup: the bundle is uploaded and the target listed.                *)
Upload ==
  LET key == Len(bundles) + 1 IN
  /\ export.pc = "reading" /\ export.left = << >>
  /\ bundles' = Append(bundles, export.bundle)
  /\ export' = NoExport
  /\ objects' = objects \union {key} /\ pruning' = pruning \union {objects'}
  /\ UNCHANGED <<db, restored, writes>>

(* Mutant: the listing is taken in the order of its keys.                   *)
BugSurplus(keys) == {k \in keys : Cardinality({n \in keys : n < k}) >= Retention}

(* What the prune deletes: all but the newest.                              *)
Surplus(keys) == {k \in keys : Cardinality({n \in keys : n > k}) >= Retention}

Prune ==
  /\ \E listed \in pruning :
       /\ pruning' = pruning \ {listed}
       /\ objects' \in {objects \ Surplus(listed), objects}
  /\ UNCHANGED <<db, export, bundles, restored, writes>>

-----------------------------------------------------------------------------
(* Mutant: a reference into a table the bundle lacks is restored as it was. *)
BugMembers(b) == b.rows.members

(* _null_orphan_fks: membership is dropped when no endpoints come with it.  *)
Members(b) == IF "endpoints" \in b.has THEN b.rows.members ELSE {}

(* Mutant: the pointers stay null.                                          *)
BugPointer(b) == NoRef
Pointer(b) == IF "endpoints" \in b.has THEN b.rows.current ELSE NoRef

(* What a foreign key asks of every statement.                              *)
RefsHold(d) ==
  /\ d.scheds \subseteq d.insts /\ d.members \subseteq d.insts
  /\ d.members # {} \/ d.promo # NoEntry \/ d.current # NoRef => d.endpoint
  /\ {d.current, d.promo, d.evaluated} \subseteq d.insts \union {NoRef, NoEntry}

(* What the deletion of a table's rows leaves: schedules go with their      *)
(* instance and a promotion with its endpoint, a promotion's instance is    *)
(* nulled, an evaluation of an instance stays and forbids the deletion.     *)
Emptied(d, name) ==
  CASE name = "evals"      -> [d EXCEPT !.evaluated = NoEntry]
    [] name = "schedules"  -> [d EXCEPT !.scheds = {}]
    [] name = "promotions" -> [d EXCEPT !.promo = NoEntry]
    [] name = "instances"  -> [d EXCEPT !.insts = {}, !.members = {}, !.scheds = {},
                                        !.promo = Nulled(@, Ids)]
    [] name = "endpoints"  -> [d EXCEPT !.endpoint = FALSE, !.promo = NoEntry]

(* The rows of a table as they are inserted: endpoints without pointer.     *)
Filled(d, b, name) ==
  CASE name = "endpoints"  -> [d EXCEPT !.endpoint = b.rows.endpoint]
    [] name = "instances"  -> [d EXCEPT !.insts = b.rows.insts, !.members = Members(b)]
    [] name = "promotions" -> [d EXCEPT !.promo = b.rows.promo]
    [] name = "schedules"  -> [d EXCEPT !.scheds = b.rows.scheds]
    [] name = "evals"      -> [d EXCEPT !.evaluated = b.rows.evaluated]

(* A transaction: the rows its statements made and the statements refused,  *)
(* the first of which ends it.                                              *)
Begun == [rows |-> [db EXCEPT !.current = NoRef], refused |-> {}]
Statement(t, d, what) ==
  [rows |-> d, refused |-> IF RefsHold(d) THEN t.refused ELSE t.refused \union {what}]

(* Mutant: a table that the bundle does not mention is emptied too.         *)
BugEmptyTable(b, t, name) == Statement(t, Emptied(t.rows, name), "delete")

EmptyTable(b, t, name) ==
  IF name \in b.has THEN Statement(t, Emptied(t.rows, name), "delete") ELSE t
FillTable(b, t, name) ==
  IF name \in b.has THEN Statement(t, Filled(t.rows, b, name), "insert") ELSE t

(* The nodes go last and come back first; a job of one forbids that.        *)
Deleted(b) ==
  LET evals      == EmptyTable(b, Begun, "evals")
      schedules  == EmptyTable(b, evals, "schedules")
      promotions == EmptyTable(b, schedules, "promotions")
      instances  == EmptyTable(b, promotions, "instances")
      endpoints  == EmptyTable(b, instances, "endpoints")
  IN IF db.jobOnNode THEN [endpoints EXCEPT !.refused = @ \union {"delete"}] ELSE endpoints

Inserted(b, t) ==
  LET endpoints  == FillTable(b, t, "endpoints")
      instances  == FillTable(b, endpoints, "instances")
      promotions == FillTable(b, instances, "promotions")
      schedules  == FillTable(b, promotions, "schedules")
  IN FillTable(b, schedules, "evals")

Repointed(b, t) == Statement(t, [t.rows EXCEPT !.current = Pointer(b)], "update")

(* apply_bundle commits all of it or, after an error, nothing.              *)
Restore ==
  \E k \in DOMAIN bundles :
    LET b == bundles[k]
        t == Repointed(b, Inserted(b, Deleted(b)))
    IN /\ \/ t.refused = {} /\ Replace(t.rows)
          \/ t.refused # {} /\ UNCHANGED <<db, export, bundles, objects, pruning>>
       /\ restored' = [outcome |-> IF t.refused = {} THEN "done" ELSE "aborted", of |-> k,
                       jobOnNode |-> db.jobOnNode, evaluated |-> db.evaluated]
       /\ UNCHANGED writes

BackupNext ==
  \/ \E i \in Ids : \/ \E member \in BOOLEAN : AddInstance(i, member)
                    \/ DropInstance(i) \/ Promoted(i) \/ Evaluated(i)
  \/ AddEndpoint \/ DropEndpoint \/ NodeJob \/ FreshBox
  \/ ExportBegin \/ ReadTable \/ Upload \/ Prune \/ Restore

BackupSpec == BackupInit /\ [][BackupNext]_backupVars

-----------------------------------------------------------------------------
(* A restore that ends in an error has a cause: the bundle was written to   *)
(* while it was read, or a row of a table it does not cover refers to one   *)
(* it replaces: a job to the node, an evaluation to an instance             *)
(* (services/backup.py:149-178, 231-261, db.py:35).                         *)
AbortHasCause ==
  restored.outcome = "aborted" =>
    \/ bundles[restored.of].torn \/ restored.jobOnNode
    \/ "evals" \notin bundles[restored.of].has /\ restored.evaluated \in Ids

(* What the tables should be after a restore: those the bundle covers as in *)
(* the bundle, the others as they were, with no reference into what is gone.*)
Refilled(b) ==
  [db EXCEPT
    !.insts = b.rows.insts, !.members = Members(b), !.scheds = b.rows.scheds,
    !.endpoint = IF "endpoints" \in b.has THEN b.rows.endpoint ELSE @,
    !.current = IF "endpoints" \in b.has THEN b.rows.current ELSE NoRef,
    !.promo = IF "promotions" \in b.has THEN b.rows.promo ELSE Nulled(@, Ids),
    !.evaluated = IF "evals" \in b.has THEN b.rows.evaluated ELSE @]

(* What a restore commits, table after table, cascades and pointers among   *)
(* it, is the bundle in the tables it covers and the database as it is in   *)
(* the others, whatever was there before (services/backup.py:202-267).      *)
RestoredWhole ==
  [][restored'.outcome = "done" /\ Restore =>
       db' = Refilled(bundles[restored'.of])]_backupVars

(* The newest bundle uploaded is kept, whichever prune runs last            *)
(* (services/backup.py:308-318).                                            *)
NewestKept == bundles # << >> => Len(bundles) \in objects

(* What backups keep: the types, restores that fail for a cause only, and   *)
(* the newest bundle (services/backup.py:149-318).                          *)
BackupInv == BackupTypeOK /\ AbortHasCause /\ NewestKept
=============================================================================
