----------------------------- MODULE GatewayNames -----------------------------
(***************************************************************************)
(* Which instance the gateway sends a model name to, and at which address   *)
(* (routers/gateway.py), against what the instance's unit was launched with *)
(* (services/instances.py, services/binding.py).  Names and addresses are   *)
(* derived anew from the rows for every request; the unit keeps what the    *)
(* start job had loaded.  All instances serve the same registered model and *)
(* the members among them belong to one endpoint.                           *)
(***************************************************************************)
EXTENDS Naturals, FiniteSets

CONSTANTS
  NumInstances, \* instances; their ids are 1..NumInstances
  Aliases,      \* aliases an operator may give, other than the model's name
  MaxStarts,    \* bound on starts
  MaxChanges    \* bound on edits of instances and of the endpoint

ModelName == "registered"
Names == Aliases \union {ModelName}
Served == 1..NumInstances
ASSUME NamesAssumption == NumInstances \in Nat /\ ModelName \notin Aliases
ASSUME NamesBounds == MaxStarts \in Nat /\ MaxChanges \in Nat

VARIABLES
  row,      \* Instance: status, started_at (0 is null), names, tls, endpoint member
  endpoint, \* Endpoint: its aliases, whether it pins a port, who terminates TLS
  unit,     \* what each unit on its node was launched with
  job,      \* each instance's job: its place, what it loaded, what was edited since
  patch,    \* each instance's edit request: the status it saw, or NotEditing
  moment,   \* the clock started_at is read from
  turn,     \* history: the turn in which each instance was last started
  passed,   \* history: what was edited past the guards since each launch loaded it
  changes

namesVars == <<row, endpoint, unit, job, patch, moment, turn, passed, changes>>

Statuses  == {"stopped", "starting", "running", "error"}
Endpoints == [aliases : SUBSET Names, pinned : BOOLEAN, k8s : BOOLEAN]
Launched  == [up : BOOLEAN, names : SUBSET Names, at : {"own", "pinned", "sidecar"}]
Settings  == [names : SUBSET Names, tls : BOOLEAN, member : BOOLEAN]
NoSetting == [names |-> {}, tls |-> FALSE, member |-> FALSE]
NoLaunch  == [up |-> FALSE, names |-> {}, at |-> "own"]
Edits     == SUBSET {"row", "endpoint"}
NoJob     == [pc |-> "none", with |-> NoLaunch, since |-> {}]
NotEditing == "none"

NamesTypeOK ==
  /\ row \in [Served -> [status : Statuses, started : Nat, set : Settings]]
  /\ endpoint \in Endpoints
  /\ unit \in [Served -> Launched]
  /\ job \in [Served -> [pc : {"none", "loaded", "launching", "stopping"},
                         with : Launched, since : Edits]]
  /\ patch \in [Served -> Statuses \union {NotEditing}]
  /\ moment \in 1..(MaxStarts + 1) /\ turn \in [Served -> 0..MaxStarts]
  /\ passed \in [Served -> Edits] /\ changes \in 0..MaxChanges

NamesInit ==
  /\ \E m \in BOOLEAN :
       row = [i \in Served |-> [status |-> "stopped", started |-> 0,
                                set |-> [NoSetting EXCEPT !.member = m, !.tls = m]]]
  /\ endpoint \in [aliases : {{a} : a \in Aliases}, pinned : {TRUE}, k8s : BOOLEAN]
  /\ unit = [i \in Served |-> NoLaunch]
  /\ job = [i \in Served |-> NoJob] /\ patch = [i \in Served |-> NotEditing]
  /\ moment = 1 /\ turn = [i \in Served |-> 0]
  /\ passed = [i \in Served |-> {}] /\ changes = 0

-----------------------------------------------------------------------------
(* effective_port and effective_tls: where an instance is to be reached.    *)
Address(set, ep) ==
  IF set.tls /\ ~(set.member /\ ep.k8s) THEN "sidecar"
  ELSE IF set.member /\ ep.pinned THEN "pinned" ELSE "own"

OwnNames(names) == IF names = {} THEN {ModelName} ELSE names

(* _effective_aliases, _serve_kwargs: what a start launches the unit with.  *)
Launch(set, ep) ==
  [up |-> TRUE, at |-> Address(set, ep),
   names |-> OwnNames(IF set.member /\ ep.aliases # {} THEN ep.aliases ELSE set.names)]

(* _served_names: what the gateway says the instance answers to.            *)
ServedNames(i) == OwnNames(row[i].set.names)

Running == {i \in Served : row[i].status = "running"}

(* Mutant: no order is asked for, and rows come by id.                      *)
BugBefore(i, j) == i < j

(* The order of _running_instances.                                         *)
Before(i, j) ==
  \/ row[i].started # 0 /\ row[j].started = 0
  \/ row[j].started # 0 /\ row[i].started > row[j].started
  \/ row[i].started = row[j].started /\ i > j

(* _resolve: the running instances that carry the name, and the first one.  *)
Matches(n) == {i \in Running : n \in ServedNames(i)}
Resolved(n) ==
  CHOOSE i \in Matches(n) : \A j \in Matches(n) \ {i} : Before(i, j)

(* alias_collisions: names that more than one running instance carries.     *)
Collisions == {n \in Names : \E i, j \in Matches(n) : i # j}

-----------------------------------------------------------------------------
AtRest(i) == row[i].status \in {"stopped", "error"}

(* Mutant: an instance may be edited whatever its status.                   *)
BugEditable(i) == TRUE
Editable(i) == AtRest(i)

(* A start has loaded the instance and has not installed its unit.          *)
Starting(i) == job[i].pc \in {"loaded", "launching"}

(* update_instance: the row is loaded and its status checked; a new port is *)
(* compared with the other instances before the row is written.             *)
PatchBegin(i) ==
  /\ patch[i] = NotEditing /\ Editable(i)
  /\ changes < MaxChanges /\ changes' = changes + 1
  /\ patch' = [patch EXCEPT ![i] = row[i].status]
  /\ UNCHANGED <<row, endpoint, unit, job, moment, turn, passed>>

PatchCommit(i) ==
  /\ patch[i] # NotEditing
  /\ \E s \in [names : {{}} \union {{a} : a \in Aliases}, tls : BOOLEAN, member : BOOLEAN] :
       row' = [row EXCEPT ![i].set = s]
  /\ passed' = IF patch[i] = "error" \/ row[i].status # patch[i]
               THEN [passed EXCEPT ![i] = @ \union {"row"}] ELSE passed
  /\ job' = IF Starting(i) THEN [job EXCEPT ![i].since = @ \union {"row"}] ELSE job
  /\ patch' = [patch EXCEPT ![i] = NotEditing]
  /\ UNCHANGED <<endpoint, unit, moment, turn, changes>>

(* update_endpoint: at any time, whoever serves.                            *)
EditEndpoint ==
  /\ changes < MaxChanges /\ changes' = changes + 1
  /\ endpoint' \in {e \in Endpoints : /\ e # endpoint
                                      /\ \E a \in Aliases : e.aliases = {a}
                                      /\ e.k8s => e.pinned}
  /\ passed' = [i \in Served |-> IF unit[i].up THEN passed[i] \union {"endpoint"}
                                 ELSE passed[i]]
  /\ job' = [i \in Served |-> IF Starting(i)
                              THEN [job[i] EXCEPT !.since = @ \union {"endpoint"}]
                              ELSE job[i]]
  /\ UNCHANGED <<row, unit, patch, moment, turn>>

(* start_instance loads the instance and its endpoint, whatever the status. *)
(* One job at a time: InstanceLifecycle has those that overlap.             *)
StartLoad(i) ==
  /\ job[i].pc = "none"
  /\ job' = [job EXCEPT ![i] = [pc |-> "loaded", with |-> Launch(row[i].set, endpoint),
                                since |-> {}]]
  /\ UNCHANGED <<row, endpoint, unit, patch, moment, turn, passed, changes>>

(* The turn's number; started_at may be that of the turn before.            *)
NextTurn == Cardinality({t \in 1..MaxStarts : \E i \in Served : turn[i] >= t}) + 1

StartCommit(i) ==
  /\ job[i].pc = "loaded" /\ NextTurn <= MaxStarts
  /\ moment' \in {moment, moment + 1} /\ moment' <= MaxStarts
  /\ row' = [row EXCEPT ![i].status = "starting", ![i].started = moment']
  /\ turn' = [turn EXCEPT ![i] = NextTurn]
  /\ job' = [job EXCEPT ![i].pc = "launching"]
  /\ UNCHANGED <<endpoint, unit, patch, passed, changes>>

(* The unit is installed, and systemd keeps it up with what it was launched *)
(* with, whatever becomes of the job.                                       *)
Installed(i) ==
  /\ job[i].pc = "launching"
  /\ job' = [job EXCEPT ![i] = NoJob]
  /\ unit' = [unit EXCEPT ![i] = job[i].with]
  /\ passed' = [passed EXCEPT ![i] = job[i].since]
  /\ row' \in {row, [row EXCEPT ![i].status = "error"]}
  /\ UNCHANGED <<endpoint, patch, moment, turn, changes>>

(* An error before that leaves the unit of the launch before.               *)
StartRaises(i) ==
  /\ job[i].pc = "launching"
  /\ job' = [job EXCEPT ![i] = NoJob]
  /\ row' = [row EXCEPT ![i].status = "error"]
  /\ UNCHANGED <<endpoint, unit, patch, moment, turn, passed, changes>>

(* What the probes of the unit say: the observer, and the start that waits. *)
Observe(i) ==
  /\ job[i].pc = "none" /\ row[i].status # "stopped"
  /\ \E s \in {"running", "error"} \ {row[i].status} :
       /\ s = "running" => unit[i].up
       /\ row' = [row EXCEPT ![i].status = s]
  /\ UNCHANGED <<endpoint, unit, job, patch, moment, turn, passed, changes>>

(* stop_instance: the unit stops before the row says so; an error of the    *)
(* command leaves the row as it was.                                        *)
StopUnit(i) ==
  /\ job[i].pc = "none"
  /\ job' = [job EXCEPT ![i].pc = "stopping"]
  /\ unit' = [unit EXCEPT ![i] = NoLaunch]
  /\ UNCHANGED <<row, endpoint, patch, moment, turn, passed, changes>>

StopDone(i) ==
  /\ job[i].pc = "stopping"
  /\ job' = [job EXCEPT ![i] = NoJob]
  /\ row' \in {row, [row EXCEPT ![i].status = "stopped", ![i].started = 0]}
  /\ UNCHANGED <<endpoint, unit, patch, moment, turn, passed, changes>>

NamesNext ==
  \/ EditEndpoint
  \/ \E i \in Served :
       \/ PatchBegin(i) \/ PatchCommit(i)
       \/ StartLoad(i) \/ StartCommit(i) \/ Installed(i) \/ StartRaises(i)
       \/ Observe(i) \/ StopUnit(i) \/ StopDone(i)

NamesSpec == NamesInit /\ [][NamesNext]_namesVars

-----------------------------------------------------------------------------
(* The gateway reaches a running instance whose unit is up where the unit   *)
(* listens, and, when it is no member, under names its unit answers to:     *)
(* unless the endpoint was edited since the launch loaded it, or the        *)
(* instance was, past its guard, across a start or while it was in error    *)
(* and its unit up (routers/instances.py:270, services/binding.py:15-31).   *)
ReachedAsLaunched ==
  \A i \in Running :
    \/ ~unit[i].up \/ "row" \in passed[i]
    \/ row[i].set.member /\ "endpoint" \in passed[i]
    \/ /\ Address(row[i].set, endpoint) = unit[i].at
       /\ ~row[i].set.member => ServedNames(i) = unit[i].names

(* Of the running instances that carry a name the one started last gets its *)
(* requests, within the resolution of the clock, and every running instance *)
(* it took the name from is reported (routers/gateway.py:148-193, 196-216). *)
LatestTakesOver ==
  \A n \in Names : Matches(n) # {} =>
    LET first == Resolved(n) IN
    \A j \in Matches(n) \ {first} :
      /\ n \in Collisions
      /\ turn[first] > turn[j] \/ row[first].started = row[j].started

(* What the docstring of _served_names says: the names the gateway routes   *)
(* to a running instance mirror what its unit was launched with, here for   *)
(* an instance nobody edited since (routers/gateway.py:137-140).            *)
NamesMirrorUnit ==
  \A i \in Running :
    unit[i].up /\ passed[i] = {} => ServedNames(i) \subseteq unit[i].names

(* What routing keeps: the types, instances reached as they were launched,  *)
(* and the latest first (routers/gateway.py:134-217).                       *)
NamesInv == NamesTypeOK /\ ReachedAsLaunched /\ LatestTakesOver
=============================================================================
