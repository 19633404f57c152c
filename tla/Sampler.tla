-------------------------------- MODULE Sampler --------------------------------
(***************************************************************************)
(* The node samplers of the telemetry engine (services/telemetry.py): the   *)
(* manager keeps one sampler task per configured node, each task samples    *)
(* its node over SSH and keeps the last sample, and everything the portal   *)
(* shows of a node is read from there.  Nodes come and go at any time, and  *)
(* a new row takes the id after the greatest one present.                   *)
(***************************************************************************)
EXTENDS Naturals, FiniteSets

CONSTANTS
  MaxNodes, \* ids are 1..MaxNodes
  MaxAdds   \* bound on node rows ever made

ASSUME SamplerBounds == MaxNodes \in Nat /\ MaxAdds \in Nat

VARIABLES
  node,      \* Node rows: which of the rows ever made an id holds, 0 for none
  sampler,   \* _tasks: a sampler at rest, one with a sample under way, or its end
  under,     \* the row a sample under way was begun for
  sample,    \* _samples: the row it was taken from, whether it was reached, and
             \* the row of the counters its rates were computed against
  rates,     \* _counters: ids with a baseline, and the row it was taken from
  manager,   \* _manage_loop: its place and the ids it read
  added,     \* rows ever made
  newcomers, \* history: ids whose row came after the manager last read
  reused     \* history: ids taken again while a former task still held them

samplerVars == <<node, sampler, under, sample, rates, manager, added, newcomers, reused>>

NodeIds == 1..MaxNodes
NoSample == [of |-> 0, reached |-> FALSE, against |-> 0]
SampleRecs == [of : 0..MaxAdds, reached : BOOLEAN, against : 0..MaxAdds]
Present == {n \in NodeIds : node[n] # 0}
Held    == {n \in NodeIds : sampler[n] # "none"}

SamplerTypeOK ==
  /\ node \in [NodeIds -> 0..MaxAdds] /\ under \in [NodeIds -> 0..MaxAdds]
  /\ sampler \in [NodeIds -> {"none", "rest", "sampling", "ended"}]
  /\ sample \in [NodeIds -> SampleRecs]
  /\ rates \in [NodeIds -> 0..MaxAdds]
  /\ manager \in [acting : BOOLEAN, ids : SUBSET NodeIds]
  /\ added \in 0..MaxAdds /\ newcomers \subseteq NodeIds /\ reused \subseteq NodeIds

SamplerInit ==
  /\ node = [n \in NodeIds |-> 0] /\ sampler = [n \in NodeIds |-> "none"]
  /\ under = [n \in NodeIds |-> 0] /\ sample = [n \in NodeIds |-> NoSample]
  /\ rates = [n \in NodeIds |-> 0]
  /\ manager = [acting |-> FALSE, ids |-> {}]
  /\ added = 0 /\ newcomers = {} /\ reused = {}

-----------------------------------------------------------------------------
NextNode == Cardinality({n \in NodeIds : \E m \in Present : m >= n}) + 1

CreateNode ==
  /\ NextNode \in NodeIds /\ added < MaxAdds /\ added' = added + 1
  /\ node' = [node EXCEPT ![NextNode] = added']
  /\ newcomers' = newcomers \union {NextNode}
  /\ reused' = IF NextNode \in Held \union manager.ids
               THEN reused \union {NextNode} ELSE reused \ {NextNode}
  /\ UNCHANGED <<sampler, under, sample, rates, manager>>

DeleteNode(n) ==
  /\ node[n] # 0 /\ node' = [node EXCEPT ![n] = 0]
  /\ UNCHANGED <<sampler, under, sample, rates, manager, added, newcomers, reused>>

(* _manage_loop reads the ids; the session is closed before it goes on.     *)
ManagerReads ==
  /\ ~manager.acting /\ manager' = [acting |-> TRUE, ids |-> Present]
  /\ newcomers' = {}
  /\ UNCHANGED <<node, sampler, under, sample, rates, added, reused>>

(* Mutant: a cancelled sampler's last sample is kept.                       *)
BugForgotten(ids) == {}

(* The ids whose task is cancelled and whose caches are dropped.            *)
Forgotten(ids) == Held \ ids

ManagerActs ==
  LET gone == Forgotten(manager.ids) IN
  /\ manager.acting /\ manager' = [acting |-> FALSE, ids |-> {}]
  /\ sampler' = [n \in NodeIds |-> IF n \in manager.ids
                                THEN IF sampler[n] = "none" THEN "rest" ELSE sampler[n]
                                ELSE "none"]
  /\ sample' = [n \in NodeIds |-> IF n \in gone THEN NoSample ELSE sample[n]]
  /\ rates' = [n \in NodeIds |-> IF n \in gone THEN 0 ELSE rates[n]]
  /\ UNCHANGED <<node, under, added, newcomers, reused>>

(* _sample_node loads its row, or ends the task when there is none.         *)
SampleBegins(n) ==
  /\ sampler[n] = "rest"
  /\ sampler' = [sampler EXCEPT ![n] = IF node[n] = 0 THEN "ended" ELSE "sampling"]
  /\ under' = [under EXCEPT ![n] = node[n]]
  /\ UNCHANGED <<node, sample, rates, manager, added, newcomers, reused>>

(* Mutant: an unreachable node keeps the baseline of its rates.             *)
BugBaseline(n, reached) == IF reached THEN under[n] ELSE rates[n]

Baseline(n, reached) == IF reached THEN under[n] ELSE 0

(* The collector's output, its rates computed against the baseline kept for *)
(* the id, or that it could not be run.                                     *)
SampleEnds(n) ==
  /\ sampler[n] = "sampling"
  /\ sampler' = [sampler EXCEPT ![n] = "rest"]
  /\ \E reached \in BOOLEAN :
       /\ sample' = [sample EXCEPT ![n] = [of |-> under[n], reached |-> reached,
                                           against |-> IF reached THEN rates[n] ELSE 0]]
       /\ rates' = [rates EXCEPT ![n] = Baseline(n, reached)]
  /\ UNCHANGED <<node, under, manager, added, newcomers, reused>>

SamplerNext ==
  \/ CreateNode \/ ManagerReads \/ ManagerActs
  \/ \E n \in NodeIds : DeleteNode(n) \/ SampleBegins(n) \/ SampleEnds(n)

SamplerSpec == SamplerInit /\ [][SamplerNext]_samplerVars

-----------------------------------------------------------------------------
(* A configured node has a running sampler once the manager has been round, *)
(* and what the portal shows of it comes from its own row: unless the id    *)
(* was that of a deleted node whose task was still kept, or the row of one  *)
(* the manager had just read (services/telemetry.py:479-525, 763-791).      *)
EveryNodeSampled ==
  \A n \in Present \ (reused \union newcomers) :
    /\ ~manager.acting => sampler[n] \in {"rest", "sampling"}
    /\ sample[n].of \in {0, node[n]}

(* Rates are never computed across an outage: a baseline belongs to the last*)
(* sample, which reached the node.  Nor against the counters of another row,*)
(* unless the id was that of a deleted node whose task was still kept: then *)
(* the first rates of the new node are computed against the former one's    *)
(* counters (services/telemetry.py:515-525, 549-554).                       *)
RatesWithinReach ==
  \A n \in NodeIds :
    /\ rates[n] # 0 => sample[n].of = rates[n] /\ sample[n].reached
    /\ n \notin reused => sample[n].against \in {0, sample[n].of}

(* What the telemetry engine keeps: the types, a sampler for every node,    *)
(* and rates within one reach (services/telemetry.py:479-561).              *)
SamplerInv == SamplerTypeOK /\ EveryNodeSampled /\ RatesWithinReach
=============================================================================
