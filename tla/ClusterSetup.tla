---------------------------- MODULE ClusterSetup ----------------------------
(***************************************************************************)
(* The jobs that act on the whole cluster (services/cluster.py, services/   *)
(* phases.py): setup runs phases node by node, an image update pulls,       *)
(* records and restarts, teardown removes.  Nothing keeps two apart; each   *)
(* works with the configuration and settings rows its session loaded first, *)
(* and a column set to the value that was loaded is not written.            *)
(***************************************************************************)
EXTENDS Naturals, Sequences

CONSTANTS
  NumNodes,     \* 1 is the head
  Images,       \* container images
  ClusterJobs,  \* job slots
  Early,        \* the phases that only prepare a node
  MaxJobs,      \* bound on jobs begun
  NoImage

ASSUME ClusterAssumption ==
  /\ NumNodes \in Nat \ {0} /\ MaxJobs \in Nat
  /\ NoImage \notin Images
  /\ Early \cap {"image", "pull", "ray", "verify", "record", "wait", "list", "roll",
                  "stop ray", "forget"} = {}

VARIABLES
  image,     \* ClusterConfig.vllm_image
  complete,  \* Setting.setup_complete
  ray,       \* node -> image its Ray unit runs, NoImage for none
  serving,   \* image the instance's unit runs, NoImage for none
  instStatus, \* Instance.status, starting and running as one
  launch,    \* image a start under way has loaded, NoImage for none
  cjob,      \* job -> steps to go and what its session has loaded
  begun,     \* jobs begun so far
  settled,   \* history: what an image update went through, unless changed since
  unstarted, \* history: nodes whose Ray unit was not restarted when it should be
  kept,      \* history: why an image update left the instance as it was
  disturbed  \* history: jobs or edits overlapped, or a job was cut off

nodeSide == <<ray, unstarted>>
instance == <<serving, instStatus, launch, kept>>
clusterVars == <<image, complete, nodeSide, instance, cjob, begun, settled, disturbed>>

ClusterNodes == 1..NumNodes
Keepings == {"unlisted", "failed", "overtaken"}
Resting == [todo |-> <<>>, cfg |-> NoImage, flag |-> FALSE, listed |-> FALSE]
ClusterStep == [do : Early \union {"pull", "ray", "verify", "record", "wait", "list",
                            "roll", "stop ray", "forget"}, node : 0..NumNodes]

ClusterTypeOK ==
  /\ image \in Images /\ complete \in BOOLEAN /\ begun \in 0..MaxJobs
  /\ ray \in [ClusterNodes -> Images \union {NoImage}]
  /\ serving \in Images \union {NoImage}
  /\ instStatus \in {"stopped", "active", "error"} /\ launch \in Images \union {NoImage}
  /\ settled \subseteq {"ray", "instances"} /\ disturbed \in BOOLEAN
  /\ unstarted \subseteq 0..NumNodes /\ kept \subseteq Keepings
  /\ \A j \in ClusterJobs :
       /\ cjob[j].cfg \in Images \union {NoImage}
       /\ cjob[j].flag \in BOOLEAN /\ cjob[j].listed \in BOOLEAN
       /\ \A k \in 1..Len(cjob[j].todo) : cjob[j].todo[k] \in ClusterStep

ClusterInit ==
  /\ image \in Images /\ complete = FALSE /\ begun = 0
  /\ ray = [n \in ClusterNodes |-> NoImage] /\ unstarted = {}
  /\ serving = NoImage /\ instStatus = "stopped" /\ launch = NoImage /\ kept = {}
  /\ cjob = [j \in ClusterJobs |-> Resting] /\ settled = {} /\ disturbed = FALSE

-----------------------------------------------------------------------------
Each(do) == [n \in ClusterNodes |-> [do |-> do, node |-> n]]
Once(do) == <<[do |-> do, node |-> 0]>>

(* run_phase: all but verify go through the nodes, the head first.          *)
PhaseSteps(phase) ==
  CASE phase = "image"  -> Each("pull")
    [] phase = "verify" -> Once("verify")
    [] OTHER            -> Each(phase)

(* run_setup: the phases that were asked for, in order.                     *)
SetupSteps(names) ==
  LET Asked(phase) == IF phase \in names THEN PhaseSteps(phase) ELSE <<>>
  IN Asked("hosts") \o Asked("image") \o Asked("ray") \o Asked("verify")

(* update_image.                                                            *)
UpdateSteps(restartRay, restartInstances) ==
  Each("pull") \o Once("record")
  \o (IF restartRay THEN PhaseSteps("ray") \o Once("wait") ELSE <<>>)
  \o (IF restartInstances THEN Once("list") \o Once("roll") ELSE <<>>)

(* teardown with stop_ray.                                                  *)
TeardownSteps == Each("stop ray") \o Once("forget")

Busy(j) == cjob[j].todo # <<>>

Begin(j, steps, target) ==
  /\ ~Busy(j) /\ begun < MaxJobs /\ begun' = begun + 1
  /\ cjob' = [cjob EXCEPT ![j] = [todo |-> steps, cfg |-> target, flag |-> complete,
                                  listed |-> FALSE]]
  /\ settled' = {} /\ kept' = {}
  /\ disturbed' = (disturbed \/ \E k \in ClusterJobs : Busy(k))
  /\ UNCHANGED <<image, complete, nodeSide, serving, instStatus, launch>>

Setup(j) ==
  \E names \in {Early \union {"image", "ray", "verify"}, {"ray"}, {"verify"}} :
    Begin(j, SetupSteps(names), image)
UpdateImage(j) ==
  \E target \in Images, restartRay \in BOOLEAN, restartInstances \in BOOLEAN :
    Begin(j, UpdateSteps(restartRay, restartInstances), target)
Teardown(j) == Begin(j, TeardownSteps, image)

-----------------------------------------------------------------------------
Doing(j, do) == Busy(j) /\ Head(cjob[j].todo).do = do
Node(j) == Head(cjob[j].todo).node
Onward(j) == cjob' = [cjob EXCEPT ![j].todo = Tail(@)]

(* A step that raises ends its job, and so does a cancellation or a portal  *)
(* that stops.                                                              *)
Ends(j) == cjob' = [cjob EXCEPT ![j] = Resting]

Raise(j) ==
  /\ Busy(j) /\ Head(cjob[j].todo).do \in Early \union {"pull"}
  /\ Ends(j)
  /\ UNCHANGED <<image, complete, nodeSide, instance, begun, settled, disturbed>>

CutOff(j) ==
  /\ Busy(j) /\ Ends(j) /\ disturbed' = TRUE
  /\ UNCHANGED <<image, complete, nodeSide, instance, begun, settled>>

(* A phase that prepares a node, or a pull; what they leave there the Ray    *)
(* unit does without: docker pulls what it has not got.                     *)
Prepare(j) ==
  /\ Busy(j) /\ Head(cjob[j].todo).do \in Early \union {"pull"}
  /\ Onward(j)
  /\ UNCHANGED <<image, complete, nodeSide, instance, begun, settled, disturbed>>

(* Mutant: the unit is restarted without its script being rendered again.   *)
BugRendered(j, n) == IF ray[n] = NoImage THEN cjob[j].cfg ELSE ray[n]

Rendered(j, n) == cjob[j].cfg

(* _phase_ray: script and unit of one node are written and it is restarted. *)
(* What goes wrong before the restart ends the job; that the restart fails  *)
(* is not looked at.                                                        *)
StartRay(j) ==
  /\ Doing(j, "ray")
  /\ \/ /\ ray' = [ray EXCEPT ![Node(j)] = Rendered(j, Node(j))]
        /\ unstarted' = unstarted \ {Node(j)}
     \/ /\ \E left \in {ray[Node(j)], NoImage} : ray' = [ray EXCEPT ![Node(j)] = left]
        /\ unstarted' = unstarted \union {Node(j)}
  /\ Onward(j) \/ Ends(j)
  /\ UNCHANGED <<image, complete, instance, begun, settled, disturbed>>

Formed == \A n \in ClusterNodes : ray[n] # NoImage

(* A column set to what was loaded is not written.                          *)
Column(loaded, value, now) == IF value = loaded THEN now ELSE value

(* _phase_verify: Ray reports its nodes in time, or does not.               *)
VerifyCluster(j) ==
  /\ Doing(j, "verify")
  /\ \E ok \in {FALSE, Formed} : complete' = Column(cjob[j].flag, ok, complete)
  /\ Onward(j)
  /\ UNCHANGED <<image, nodeSide, instance, begun, settled, disturbed>>

Record(j) ==
  /\ Doing(j, "record") /\ image' = cjob[j].cfg /\ Onward(j)
  /\ UNCHANGED <<complete, nodeSide, instance, begun, settled, disturbed>>

Settle(what) == settled' = settled \union {what}

(* The wait for Ray to form again decides nothing.                          *)
Wait(j) ==
  /\ Doing(j, "wait") /\ Onward(j)
  /\ Settle("ray")
  /\ UNCHANGED <<image, complete, nodeSide, instance, begun, disturbed>>

(* The instances are read once, and taken by their status.                  *)
List(j) ==
  /\ Doing(j, "list")
  /\ cjob' = [cjob EXCEPT ![j].todo = Tail(@), ![j].listed = (instStatus = "active")]
  /\ kept' = kept \union
       (IF instStatus # "active" /\ serving # NoImage THEN {"unlisted"} ELSE {})
  /\ UNCHANGED <<image, complete, nodeSide, serving, instStatus, launch, begun, settled,
                 disturbed>>

(* One that was listed is stopped and started, whatever it does by then; the*)
(* rest is left.  A stop or a start that raises is logged, and a unit that  *)
(* systemctl fails to stop or restart is not noticed.                       *)
Rerun(j) ==
  /\ serving' \in {cjob[j].cfg, NoImage} /\ instStatus' \in {"active", "error"}
  /\ kept' = {}

RerunFails ==
  /\ instStatus' \in {instStatus, "active", "error"} /\ serving' = serving
  /\ kept' = kept \union {"failed"}

Roll(j) ==
  /\ Doing(j, "roll") /\ Onward(j)
  /\ IF cjob[j].listed THEN Rerun(j) \/ RerunFails
                       ELSE UNCHANGED <<serving, instStatus, kept>>
  /\ Settle("instances")
  /\ UNCHANGED <<image, complete, nodeSide, launch, begun, disturbed>>

(* Stopping Ray on a node may fail: that is logged.                         *)
StopRay(j) ==
  /\ Doing(j, "stop ray") /\ Onward(j)
  /\ \E left \in {ray[Node(j)], NoImage} : ray' = [ray EXCEPT ![Node(j)] = left]
  /\ UNCHANGED <<image, complete, unstarted, instance, begun, settled, disturbed>>

(* Mutant: teardown leaves setup_complete as it was.                        *)
BugForget(j) ==
  /\ Doing(j, "forget") /\ Onward(j)
  /\ UNCHANGED <<image, complete, nodeSide, instance, begun, settled, disturbed>>

Forget(j) ==
  /\ Doing(j, "forget") /\ complete' = Column(cjob[j].flag, FALSE, complete) /\ Onward(j)
  /\ UNCHANGED <<image, nodeSide, instance, begun, settled, disturbed>>

(* An operator starts the instance: the job reads the configuration, and    *)
(* then restarts the unit with what it read, or fails to.                   *)
Start ==
  /\ launch = NoImage /\ launch' = image /\ instStatus' = "active"
  /\ UNCHANGED <<image, complete, nodeSide, serving, kept, cjob, begun, settled, disturbed>>

Launch ==
  /\ launch # NoImage /\ launch' = NoImage /\ instStatus' \in {"active", "error"}
  /\ \/ /\ serving' = launch
        /\ kept' = IF launch = image THEN {} ELSE kept \union {"overtaken"}
     \/ /\ serving' \in {serving, NoImage} /\ kept' = kept
  /\ UNCHANGED <<image, complete, nodeSide, cjob, begun, settled, disturbed>>

(* An operator stops it, and systemctl may fail to; or the observer writes  *)
(* what it makes of the evidence.                                           *)
Stop ==
  /\ serving' \in {serving, NoImage} /\ instStatus' = "stopped"
  /\ UNCHANGED <<image, complete, nodeSide, launch, kept, cjob, begun, settled, disturbed>>

Observe ==
  /\ instStatus # "stopped" /\ instStatus' \in {"active", "error"}
  /\ UNCHANGED <<image, complete, nodeSide, serving, launch, kept, cjob, begun, settled,
                 disturbed>>

UpdateConfig ==
  /\ \E other \in Images \ {image} : image' = other
  /\ settled' = {} /\ disturbed' = (disturbed \/ \E j \in ClusterJobs : Busy(j))
  /\ UNCHANGED <<complete, nodeSide, instance, cjob, begun>>

ClusterNext ==
  \/ Start \/ Launch \/ Stop \/ Observe \/ UpdateConfig
  \/ \E j \in ClusterJobs :
       \/ Setup(j) \/ UpdateImage(j) \/ Teardown(j) \/ Raise(j) \/ CutOff(j)
       \/ Prepare(j) \/ StartRay(j) \/ VerifyCluster(j)
       \/ Record(j) \/ Wait(j) \/ List(j) \/ Roll(j) \/ StopRay(j) \/ Forget(j)

ClusterSpec == ClusterInit /\ [][ClusterNext]_clusterVars

-----------------------------------------------------------------------------
RayUp == \A n \in ClusterNodes : ray[n] # NoImage \/ n \in unstarted
ServesRecorded == serving \in {NoImage, image} \/ kept # {}

(* What the portal records of the cluster is true of it once its jobs are   *)
(* over, however many came before and wherever a setup or an update gave up.*)
(* A complete setup means that Ray runs on every node, and after an image   *)
(* update that restarts Ray it is of the new image, on all nodes but those  *)
(* whose unit failed to restart.  After one that restarts the instances the *)
(* unit runs nothing or the new image; unless its row was neither starting  *)
(* nor running, its stop or start failed, or a start that had read the      *)
(* former image went on over the restart.  All this unless jobs or edits of *)
(* the configuration overlapped or a job was cut off (services/cluster.py:  *)
(* 30-47, 139-194, 226-242, services/phases.py:359-360, nodeops.py:70-75).  *)
ClusterAsRecorded ==
  ~disturbed =>
    /\ complete /\ (\A j \in ClusterJobs : ~Busy(j)) => RayUp
    /\ "ray" \in settled => \A n \in ClusterNodes : ray[n] = image \/ n \in unstarted
    /\ "instances" \in settled => ServesRecorded

(* What the cluster jobs keep: the types, and a cluster that is as          *)
(* recorded (services/cluster.py:30-318).                                   *)
ClusterInv == ClusterTypeOK /\ ClusterAsRecorded
=============================================================================
