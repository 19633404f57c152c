------------------------------ MODULE MCNodes ------------------------------
(* The work on the nodes: their samplers, model files, certificates, the    *)
(* pool of SSH connections and the cluster's jobs, each on its own instance.*)
(* They share no variable: `part` names the one that moves, the others rest *)
(* where they begin.                                                        *)
EXTENDS Sampler, ModelFiles, NodeCerts, SshPool, ClusterSetup, TLC

CONSTANTS x1, x2 \* the tasks of ModelFiles, the operations of SshPool

VARIABLE part
nodesVars == <<samplerVars, filesVars, certVars, sshVars, clusterVars, part>>

NodesInit ==
  /\ part \in {"sampler", "files", "certs", "ssh", "cluster"}
  /\ SamplerInit /\ FilesInit /\ CertsInit /\ SshInit /\ ClusterInit
  /\ part # "files" => \A h \in Hosts : disk[h] = "none"
  /\ part # "certs" => source = "none" /\ named /\ ttl = CHOOSE l \in Lifetimes : TRUE
  /\ image = CHOOSE i \in Images : TRUE

NodesNext ==
  /\ \/ /\ part = "sampler" /\ SamplerNext
        /\ UNCHANGED <<filesVars, certVars, sshVars, clusterVars>>
     \/ /\ part = "files" /\ FilesNext
        /\ UNCHANGED <<samplerVars, certVars, sshVars, clusterVars>>
     \/ /\ part = "certs" /\ CertsNext
        /\ UNCHANGED <<samplerVars, filesVars, sshVars, clusterVars>>
     \/ /\ part = "ssh" /\ SshNext
        /\ UNCHANGED <<samplerVars, filesVars, certVars, clusterVars>>
     \/ /\ part = "cluster" /\ ClusterNext
        /\ UNCHANGED <<samplerVars, filesVars, certVars, sshVars>>
  /\ part' = part

NodesSpec == NodesInit /\ [][NodesNext]_nodesVars

(* Only one part moves, so the parts may share the pair that is exchanged.  *)
NodesSymmetry == Permutations({x1, x2})
=============================================================================
