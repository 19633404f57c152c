------------------------------ MODULE MCPortal ------------------------------
(* What the portal keeps: the gateway's names, the ports, the sessions, the *)
(* keys of single sign-on, the evaluation runs and the backup bundles, each *)
(* on its own small instance.                                               *)
(* They share no variable: `part` names the one that moves, the others rest *)
(* where they begin.                                                        *)
EXTENDS GatewayNames, Ports, Sessions, SignIn, Evals, Backup, TLC

CONSTANTS x1, x2 \* slots and editors of Ports, revokers, callbacks, evaluation jobs

VARIABLE part
portalVars == <<namesVars, portsVars, sessionsVars, signInVars, evalVars, backupVars, part>>

PortalInit ==
  /\ part \in {"names", "ports", "sessions", "signin", "evals", "backup"}
  /\ NamesInit /\ PortsInit /\ SessionsInit /\ SignInInit /\ EvalsInit /\ BackupInit
  /\ part # "names" => ~row[1].set.member /\ ~endpoint.k8s

PortalNext ==
  /\ \/ /\ part = "names" /\ NamesNext
        /\ UNCHANGED <<portsVars, sessionsVars, signInVars, evalVars, backupVars>>
     \/ /\ part = "ports" /\ PortsNext
        /\ UNCHANGED <<namesVars, sessionsVars, signInVars, evalVars, backupVars>>
     \/ /\ part = "sessions" /\ SessionsNext
        /\ UNCHANGED <<namesVars, portsVars, signInVars, evalVars, backupVars>>
     \/ /\ part = "signin" /\ SignInNext
        /\ UNCHANGED <<namesVars, portsVars, sessionsVars, evalVars, backupVars>>
     \/ /\ part = "evals" /\ EvalsNext
        /\ UNCHANGED <<namesVars, portsVars, sessionsVars, signInVars, backupVars>>
     \/ /\ part = "backup" /\ BackupNext
        /\ UNCHANGED <<namesVars, portsVars, sessionsVars, signInVars, evalVars>>
  /\ part' = part

PortalSpec == PortalInit /\ [][PortalNext]_portalVars

(* Only one part moves, so the parts may share the pair that is exchanged.  *)
PortalSymmetry == Permutations({x1, x2})
=============================================================================
