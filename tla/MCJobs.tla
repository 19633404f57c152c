------------------------------- MODULE MCJobs -------------------------------
(* Two jobs of the manager, portal crashes and status writes given up.      *)
EXTENDS Jobs
=============================================================================
