---------------------------- MODULE MCJobStream ----------------------------
(* One job and one client: two writers share the handle, the queue holds    *)
(* two events, three lines are enough to overflow and to reorder it.        *)
EXTENDS JobStream
=============================================================================
