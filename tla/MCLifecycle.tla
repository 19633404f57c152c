---------------------------- MODULE MCLifecycle ----------------------------
(* One instance; one job at a time, or two that overlap.                    *)
EXTENDS InstanceLifecycle
=============================================================================
