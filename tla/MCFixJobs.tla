------------------------------ MODULE MCFixJobs -----------------------------
(* FixJobs for TLC: its constants are numbers, given in the configuration. *)
EXTENDS FixJobs, TLC
=============================================================================
