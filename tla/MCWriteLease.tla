---------------------------- MODULE MCWriteLease ----------------------------
(* WriteLease for TLC. *)
EXTENDS WriteLease, TLC

ProcSymmetry == Permutations(Procs)
=============================================================================
