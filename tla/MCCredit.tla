------------------------------ MODULE MCCredit ------------------------------
(* Credit for TLC: its constants are given in the configurations.           *)
EXTENDS Credit, TLC

\* The webhook deliveries at hand differ in nothing but their names; used where
\* only invariants are checked.
HandlerSymmetry == Permutations(Handlers)
=============================================================================
