--------------------------- MODULE MCLeaderLease ---------------------------
(* LeaderLease for TLC: the instances of one Cloud Run revision, which all call themselves by  *)
(* K_REVISION and process 1, and those beside one that has a name of its own.                   *)
EXTENDS LeaderLease, TLC

CONSTANT Own   \* the instances with names of their own

SomeNames == [i \in Instances |-> IF i \in Own THEN i ELSE "revision/1"]
=============================================================================
