---------------------------- MODULE MCApprovals -----------------------------
(* Approvals for TLC: one requester, who asks for a plain write and then   *)
(* for one that an approver was tagged for.                                *)
EXTENDS Approvals, TLC

CONSTANTS ann, pat

OneAsker == [w \in 1..N |-> ann]
=============================================================================
