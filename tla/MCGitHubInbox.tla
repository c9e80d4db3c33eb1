--------------------------- MODULE MCGitHubInbox ---------------------------
(* GitHubInbox for TLC. *)
EXTENDS GitHubInbox, TLC

InboxSymmetry == Permutations(Dispatchers) \cup Permutations(Deliveries)
=============================================================================
