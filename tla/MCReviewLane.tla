---------------------------- MODULE MCReviewLane ----------------------------
(* ReviewLane for TLC. *)
EXTENDS ReviewLane, TLC

LaneSymmetry == Permutations(Lanes) \cup Permutations(Routers)

\* Bounds: the clock, where a run need not be followed to its end, and how many deliveries are under
\* way at once (a lease lapses only once they have been routed).
MaxTime == 1
MaxBacklog == 2
UnderWay == Cardinality(deliveries) + Cardinality({h \in Routers : routes[h].step # "idle"})
Early == now <= MaxTime /\ UnderWay <= (IF now = 0 THEN MaxBacklog ELSE 0)

\* What happens on GitHub: two pushes and a close or a draft, or a push, a close or a draft and what
\* takes it back.
MaxEvents == 3
Few ==
  \A p \in PRs :
    hub[p].head - 1 + 2 * hub[p].closes <= (IF hub[p].open /\ ~hub[p].draft THEN MaxEvents ELSE MaxEvents + 1)

\* And a review is followed up to its posting, or to its recording in shadow mode.
Unposted == \A l \in Lanes : pc[l] \notin {"touch", "summary"}
=============================================================================
