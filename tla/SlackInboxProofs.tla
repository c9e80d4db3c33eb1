-------------------------- MODULE SlackInboxProofs --------------------------
(***************************************************************************)
(* One mention has one answer and a delivery is closed only when answered, *)
(* for any number of deliveries, instances, attempts and faults and for    *)
(* any times, those under which a dispatch may start its turn too late for *)
(* the first renewal included: the lease part speaks of the deliveries     *)
(* whose lease was not let run out.                                        *)
(***************************************************************************)
EXTENDS SlackInbox, TLAPS

\* A delivery's mention is its own or the message, and is never another delivery.
LEMMA MentionFacts ==
  ASSUME NEW d \in Deliveries
  PROVE  /\ MentionOf(d) \in Mentions /\ (MentionOf(d) = Message \/ MentionOf(d) = d)
         /\ d # None /\ d # Message
BY SlackAssumption DEF MentionOf, Mentions

\* At first nothing was sent.
LEMMA InitSlack == Init => SlackInv
BY SlackAssumption
DEF Init, SlackInv, HandoffInv, TypeOK, HandoffOk, ClosedIsAnswered, LeaseHeld, TurnsCounted,
    OneTurn, Busy, Row, Work, NoRow, NoWork, Mentions

\* Closing a delivery changes at most the row's marks.
LEMMA ClosedRow ==
  ASSUME TypeOK, NEW h \in Handoffs, work[h].id \in Deliveries, NEW d \in Deliveries
  PROVE  /\ Finished(h) \in [Deliveries -> Row] /\ DeadLettered(h) \in [Deliveries -> Row]
         /\ d # work[h].id => Finished(h)[d] = rows[d] /\ DeadLettered(h)[d] = rows[d]
         /\ Finished(h)[d].dead = rows[d].dead
         /\ HoldsRow(h) => Finished(h)[work[h].id].done
         /\ Finished(h)[d].done => rows[d].done \/ d = work[h].id
         /\ rows[d].done => Finished(h)[d].done
         /\ DeadLettered(h)[d].done = rows[d].done
         /\ rows[d].dead => DeadLettered(h)[d].dead
         /\ \A f \in {Finished(h), DeadLettered(h)} :
              f[d].here = rows[d].here /\ f[d].lease = rows[d].lease
<1>1. rows \in [Deliveries -> Row]
  BY DEF TypeOK
<1>2. PICK e \in Deliveries : e = work[h].id
  OBVIOUS
<1>3. Finished(h) = rows \/ Finished(h) = [rows EXCEPT ![e].done = TRUE]
  BY <1>2 DEF Finished
<1>4. DeadLettered(h) = rows \/ DeadLettered(h) = [rows EXCEPT ![e].dead = TRUE]
  BY <1>2 DEF DeadLettered
<1>5. HoldsRow(h) => Finished(h) = [rows EXCEPT ![e].done = TRUE]
  BY <1>2 DEF Finished, HoldsRow, Pending
<1>6. /\ [rows EXCEPT ![e].done = TRUE] \in [Deliveries -> Row]
      /\ [rows EXCEPT ![e].dead = TRUE] \in [Deliveries -> Row]
  BY <1>1 DEF Row
<1>7. Finished(h) \in [Deliveries -> Row] /\ DeadLettered(h) \in [Deliveries -> Row]
  BY <1>1, <1>3, <1>4, <1>6
<1>8. /\ Finished(h)[d] = rows[d] \/ (d = e /\ Finished(h)[d] = [rows[d] EXCEPT !.done = TRUE])
      /\ DeadLettered(h)[d] = rows[d]
           \/ (d = e /\ DeadLettered(h)[d] = [rows[d] EXCEPT !.dead = TRUE])
  BY <1>1, <1>3, <1>4
<1>9. rows[d] \in Row
  BY <1>1
<1>10. /\ Finished(h)[d].dead = rows[d].dead /\ DeadLettered(h)[d].done = rows[d].done
       /\ Finished(h)[d].here = rows[d].here /\ Finished(h)[d].lease = rows[d].lease
       /\ DeadLettered(h)[d].here = rows[d].here /\ DeadLettered(h)[d].lease = rows[d].lease
       /\ Finished(h)[d].done => rows[d].done \/ d = e
       /\ rows[d].done => Finished(h)[d].done
       /\ rows[d].dead => DeadLettered(h)[d].dead
  BY <1>8, <1>9 DEF Row
<1>11. HoldsRow(h) => Finished(h)[e].done
  BY <1>1, <1>5 DEF Row
<1>12. QED
  BY <1>2, <1>7, <1>8, <1>10, <1>11

\* A row inserted is a row, and a pick is a piece of work.
LEMMA RowSet ==
  ASSUME NEW d \in Deliveries, rows \in [Deliveries -> Row]
  PROVE  [rows EXCEPT ![d].here = TRUE] \in [Deliveries -> Row]
<1>1. rows[d] \in Row
  OBVIOUS
<1>2. [rows[d] EXCEPT !.here = TRUE] \in Row
  BY <1>1 DEF Row
<1>3. QED
  BY <1>2

LEMMA WorkSet ==
  ASSUME NEW w \in Work, NEW d \in Deliveries
  PROVE  [w EXCEPT !.pc = "picked", !.id = d] \in Work
BY DEF Work

\* Every step keeps to the types: one case per action.
LEMMA NextType ==
  ASSUME TypeOK, HandoffOk, [Next]_vars
  PROVE  TypeOK'
<1> USE SlackAssumption DEF TypeOK, HandoffOk, ghosts
<1>1. ASSUME NEW d \in Deliveries, Receive(d) PROVE TypeOK'
  BY <1>1 DEF Receive
<1>2. ASSUME NEW d \in Deliveries, Insert(d) PROVE TypeOK'
  <2>1. rows' \in [Deliveries -> Row]
    <3>1. rows' = rows \/ rows' = [rows EXCEPT ![d].here = TRUE]
      BY <1>2 DEF Insert
    <3>2. QED
      BY <3>1, RowSet
  <2>2. QED
    BY <1>2, <2>1 DEF Insert
<1>3. ASSUME NEW d \in Deliveries, Purge(d) PROVE TypeOK'
  BY <1>3 DEF Purge, Row, NoRow
<1>4. ASSUME NEW h \in Handoffs, ClaimPick(h) PROVE TypeOK'
  <2>1. PICK d \in Deliveries : work' = [work EXCEPT ![h].pc = "picked", ![h].id = d]
    BY <1>4 DEF ClaimPick
  <2>2. work' \in [Handoffs -> Work]
    <3>1. [work[h] EXCEPT !.pc = "picked", !.id = d] \in Work
      BY WorkSet
    <3>2. QED
      BY <2>1, <3>1
  <2>3. QED
    BY <1>4, <2>2 DEF ClaimPick
<1>5. ASSUME NEW h \in Handoffs, ClaimTake(h) PROVE TypeOK'
  <2>1. PICK d \in Deliveries : d = work[h].id
    BY <1>5 DEF ClaimTake
  <2>2. CASE StillClaimable(d)
    <3>1. rows[d].attempts + 1 \in 0..MaxAttempts
      BY <2>2 DEF StillClaimable, Claimable, Row
    <3>2. rows' \in [Deliveries -> Row]
      BY <1>5, <2>1, <2>2, <3>1 DEF ClaimTake, Row
    <3>3. work' \in [Handoffs -> Work]
      BY <1>5, <2>1, <2>2, <3>1 DEF ClaimTake, Work
    <3>4. QED
      BY <1>5, <3>2, <3>3 DEF ClaimTake
  <2>3. CASE ~StillClaimable(d)
    BY <1>5, <2>1, <2>3 DEF ClaimTake, Work, NoWork
  <2>4. QED
    BY <2>2, <2>3
<1>6. ASSUME NEW h \in Handoffs, Skip(h) \/ DispatchFails(h) PROVE TypeOK'
  BY <1>6 DEF Skip, DispatchFails, Work
<1>7. ASSUME NEW h \in Handoffs, work[h].pc = "dispatch", Begin(h)
      PROVE  /\ started' \in [Mentions -> Nat] /\ ended' \subseteq Deliveries
             /\ lapsed' \subseteq Deliveries /\ work' \in [Handoffs -> Work]
  <2>1. MentionOf(work[h].id) \in Mentions /\ work[h].id \in Deliveries
    BY <1>7, MentionFacts
  <2>2. QED
    BY <1>7, <2>1 DEF Begin, Work
<1>8. ASSUME NEW h \in Handoffs, Start(h) PROVE TypeOK'
  <2>1. work[h].id \in Deliveries /\ MentionOf(work[h].id) \in Mentions
    BY <1>8, MentionFacts DEF Start
  <2>2. seen' \in [Mentions -> Deliveries \cup {None}]
    BY <1>8, <2>1 DEF Start
  <2>3. QED
    BY <1>7, <1>8, <2>2 DEF Start
<1>9. ASSUME NEW h \in Handoffs, StartUnsure(h) PROVE TypeOK'
  <2>1. /\ started' \in [Mentions -> Nat] /\ ended' \subseteq Deliveries
        /\ lapsed' \subseteq Deliveries /\ work' \in [Handoffs -> Work]
    BY <1>7, <1>9 DEF StartUnsure, Work
  <2>2. QED
    BY <1>9, <2>1 DEF StartUnsure, Fault
<1>10. ASSUME NEW h \in Handoffs, Finish(h) \/ Fail(h) \/ TurnEnds(h) PROVE TypeOK'
  <2>1. work[h].id \in Deliveries
    BY <1>10 DEF Finish, Fail, TurnEnds
  <2>2. rows' \in [Deliveries -> Row]
    BY <1>10, <2>1, ClosedRow DEF Finish, Fail, TurnEnds
  <2>3. QED
    <3>1. work' \in [Handoffs -> Work] /\ ended' \subseteq Deliveries
      BY <1>10, <2>1 DEF Finish, Fail, TurnEnds, Work, NoWork
    <3>2. QED
      BY <1>10, <2>2, <3>1 DEF Finish, Fail, TurnEnds
<1>11. ASSUME NEW h \in Handoffs, CloseFails(h) PROVE TypeOK'
  BY <1>11 DEF CloseFails, StuckWith, Fault, Work, NoWork
<1>12. ASSUME NEW h \in Handoffs, Renew(h) PROVE TypeOK'
  <2>1. PICK d \in Deliveries : d = work[h].id
    BY <1>12 DEF Renew
  <2>2. rows' \in [Deliveries -> Row]
    <3>1. rows' = rows \/ rows' = [rows EXCEPT ![d].lease = now + Lease]
      BY <1>12, <2>1 DEF Renew
    <3>2. QED
      BY <3>1 DEF Row
  <2>3. work' \in [Handoffs -> Work]
    BY <1>12 DEF Renew, Work
  <2>4. QED
    BY <1>12, <2>2, <2>3 DEF Renew
<1>13. ASSUME NEW h \in Handoffs, RenewFails(h) \/ Stall(h) PROVE TypeOK'
  BY <1>13 DEF RenewFails, Stall, Fault, Work
<1>14. ASSUME NEW h \in Handoffs, Crash(h) PROVE TypeOK'
  <2>1. work[h].id \in Deliveries /\ MentionOf(work[h].id) \in Mentions
    BY <1>14, MentionFacts DEF Crash
  <2>2. cut' \in [Mentions -> Nat] /\ stuck' \subseteq Deliveries
    BY <1>14, <2>1 DEF Crash, StuckWith
  <2>3. QED
    BY <1>14, <2>2 DEF Crash, Fault, Work, NoWork
<1>15. CASE Tick
  BY <1>15 DEF Tick
<1>16. CASE UNCHANGED vars
  BY <1>16 DEF vars
<1>17. QED
  BY <1>1, <1>2, <1>3, <1>4, <1>5, <1>6, <1>8, <1>9, <1>10, <1>11, <1>12, <1>13, <1>14, <1>15, <1>16
  DEF Next, DispatcherStep

\* The delivery's kind never changes, and a mention that has an owner keeps it.
LEMMA OwnerStays ==
  ASSUME TypeOK, HandoffOk, [Next]_vars
  PROVE  /\ kind' = kind /\ \A d \in Deliveries : MentionOf(d)' = MentionOf(d)
         /\ ended \subseteq ended' /\ faults \subseteq faults' /\ lapsed \subseteq lapsed'
         /\ \A m \in Mentions :
              \/ seen'[m] = seen[m]
              \/ \E h \in Handoffs :
                   /\ Start(h) /\ seen[m] = None /\ seen'[m] = work[h].id
                   /\ m = MentionOf(work[h].id)
<1>1. ASSUME NEW h \in Handoffs, Start(h), NEW m \in Mentions
      PROVE  \/ seen'[m] = seen[m]
             \/ seen[m] = None /\ seen'[m] = work[h].id /\ m = MentionOf(work[h].id)
  BY <1>1 DEF Start, Owned, TypeOK
<1>2. (\E h \in Handoffs : Start(h)) \/ seen' = seen
  BY DEF Next, vars, DispatcherStep, Receive, Insert, Purge, ClaimPick, ClaimTake, Skip,
         DispatchFails, Finish, Fail, TurnEnds, Renew, StartUnsure, CloseFails, RenewFails, Stall,
         Crash, Tick
<1>3. kind' = kind
  BY DEF Next, vars, DispatcherStep, Receive, Insert, Purge, ClaimPick, ClaimTake, Skip, Start,
         DispatchFails, Finish, Fail, TurnEnds, Renew, StartUnsure, CloseFails, RenewFails, Stall,
         Crash, Tick
<1>4. ended \subseteq ended' /\ faults \subseteq faults' /\ lapsed \subseteq lapsed'
  BY DEF Next, vars, DispatcherStep, Receive, Insert, Purge, ClaimPick, ClaimTake, Skip, Start,
         DispatchFails, Finish, Fail, TurnEnds, Renew, StartUnsure, CloseFails, RenewFails, Stall,
         Crash, Tick, Begin, Fault, ghosts
<1>5. QED
  BY <1>1, <1>2, <1>3, <1>4 DEF MentionOf

\* What each step makes of a hand-off.
LEMMA HandoffSteps ==
  ASSUME TypeOK, HandoffOk, [Next]_vars, NEW h \in Handoffs
  PROVE  \/ work'[h] = work[h]
         \/ ClaimPick(h) /\ work'[h].pc = "picked" /\ work'[h].id \in Deliveries
         \/ ClaimTake(h) \/ Skip(h) \/ Start(h) \/ StartUnsure(h) \/ DispatchFails(h)
         \/ Renew(h) \/ RenewFails(h) \/ Stall(h)
         \/ work'[h] = NoWork /\ (Finish(h) \/ Fail(h) \/ TurnEnds(h) \/ CloseFails(h) \/ Crash(h))
<1> USE DEF TypeOK
<1>1. ASSUME NEW d \in Deliveries, Receive(d) \/ Insert(d) \/ Purge(d) PROVE work' = work
  BY <1>1 DEF Receive, Insert, Purge
<1>2. ASSUME NEW g \in Handoffs, DispatcherStep(g), g # h PROVE work'[h] = work[h]
  BY <1>2 DEF DispatcherStep, ClaimPick, ClaimTake, Skip, Start, Begin, DispatchFails, Finish, Fail
<1>3. ASSUME NEW g \in Handoffs, g # h,
             TurnEnds(g) \/ Renew(g) \/ StartUnsure(g) \/ CloseFails(g) \/ RenewFails(g)
               \/ Stall(g) \/ Crash(g)
      PROVE  work'[h] = work[h]
  BY <1>3 DEF TurnEnds, Renew, StartUnsure, Begin, CloseFails, RenewFails, Stall, Crash
<1>4. ASSUME ClaimPick(h) PROVE work'[h].pc = "picked" /\ work'[h].id \in Deliveries
  <2>1. PICK d \in Deliveries : work' = [work EXCEPT ![h].pc = "picked", ![h].id = d]
    BY <1>4 DEF ClaimPick
  <2>2. work[h] \in Work
    OBVIOUS
  <2>3. QED
    BY <2>1, <2>2 DEF Work
<1>5. ASSUME Finish(h) \/ Fail(h) \/ TurnEnds(h) \/ CloseFails(h) \/ Crash(h)
      PROVE  work'[h] = NoWork
  BY <1>5 DEF Finish, Fail, TurnEnds, CloseFails, Crash
<1>6. CASE Tick \/ UNCHANGED vars
  BY <1>6 DEF Tick, vars
<1>7. QED
  BY <1>1, <1>2, <1>3, <1>4, <1>5, <1>6 DEF Next, DispatcherStep

\* What the starting of a turn or a press makes of its hand-off.
LEMMA BeginWork ==
  ASSUME TypeOK, NEW h \in Handoffs, Begin(h)
  PROVE  /\ work'[h].id = work[h].id /\ work'[h].lease = work[h].lease
         /\ \/ /\ kind[work[h].id] = "press" /\ work'[h].pc = "ok"
               /\ ended' = ended \cup {work[h].id}
            \/ /\ kind[work[h].id] # "press" /\ work'[h].pc = "turn"
               /\ work'[h].renew = now + RenewEvery /\ ended' = ended
               /\ Late(h) => work[h].id \in lapsed'
         /\ \A g \in Handoffs : g # h => work'[g] = work[g]
<1>1. work[h] \in Work /\ work \in [Handoffs -> Work]
  BY DEF TypeOK
<1>2. QED
  BY <1>1 DEF Begin, Work

\* A step on a hand-off that goes on leaves it its delivery.
LEMMA SameDelivery ==
  ASSUME TypeOK, NEW h \in Handoffs,
         \/ Skip(h) \/ Start(h) \/ StartUnsure(h) \/ DispatchFails(h)
         \/ Renew(h) \/ RenewFails(h) \/ Stall(h)
  PROVE  work'[h].id = work[h].id /\ work[h].pc \in {"dispatch", "turn"}
<1>1. work[h] \in Work /\ work \in [Handoffs -> Work]
  BY DEF TypeOK
<1>2. CASE Start(h) \/ StartUnsure(h)
  BY <1>1, <1>2, BeginWork DEF Start, StartUnsure, Work
<1>3. CASE Skip(h) \/ DispatchFails(h)
  BY <1>1, <1>3 DEF Skip, DispatchFails, Work
<1>4. CASE Renew(h) \/ RenewFails(h) \/ Stall(h)
  BY <1>1, <1>4 DEF Renew, RenewFails, Stall, Work
<1>5. QED
  BY <1>2, <1>3, <1>4

\* A claim that succeeds takes an open row whose lease ran out; one that does not lets go.
LEMMA TakeWork ==
  ASSUME TypeOK, HandoffOk, NEW h \in Handoffs, ClaimTake(h)
  PROVE  /\ work[h].id \in Deliveries
         /\ \/ /\ work'[h] = NoWork /\ rows' = rows
            \/ /\ Claimable(work[h].id) /\ work'[h].pc = "dispatch"
               /\ work'[h].id = work[h].id /\ work'[h].since = now
               /\ work'[h].lease = now + Lease /\ rows'[work[h].id].lease = now + Lease
               /\ rows'[work[h].id].done = rows[work[h].id].done
               /\ rows'[work[h].id].dead = rows[work[h].id].dead
               /\ rows'[work[h].id].here = rows[work[h].id].here
         /\ \A d \in Deliveries : d # work[h].id => rows'[d] = rows[d]
<1>1. work \in [Handoffs -> Work] /\ rows \in [Deliveries -> Row]
  BY DEF TypeOK
<1>2. PICK d \in Deliveries : d = work[h].id
  BY DEF ClaimTake, HandoffOk
<1>3. CASE ~StillClaimable(d)
  BY <1>1, <1>2, <1>3 DEF ClaimTake
<1>4. CASE StillClaimable(d)
  <2>1. rows' = [rows EXCEPT ![d].lease = now + Lease, ![d].attempts = @ + 1]
    BY <1>2, <1>4 DEF ClaimTake
  <2>2. rows'[d] = [rows[d] EXCEPT !.lease = now + Lease, !.attempts = @ + 1]
    BY <1>1, <2>1
  <2>3. rows[d] \in Row
    BY <1>1
  <2>4. /\ rows'[d].lease = now + Lease /\ rows'[d].done = rows[d].done
        /\ rows'[d].dead = rows[d].dead /\ rows'[d].here = rows[d].here
    BY <2>2, <2>3 DEF Row
  <2>5. work'[h] = [pc |-> "dispatch", id |-> d, lease |-> now + Lease,
                    attempts |-> rows[d].attempts + 1, since |-> now, renew |-> 0]
    BY <1>1, <1>2, <1>4 DEF ClaimTake
  <2>6. \A e \in Deliveries : e # d => rows'[e] = rows[e]
    BY <1>1, <2>1
  <2>7. QED
    BY <1>2, <1>4, <2>4, <2>5, <2>6 DEF StillClaimable
<1>5. QED
  BY <1>3, <1>4

\* Who works keeps its delivery, and a mention gets its own delivery for an owner.
LEMMA NextHandoff ==
  ASSUME TypeOK, HandoffOk, [Next]_vars
  PROVE  HandoffOk'
<1>1. ASSUME NEW h \in Handoffs, work'[h].pc # "idle" PROVE work'[h].id \in Deliveries
  <2>1. work[h].pc # "idle" => work[h].id \in Deliveries
    BY DEF HandoffOk
  <2>2. CASE ClaimTake(h)
    BY <1>1, <2>2, TakeWork DEF NoWork
  <2>3. QED
    BY <1>1, <2>1, <2>2, HandoffSteps, SameDelivery DEF NoWork
<1>2. ASSUME NEW m \in Mentions, seen'[m] # None
      PROVE  (MentionOf(seen[m]) = m)' /\ kind'[seen'[m]] # "noise"
  <2>1. CASE seen'[m] = seen[m]
    BY <1>2, <2>1, OwnerStays DEF HandoffOk, TypeOK, MentionOf
  <2>2. CASE seen'[m] # seen[m]
    <3>1. PICK h \in Handoffs : Start(h) /\ seen'[m] = work[h].id /\ m = MentionOf(work[h].id)
      BY <2>2, OwnerStays
    <3>2. kind[work[h].id] # "noise"
      BY <3>1 DEF Start
    <3>3. QED
      BY <3>1, <3>2, OwnerStays DEF MentionOf
  <2>3. QED
    BY <2>1, <2>2
<1>3. QED
  BY <1>1, <1>2 DEF HandoffOk

\* What is answered stays answered.
LEMMA AnsweredStays ==
  ASSUME TypeOK, HandoffOk, [Next]_vars, NEW d \in Deliveries, Answered(d)
  PROVE  Answered(d)'
<1>1. MentionOf(d) \in Mentions /\ MentionOf(d)' = MentionOf(d) /\ kind' = kind
  BY MentionFacts, OwnerStays
<1>2. seen[MentionOf(d)] # None => seen'[MentionOf(d)] = seen[MentionOf(d)]
  BY <1>1, OwnerStays
<1>3. ended \subseteq ended'
  BY OwnerStays
<1>4. QED
  BY <1>1, <1>2, <1>3 DEF Answered

\* A row is marked done by the dispatcher's closing of an answered delivery or by the end of a turn.
LEMMA DoneSteps ==
  ASSUME TypeOK, HandoffOk, [Next]_vars, NEW d \in Deliveries, rows'[d].done
  PROVE  \/ rows[d].done
         \/ \E h \in Handoffs : work[h].id = d /\ (Finish(h) \/ TurnEnds(h))
<1>1. rows \in [Deliveries -> Row]
  BY DEF TypeOK
<1>2. ASSUME NEW e \in Deliveries, Receive(e) \/ Insert(e) \/ Purge(e) PROVE rows[d].done
  <2>1. rows' = rows \/ rows' = [rows EXCEPT ![e].here = TRUE] \/ rows' = [rows EXCEPT ![e] = NoRow]
    BY <1>2 DEF Receive, Insert, Purge
  <2>2. QED
    BY <1>1, <2>1 DEF Row, NoRow
<1>3. ASSUME NEW h \in Handoffs, ClaimTake(h) PROVE rows[d].done
  BY <1>1, <1>3, TakeWork
<1>4. ASSUME NEW h \in Handoffs, Renew(h) PROVE rows[d].done
  <2>1. PICK e \in Deliveries : e = work[h].id
    BY <1>4 DEF Renew, HandoffOk
  <2>2. rows' = rows \/ rows' = [rows EXCEPT ![e].lease = now + Lease]
    BY <1>4, <2>1 DEF Renew
  <2>3. QED
    BY <1>1, <2>2 DEF Row
<1>5. ASSUME NEW h \in Handoffs, Fail(h) \/ Finish(h) \/ TurnEnds(h)
      PROVE  rows[d].done \/ (work[h].id = d /\ (Finish(h) \/ TurnEnds(h)))
  BY <1>5, ClosedRow DEF Fail, Finish, TurnEnds, HandoffOk
<1>6. ASSUME UNCHANGED rows PROVE rows[d].done
  BY <1>6
<1>7. QED
  BY <1>2, <1>3, <1>4, <1>5, <1>6
  DEF Next, vars, DispatcherStep, ClaimPick, Skip, Start, DispatchFails, StartUnsure, CloseFails,
      RenewFails, Stall, Crash, Tick

\* What is closed was answered: the dispatcher closes what another answers or is nobody's, a turn
\* its own.
LEMMA NextAnswered ==
  ASSUME HandoffInv, [Next]_vars
  PROVE  ClosedIsAnswered'
<1> SUFFICES ASSUME "dedup" \notin faults'
             PROVE  /\ \A d \in Deliveries : rows'[d].done => Answered(d)'
                    /\ \A h \in Handoffs :
                         /\ work'[h].pc = "ok" => (Answered(work[h].id))'
                         /\ work'[h].pc = "turn" => (seen[MentionOf(work[h].id)] = work[h].id)'
  BY DEF ClosedIsAnswered
<1> USE DEF HandoffInv
<1>1. "dedup" \notin faults
  BY OwnerStays
<1>2. ASSUME NEW d \in Deliveries, rows'[d].done PROVE Answered(d)'
  <2>1. CASE rows[d].done
    BY <1>1, <2>1, AnsweredStays DEF ClosedIsAnswered
  <2>2. ASSUME NEW h \in Handoffs, work[h].id = d, Finish(h) PROVE Answered(d)'
    BY <1>1, <2>2, AnsweredStays DEF ClosedIsAnswered, Finish
  <2>3. ASSUME NEW h \in Handoffs, work[h].id = d, TurnEnds(h) PROVE Answered(d)'
    <3>1. seen[MentionOf(d)] = d /\ seen' = seen /\ d \in ended'
      BY <1>1, <2>3 DEF ClosedIsAnswered, TurnEnds
    <3>2. QED
      BY <3>1, MentionFacts, OwnerStays DEF Answered
  <2>4. QED
    BY <1>2, <2>1, <2>2, <2>3, DoneSteps
<1>3. ASSUME NEW h \in Handoffs, ~StartUnsure(h)
      PROVE  /\ work'[h].pc = "ok" => (Answered(work[h].id))'
             /\ work'[h].pc = "turn" => (seen[MentionOf(work[h].id)] = work[h].id)'
  <2>1. /\ work[h] \in Work /\ work \in [Handoffs -> Work]
        /\ work[h].pc # "idle" => work[h].id \in Deliveries
    BY DEF TypeOK, HandoffOk
  <2>2. ASSUME work[h].pc = "turn", work'[h].id = work[h].id
        PROVE  (seen[MentionOf(work[h].id)] = work[h].id)'
    <3>1. work[h].id \in Deliveries /\ seen[MentionOf(work[h].id)] = work[h].id
      BY <1>1, <2>1, <2>2 DEF ClosedIsAnswered
    <3>2. seen'[MentionOf(work[h].id)] = work[h].id
      BY <3>1, MentionFacts, OwnerStays
    <3>3. QED
      BY <2>2, <3>1, <3>2, OwnerStays DEF MentionOf
  <2>3. CASE work'[h] = work[h]
    <3>1. ASSUME work[h].pc = "ok" PROVE Answered(work[h].id)'
      <4>1. PICK d \in Deliveries : d = work[h].id
        BY <2>1, <3>1
      <4>2. Answered(d)'
        BY <1>1, <3>1, <4>1, AnsweredStays DEF ClosedIsAnswered
      <4>3. QED
        BY <2>3, <4>1, <4>2
    <3>2. QED
      BY <2>2, <2>3, <3>1 DEF Answered, MentionOf
  <2>4. CASE Skip(h)
    <3>1. work'[h].id = work[h].id /\ work'[h].pc = "ok" /\ work[h].id \in Deliveries
      BY <2>1, <2>4 DEF Skip, Work
    <3>2. Answered(work[h].id)
      BY <2>4 DEF Skip, Owned, Answered
    <3>3. QED
      BY <3>1, <3>2, AnsweredStays DEF Answered, MentionOf
  <2>5. CASE Start(h)
    <3>1. work'[h].id = work[h].id /\ work[h].id \in Deliveries
      BY <2>1, <2>5, SameDelivery
    <3>2. seen'[MentionOf(work[h].id)] = work[h].id
      BY <2>5, <3>1, MentionFacts DEF Start, TypeOK
    <3>3. work'[h].pc = "ok" => work[h].id \in ended'
      BY <2>5, BeginWork DEF Start
    <3>4. QED
      BY <3>1, <3>2, <3>3, MentionFacts, OwnerStays DEF Answered, MentionOf
  <2>6. CASE DispatchFails(h) \/ Stall(h)
    BY <2>1, <2>6 DEF DispatchFails, Stall, Work
  <2>7. CASE Renew(h) \/ RenewFails(h)
    <3>1. work[h].pc = "turn" /\ work'[h].id = work[h].id /\ work'[h].pc = "turn"
      BY <2>1, <2>7 DEF Renew, RenewFails, Work
    <3>2. QED
      BY <2>2, <3>1
  <2>8. CASE ClaimTake(h)
    BY <2>8, TakeWork DEF NoWork
  <2>9. QED
    BY <1>3, <2>3, <2>4, <2>5, <2>6, <2>7, <2>8, HandoffSteps DEF NoWork
<1>4. ASSUME NEW h \in Handoffs PROVE ~StartUnsure(h)
  BY DEF StartUnsure, Fault
<1>5. QED
  BY <1>2, <1>3, <1>4

\* What every step leaves of the lease of a hand-off: the row stays its, open, and the lease live.
LEMMA RowKept ==
  ASSUME SlackInv, [Next]_vars,
         NEW h \in Handoffs, Busy(h), work[h].id \notin lapsed, work'[h] = work[h]
  PROVE  /\ rows'[work[h].id].here /\ ~rows'[work[h].id].done /\ ~rows'[work[h].id].dead
         /\ rows'[work[h].id].lease = work[h].lease
<1> USE DEF SlackInv, HandoffInv
<1>1. PICK d \in Deliveries : d = work[h].id
  BY DEF HandoffOk, Busy
<1>2. /\ rows[d].here /\ ~rows[d].done /\ ~rows[d].dead /\ rows[d].lease = work[h].lease
      /\ now < rows[d].lease
      /\ \A g \in Handoffs : Busy(g) /\ g # h => work[g].id # d
  BY <1>1 DEF LeaseHeld, HoldsRow, Pending
<1>3. rows \in [Deliveries -> Row] /\ work[h].pc # "idle"
  BY DEF TypeOK, Busy
<1>4. ASSUME NEW e \in Deliveries, Receive(e) \/ Insert(e) PROVE rows'[d] = rows[d]
  <2>1. rows' = rows \/ (e # d /\ rows' = [rows EXCEPT ![e].here = TRUE])
    BY <1>2, <1>4 DEF Receive, Insert
  <2>2. QED
    BY <1>3, <2>1
<1>5. ASSUME NEW e \in Deliveries, Purge(e) PROVE rows'[d] = rows[d]
  BY <1>1, <1>3, <1>5 DEF Purge
<1>6. ASSUME NEW g \in Handoffs, ClaimTake(g) PROVE rows'[d] = rows[d]
  BY <1>2, <1>6, TakeWork DEF Claimable, TypeOK, Row
<1>7. ASSUME NEW g \in Handoffs, Renew(g), g # h PROVE rows'[d] = rows[d]
  BY <1>2, <1>3, <1>7 DEF Renew, Busy
<1>8. ASSUME Renew(h) PROVE FALSE
  <2>1. work[h].renew # 0 /\ now < work[h].lease /\ HoldsRow(h) /\ work[h].renew <= now
    BY <1>8 DEF LeaseHeld, Renew
  <2>2. work'[h].renew = now + RenewEvery
    BY <1>8, <2>1 DEF Renew, TypeOK, Work
  <2>3. work[h].renew \in Nat
    BY DEF TypeOK, Work
  <2>4. QED
    BY <2>1, <2>2, <2>3, SlackAssumption DEF TypeOK
<1>9. ASSUME NEW g \in Handoffs, Fail(g) \/ Finish(g) \/ TurnEnds(g) PROVE rows'[d] = rows[d]
  <2>1. g # h
    BY <1>3, <1>9 DEF Fail, Finish, TurnEnds, NoWork, TypeOK
  <2>2. work[g].id # d /\ work[g].id \in Deliveries
    BY <1>2, <1>9, <2>1 DEF Fail, Finish, TurnEnds, Busy, HandoffOk
  <2>3. QED
    BY <1>9, <2>2, ClosedRow DEF Fail, Finish, TurnEnds
<1>10. rows'[d] = rows[d]
  BY <1>4, <1>5, <1>6, <1>7, <1>8, <1>9
  DEF Next, vars, DispatcherStep, ClaimPick, Skip, Start, DispatchFails, StartUnsure, CloseFails,
      RenewFails, Stall, Crash, Tick
<1>11. QED
  BY <1>1, <1>2, <1>10

\* Work begins with a claim and keeps its delivery.
LEMMA BusySteps ==
  ASSUME TypeOK, HandoffOk, [Next]_vars, NEW h \in Handoffs, Busy(h)', ~ClaimTake(h)
  PROVE  Busy(h) /\ work'[h].id = work[h].id
BY HandoffSteps, SameDelivery DEF Busy, NoWork

\* Nobody works on what another works on.
LEMMA NextAlone ==
  ASSUME SlackInv, [Next]_vars, NEW h \in Handoffs, NEW g \in Handoffs,
         Busy(h)', Busy(g)', work'[g].id = work'[h].id, work'[h].id \notin lapsed
  PROVE  g = h
<1> USE DEF SlackInv, HandoffInv
<1>1. ASSUME NEW x \in Handoffs, NEW y \in Handoffs, x # y, ClaimTake(x), Busy(x)', Busy(y)',
             work'[y].id \notin lapsed
      PROVE  work'[x].id # work'[y].id
  <2>1. work'[y] = work[y] /\ Busy(y)
    BY <1>1 DEF ClaimTake, Busy, TypeOK
  <2>2. Claimable(work[x].id) /\ work'[x].id = work[x].id
    BY <1>1, TakeWork DEF Busy, NoWork
  <2>3. rows[work[y].id].lease = work[y].lease /\ now < work[y].lease
    BY <1>1, <2>1 DEF LeaseHeld, HoldsRow
  <2>4. now \in Nat /\ work[y].lease \in Nat
    BY DEF TypeOK, Work
  <2>5. QED
    BY <2>1, <2>2, <2>3, <2>4 DEF Claimable
<1>2. CASE ~ClaimTake(h) /\ ~ClaimTake(g)
  <2>1. Busy(h) /\ Busy(g) /\ work[g].id = work[h].id /\ work[h].id \notin lapsed
    BY <1>2, BusySteps
  <2>2. QED
    BY <2>1 DEF LeaseHeld
<1>3. QED
  BY <1>1, <1>2

\* A hand-off that a step leaves alone has its lease live when time passes.
LEMMA NextLive ==
  ASSUME SlackInv, [Next]_vars,
         NEW h \in Handoffs, Busy(h), work[h].id \notin lapsed, work'[h] = work[h]
  PROVE  /\ now' < work[h].lease
         /\ work[h].pc = "dispatch" =>
              /\ work[h].since \in 1..now' /\ now' <= work[h].since + DispatchTime
              /\ work[h].lease = work[h].since + Lease
         /\ work[h].pc = "turn" =>
              work[h].renew # 0 /\ now' <= work[h].renew /\ work[h].renew < work[h].lease
<1> USE DEF SlackInv, HandoffInv
<1>1. /\ now < work[h].lease
      /\ work[h].pc = "dispatch" =>
           /\ work[h].since \in 1..now /\ now <= work[h].since + DispatchTime
           /\ work[h].lease = work[h].since + Lease
      /\ work[h].pc = "turn" =>
           work[h].renew # 0 /\ now <= work[h].renew /\ work[h].renew < work[h].lease
  BY DEF LeaseHeld
<1>2. /\ now \in Nat \ {0} /\ work[h].since \in Nat /\ work[h].renew \in Nat
      /\ work[h].lease \in Nat
      /\ work[h].pc \in {"idle", "picked", "dispatch", "ok", "failed", "turn"}
  BY DEF TypeOK, Work
<1>3. CASE Tick
  <2>1. /\ now' = now + 1 /\ work[h].pc \notin {"picked", "ok", "failed", "idle"}
        /\ work[h].pc = "dispatch" => work[h].since = 0 \/ now < work[h].since + DispatchTime
        /\ work[h].pc = "turn" => work[h].renew = 0 \/ now < work[h].renew
    BY <1>3 DEF Tick, Busy
  <2>2. DispatchTime < Lease /\ DispatchTime \in Nat /\ Lease \in Nat
    BY SlackAssumption
  <2>3. QED
    BY <1>1, <1>2, <2>1, <2>2
<1>4. CASE now' = now
  BY <1>1, <1>4
<1>5. QED
  BY <1>3, <1>4
  DEF Next, vars, DispatcherStep, Receive, Insert, Purge, ClaimPick, ClaimTake, Skip, Start,
      DispatchFails, Finish, Fail, TurnEnds, Renew, StartUnsure, CloseFails, RenewFails, Stall,
      Crash

\* Who works on a delivery holds it, through every step but one that lets its lease run out.
LEMMA NextLease ==
  ASSUME SlackInv, [Next]_vars
  PROVE  LeaseHeld'
<1> USE DEF SlackInv, HandoffInv
<1> SUFFICES ASSUME NEW h \in Handoffs, Busy(h)', work'[h].id \notin lapsed'
             PROVE  /\ HoldsRow(h)' /\ now' < work'[h].lease
                    /\ work'[h].pc = "dispatch" =>
                         /\ work'[h].since \in 1..now' /\ now' <= work'[h].since + DispatchTime
                         /\ work'[h].lease = work'[h].since + Lease
                    /\ work'[h].pc = "turn" =>
                         /\ work'[h].renew # 0 /\ now' <= work'[h].renew
                         /\ work'[h].renew < work'[h].lease
  BY OwnerStays, NextAlone DEF LeaseHeld
<1>0. work'[h].id \notin lapsed
  BY OwnerStays
<1>1. CASE work'[h] = work[h]
  <2>1. Busy(h)
    BY <1>1 DEF Busy
  <2>2. HoldsRow(h)'
    BY <1>0, <1>1, <2>1, RowKept DEF HoldsRow, Pending
  <2>3. QED
    BY <1>0, <1>1, <2>1, <2>2, NextLive
<1>2. CASE ClaimTake(h)
  <2>1. /\ work'[h].pc = "dispatch" /\ work'[h].id = work[h].id /\ work'[h].since = now
        /\ work'[h].lease = now + Lease /\ now' = now
    <3>1. now' = now
      BY <1>2 DEF ClaimTake
    <3>2. QED
      BY <1>2, <3>1, TakeWork DEF Busy, NoWork
  <2>2. HoldsRow(h)'
    BY <1>2, <2>1, TakeWork DEF Busy, NoWork, HoldsRow, Pending, Claimable
  <2>3. now \in Nat \ {0} /\ Lease \in Nat \ {0} /\ DispatchTime \in Nat
    BY SlackAssumption DEF TypeOK
  <2>4. QED
    BY <2>1, <2>2, <2>3
<1>3. ASSUME Skip(h) \/ Start(h) \/ StartUnsure(h) \/ DispatchFails(h)
      PROVE  /\ HoldsRow(h)' /\ now' = now /\ work'[h].lease = work[h].lease
             /\ now < work[h].lease /\ work'[h].pc # "dispatch"
             /\ work'[h].pc = "turn" =>
                  work'[h].renew = now + RenewEvery /\ ~(work[h].lease <= now + RenewEvery)
  <2>1. work[h] \in Work /\ work \in [Handoffs -> Work]
    BY DEF TypeOK
  <2>2. HoldsRow(h) /\ now < work[h].lease
    BY <1>0, <1>3, SameDelivery DEF LeaseHeld, Busy
  <2>3. rows' = rows /\ now' = now
    BY <1>3 DEF Skip, Start, StartUnsure, DispatchFails
  <2>4. /\ work'[h].lease = work[h].lease /\ work'[h].id = work[h].id
        /\ work'[h].pc # "dispatch"
        /\ work'[h].pc = "turn" =>
             work'[h].renew = now + RenewEvery /\ ~(work[h].lease <= now + RenewEvery)
    <3>1. CASE Start(h) \/ StartUnsure(h)
      <4>1. CASE Begin(h)
        BY <4>1, BeginWork DEF Late
      <4>2. CASE work' = [work EXCEPT ![h].pc = "ok"]
        BY <2>1, <4>2 DEF Work
      <4>3. QED
        BY <3>1, <4>1, <4>2 DEF Start, StartUnsure
    <3>2. CASE Skip(h) \/ DispatchFails(h)
      BY <2>1, <3>2 DEF Skip, DispatchFails, Work
    <3>3. QED
      BY <1>3, <3>1, <3>2
  <2>5. QED
    BY <2>2, <2>3, <2>4 DEF HoldsRow, Pending
<1>4. CASE Skip(h) \/ Start(h) \/ StartUnsure(h) \/ DispatchFails(h)
  <2>1. now \in Nat \ {0} /\ work[h].lease \in Nat /\ RenewEvery \in Nat \ {0}
    BY SlackAssumption DEF TypeOK, Work
  <2>2. QED
    BY <1>3, <1>4, <2>1
<1>5. CASE Renew(h)
  <2>1. work[h] \in Work /\ work \in [Handoffs -> Work] /\ rows \in [Deliveries -> Row]
    BY DEF TypeOK
  <2>2. PICK d \in Deliveries : d = work[h].id
    BY <1>5 DEF Renew, HandoffOk
  <2>3. HoldsRow(h)
    BY <1>0, <1>5, SameDelivery DEF LeaseHeld, Busy, Renew
  <2>4. /\ rows' = [rows EXCEPT ![d].lease = now + Lease] /\ now' = now
        /\ work' = [work EXCEPT ![h].lease = now + Lease, ![h].renew = now + RenewEvery]
    BY <1>5, <2>2, <2>3 DEF Renew
  <2>5. /\ work'[h].id = d /\ work'[h].lease = now + Lease /\ work'[h].renew = now + RenewEvery
        /\ work'[h].pc = "turn"
    BY <1>5, <2>1, <2>2, <2>4 DEF Renew, Work
  <2>6. /\ rows'[d].lease = now + Lease /\ rows'[d].here = rows[d].here
        /\ rows'[d].done = rows[d].done /\ rows'[d].dead = rows[d].dead
    BY <2>1, <2>4 DEF Row
  <2>7. HoldsRow(h)'
    BY <2>2, <2>3, <2>5, <2>6 DEF HoldsRow, Pending
  <2>8. now \in Nat \ {0} /\ RenewEvery \in 1..Lease - 1 /\ Lease \in Nat
    BY SlackAssumption DEF TypeOK
  <2>9. QED
    BY <2>4, <2>5, <2>7, <2>8
<1>6. ~RenewFails(h) /\ ~Stall(h)
  BY SameDelivery DEF RenewFails, Stall
<1>7. QED
  BY <1>1, <1>2, <1>4, <1>5, <1>6, HandoffSteps DEF Busy, NoWork

\* A turn is counted when it starts, and only a death counts against it.
LEMMA CountSteps ==
  ASSUME TypeOK, HandoffOk, [Next]_vars, "dedup" \notin faults', NEW m \in Mentions
  PROVE  /\ \/ started'[m] = started[m]
            \/ \E h \in Handoffs :
                 Start(h) /\ m = MentionOf(work[h].id) /\ started'[m] = started[m] + 1
         /\ started[m] \in Nat /\ cut[m] \in Nat
         /\ cut'[m] = cut[m] \/ cut'[m] = cut[m] + 1
<1>1. started \in [Mentions -> Nat] /\ cut \in [Mentions -> Nat]
  BY DEF TypeOK
<1>2. ASSUME NEW h \in Handoffs, Start(h)
      PROVE  /\ started'[m] = started[m]
                  \/ (m = MentionOf(work[h].id) /\ started'[m] = started[m] + 1)
             /\ cut' = cut
  BY <1>1, <1>2 DEF Start, Begin
<1>3. ASSUME NEW h \in Handoffs, Crash(h)
      PROVE  started' = started /\ (cut'[m] = cut[m] \/ cut'[m] = cut[m] + 1)
  BY <1>1, <1>3 DEF Crash
<1>4. ASSUME NEW h \in Handoffs PROVE ~StartUnsure(h)
  BY DEF StartUnsure, Fault
<1>5. ASSUME UNCHANGED <<started, cut>>
      PROVE  started'[m] = started[m] /\ cut'[m] = cut[m]
  BY <1>5
<1>6. \/ UNCHANGED <<started, cut>>
      \/ \E h \in Handoffs : Start(h) \/ Crash(h)
  BY <1>4
  DEF Next, vars, ghosts, DispatcherStep, Receive, Insert, Purge, ClaimPick, ClaimTake, Skip,
      DispatchFails, Finish, Fail, TurnEnds, Renew, CloseFails, RenewFails, Stall, Tick
<1>7. QED
  BY <1>1, <1>2, <1>3, <1>5, <1>6

\* What is over stays so: a closed row is not opened, and one forgotten does not come back.
LEMMA OverStays ==
  ASSUME TypeOK, HandoffOk, [Next]_vars, NEW d \in Deliveries, Over(d)
  PROVE  Over(d)'
<1>1. rows \in [Deliveries -> Row] /\ sends \in [Deliveries -> 0..MaxSends]
  BY DEF TypeOK
<1>2. ASSUME NEW e \in Deliveries, Receive(e) PROVE Over(d)'
  <2>1. rows' = rows
    BY <1>2 DEF Receive
  <2>2. CASE rows[d].done \/ rows[d].dead
    BY <2>1, <2>2 DEF Over
  <2>3. CASE ~rows[d].here /\ d \notin recv /\ sends[d] = MaxSends
    <3>1. e # d
      BY <1>2, <2>3, SlackAssumption DEF Receive
    <3>2. d \notin recv' /\ sends'[d] = sends[d]
      BY <1>1, <1>2, <2>3, <3>1 DEF Receive
    <3>3. QED
      BY <2>1, <2>3, <3>2 DEF Over
  <2>4. QED
    BY <2>2, <2>3 DEF Over
<1>3. ASSUME NEW e \in Deliveries, Insert(e) PROVE Over(d)'
  <2>1. rows' = rows \/ rows' = [rows EXCEPT ![e].here = TRUE]
    BY <1>3 DEF Insert
  <2>2. rows'[d].done = rows[d].done /\ rows'[d].dead = rows[d].dead
    BY <1>1, <2>1 DEF Row
  <2>3. e # d => rows'[d] = rows[d]
    BY <1>1, <2>1
  <2>4. QED
    BY <1>3, <2>2, <2>3 DEF Insert, Over
<1>4. ASSUME NEW e \in Deliveries, Purge(e) PROVE Over(d)'
  BY <1>1, <1>4 DEF Purge, Over, NoRow
<1>5. ASSUME UNCHANGED <<recv, sends>>,
             rows'[d].here = rows[d].here, rows[d].done => rows'[d].done,
             rows[d].dead => rows'[d].dead
      PROVE  Over(d)'
  BY <1>5 DEF Over
<1>6. ASSUME NEW h \in Handoffs, ClaimTake(h) PROVE Over(d)'
  BY <1>5, <1>6, TakeWork DEF ClaimTake
<1>7. ASSUME NEW h \in Handoffs, Renew(h) PROVE Over(d)'
  <2>1. PICK e \in Deliveries : e = work[h].id
    BY <1>7 DEF Renew, HandoffOk
  <2>2. rows' = rows \/ rows' = [rows EXCEPT ![e].lease = now + Lease]
    BY <1>7, <2>1 DEF Renew
  <2>3. /\ rows'[d].here = rows[d].here /\ rows'[d].done = rows[d].done
        /\ rows'[d].dead = rows[d].dead
    BY <1>1, <2>2 DEF Row
  <2>4. QED
    BY <1>5, <1>7, <2>3 DEF Renew
<1>8. ASSUME NEW h \in Handoffs, Fail(h) \/ Finish(h) \/ TurnEnds(h) PROVE Over(d)'
  <2>1. work[h].id \in Deliveries
    BY <1>8 DEF Fail, Finish, TurnEnds, HandoffOk
  <2>2. QED
    BY <1>5, <1>8, <2>1, ClosedRow DEF Fail, Finish, TurnEnds
<1>9. ASSUME UNCHANGED <<rows, recv, sends>> PROVE Over(d)'
  BY <1>9 DEF Over
<1>10. QED
  BY <1>2, <1>3, <1>4, <1>6, <1>7, <1>8, <1>9
  DEF Next, vars, DispatcherStep, ClaimPick, Skip, Start, DispatchFails, StartUnsure, CloseFails,
      RenewFails, Stall, Crash, Tick

\* A turn or press under way goes on, is closed, or dies.
LEMMA BegunSteps ==
  ASSUME SlackInv, [Next]_vars, "outcome" \notin faults', NEW d \in Deliveries,
         d \notin lapsed', Begun(d)
  PROVE  \/ Begun(d)' \/ Over(d)'
         \/ cut'[MentionOf(d)] = cut[MentionOf(d)] + 1
<1> USE DEF SlackInv, HandoffInv
<1>0. d \notin lapsed /\ kind' = kind
  BY OwnerStays
<1>1. PICK h \in Handoffs : /\ work[h].id = d
                            /\ work[h].pc = "turn" \/ (work[h].pc = "ok" /\ kind[d] = "press")
  BY DEF Begun
<1>2. work[h] \in Work /\ work \in [Handoffs -> Work] /\ cut \in [Mentions -> Nat]
  BY DEF TypeOK
<1>3. CASE work'[h] = work[h]
  BY <1>0, <1>1, <1>3 DEF Begun
<1>4. CASE Renew(h)
  BY <1>0, <1>1, <1>2, <1>4 DEF Renew, Work, Begun
<1>5. CASE Finish(h) \/ TurnEnds(h)
  <2>1. HoldsRow(h)
    BY <1>0, <1>1 DEF LeaseHeld, Busy
  <2>2. rows'[d].done
    BY <1>1, <1>5, <2>1, ClosedRow DEF Finish, TurnEnds
  <2>3. QED
    BY <2>2 DEF Over
<1>6. CASE Crash(h)
  BY <1>1, <1>2, <1>6, MentionFacts DEF Crash
<1>7. /\ ~ClaimPick(h) /\ ~ClaimTake(h) /\ ~Skip(h) /\ ~Start(h) /\ ~StartUnsure(h)
      /\ ~DispatchFails(h) /\ ~Stall(h) /\ ~Fail(h)
  BY <1>1
  DEF ClaimPick, ClaimTake, Skip, Start, StartUnsure, DispatchFails, Stall, Fail
<1>8. ~CloseFails(h) /\ ~RenewFails(h)
  BY <1>1 DEF CloseFails, RenewFails, Fault
<1>9. QED
  BY <1>3, <1>4, <1>5, <1>6, <1>7, <1>8, HandoffSteps

\* A turn that starts leaves its delivery begun; it is the first or follows one that died.
LEMMA StartCounts ==
  ASSUME SlackInv, "dedup" \notin faults, "outcome" \notin faults,
         NEW h \in Handoffs, Start(h), work[h].id \notin lapsed, kind' = kind
  PROVE  /\ work[h].id \in Deliveries /\ MentionOf(work[h].id) \in Mentions
         /\ seen'[MentionOf(work[h].id)] = work[h].id
         /\ \E g \in Handoffs : /\ work'[g].id = work[h].id
                                /\ \/ work'[g].pc = "turn"
                                   \/ work'[g].pc = "ok" /\ kind'[work[h].id] = "press"
         /\ started[MentionOf(work[h].id)] <= cut[MentionOf(work[h].id)]
<1> USE DEF SlackInv, HandoffInv
<1>1. work[h].id \in Deliveries /\ MentionOf(work[h].id) \in Mentions
  BY MentionFacts DEF Start, HandoffOk
<1>2. seen'[MentionOf(work[h].id)] = work[h].id
  BY <1>1 DEF Start, TypeOK
<1>3. /\ work'[h].id = work[h].id
      /\ work'[h].pc = "turn" \/ (work'[h].pc = "ok" /\ kind'[work[h].id] = "press")
  BY BeginWork DEF Start
<1>4. ~Over(work[h].id)
  BY DEF LeaseHeld, Busy, Start, HoldsRow, Pending, Over
<1>5. ~Begun(work[h].id)
  BY DEF LeaseHeld, Busy, Start, Begun
<1>6. started[MentionOf(work[h].id)] \in Nat /\ cut[MentionOf(work[h].id)] \in Nat
  BY <1>1 DEF TypeOK
<1>7. started[MentionOf(work[h].id)] <= cut[MentionOf(work[h].id)]
  <2>1. seen[MentionOf(work[h].id)] \in {None, work[h].id} /\ None \notin lapsed
    BY SlackAssumption DEF Start, Owned, TypeOK
  <2>2. Sound(MentionOf(work[h].id))
    BY <2>1 DEF Sound
  <2>3. QED
    BY <1>1, <1>4, <1>5, <1>6, <2>1, <2>2, MentionFacts DEF TurnsCounted
<1>8. QED
  BY <1>1, <1>2, <1>3, <1>7

\* The counts keep agreeing with what is under way and over.
LEMMA NextCounted ==
  ASSUME SlackInv, [Next]_vars
  PROVE  TurnsCounted' /\ OneTurn'
<1> USE DEF SlackInv, HandoffInv
<1> SUFFICES ASSUME NEW m \in Mentions, "dedup" \notin faults', "outcome" \notin faults',
                    seen'[m] \notin lapsed'
             PROVE  /\ seen'[m] = None => started'[m] = 0
                    /\ seen'[m] # None /\ started'[m] > cut'[m]
                         => Over(seen[m])' \/ Begun(seen[m])'
                    /\ started'[m] <= cut'[m] + 1
  BY DEF TurnsCounted, OneTurn, Sound
<1>0. /\ "dedup" \notin faults /\ "outcome" \notin faults /\ seen'[m] \notin lapsed
      /\ kind' = kind
  BY OwnerStays
<1>1. ASSUME NEW h \in Handoffs, Start(h), m = MentionOf(work[h].id)
      PROVE  /\ seen'[m] # None /\ Begun(seen[m])' /\ started'[m] <= cut'[m] + 1
  <2>1. /\ seen'[m] = work[h].id /\ work[h].id \in Deliveries /\ started[m] <= cut[m]
    <3>1. work[h].id \in Deliveries /\ seen'[m] = work[h].id
      BY <1>1 DEF Start, HandoffOk, TypeOK
    <3>2. QED
      BY <1>0, <1>1, <3>1, StartCounts
  <2>2. Begun(seen[m])'
    BY <1>0, <1>1, <2>1, StartCounts DEF Begun
  <2>3. QED
    BY <2>1, <2>2, CountSteps, MentionFacts
<1>2. ASSUME ~(\E h \in Handoffs : Start(h) /\ m = MentionOf(work[h].id))
      PROVE  /\ seen'[m] = seen[m] /\ started'[m] = started[m]
             /\ seen[m] = None => started'[m] = 0
             /\ started'[m] <= cut'[m] + 1
  <2>1. seen'[m] = seen[m] /\ started'[m] = started[m]
    BY <1>2, OwnerStays, CountSteps
  <2>2. started[m] <= cut[m] + 1 /\ (seen[m] = None => started[m] = 0)
    BY <1>0, <2>1 DEF OneTurn, TurnsCounted, Sound
  <2>3. QED
    BY <2>1, <2>2, CountSteps
<1>3. ASSUME ~(\E h \in Handoffs : Start(h) /\ m = MentionOf(work[h].id)),
             seen'[m] # None, started'[m] > cut'[m]
      PROVE  Over(seen[m])' \/ Begun(seen[m])'
  <2>1. PICK d \in Deliveries : d = seen[m] /\ seen'[m] = d /\ m = MentionOf(d)
    BY <1>2, <1>3 DEF TypeOK, HandoffOk
  <2>2. /\ started[m] > cut[m] /\ started[m] <= cut[m] + 1 /\ cut'[m] # cut[m] + 1
    BY <1>0, <1>2, <1>3, CountSteps DEF OneTurn, Sound
  <2>3. Over(d) \/ Begun(d)
    BY <1>0, <2>1, <2>2, MentionFacts DEF TurnsCounted, Sound
  <2>4. Over(d)' \/ Begun(d)'
    BY <2>1, <2>2, <2>3, OverStays, BegunSteps
  <2>5. QED
    BY <2>1, <2>4
<1>4. QED
  BY <1>1, <1>2, <1>3

\* The parts that need no lease.
LEMMA NextHandoffInv == ASSUME HandoffInv, [Next]_vars PROVE HandoffInv'
BY NextType, NextHandoff, NextAnswered DEF HandoffInv

\* Delivery by delivery, the hand-off is right whatever becomes of its lease: types, owners, and what is closed
\* was answered (deliveryHandoff, SeenEvent).
LEMMA HandoffInvariant == Spec => []HandoffInv
<1>1. Init => HandoffInv
  BY InitSlack DEF SlackInv
<1>2. HandoffInv /\ [Next]_vars => HandoffInv'
  BY NextHandoffInv
<1>3. QED
  BY <1>1, <1>2, PTL DEF Spec

\* A delivery closed as done by the one that owns its mention has had its turn to the end or its
\* press begun, as long as the dedup query answers (deliveryHandoff.finish, finishSlackDelivery).
THEOREM DoneWasWorkedAlways == Spec => []DoneWasWorked
<1>1. HandoffInv => DoneWasWorked
  <2> SUFFICES ASSUME HandoffInv, "dedup" \notin faults, NEW d \in Deliveries, rows[d].done,
                      seen[MentionOf(d)] = d
               PROVE  d \in ended
    BY DEF DoneWasWorked
  <2>1. Answered(d)
    BY DEF HandoffInv, ClosedIsAnswered
  <2>2. kind[d] # "noise"
    BY MentionFacts DEF HandoffInv, HandoffOk
  <2>3. QED
    BY <2>1, <2>2 DEF Answered
<1>2. QED
  BY <1>1, HandoffInvariant, PTL

\* Whatever fails and however late a dispatch starts its turn, who works on a delivery whose lease was
\* not let run out holds its row alone; and a mention of such a delivery has no two answers while the
\* dedup query and the closing write are answered (claimSlackDelivery, touchSlackDelivery).
THEOREM SlackInvariant == Spec => []SlackInv
<1>1. Init => SlackInv
  BY InitSlack
<1>2. SlackInv /\ [Next]_vars => SlackInv'
  BY NextHandoffInv, NextLease, NextCounted DEF SlackInv
<1>3. QED
  BY <1>1, <1>2, PTL DEF Spec

\* A delivery is not dead-lettered under its running turn, though failSlackDelivery names no lease,
\* unless its lease was let run out; any other fault may have happened.
THEOREM DeadHasNoTurnAlways == Spec => []DeadHasNoTurn
<1>1. SlackInv => DeadHasNoTurn
  BY DEF SlackInv, LeaseHeld, Busy, HoldsRow, Pending, DeadHasNoTurn
<1>2. QED
  BY <1>1, SlackInvariant, PTL
=============================================================================
