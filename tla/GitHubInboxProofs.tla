------------------------- MODULE GitHubInboxProofs -------------------------
(***************************************************************************)
(* The inbox closes a delivery only with its work done or its attempts     *)
(* used, keeps its receipt, and its lease is a fence: for any number of    *)
(* deliveries, requests and dispatchers and for all timings.               *)
(***************************************************************************)
EXTENDS GitHubInbox, TLAPS

\* The back-offs the code computes are positive: what InboxFences says of them.
LEMMA BackoffPositive == ASSUME NEW n \in 1..MaxAttempts PROVE Backoff(n) \in Nat \ {0}
BY InboxFences DEF Fence!FenceAssumption

\* The purge leaves a row, retires it or forgets it.
LEMMA PurgeRow ==
  ASSUME TypeOK, Purge, NEW d \in Deliveries
  PROVE  /\ rows'[d] \in Row
         /\ \/ ~Exhausted(d) /\ ~Old(d) /\ rows'[d] = rows[d]
            \/ /\ Exhausted(d) /\ rows'[d].state = "dead" /\ rows'[d].ended = now
               /\ rows'[d].lease = rows[d].lease /\ rows'[d].attempts = rows[d].attempts
            \/ ~Exhausted(d) /\ Old(d) /\ rows'[d] = NoRow
<1> DEFINE retired == [rows[d] EXCEPT !.state = "dead", !.ended = now]
<1>1. /\ retired \in Row /\ retired.state = "dead" /\ retired.ended = now
      /\ retired.lease = rows[d].lease /\ retired.attempts = rows[d].attempts
  BY DEF TypeOK, Row
<1>2. NoRow \in Row /\ rows[d] \in Row
  BY InboxAssumption DEF TypeOK, Row, NoRow
<1>3. rows'[d] = IF Exhausted(d) THEN retired ELSE IF Old(d) THEN NoRow ELSE rows[d]
  BY DEF Purge
<1> HIDE DEF retired
<1>4. QED
  BY <1>1, <1>2, <1>3

\* An accepted delivery is a row.
LEMMA InsertType ==
  ASSUME TypeOK, NEW x \in Receivers, Insert(x)
  PROVE  recv[x] \in Deliveries /\ rows' \in [Deliveries -> Row]
<1>1. PICK d \in Deliveries : d = recv[x]
  BY DEF TypeOK, Insert
<1>2. rows \in [Deliveries -> Row] /\ now \in Nat
  BY DEF TypeOK
<1>3. rows' = [rows EXCEPT ![d].state = "pending", ![d].accepted = now] \/ rows' = rows
  BY <1>1 DEF Insert
<1>4. QED
  BY <1>1, <1>2, <1>3 DEF Row

LEMMA InitInbox == Init => InboxInv
BY InboxAssumption
DEF Init, InboxInv, TypeOK, Row, Hold, RowOk, HoldOk, TokenInv, NoRow, NoHold, Claimed, Fenced

\* Every step keeps to the types: one case per action.
LEMMA NextType ==
  ASSUME TypeOK, \A h \in Dispatchers : HoldOk(h), [Next]_vars
  PROVE  TypeOK'
<1> USE InboxAssumption DEF TypeOK, Row, Hold, HoldOk, NoRow, NoHold, hvars, Claimed
<1>1. ASSUME NEW x \in Receivers, Insert(x) PROVE TypeOK'
  <2>1. recv' \in [Receivers -> Deliveries \cup {NoDelivery}] /\ routed' \subseteq Deliveries
    BY <1>1 DEF Insert
  <2>2. claims' \in [Deliveries -> Nat]
    BY <1>1 DEF Insert
  <2>3. QED
    BY <1>1, <2>1, <2>2, InsertType DEF Insert
<1>2. ASSUME NEW x \in Receivers, NEW d \in Deliveries, Receive(x, d) PROVE TypeOK'
  BY <1>2 DEF Receive
<1>3. ASSUME NEW h \in Dispatchers, ClaimPick(h) PROVE TypeOK'
  BY <1>3 DEF ClaimPick
<1>4. ASSUME NEW h \in Dispatchers, ClaimMiss(h) \/ Lost(h) \/ Crash(h) PROVE TypeOK'
  BY <1>4 DEF ClaimMiss, Lost, Crash, LetGo
<1>5. ASSUME NEW h \in Dispatchers, ClaimTake(h) PROVE TypeOK'
  BY <1>5 DEF ClaimTake, Claimable
<1>6. ASSUME NEW h \in Dispatchers, Touch(h) PROVE TypeOK'
  <2>1. PICK d \in Deliveries : d = held[h].id
    BY <1>6 DEF Touch
  <2>2. rows' = [rows EXCEPT ![d].lease = now + Lease]
    BY <1>6, <2>1 DEF Touch
  <2>3. rows' \in [Deliveries -> Row]
    BY <2>2
  <2>4. held' \in [Dispatchers -> Hold]
    BY <1>6 DEF Touch
  <2>5. QED
    BY <1>6, <2>3, <2>4 DEF Touch
<1>7. ASSUME NEW h \in Dispatchers, Route(h) PROVE TypeOK'
  BY <1>7 DEF Route
<1>8. ASSUME NEW h \in Dispatchers, Finish(h) PROVE TypeOK'
  BY <1>8 DEF Finish, Handled, LetGo
<1>9. ASSUME NEW h \in Dispatchers, Fail(h) PROVE TypeOK'
  <2>1. Backoff(held[h].attempts) \in Nat
    BY <1>9, BackoffPositive DEF Fail
  <2>2. QED
    BY <1>9, <2>1 DEF Fail, LetGo
<1>10. CASE Purge
  <2>1. \A d \in Deliveries : rows'[d] \in Row
    BY <1>10, PurgeRow
  <2>2. rows' = [d \in Deliveries |-> rows'[d]]
    BY <1>10 DEF Purge
  <2>3. QED
    BY <1>10, <2>1, <2>2 DEF Purge
<1>11. CASE Tick
  BY <1>11 DEF Tick
<1>12. CASE UNCHANGED vars
  BY <1>12 DEF vars
<1>13. QED
  BY <1>1, <1>2, <1>3, <1>4, <1>5, <1>6, <1>7, <1>8, <1>9, <1>10, <1>11, <1>12
  DEF Next, DispatcherStep

\* What an ending says of its row survives every step.
LEMMA NextRow ==
  ASSUME InboxInv, TypeOK', [Next]_vars, NEW d \in Deliveries
  PROVE  RowOk(d)'
<1> USE InboxAssumption DEF InboxInv, TypeOK, Row, Hold, RowOk, NoRow, NoHold, hvars, Claimed, Fenced
<1>1. ASSUME NEW x \in Receivers, Insert(x) PROVE RowOk(d)'
  BY <1>1 DEF Insert
<1>2. ASSUME NEW x \in Receivers, NEW e \in Deliveries, Receive(x, e) PROVE RowOk(d)'
  BY <1>2 DEF Receive
<1>3. ASSUME NEW h \in Dispatchers, ClaimPick(h) PROVE RowOk(d)'
  BY <1>3 DEF ClaimPick
<1>4. ASSUME NEW h \in Dispatchers, ClaimMiss(h) \/ Lost(h) \/ Crash(h) PROVE RowOk(d)'
  BY <1>4 DEF ClaimMiss, Lost, Crash
<1>5. ASSUME NEW h \in Dispatchers, ClaimTake(h) PROVE RowOk(d)'
  BY <1>5 DEF ClaimTake, Claimable, HoldOk
<1>6. ASSUME NEW h \in Dispatchers, Touch(h) PROVE RowOk(d)'
  BY <1>6 DEF Touch, HoldOk
<1>7. ASSUME NEW h \in Dispatchers, Route(h) PROVE RowOk(d)'
  BY <1>7 DEF Route
<1>8. ASSUME NEW h \in Dispatchers, Finish(h) PROVE RowOk(d)'
  BY <1>8 DEF Finish, Handled, HoldOk
<1>9. ASSUME NEW h \in Dispatchers, Fail(h) PROVE RowOk(d)'
  BY <1>9, BackoffPositive DEF Fail, LastAttempt, HoldOk
<1>10. CASE Purge
  <2>1. UNCHANGED <<now, claims, routed>>
    BY <1>10 DEF Purge
  <2>2. RowOk(d) /\ rows[d] \in Row
    OBVIOUS
  <2>3. CASE rows'[d] = rows[d]
    BY <2>1, <2>2, <2>3
  <2>4. CASE /\ Exhausted(d) /\ rows'[d].state = "dead" /\ rows'[d].ended = now
             /\ rows'[d].lease = rows[d].lease /\ rows'[d].attempts = rows[d].attempts
    <3>1. rows[d].attempts = MaxAttempts /\ rows[d].lease <= now
      <4>1. rows[d].attempts \in 0..MaxAttempts
        BY <2>2
      <4>2. rows[d].attempts >= MaxAttempts /\ rows[d].lease <= now
        BY <2>4 DEF Exhausted
      <4>3. MaxAttempts \in Nat
        OBVIOUS
      <4> HIDE DEF InboxInv, TypeOK, Row
      <4>4. QED
        BY <4>1, <4>2, <4>3
    <3>2. claims[d] = MaxAttempts
      BY <2>4, <3>1 DEF Exhausted
    <3>3. now <= now + Lease /\ rows[d].lease <= now + Lease
      BY <3>1
    <3>4. QED
      BY <2>1, <2>4, <3>1, <3>2, <3>3
  <2>5. CASE rows'[d] = NoRow
    BY <2>1, <2>2, <2>5
  <2>6. QED
    BY <1>10, <2>3, <2>4, <2>5, PurgeRow
<1>11. CASE Tick
  BY <1>11 DEF Tick
<1>12. CASE UNCHANGED vars
  BY <1>12 DEF vars
<1>13. QED
  BY <1>1, <1>2, <1>3, <1>4, <1>5, <1>6, <1>7, <1>8, <1>9, <1>10, <1>11, <1>12
  DEF Next, DispatcherStep

\* What a dispatcher remembers stays true of its row.
LEMMA NextHold ==
  ASSUME InboxInv, TypeOK', [Next]_vars, NEW g \in Dispatchers
  PROVE  HoldOk(g)'
<1> USE InboxAssumption DEF InboxInv, TypeOK, Row, Hold, HoldOk, NoRow, NoHold, hvars, Claimed, Fenced
<1>1. ASSUME NEW x \in Receivers, Insert(x) PROVE HoldOk(g)'
  <2>1. /\ UNCHANGED <<now, pc, held>>
        /\ \A d \in Deliveries : \/ rows'[d] = rows[d] /\ (d \in routed => d \in routed')
                                 \/ rows'[d].lease = 0 /\ rows[d].lease = 0
    BY <1>1 DEF Insert, RowOk
  <2>2. QED
    BY <2>1
<1>2. ASSUME NEW x \in Receivers, NEW d \in Deliveries, Receive(x, d) PROVE HoldOk(g)'
  BY <1>2 DEF Receive
<1>3. ASSUME NEW h \in Dispatchers, ClaimPick(h) PROVE HoldOk(g)'
  BY <1>3 DEF ClaimPick
<1>4. ASSUME NEW h \in Dispatchers, ClaimMiss(h) \/ Lost(h) \/ Crash(h) PROVE HoldOk(g)'
  BY <1>4 DEF ClaimMiss, Lost, Crash, LetGo
<1>5. ASSUME NEW h \in Dispatchers, ClaimTake(h) PROVE HoldOk(g)'
  <2>1. PICK d \in Deliveries : d = held[h].id /\ Claimable(d)
    BY <1>5 DEF ClaimTake
  <2>2. /\ rows'[d].lease = now + Lease /\ rows'[d].attempts = rows[d].attempts + 1
        /\ \A e \in Deliveries \ {d} : rows'[e] = rows[e]
        /\ UNCHANGED <<now, routed>>
    BY <1>5, <2>1 DEF ClaimTake
  <2>3. CASE g = h
    <3>1. /\ pc'[h] = "routing" /\ held'[h].id = d /\ held'[h].lease = now + Lease
          /\ held'[h].attempts = rows[d].attempts + 1
      BY <1>5, <2>1 DEF ClaimTake
    <3>2. QED
      BY <2>2, <2>3, <3>1
  <2>4. CASE g # h
    <3>1. pc'[g] = pc[g] /\ held'[g] = held[g]
      BY <1>5, <2>4 DEF ClaimTake
    <3>2. CASE held[g].id = d
      <4>1. Claimed(g) => held[g].lease <= now
        BY <2>1, <3>2 DEF Claimable
      <4>2. Claimed(g) => held[g].lease # rows'[d].lease
        BY <2>2, <4>1
      <4>3. QED
        BY <2>2, <3>1, <3>2, <4>1, <4>2
    <3>3. CASE held[g].id # d
      BY <2>2, <3>1, <3>3
    <3>4. QED
      BY <3>2, <3>3
  <2>5. QED
    BY <2>3, <2>4
<1>6. ASSUME NEW h \in Dispatchers, Touch(h) PROVE HoldOk(g)'
  BY <1>6 DEF Touch, TokenInv
<1>7. ASSUME NEW h \in Dispatchers, Route(h) PROVE HoldOk(g)'
  BY <1>7 DEF Route
<1>8. ASSUME NEW h \in Dispatchers, Finish(h) PROVE HoldOk(g)'
  BY <1>8 DEF Finish, Handled, LetGo
<1>9. ASSUME NEW h \in Dispatchers, Fail(h) PROVE HoldOk(g)'
  BY <1>9, BackoffPositive DEF Fail, LastAttempt, LetGo, TokenInv
<1>10. CASE Purge
  <2>1. UNCHANGED <<now, pc, held, routed>>
    BY <1>10 DEF Purge
  <2>2. \A d \in Deliveries :
          \/ rows'[d] = rows[d]
          \/ rows'[d].state = "dead" /\ rows'[d].lease = rows[d].lease
          \/ rows'[d].state = "absent" /\ rows'[d].lease = 0 /\ rows[d].lease <= now
    BY <1>10, PurgeRow DEF Old, RowOk
  <2>3. QED
    BY <2>1, <2>2
<1>11. CASE Tick
  BY <1>11 DEF Tick
<1>12. CASE UNCHANGED vars
  BY <1>12 DEF vars
<1>13. QED
  BY <1>1, <1>2, <1>3, <1>4, <1>5, <1>6, <1>7, <1>8, <1>9, <1>10, <1>11, <1>12
  DEF Next, DispatcherStep

\* Only a claim and a renewal write a lease, and each writes one nobody remembers.
LEMMA NextToken == ASSUME InboxInv, [Next]_vars PROVE TokenInv'
<1> USE InboxAssumption DEF InboxInv, TypeOK, Row, Hold, TokenInv, NoHold, hvars, Claimed
<1>1. ASSUME NEW x \in Receivers, Insert(x) PROVE TokenInv'
  BY <1>1 DEF Insert
<1>2. ASSUME NEW x \in Receivers, NEW d \in Deliveries, Receive(x, d) PROVE TokenInv'
  BY <1>2 DEF Receive
<1>3. ASSUME NEW h \in Dispatchers, ClaimPick(h) PROVE TokenInv'
  BY <1>3 DEF ClaimPick
<1>4. ASSUME NEW h \in Dispatchers, LetGo(h) PROVE TokenInv'
  BY <1>4 DEF LetGo
<1>5. ASSUME NEW h \in Dispatchers, ClaimTake(h) PROVE TokenInv'
  <2>1. /\ held[h].id \in Deliveries /\ rows[held[h].id].lease <= now
        /\ held'[h].id = held[h].id /\ held'[h].lease = now + Lease
        /\ \A g \in Dispatchers \ {h} : pc'[g] = pc[g] /\ held'[g] = held[g]
    BY <1>5 DEF ClaimTake, Claimable, HoldOk
  <2>2. \A g \in Dispatchers : Claimed(g) /\ held[g].id = held[h].id => held[g].lease <= now
    BY <2>1 DEF HoldOk
  <2>3. QED
    BY <2>1, <2>2
<1>6. ASSUME NEW h \in Dispatchers, Touch(h) PROVE TokenInv'
  BY <1>6 DEF Touch, Fenced, HoldOk
<1>7. ASSUME NEW h \in Dispatchers, Route(h) PROVE TokenInv'
  BY <1>7 DEF Route
<1>8. CASE Purge
  BY <1>8 DEF Purge
<1>9. CASE Tick
  BY <1>9 DEF Tick
<1>10. CASE UNCHANGED vars
  BY <1>10 DEF vars
<1>11. QED
  BY <1>1, <1>2, <1>3, <1>4, <1>5, <1>6, <1>7, <1>8, <1>9, <1>10
  DEF Next, DispatcherStep, ClaimMiss, Lost, Finish, Fail, Crash

\* So the invariant holds of every reachable state.
THEOREM InboxInvariant == Spec => []InboxInv
<1>1. InboxInv /\ [Next]_vars => InboxInv'
  BY NextType, NextRow, NextHold, NextToken DEF InboxInv
<1>2. QED
  BY InitInbox, <1>1, PTL DEF Spec

\* A delivery marked done was routed since it was accepted, whatever crashes, retries and stale
\* dispatchers there were (finishGitHubDelivery's fence).
THEOREM DoneWasRoutedAlways == Spec => []DoneWasRouted
<1>1. InboxInv => DoneWasRouted
  BY DEF InboxInv, RowOk, DoneWasRouted
<1>2. QED
  BY <1>1, InboxInvariant, PTL

\* A delivery is dead-lettered only with its attempts used, and claimed no more often than that
\* (claimGitHubDelivery counts the attempt, failGitHubDelivery and the purge look at it).
THEOREM DeadUsedAttemptsAlways == Spec => []DeadUsedAttempts
<1>1. InboxInv => DeadUsedAttempts
  BY DEF InboxInv, RowOk, DeadUsedAttempts
<1>2. QED
  BY <1>1, InboxInvariant, PTL

\* Done stays done and dead stays dead for as long as the receipt is kept.
THEOREM ReceiptKeptAlways == Spec => ReceiptKept
<1> DEFINE Kept == \A d \in Deliveries :
       rows[d].state \in {"done", "dead"} /\ rows[d].ended + Keep >= now
         => rows'[d].state = rows[d].state
<1>1. InboxInv /\ [Next]_vars => [Kept]_vars
  <2> SUFFICES ASSUME InboxInv, Next, NEW d \in Deliveries,
                      rows[d].state \in {"done", "dead"}, rows[d].ended + Keep >= now
               PROVE  rows'[d].state = rows[d].state
    OBVIOUS
  <2> USE DEF InboxInv, TypeOK, Row, Hold, hvars
  <2>1. ASSUME NEW x \in Receivers, Insert(x) PROVE rows'[d].state = rows[d].state
    BY <2>1 DEF Insert
  <2>2. ASSUME NEW h \in Dispatchers, ClaimTake(h) PROVE rows'[d].state = rows[d].state
    BY <2>2 DEF ClaimTake
  <2>3. ASSUME NEW h \in Dispatchers, Touch(h) PROVE rows'[d].state = rows[d].state
    BY <2>3 DEF Touch
  <2>4. ASSUME NEW h \in Dispatchers, Finish(h) PROVE rows'[d].state = rows[d].state
    BY <2>4 DEF Finish, Fenced
  <2>5. ASSUME NEW h \in Dispatchers, Fail(h) PROVE rows'[d].state = rows[d].state
    BY <2>5 DEF Fail, Fenced
  <2>6. CASE Purge
    <3>1. ~Exhausted(d) /\ ~Old(d)
      BY InboxAssumption DEF Exhausted, Old
    <3>2. QED
      BY <2>6, <3>1 DEF Purge
  <2>7. CASE UNCHANGED rows
    BY <2>7
  <2>8. QED
    BY <2>1, <2>2, <2>3, <2>4, <2>5, <2>6, <2>7
    DEF Next, DispatcherStep, Receive, ClaimPick, ClaimMiss, Lost, Route, Crash, Tick
<1>2. QED
  BY <1>1, InboxInvariant, PTL DEF Spec, ReceiptKept

(* The refinement.  The mapping of a row is its lease, the mapping of a    *)
(* dispatcher the delivery it has claimed and the lease it remembers.      *)
LeaseBar == [d \in Deliveries |-> rows[d].lease]
KeyBar == [h \in Dispatchers |-> IF Claimed(h) THEN held[h].id ELSE NoDelivery]
TokenBar == [h \in Dispatchers |-> held[h].lease]

\* A dispatcher that lets go of a delivery drops its lease or, handing the row back, releases it.
LEMMA LetGoBar ==
  ASSUME InboxInv, NEW h \in Dispatchers, LetGo(h)
  PROVE  /\ KeyBar' = [KeyBar EXCEPT ![h] = NoDelivery]
         /\ TokenBar' = [TokenBar EXCEPT ![h] = 0]
<1>1. \A g \in Dispatchers \ {h} : pc'[g] = pc[g] /\ held'[g] = held[g]
  BY DEF LetGo, InboxInv, TypeOK
<1>2. pc'[h] = "idle" /\ held'[h].lease = 0
  BY DEF LetGo, InboxInv, TypeOK, NoHold
<1>3. \A g \in Dispatchers : KeyBar'[g] = IF g = h THEN NoDelivery ELSE KeyBar[g]
  BY <1>1, <1>2 DEF KeyBar, Claimed
<1>4. \A g \in Dispatchers : TokenBar'[g] = IF g = h THEN 0 ELSE TokenBar[g]
  BY <1>1, <1>2 DEF TokenBar
<1>5. QED
  BY <1>3, <1>4 DEF KeyBar, TokenBar

\* Each step of the inbox is a step of the fence or leaves it as it is.
LEMMA StepFence == ASSUME InboxInv, [Next]_vars PROVE [Fence!Next]_Fence!fenceVars
<1> DEFINE Same == UNCHANGED <<now, LeaseBar, KeyBar, TokenBar>>
<1>0. Same => UNCHANGED Fence!fenceVars
  BY DEF Fence!fenceVars, LeaseBar, KeyBar, TokenBar
<1> USE InboxAssumption DEF InboxInv, TypeOK, Row, Hold, HoldOk, hvars
<1>1. ASSUME NEW x \in Receivers, Insert(x) PROVE Same
  <2>1. \A d \in Deliveries : rows'[d].lease = rows[d].lease
    BY <1>1 DEF Insert
  <2>2. QED
    BY <1>1, <2>1 DEF Insert, LeaseBar, KeyBar, TokenBar, Claimed
<1>2. ASSUME NEW x \in Receivers, NEW d \in Deliveries, Receive(x, d) PROVE Same
  BY <1>2 DEF Receive, LeaseBar, KeyBar, TokenBar, Claimed
<1>3. ASSUME NEW h \in Dispatchers, ClaimPick(h) PROVE Same
  <2>1. \A g \in Dispatchers : held'[g].lease = held[g].lease /\ Claimed(g)' = Claimed(g)
                              /\ (Claimed(g) => held'[g].id = held[g].id)
    BY <1>3 DEF ClaimPick, Claimed
  <2>2. QED
    BY <1>3, <2>1 DEF ClaimPick, LeaseBar, KeyBar, TokenBar
<1>4. ASSUME NEW h \in Dispatchers, ClaimMiss(h) PROVE Same
  <2>1. KeyBar[h] = NoDelivery /\ TokenBar[h] = 0
    BY <1>4 DEF ClaimMiss, KeyBar, TokenBar, Claimed
  <2>2. KeyBar' = [KeyBar EXCEPT ![h] = NoDelivery] /\ TokenBar' = [TokenBar EXCEPT ![h] = 0]
    BY <1>4, LetGoBar DEF ClaimMiss
  <2>3. KeyBar' = KeyBar /\ TokenBar' = TokenBar
    <3>1. KeyBar = [g \in Dispatchers |-> KeyBar[g]] /\ TokenBar = [g \in Dispatchers |-> TokenBar[g]]
      BY DEF KeyBar, TokenBar
    <3>2. QED
      BY <2>1, <2>2, <3>1
  <2>4. QED
    BY <1>4, <2>3 DEF ClaimMiss, LeaseBar
<1>5. ASSUME NEW h \in Dispatchers, ClaimTake(h) PROVE Fence!Next
  <2>1. PICK d \in Deliveries : d = held[h].id /\ Claimable(d)
    BY <1>5 DEF ClaimTake
  <2>2. KeyBar[h] = NoDelivery /\ LeaseBar[d] <= now
    BY <1>5, <2>1 DEF ClaimTake, Claimable, KeyBar, LeaseBar, Claimed
  <2>3. LeaseBar' = [LeaseBar EXCEPT ![d] = now + Lease]
    <3>1. \A e \in Deliveries : rows'[e].lease = IF e = d THEN now + Lease ELSE rows[e].lease
      BY <1>5, <2>1 DEF ClaimTake
    <3>2. QED
      BY <3>1 DEF LeaseBar
  <2>4. KeyBar' = [KeyBar EXCEPT ![h] = d]
    <3>1. \A g \in Dispatchers : KeyBar'[g] = IF g = h THEN d ELSE KeyBar[g]
      BY <1>5, <2>1 DEF ClaimTake, KeyBar, Claimed
    <3>2. QED
      BY <3>1 DEF KeyBar
  <2>5. TokenBar' = [TokenBar EXCEPT ![h] = now + Lease]
    BY <1>5, <2>1 DEF ClaimTake, TokenBar
  <2>6. Fence!Take(h, d)
    BY <1>5, <2>2, <2>3, <2>4, <2>5 DEF Fence!Take, ClaimTake, LeaseBar, KeyBar, TokenBar
  <2>7. QED
    BY <2>6 DEF Fence!Next
<1>6. ASSUME NEW h \in Dispatchers, Touch(h) PROVE Fence!Next
  <2>1. PICK d \in Deliveries : d = held[h].id /\ rows[d].lease = held[h].lease
    BY <1>6 DEF Touch, Fenced
  <2>2. KeyBar[h] = d /\ LeaseBar[d] = TokenBar[h] /\ d # NoDelivery
    BY <1>6, <2>1 DEF Touch, KeyBar, LeaseBar, TokenBar, Claimed
  <2>3. LeaseBar' = [LeaseBar EXCEPT ![d] = now + Lease]
    <3>1. \A e \in Deliveries : rows'[e].lease = IF e = d THEN now + Lease ELSE rows[e].lease
      BY <1>6, <2>1 DEF Touch
    <3>2. QED
      BY <3>1 DEF LeaseBar
  <2>4. KeyBar' = KeyBar
    BY <1>6 DEF Touch, KeyBar, Claimed
  <2>5. TokenBar' = [TokenBar EXCEPT ![h] = now + Lease]
    BY <1>6 DEF Touch, TokenBar
  <2>6. Fence!Renew(h)
    BY <1>6, <2>2, <2>3, <2>4, <2>5
    DEF Fence!Renew, Fence!Passes, Touch, LeaseBar, KeyBar, TokenBar
  <2>7. QED
    BY <2>6 DEF Fence!Next
<1>7. ASSUME NEW h \in Dispatchers, Claimed(h), LetGo(h), LeaseBar' = LeaseBar, now' = now
      PROVE Fence!Next
  <2>1. KeyBar[h] # NoDelivery
    BY <1>7 DEF KeyBar, Claimed
  <2>2. Fence!Drop(h)
    BY <1>7, <2>1, LetGoBar DEF Fence!Drop, LeaseBar, KeyBar, TokenBar
  <2>3. QED
    BY <2>2 DEF Fence!Next
<1>8. ASSUME NEW h \in Dispatchers, Lost(h) \/ Crash(h) PROVE Fence!Next
  BY <1>7, <1>8 DEF Lost, Crash, LeaseBar
<1>9. ASSUME NEW h \in Dispatchers, Route(h) PROVE Same
  BY <1>9 DEF Route, LeaseBar, KeyBar, TokenBar, Claimed
<1>10. ASSUME NEW h \in Dispatchers, Finish(h) PROVE Fence!Next
  <2>1. \A d \in Deliveries : rows'[d].lease = rows[d].lease
    BY <1>10 DEF Finish
  <2>2. QED
    BY <1>7, <1>10, <2>1 DEF Finish, Handled, Claimed, LeaseBar
<1>11. ASSUME NEW h \in Dispatchers, Fail(h) PROVE Fence!Next
  <2>1. CASE LastAttempt(held[h].attempts)
    <3>1. \A d \in Deliveries : rows'[d].lease = rows[d].lease
      BY <1>11, <2>1 DEF Fail
    <3>2. QED
      BY <1>7, <1>11, <3>1 DEF Fail, Claimed, LeaseBar
  <2>2. CASE ~LastAttempt(held[h].attempts)
    <3> DEFINE n == held[h].attempts
    <3>1. n \in 1..MaxAttempts /\ Claimed(h)
      BY <1>11 DEF Fail, Claimed
    <3>2. Backoff(n) \in Nat
      BY <3>1, BackoffPositive
    <3>3. PICK d \in Deliveries : d = held[h].id /\ rows[d].lease = held[h].lease
      BY <1>11 DEF Fail, Fenced, Claimed
    <3>4. KeyBar[h] = d /\ LeaseBar[d] = TokenBar[h] /\ d # NoDelivery
      BY <3>1, <3>3 DEF KeyBar, LeaseBar, TokenBar
    <3>5. PICK v \in {0} \cup {now + w : w \in {Backoff(m) : m \in 1..MaxAttempts}} :
            v = now + Backoff(n)
      BY <3>1
    <3>6. LeaseBar' = [LeaseBar EXCEPT ![d] = v]
      <4>1. \A e \in Deliveries : rows'[e].lease = IF e = d THEN v ELSE rows[e].lease
        BY <1>11, <2>2, <3>2, <3>3, <3>5 DEF Fail
      <4>2. QED
        BY <4>1 DEF LeaseBar
    <3>7. Fence!Release(h, v)
      BY <1>11, <3>4, <3>6, LetGoBar
      DEF Fence!Release, Fence!Passes, Fail, LeaseBar, KeyBar, TokenBar
    <3>8. QED
      BY <3>5, <3>7 DEF Fence!Next
  <2>3. QED
    BY <2>1, <2>2
<1>12. CASE Purge
  <2>1. PICK K \in SUBSET Deliveries : \A d \in Deliveries : d \in K <=> ~Exhausted(d) /\ Old(d)
    <3>1. {d \in Deliveries : ~Exhausted(d) /\ Old(d)} \in SUBSET Deliveries
      OBVIOUS
    <3>2. QED
      BY <3>1
  <2>2. \A d \in K : LeaseBar[d] <= now
    BY <2>1 DEF Old, RowOk, LeaseBar
  <2>3. \A d \in Deliveries : rows'[d].lease = IF d \in K THEN 0 ELSE rows[d].lease
    BY <1>12, <2>1, PurgeRow DEF NoRow
  <2>4. LeaseBar' = [d \in Deliveries |-> IF d \in K THEN 0 ELSE LeaseBar[d]]
    BY <2>3 DEF LeaseBar
  <2>5. UNCHANGED <<now, KeyBar, TokenBar>>
    BY <1>12 DEF Purge, KeyBar, TokenBar, Claimed
  <2>6. Fence!Forget(K)
    BY <2>2, <2>4, <2>5 DEF Fence!Forget, LeaseBar, KeyBar, TokenBar
  <2>7. QED
    BY <2>6 DEF Fence!Next
<1>13. CASE Tick
  <2>1. now' = now + 1 /\ UNCHANGED <<LeaseBar, KeyBar, TokenBar>>
    BY <1>13 DEF Tick, LeaseBar, KeyBar, TokenBar, Claimed
  <2>2. Fence!Tick
    BY <2>1 DEF Fence!Tick, LeaseBar, KeyBar, TokenBar
  <2>3. QED
    BY <2>2 DEF Fence!Next
<1>14. CASE UNCHANGED vars
  BY <1>0, <1>14 DEF vars, LeaseBar, KeyBar, TokenBar, Claimed
<1>15. QED
  BY <1>0, <1>1, <1>2, <1>3, <1>4, <1>5, <1>6, <1>8, <1>9, <1>10, <1>11, <1>12, <1>13, <1>14
  DEF Next, DispatcherStep

\* The deliveries' lease is a fence: GitHubInbox implements LeaseFence, so what is proved of the
\* fence holds of claimGitHubDelivery, touchGitHubDelivery, finish and fail.
THEOREM InboxImplementsFence == Spec => FenceSpec
<1>1. Init => Fence!Init
  BY DEF Init, Fence!Init, NoRow, NoHold, Claimed
<1>2. QED
  BY <1>1, StepFence, InboxInvariant, PTL DEF Spec, FenceSpec, Fence!Spec

\* What the fence promises of the deliveries: of the dispatchers that claimed one and have not let
\* go of it at most one matches the row in its WHERE clause, and one whose lease is live does.
THEOREM InboxFenced == Spec => []Fence!OneWriterPerKey
<1>1. InboxInv => Fence!OneWriterPerKey
  <2> SUFFICES ASSUME InboxInv PROVE Fence!OneWriterPerKey
    OBVIOUS
  <2>1. /\ now \in Nat /\ held \in [Dispatchers -> Hold]
        /\ \A h \in Dispatchers : Claimed(h) => held[h].id \in Deliveries /\ held[h].lease \in Nat
    BY DEF InboxInv, TypeOK, HoldOk, Claimed, Hold
  <2>2. NoDelivery \notin Deliveries
    BY InboxAssumption
  <2>3. QED
    BY <2>1, <2>2 DEF InboxInv, HoldOk, TokenInv, Fence!OneWriterPerKey, Fence!Passes
<1>2. QED
  BY <1>1, InboxInvariant, PTL
=============================================================================
