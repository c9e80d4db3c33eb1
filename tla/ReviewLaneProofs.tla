------------------------- MODULE ReviewLaneProofs ---------------------------
(***************************************************************************)
(* Proofs about the code review lane.  LaneInv is inductive.  The steps of *)
(* a lane are first sorted by what they do to the rows others read: it     *)
(* leaves without a write, lets go of its run, renews, claims, stores or   *)
(* moves on.  A lane that does not move is then shown to keep what it      *)
(* relies on (Kept), whoever does.                                         *)
(***************************************************************************)
EXTENDS ReviewLane, FiniteSetTheorems, TLAPS

\* Blank records are of their types.
LEMMA BlankTypes == NoRun \in RunRow /\ NoHold \in Hold /\ Blank \in Memory
<1> USE LaneAssumption
<1>1. 1 \in Heads
  BY DEF Heads
<1>2. NoKey \in Keys
  BY <1>1 DEF NoKey, Keys, Triggers
<1>3. NoRun \in RunRow
  BY <1>1, <1>2 DEF NoRun, RunRow
<1>4. NoHold \in Hold /\ Blank \in Memory
  BY DEF NoHold, Hold, Blank, Memory
<1>5. QED
  BY <1>3, <1>4

\* No pull request, no run: the invariant holds at first.
LEMMA InitLane == Init => LaneInv
<1> SUFFICES ASSUME Init PROVE LaneInv
  OBVIOUS
<1> USE LaneAssumption
<1>1. 1 \in Heads
  BY DEF Heads
<1>2. runs \in [Runs -> RunRow] /\ hold \in [Lanes -> Hold] /\ mine \in [Lanes -> Memory]
  BY BlankTypes DEF Init
<1>3. prs \in [PRs -> PRRow]
  BY DEF Init, PRRow
<1>4. hub \in [PRs -> OnHub]
  BY <1>1 DEF Init, OnHub
<1>5. deliveries \subseteq Delivery
  BY <1>1 DEF Init, Delivery, Actions
<1>6. TypeOK
  BY <1>2, <1>3, <1>4, <1>5, BlankTypes DEF Init, TypeOK
<1>7. ASSUME NEW r \in Runs PROVE RowOk(r)
  BY DEF Init, RowOk, NoRun
<1>8. ASSUME NEW l \in Lanes PROVE LaneOk(l)
  BY DEF Init, LaneOk, HoldOk, CheckpointOk, PostOk, SummaryOk, Working
<1>9. OneHolder /\ SummaryRead
  BY DEF Init, OneHolder, SummaryRead, Working
<1>10. QED
  BY <1>6, <1>7, <1>8, <1>9 DEF LaneInv

-----------------------------------------------------------------------------
\* A lane leaves its run as it is: it found the lease gone, or died.
Leaves(l) ==
  /\ Free(l) /\ faults' \in 0..MaxFaults
  /\ UNCHANGED <<now, rowVars, hub, posted, stored, deliveries, routes>>

\* A lane hands its run on, ended or queued again (status s), and with it the pull request if that
\* is still its own: under its lease, or in a claim that comes second.
LetsGo(l, s) ==
  LET r == hold[l].run p == hold[l].pr IN
  /\ (pc[l] \in Working /\ Fenced(l)) \/ (pc[l] = "picked" /\ Takeable(r))
  /\ s \in Ends \cup {"queued"}
  /\ \E row \in RunRow :
       /\ runs' = [runs EXCEPT ![r] = row]
       /\ row.status = s /\ row.lease = 0
       /\ row.pr = runs[r].pr /\ row.key = runs[r].key /\ row.ckpt = runs[r].ckpt
  /\ \/ prLease' = prLease
     \/ pc[l] \in Working /\ HeldPR(l) /\ prLease' = [prLease EXCEPT ![p] = 0]
  /\ pc[l] \in Working => prLease'[p] # hold[l].lease
  /\ s = "superseded" => pc[l] = "aside"
  /\ s \notin {"posted", "shadow"} => prs' = prs
  /\ s \in {"posted", "shadow"} =>
       /\ FencedPR(l) /\ pc[l] \in Working /\ (s = "posted" => pc[l] = "finish")
       /\ prs' = [prs EXCEPT ![p].last = mine[l].head, ![p].reviews = @ + 1]
  /\ Free(l) /\ faults' \in 0..MaxFaults
  /\ UNCHANGED <<now, hub, posted, stored, deliveries, routes>>

\* A fault, or none.
LEMMA Faulty == ASSUME TypeOK, Fault \/ NoFault PROVE faults' \in 0..MaxFaults
BY LaneAssumption DEF TypeOK, Fault, NoFault

\* What is known of a lane at work.
LEMMA AtWork ==
  ASSUME LaneInv, NEW l \in Lanes, pc[l] \in Working
  PROVE  /\ hold[l].run \in Runs /\ hold[l].pr \in PRs /\ runs[hold[l].run].pr = hold[l].pr
         /\ runs[hold[l].run] \in RunRow /\ RowOk(hold[l].run)
         /\ hold[l] \in Hold /\ hold[l].lease \in Nat /\ hold[l].lease > 0
         /\ mine[l] \in Memory /\ mine[l].head \in Heads
         /\ hold[l].lease > now => FencedPR(l)
         /\ now \in Nat
<1>1. TypeOK /\ HoldOk(l) /\ \A r \in Runs : RowOk(r)
  BY DEF LaneInv, LaneOk
<1>2. hold[l] \in Hold /\ mine[l] \in Memory
  BY <1>1 DEF TypeOK
<1>3. hold[l].run \in Runs /\ hold[l].pr \in PRs /\ runs[hold[l].run].pr = hold[l].pr
      /\ hold[l].lease > 0 /\ mine[l].head > 0 /\ (hold[l].lease > now => FencedPR(l))
  BY <1>1 DEF HoldOk
<1>4. hold[l].lease \in Nat /\ mine[l].head \in Heads
  BY <1>2, <1>3, LaneAssumption DEF Hold, Memory, Heads
<1>5. QED
  BY <1>1, <1>2, <1>3, <1>4 DEF TypeOK

\* releaseReviewPRLease: the pull request is let go of by the lane that holds it, and is not its
\* own afterwards.
LEMMA ReleaseShape ==
  ASSUME LaneInv, NEW l \in Lanes, pc[l] \in Working, Release(l)
  PROVE  /\ \/ prLease' = prLease
            \/ HeldPR(l) /\ prLease' = [prLease EXCEPT ![hold[l].pr] = 0]
         /\ prLease'[hold[l].pr] # hold[l].lease /\ Free(l)
<1>0. prLease \in [PRs -> Nat] /\ hold[l].pr \in PRs /\ hold[l].lease \in Nat /\ hold[l].lease > 0
  BY AtWork DEF LaneInv, TypeOK
<1>1. CASE HeldPR(l)
  <2>1. prLease' = [prLease EXCEPT ![hold[l].pr] = 0] /\ Free(l)
    BY <1>0, <1>1 DEF Release, HeldPR
  <2>2. prLease'[hold[l].pr] = 0
    BY <1>0, <2>1
  <2>3. QED
    BY <1>0, <1>1, <2>1, <2>2
<1>2. CASE ~HeldPR(l)
  <2>1. prLease' = prLease /\ Free(l)
    BY <1>0, <1>2 DEF Release, HeldPR
  <2>2. QED
    BY <1>2, <2>1 DEF HeldPR
<1>3. QED
  BY <1>1, <1>2

\* endReviewRun with nothing reviewed.
LEMMA EndShape ==
  ASSUME LaneInv, NEW l \in Lanes, pc[l] \in Working, NEW s \in Ends \ {"posted", "shadow"},
         s = "superseded" => pc[l] = "aside", End(l, s), faults' \in 0..MaxFaults
  PROVE  Leaves(l) \/ LetsGo(l, s)
<1> DEFINE r == hold[l].run
           p == hold[l].pr
           row == [runs[r] EXCEPT !.status = s, !.lease = 0, !.head = mine[l].head,
                     !.findings = IF s \in Dead /\ ~mine[l].github /\ @ = "open"
                                  THEN "outdated" ELSE @]
<1>0. TypeOK /\ s \notin {"posted", "shadow"}
  BY DEF LaneInv
<1>1. CASE ~Fenced(l)
  BY <1>1 DEF End, Leaves, rowVars, hubVars, wordVars
<1>2. CASE Fenced(l)
  <2>1. runs' = [runs EXCEPT ![r] = row] /\ Release(l) /\ UNCHANGED <<now, prs, hub, posted, stored, deliveries, routes>>
    BY <1>2, AtWork DEF End, hubVars, wordVars
  <2>2. /\ row \in RunRow /\ row.status = s /\ row.lease = 0
        /\ row.pr = runs[r].pr /\ row.key = runs[r].key /\ row.ckpt = runs[r].ckpt
    BY AtWork DEF RunRow
  <2> HIDE DEF row
  <2>3. /\ \/ prLease' = prLease
           \/ HeldPR(l) /\ prLease' = [prLease EXCEPT ![p] = 0]
        /\ prLease'[p] # hold[l].lease /\ Free(l)
    BY <2>1, ReleaseShape
  <2>4. LetsGo(l, s)
    BY <1>0, <1>2, <2>1, <2>2, <2>3 DEF LetsGo
  <2>5. QED
    BY <2>4
<1>3. QED
  BY <1>1, <1>2

\* requeueReview.
LEMMA RequeueShape ==
  ASSUME LaneInv, NEW l \in Lanes, pc[l] \in Working, NEW notBefore \in Nat, NEW spend \in BOOLEAN,
         Requeue(l, notBefore, spend), faults' \in 0..MaxFaults
  PROVE  Leaves(l) \/ LetsGo(l, "queued")
<1> DEFINE r == hold[l].run
           p == hold[l].pr
           row == [runs[r] EXCEPT !.status = "queued", !.lease = 0, !.notBefore = notBefore,
                     !.attempts = IF spend THEN @ ELSE @ - 1]
<1>0. TypeOK /\ "queued" \in Ends \cup {"queued"} /\ "queued" \notin {"posted", "shadow", "superseded"}
  BY DEF LaneInv
<1>1. CASE ~Fenced(l)
  BY <1>1 DEF Requeue, Leaves, rowVars, hubVars, wordVars
<1>2. CASE Fenced(l)
  <2>1. runs' = [runs EXCEPT ![r] = row] /\ Release(l) /\ UNCHANGED <<now, prs, hub, posted, stored, deliveries, routes>>
    BY <1>2, AtWork DEF Requeue, hubVars, wordVars
  <2>2. runs[r].attempts \in 0..MaxAttempts /\ runs[r].attempts > 0
    BY <1>2, AtWork DEF RowOk, Fenced, RunRow
  <2>3. (IF spend THEN runs[r].attempts ELSE runs[r].attempts - 1) \in 0..MaxAttempts
    BY <2>2, LaneAssumption
  <2>4. /\ row \in RunRow /\ row.status = "queued" /\ row.lease = 0
        /\ row.pr = runs[r].pr /\ row.key = runs[r].key /\ row.ckpt = runs[r].ckpt
    BY <2>3, AtWork DEF RunRow, Unended
  <2> HIDE DEF row
  <2>5. /\ \/ prLease' = prLease
           \/ HeldPR(l) /\ prLease' = [prLease EXCEPT ![p] = 0]
        /\ prLease'[p] # hold[l].lease /\ Free(l)
    BY <2>1, ReleaseShape
  <2>6. LetsGo(l, "queued")
    BY <1>0, <1>2, <2>1, <2>4, <2>5 DEF LetsGo
  <2>7. QED
    BY <2>6
<1>3. QED
  BY <1>1, <1>2

\* finishReviewRun with a review.
LEMMA FinishShape ==
  ASSUME LaneInv, NEW l \in Lanes, pc[l] \in Working, NEW s \in {"posted", "shadow"},
         s = "posted" => pc[l] = "finish", Finish(l, s)
  PROVE  Leaves(l) \/ LetsGo(l, s)
<1> DEFINE r == hold[l].run
           p == hold[l].pr
           row == [runs[r] EXCEPT !.status = s, !.lease = 0, !.head = mine[l].head]
<1>0. TypeOK /\ s \in Ends /\ s # "superseded" /\ faults \in 0..MaxFaults
  BY DEF LaneInv, TypeOK, Ends
<1>1. CASE ~FencedPR(l)
  BY <1>0, <1>1 DEF Finish, Leaves, rowVars, hubVars, givenVars, wordVars
<1>2. CASE FencedPR(l)
  <2>1. /\ runs' = [runs EXCEPT ![r] = row] /\ Release(l) /\ Fenced(l)
        /\ prs' = [prs EXCEPT ![p].last = mine[l].head, ![p].reviews = @ + 1]
        /\ UNCHANGED <<now, hub, posted, stored, deliveries, routes, faults>>
    BY <1>2, AtWork DEF Finish, FencedPR, hubVars, givenVars, wordVars
  <2>2. /\ row \in RunRow /\ row.status = s /\ row.lease = 0
        /\ row.pr = runs[r].pr /\ row.key = runs[r].key /\ row.ckpt = runs[r].ckpt
    BY <1>0, AtWork DEF RunRow
  <2> HIDE DEF row
  <2>3. /\ \/ prLease' = prLease
           \/ HeldPR(l) /\ prLease' = [prLease EXCEPT ![p] = 0]
        /\ prLease'[p] # hold[l].lease /\ Free(l)
    BY <2>1, ReleaseShape
  <2>4. LetsGo(l, s)
    BY <1>0, <1>2, <2>1, <2>2, <2>3 DEF LetsGo
  <2>5. QED
    BY <2>4
<1>3. QED
  BY <1>1, <1>2

\* A claim that comes second.
LEMMA DeferShape ==
  ASSUME LaneInv, NEW l \in Lanes, ClaimDefer(l)
  PROVE  LetsGo(l, "queued")
<1> DEFINE r == hold[l].run
           row == [runs[r] EXCEPT !.status = "queued", !.lease = 0, !.notBefore = now + Backoff]
<1>0. TypeOK /\ HoldOk(l) /\ "queued" \in Ends \cup {"queued"} /\ "queued" \notin {"posted", "shadow", "superseded"}
  BY DEF LaneInv, LaneOk
<1>1. /\ pc[l] = "picked" /\ pc[l] \notin Working /\ Takeable(r) /\ r \in Runs /\ runs[r] \in RunRow
      /\ now + Backoff \in Nat /\ faults \in 0..MaxFaults
  BY <1>0, LaneAssumption DEF ClaimDefer, HoldOk, TypeOK, Working
<1>2. /\ runs' = [runs EXCEPT ![r] = row] /\ Free(l) /\ prLease' = prLease /\ prs' = prs
      /\ UNCHANGED <<now, hub, posted, stored, deliveries, routes, faults>>
  BY <1>1 DEF ClaimDefer, hubVars, givenVars, wordVars
<1>3. /\ row \in RunRow /\ row.status = "queued" /\ row.lease = 0
      /\ row.pr = runs[r].pr /\ row.key = runs[r].key /\ row.ckpt = runs[r].ckpt
  BY <1>1 DEF RunRow, Unended
<1> HIDE DEF row
<1>4. QED
  BY <1>0, <1>1, <1>2, <1>3 DEF LetsGo

\* The plain review is given up.
Gives(l) ==
  /\ pc[l] \in {"touch", "look", "post", "unheard"} /\ ~mine[l].inline /\ Goto(l, "finish")
  /\ UNCHANGED <<now, rowVars, hold, mine, hubVars, stored, givenVars>>

\* A lane goes on with its run, and the rows stay as they are but for the summary's id.
Moves(l) ==
  \/ GateSuperseded(l) \/ GatePassed(l) \/ PublishSuperseded(l) \/ PublishGo(l) \/ Gives(l) \/ Adopt(l) \/ Post(l)
  \/ PostRefused(l) \/ SummaryFind(l) \/ SummaryEdit(l) \/ SummaryGone(l) \/ SummaryCreate(l) \/ SummarySet(l)

\* A lane writes to its run under both leases: the checkpoint, or the review's id.
Stores(l) == FencedPR(l) /\ (Save(l) \/ Record(l))

Renews(l) == Touch(l) \/ PostTouch(l) \/ SummaryTouch(l)

Hands(l) == Leaves(l) \/ (\E s \in Ends \cup {"queued"} : LetsGo(l, s))

\* All that a lane may do.
LaneActs(l) ==
  LaneStep(l) \/ Touch(l) \/ InterruptedShutdown(l) \/ Crash(l)

\* A wait.
LEMMA WaitShape ==
  ASSUME LaneInv, NEW l \in Lanes, pc[l] \in Working, Wait(l)
  PROVE  Hands(l)
<1>1. TypeOK /\ now + Backoff \in Nat
  BY LaneAssumption DEF LaneInv, TypeOK
<1>2. Requeue(l, now + Backoff, FALSE) /\ faults' \in 0..MaxFaults
  BY <1>1, Faulty DEF Wait
<1>3. QED
  BY <1>1, <1>2, RequeueShape DEF Hands

\* An ending with nothing reviewed hands the run on.
LEMMA EndHands ==
  ASSUME LaneInv, NEW l \in Lanes, pc[l] \in Working, NEW s \in {"noop", "skipped", "failed", "cancelled"},
         End(l, s), NoFault
  PROVE  Hands(l)
<1>1. s \in Ends \ {"posted", "shadow"} /\ s # "superseded"
  BY DEF Ends
<1>2. TypeOK
  BY DEF LaneInv
<1>3. QED
  BY <1>1, <1>2, EndShape, Faulty DEF Hands

\* So does a failure that is tried again while attempts last.
LEMMA RetryShape ==
  ASSUME LaneInv, NEW l \in Lanes, pc[l] \in Working, RetryOrFail(l)
  PROVE  Hands(l)
<1>1. TypeOK /\ now + Backoff \in Nat
  BY LaneAssumption DEF LaneInv, TypeOK
<1>2. faults' \in 0..MaxFaults /\ NoFault
  BY <1>1, Faulty DEF RetryOrFail
<1>3. CASE Requeue(l, now + Backoff, TRUE)
  BY <1>1, <1>2, <1>3, RequeueShape DEF Hands
<1>4. CASE End(l, "failed")
  BY <1>2, <1>4, EndHands
<1>5. QED
  BY <1>3, <1>4 DEF RetryOrFail

\* And any other failure.
LEMMA ErrorShape ==
  ASSUME LaneInv, NEW l \in Lanes, pc[l] \in Working, RunError(l) \/ PostFailed(l)
  PROVE  Hands(l)
BY WaitShape, RetryShape, EndHands DEF RunError, PostFailed

\* A lane's step is one of these.
LEMMA LaneShapes ==
  ASSUME LaneInv, NEW l \in Lanes, LaneActs(l)
  PROVE  Hands(l) \/ Renews(l) \/ ClaimPick(l) \/ ClaimTake(l) \/ Stores(l) \/ Moves(l)
<1>0. TypeOK /\ faults \in 0..MaxFaults
  BY DEF LaneInv, TypeOK
<1>1. CASE ClaimMiss(l) \/ InterruptedLost(l)
  <2>1. Leaves(l)
    BY <1>0, <1>1 DEF ClaimMiss, InterruptedLost, Leaves, hubVars, givenVars, wordVars
  <2>2. QED
    BY <2>1 DEF Hands
<1>2. CASE ClaimDefer(l)
  <2>1. LetsGo(l, "queued")
    BY <1>2, DeferShape
  <2>2. QED
    BY <2>1 DEF Hands
<1>3. CASE Crash(l)
  <2>1. faults' \in 0..MaxFaults
    BY <1>0, <1>3, Faulty DEF Crash
  <2>2. Leaves(l)
    BY <1>3, <2>1 DEF Crash, Leaves, hubVars, wordVars
  <2>3. QED
    BY <2>2 DEF Hands
<1>4. CASE InterruptedCancel(l)
  <2>1. pc[l] \in Working /\ End(l, "cancelled") /\ NoFault
    BY <1>4 DEF InterruptedCancel
  <2>2. QED
    BY <2>1, EndHands
<1>5. CASE InterruptedShutdown(l)
  <2>1. pc[l] \in Working /\ Requeue(l, now, FALSE) /\ Fault /\ now \in Nat
    BY <1>0, <1>5 DEF InterruptedShutdown, TypeOK
  <2>2. faults' \in 0..MaxFaults
    BY <1>0, <2>1, Faulty
  <2>3. QED
    BY <2>1, <2>2, RequeueShape DEF Hands
<1>6. CASE GateClosed(l) \/ GateSkipped(l) \/ EngineCached(l) \/ EngineNothing(l) \/ PublishClosed(l)
  <2>1. pc[l] \in Working
    BY <1>6 DEF GateClosed, GateSkipped, EngineCached, EngineNothing, PublishClosed, Working
  <2>2. NoFault /\ (End(l, "cancelled") \/ End(l, "skipped") \/ End(l, "noop"))
    BY <1>6 DEF GateClosed, GateSkipped, EngineCached, EngineNothing, PublishClosed
  <2>3. QED
    BY <2>1, <2>2, EndHands
<1>7. CASE GateFailed(l) \/ EngineFailed(l) \/ PublishFailed(l) \/ SummaryFailed(l)
  <2>1. pc[l] \in Working
    BY <1>7 DEF GateFailed, EngineFailed, PublishFailed, SummaryFailed, Working
  <2>2. RunError(l) \/ PostFailed(l) \/ RetryOrFail(l)
    BY <1>7 DEF GateFailed, EngineFailed, PublishFailed, SummaryFailed
  <2>3. QED
    BY <2>1, <2>2, ErrorShape, RetryShape
<1>8. CASE Aside(l)
  <2>1. pc[l] \in Working /\ End(l, "superseded") /\ NoFault /\ pc[l] = "aside"
    BY <1>8 DEF Aside, Working
  <2>2. "superseded" \in Ends \ {"posted", "shadow"} /\ faults' \in 0..MaxFaults
    BY <1>0, <2>1, Faulty DEF Ends
  <2>3. QED
    BY <2>1, <2>2, EndShape DEF Hands
<1>9. CASE PostStepFailed(l)
  <2>1. pc[l] \in Working
    BY <1>9 DEF PostStepFailed, Working
  <2>2. PostFailed(l) \/ Wait(l) \/ Gives(l)
    BY <1>9 DEF PostStepFailed, Gives
  <2>3. QED
    BY <2>1, <2>2, ErrorShape, WaitShape DEF Moves
<1>10. CASE PublishShadow(l) \/ FinishPosted(l)
  <2>1. pc[l] \in Working
    BY <1>10 DEF PublishShadow, FinishPosted, Working
  <2>2. Finish(l, "shadow") \/ (Finish(l, "posted") /\ pc[l] = "finish")
    BY <1>10 DEF PublishShadow, FinishPosted
  <2>3. {"posted", "shadow"} \subseteq Ends
    BY DEF Ends
  <2>4. QED
    BY <2>1, <2>2, <2>3, FinishShape DEF Hands
<1>11. CASE Save(l) \/ Record(l)
  <2>1. CASE FencedPR(l)
    BY <1>11, <2>1 DEF Stores
  <2>2. CASE ~FencedPR(l)
    <3>1. Leaves(l)
      BY <1>0, <1>11, <2>2 DEF Save, Record, Leaves, rowVars, hubVars, givenVars, wordVars
    <3>2. QED
      BY <3>1 DEF Hands
  <2>3. QED
    BY <2>1, <2>2
<1>12. CASE ClaimPick(l) \/ ClaimTake(l) \/ Touch(l) \/ PostTouch(l) \/ SummaryTouch(l) \/ Moves(l)
  BY <1>12 DEF Renews
<1>13. QED
  BY <1>1, <1>2, <1>3, <1>4, <1>5, <1>6, <1>7, <1>8, <1>9, <1>10, <1>11, <1>12
  DEF LaneActs, LaneStep, Moves

-----------------------------------------------------------------------------
\* A lane that is free again is well typed.
LEMMA FreeType ==
  ASSUME TypeOK, NEW l \in Lanes, Free(l)
  PROVE  /\ pc' \in [Lanes -> {"idle", "picked"} \cup Working]
         /\ hold' \in [Lanes -> Hold] /\ mine' \in [Lanes -> Memory]
BY BlankTypes DEF TypeOK, Free

\* A lane that hands its run on keeps the types.
LEMMA HandsType ==
  ASSUME LaneInv, NEW l \in Lanes, Hands(l)
  PROVE  TypeOK'
<1>0. TypeOK
  BY DEF LaneInv
<1>1. CASE Leaves(l)
  BY <1>0, <1>1, FreeType DEF Leaves, rowVars, TypeOK
<1>2. ASSUME NEW s \in Ends \cup {"queued"}, LetsGo(l, s) PROVE TypeOK'
  <2>1. PICK row \in RunRow : runs' = [runs EXCEPT ![hold[l].run] = row]
    BY <1>2 DEF LetsGo
  <2>2. runs' \in [Runs -> RunRow]
    BY <1>0, <2>1 DEF TypeOK
  <2>3. prLease' \in [PRs -> Nat]
    BY <1>0, <1>2 DEF LetsGo, TypeOK
  <2>4. prs' \in [PRs -> PRRow]
    <3>1. CASE s \notin {"posted", "shadow"}
      BY <1>0, <1>2, <3>1 DEF LetsGo, TypeOK
    <3>2. CASE s \in {"posted", "shadow"}
      <4>1. /\ pc[l] \in Working
            /\ prs' = [prs EXCEPT ![hold[l].pr].last = mine[l].head, ![hold[l].pr].reviews = @ + 1]
        BY <1>2, <3>2 DEF LetsGo
      <4>2. prs[hold[l].pr] \in PRRow /\ mine[l].head \in 0..MaxHead
        BY <1>0, <4>1, AtWork DEF TypeOK, Memory
      <4>a. prs[hold[l].pr].reviews + 1 \in Nat
        BY <4>2 DEF PRRow
      <4>3. [prs[hold[l].pr] EXCEPT !.last = mine[l].head, !.reviews = @ + 1] \in PRRow
        BY <4>2, <4>a DEF PRRow
      <4>4. QED
        BY <1>0, <4>1, <4>3 DEF TypeOK
    <3>3. QED
      BY <3>1, <3>2
  <2>5. Free(l) /\ faults' \in 0..MaxFaults /\ UNCHANGED <<now, hub, posted, stored, deliveries, routes>>
    BY <1>2 DEF LetsGo
  <2>6. QED
    BY <1>0, <2>2, <2>3, <2>4, <2>5, FreeType DEF TypeOK
<1>3. QED
  BY <1>1, <1>2 DEF Hands

\* So does one that renews its lease.
LEMMA RenewsType ==
  ASSUME LaneInv, NEW l \in Lanes, Renews(l)
  PROVE  TypeOK'
<1>0. TypeOK
  BY DEF LaneInv
<1>1. PICK next \in Working : Renewed(l, next) /\ pc[l] \in Working
  BY DEF Renews, Touch, PostTouch, SummaryTouch, Working
<1>2. now + Lease \in Nat /\ runs[hold[l].run].cancel \in BOOLEAN /\ mine[l].asked \in BOOLEAN
  BY <1>0, <1>1, AtWork, LaneAssumption DEF TypeOK, RunRow, Memory
<1>3. runs' \in [Runs -> RunRow]
  <2>1. [runs[hold[l].run] EXCEPT !.lease = now + Lease] \in RunRow
    BY <1>1, <1>2, AtWork DEF RunRow
  <2>2. QED
    BY <1>0, <1>1, <2>1 DEF Renewed, TypeOK
<1>4. hold' \in [Lanes -> Hold]
  <2>1. [hold[l] EXCEPT !.lease = now + Lease] \in Hold
    BY <1>1, <1>2, AtWork DEF Hold
  <2>2. QED
    BY <1>0, <1>1, <2>1 DEF Renewed, TypeOK
<1>5. mine' \in [Lanes -> Memory]
  <2>1. [mine[l] EXCEPT !.asked = @ \/ runs[hold[l].run].cancel] \in Memory
    BY <1>1, <1>2, AtWork DEF Memory
  <2>2. QED
    BY <1>0, <1>1, <2>1 DEF Renewed, TypeOK
<1>6. prLease' \in [PRs -> Nat] /\ pc' \in [Lanes -> {"idle", "picked"} \cup Working]
  BY <1>0, <1>1, <1>2 DEF Renewed, TypeOK
<1>7. QED
  BY <1>0, <1>1, <1>3, <1>4, <1>5, <1>6 DEF Renewed, TypeOK, hubVars, givenVars, wordVars

\* So does a claim, in both its steps.
LEMMA ClaimType ==
  ASSUME LaneInv, NEW l \in Lanes, ClaimPick(l) \/ ClaimTake(l)
  PROVE  TypeOK'
<1>0. TypeOK /\ HoldOk(l) /\ hold[l] \in Hold
  BY DEF LaneInv, LaneOk, TypeOK
<1>1. CASE ClaimPick(l)
  <2>1. PICK r \in Runs : hold' = [hold EXCEPT ![l].run = r]
    BY <1>1 DEF ClaimPick
  <2>2. [hold[l] EXCEPT !.run = r] \in Hold
    BY <1>0 DEF Hold, Runs
  <2>3. hold' \in [Lanes -> Hold]
    BY <1>0, <2>1, <2>2 DEF TypeOK
  <2>4. QED
    BY <1>0, <1>1, <2>3 DEF ClaimPick, TypeOK, rowVars, hubVars, givenVars, wordVars
<1>2. CASE ClaimTake(l)
  <2> DEFINE r == hold[l].run
             p == runs[r].pr
  <2>1. /\ r \in Runs /\ runs[r] \in RunRow /\ RowOk(r) /\ now + Lease \in Nat /\ mine[l] \in Memory
        /\ Takeable(r)
    BY <1>0, <1>2, LaneAssumption DEF ClaimTake, HoldOk, LaneInv, TypeOK
  <2>2. p \in PRs /\ runs[r].attempts + 1 \in 0..MaxAttempts /\ runs[r].head \in 0..MaxHead
    BY <2>1, LaneAssumption DEF RowOk, RunRow, Takeable, Unended, Heads
  <2>3. [runs[r] EXCEPT !.status = "running", !.lease = now + Lease, !.attempts = @ + 1] \in RunRow
    BY <2>1, <2>2 DEF RunRow, Unended
  <2>4. [hold[l] EXCEPT !.pr = p, !.lease = now + Lease] \in Hold
    BY <1>0, <2>1, <2>2 DEF Hold
  <2>5. [mine[l] EXCEPT !.head = runs[r].head, !.ckpt = runs[r].ckpt, !.github = runs[r].github] \in Memory
    BY <2>1, <2>2 DEF Memory, RunRow
  <2>6. runs' \in [Runs -> RunRow]
    BY <1>0, <1>2, <2>3 DEF ClaimTake, TypeOK
  <2>7. hold' \in [Lanes -> Hold] /\ prLease' \in [PRs -> Nat]
    BY <1>0, <1>2, <2>1, <2>4 DEF ClaimTake, TypeOK
  <2>8. mine' \in [Lanes -> Memory]
    BY <1>0, <1>2, <2>5 DEF ClaimTake, TypeOK
  <2>9. pc' \in [Lanes -> {"idle", "picked"} \cup Working]
    BY <1>0, <1>2 DEF ClaimTake, TypeOK, Working
  <2>10. QED
    BY <1>0, <1>2, <2>6, <2>7, <2>8, <2>9 DEF ClaimTake, TypeOK, hubVars, givenVars, wordVars
<1>3. QED
  BY <1>1, <1>2

\* So does the write of a checkpoint or of a review's id.
LEMMA StoresType ==
  ASSUME LaneInv, NEW l \in Lanes, Stores(l)
  PROVE  TypeOK'
<1> DEFINE r == hold[l].run
<1>0. TypeOK /\ pc[l] \in Working /\ FencedPR(l)
  BY DEF LaneInv, Stores, Save, Record, Working
<1>1. CASE Save(l)
  <2>1. /\ [runs[r] EXCEPT !.ckpt = TRUE, !.head = mine[l].head, !.findings = "open"] \in RunRow
        /\ [mine[l] EXCEPT !.ckpt = TRUE] \in Memory
    BY <1>0, AtWork DEF RunRow, Memory
  <2>2. runs' \in [Runs -> RunRow] /\ mine' \in [Lanes -> Memory]
    BY <1>0, <1>1, <2>1 DEF Save, TypeOK
  <2>3. stored' \in [Runs -> Nat] /\ pc' \in [Lanes -> {"idle", "picked"} \cup Working]
    BY <1>0, <1>1 DEF Save, Goto, TypeOK, Working
  <2>4. QED
    BY <1>0, <1>1, <2>2, <2>3 DEF Save, TypeOK, hubVars, givenVars, wordVars
<1>2. CASE Record(l)
  <2>1. [runs[r] EXCEPT !.github = TRUE] \in RunRow /\ [mine[l] EXCEPT !.github = TRUE] \in Memory
    BY <1>0, AtWork DEF RunRow, Memory
  <2>2. runs' \in [Runs -> RunRow] /\ mine' \in [Lanes -> Memory]
    BY <1>0, <1>2, <2>1 DEF Record, TypeOK
  <2>3. pc' \in [Lanes -> {"idle", "picked"} \cup Working]
    BY <1>0, <1>2 DEF Record, Goto, TypeOK, Working
  <2>4. QED
    BY <1>0, <1>2, <2>2, <2>3 DEF Record, TypeOK, hubVars, givenVars, wordVars
<1>3. QED
  BY <1>1, <1>2 DEF Stores

\* A lane that goes on keeps the types, and is still at work.
LEMMA MovesType ==
  ASSUME LaneInv, NEW l \in Lanes, Moves(l)
  PROVE  TypeOK' /\ pc[l] \in Working /\ pc'[l] \in Working
<1> DEFINE p == hold[l].pr
<1>0. TypeOK /\ pc[l] \in Working
  BY DEF LaneInv, Moves, GateSuperseded, GatePassed, PublishSuperseded, PublishGo, Gives, Adopt, Post,
         PostRefused, SummaryFind, SummaryEdit, SummaryGone, SummaryCreate, SummarySet, Working
<1>1. hold[l].run \in Runs /\ p \in PRs /\ mine[l] \in Memory /\ hub[p] \in OnHub /\ prs[p] \in PRRow
  BY <1>0, AtWork DEF TypeOK
<1>2. pc' \in [Lanes -> {"idle", "picked"} \cup Working] /\ pc'[l] \in Working
  <2>1. PICK next \in Working : Goto(l, next)
    BY DEF Moves, GateSuperseded, GatePassed, PublishSuperseded, PublishGo, AfterPublish, Gives, Adopt,
           Post, PostRefused, SummaryFind, SummaryEdit, SummaryGone, SummaryCreate, SummarySet,
           AfterSummary, Working
  <2>2. QED
    BY <1>0, <2>1 DEF Goto, TypeOK
<1>3. CASE Gives(l) \/ Adopt(l) \/ SummaryEdit(l) \/ GateSuperseded(l) \/ PublishSuperseded(l)
  BY <1>0, <1>2, <1>3
  DEF Gives, Adopt, SummaryEdit, GateSuperseded, PublishSuperseded, TypeOK, rowVars, hubVars, givenVars, wordVars
<1>4. CASE Post(l)
  <2>1. faults' \in 0..MaxFaults
    BY <1>0, <1>4, Faulty DEF Post
  <2>a. posted' = [posted EXCEPT ![hold[l].run] = @ + 1] /\ posted \in [Runs -> Nat]
    BY <1>0, <1>4 DEF Post, TypeOK
  <2>2. posted' \in [Runs -> Nat]
    BY <1>1, <2>a
  <2>3. QED
    BY <1>0, <1>2, <1>4, <2>1, <2>2 DEF Post, TypeOK, rowVars, wordVars
<1>5. CASE GatePassed(l)
  <2> DEFINE head == IF mine[l].ckpt THEN mine[l].head ELSE hub[p].head
  <2>1. head \in 0..MaxHead /\ prs[p].summary \in Nat
    BY <1>1, LaneAssumption DEF Memory, OnHub, Heads, PRRow
  <2>2. mine' = [mine EXCEPT ![l].summary = prs[p].summary, ![l].head = head]
    BY <1>5 DEF GatePassed
  <2> HIDE DEF head
  <2>3. [mine[l] EXCEPT !.summary = prs[p].summary, !.head = head] \in Memory
    BY <1>1, <2>1 DEF Memory
  <2>4. mine' \in [Lanes -> Memory]
    BY <1>0, <2>2, <2>3 DEF TypeOK
  <2>5. QED
    BY <1>0, <1>2, <1>5, <2>4 DEF GatePassed, TypeOK, rowVars, hubVars, givenVars, wordVars
<1>6. CASE PublishGo(l)
  <2>1. PICK inline \in BOOLEAN : mine' = [mine EXCEPT ![l].inline = inline]
    BY <1>6 DEF PublishGo
  <2>2. [mine[l] EXCEPT !.inline = inline] \in Memory
    BY <1>1 DEF Memory
  <2>3. mine' \in [Lanes -> Memory]
    BY <1>0, <2>1, <2>2 DEF TypeOK
  <2>4. QED
    BY <1>0, <1>2, <1>6, <2>3 DEF PublishGo, TypeOK, rowVars, hubVars, givenVars, wordVars
<1>7. CASE PostRefused(l)
  <2>1. [mine[l] EXCEPT !.inline = FALSE] \in Memory
    BY <1>1 DEF Memory
  <2>2. mine' \in [Lanes -> Memory]
    BY <1>0, <1>7, <2>1 DEF TypeOK, PostRefused
  <2>3. QED
    BY <1>0, <1>2, <1>7, <2>2 DEF PostRefused, TypeOK, rowVars, hubVars, givenVars, wordVars
<1>8. CASE SummaryCreate(l)
  <2>1. hub[p].made + 1 \in Nat
    BY <1>1 DEF OnHub
  <2>2. [hub[p] EXCEPT !.made = @ + 1] \in OnHub /\ [mine[l] EXCEPT !.summary = hub[p].made + 1] \in Memory
    BY <1>1, <2>1 DEF OnHub, Memory
  <2>3. hub' \in [PRs -> OnHub] /\ mine' \in [Lanes -> Memory]
    BY <1>0, <1>8, <2>2 DEF SummaryCreate, TypeOK
  <2>4. QED
    BY <1>0, <1>2, <1>8, <2>3 DEF SummaryCreate, TypeOK, rowVars, givenVars, wordVars
<1>9. CASE SummaryFind(l)
  <2>1. CASE UNCHANGED <<mine, prs>>
    BY <1>0, <1>2, <1>9, <2>1 DEF SummaryFind, TypeOK, hubVars, givenVars, wordVars
  <2>2. CASE ~UNCHANGED <<mine, prs>>
    <3>1. PICK c \in Comments(p) :
            mine' = [mine EXCEPT ![l].summary = c] /\ prs' = [prs EXCEPT ![p].summary = c]
      BY <1>9, <2>2 DEF SummaryFind
    <3>2. c \in Nat
      BY <1>1 DEF Comments, OnHub
    <3>3. [mine[l] EXCEPT !.summary = c] \in Memory /\ [prs[p] EXCEPT !.summary = c] \in PRRow
      BY <1>1, <3>2 DEF Memory, PRRow
    <3>4. mine' \in [Lanes -> Memory] /\ prs' \in [PRs -> PRRow]
      BY <1>0, <3>1, <3>3 DEF TypeOK
    <3>5. QED
      BY <1>0, <1>2, <1>9, <3>4 DEF SummaryFind, TypeOK, hubVars, givenVars, wordVars
  <2>3. QED
    BY <2>1, <2>2
<1>10. CASE SummarySet(l)
  <2>1. [prs[p] EXCEPT !.summary = mine[l].summary] \in PRRow
    BY <1>1 DEF PRRow, Memory
  <2>2. prs' \in [PRs -> PRRow]
    BY <1>0, <1>10, <2>1 DEF SummarySet, TypeOK
  <2>3. QED
    BY <1>0, <1>2, <1>10, <2>2 DEF SummarySet, TypeOK, hubVars, givenVars, wordVars
<1>11. CASE SummaryGone(l)
  <2>1. [mine[l] EXCEPT !.summary = 0] \in Memory
    BY <1>1 DEF Memory
  <2>2. mine' \in [Lanes -> Memory]
    BY <1>0, <1>11, <2>1 DEF SummaryGone, TypeOK
  <2>3. QED
    BY <1>0, <1>2, <1>11, <2>2 DEF SummaryGone, TypeOK, rowVars, hubVars, givenVars, wordVars
<1>12. QED
  BY <1>0, <1>2, <1>3, <1>4, <1>5, <1>6, <1>7, <1>8, <1>9, <1>10, <1>11 DEF Moves

\* What people do on GitHub makes no summary, and a deleted one stays deleted.
People(p) == PushOn(p) \/ CloseOn(p) \/ DraftOn(p) \/ ReopenOn(p) \/ DeleteOn(p)

LEMMA HubType ==
  ASSUME LaneInv, NEW p \in PRs, People(p)
  PROVE  /\ TypeOK'
         /\ \A q \in PRs : hub'[q].made = hub[q].made /\ (hub[q].gone # {} => hub'[q].gone # {})
         /\ UNCHANGED <<now, rowVars, laneVars, posted, stored, routes, faults>>
<1> DEFINE Like(new) == new \in OnHub /\ new.made = hub[p].made /\ (hub[p].gone # {} => new.gone # {})
<1>0. TypeOK /\ hub \in [PRs -> OnHub] /\ hub[p] \in OnHub
  BY DEF LaneInv, TypeOK
<1>1. PICK new : hub' = [hub EXCEPT ![p] = new] /\ Like(new)
  <2>1. CASE PushOn(p)
    <3>1. hub[p].head + 1 \in Heads
      BY <1>0, <2>1, LaneAssumption DEF PushOn, OnHub, Heads
    <3>2. Like([hub[p] EXCEPT !.head = @ + 1])
      BY <1>0, <3>1 DEF OnHub
    <3>3. hub' = [hub EXCEPT ![p] = [hub[p] EXCEPT !.head = @ + 1]]
      BY <2>1 DEF PushOn
    <3>4. QED
      BY <3>2, <3>3
  <2>2. CASE CloseOn(p)
    <3>1. hub[p].closes + 1 \in 0..MaxCloses
      BY <1>0, <2>2, LaneAssumption DEF CloseOn, OnHub
    <3>2. Like([hub[p] EXCEPT !.open = FALSE, !.closes = @ + 1])
      BY <1>0, <3>1 DEF OnHub
    <3>3. hub' = [hub EXCEPT ![p] = [hub[p] EXCEPT !.open = FALSE, !.closes = @ + 1]]
      BY <1>0, <2>2 DEF CloseOn
    <3>4. QED
      BY <3>2, <3>3
  <2>3. CASE DraftOn(p)
    <3>1. hub[p].closes + 1 \in 0..MaxCloses
      BY <1>0, <2>3, LaneAssumption DEF DraftOn, OnHub
    <3>2. Like([hub[p] EXCEPT !.draft = TRUE, !.closes = @ + 1])
      BY <1>0, <3>1 DEF OnHub
    <3>3. hub' = [hub EXCEPT ![p] = [hub[p] EXCEPT !.draft = TRUE, !.closes = @ + 1]]
      BY <1>0, <2>3 DEF DraftOn
    <3>4. QED
      BY <3>2, <3>3
  <2>4. CASE ReopenOn(p)
    <3>1. Like([hub[p] EXCEPT !.open = TRUE, !.draft = FALSE])
      BY <1>0 DEF OnHub
    <3>2. hub' = [hub EXCEPT ![p] = [hub[p] EXCEPT !.open = TRUE, !.draft = FALSE]]
      BY <1>0, <2>4 DEF ReopenOn
    <3>3. QED
      BY <3>1, <3>2
  <2>5. CASE DeleteOn(p)
    <3>1. PICK c \in Comments(p) : hub' = [hub EXCEPT ![p].gone = @ \cup {c}]
      BY <2>5 DEF DeleteOn
    <3>2. c \in Nat /\ hub[p].gone \cup {c} \in SUBSET Nat
      BY <1>0 DEF Comments, OnHub
    <3>3. Like([hub[p] EXCEPT !.gone = @ \cup {c}])
      BY <1>0, <3>2 DEF OnHub
    <3>4. hub' = [hub EXCEPT ![p] = [hub[p] EXCEPT !.gone = @ \cup {c}]]
      BY <3>1
    <3>5. QED
      BY <3>3, <3>4
  <2>6. QED
    BY <2>1, <2>2, <2>3, <2>4, <2>5 DEF People
<1>2. hub' \in [PRs -> OnHub] /\ hub'[p] = new /\ \A q \in PRs : q # p => hub'[q] = hub[q]
  BY <1>0, <1>1
<1>3. hub'[p].head \in Heads
  BY <1>1, <1>2 DEF OnHub
<1>4. deliveries' \subseteq Delivery
  <2>1. CASE DeleteOn(p)
    BY <1>0, <2>1 DEF DeleteOn, givenVars, wordVars, TypeOK
  <2>2. CASE ~DeleteOn(p)
    <3>1. PICK action \in Actions : Send(p, action)
      BY <2>2 DEF People, PushOn, CloseOn, DraftOn, ReopenOn, Actions
    <3>2. [pr |-> p, action |-> action, head |-> hub'[p].head] \in Delivery
      BY <1>3 DEF Delivery
    <3>3. QED
      BY <1>0, <3>1, <3>2 DEF Send, TypeOK
  <2>3. QED
    BY <2>1, <2>2
<1>5. UNCHANGED <<now, rowVars, laneVars, posted, stored, routes, faults>>
  BY DEF People, PushOn, CloseOn, DraftOn, ReopenOn, DeleteOn, givenVars, wordVars
<1>6. TypeOK'
  BY <1>0, <1>2, <1>4, <1>5 DEF TypeOK, rowVars, laneVars
<1>7. QED
  BY <1>1, <1>2, <1>5, <1>6

-----------------------------------------------------------------------------
(* The dispatchers.                                                        *)

Routes == \E h \in Routers : RouterStep(h) \/ RouteFails(h)

\* What a dispatcher may do to the rows of the runs: one more, for the first that is free and a key
\* no run has, or the cancel of those of its pull request.
Queued(p, key, r) ==
  /\ \E h \in Routers : routes[h].step = "ask" /\ routes[h].pr = p /\ routes[h].key = key
  /\ p \in PRs /\ (\A o \in Runs : ~Has(o, p, key))
  /\ runs[r].status = "none" /\ (\A o \in Runs : o < r => runs[o].status # "none")
  /\ \E row \in RunRow :
       /\ runs' = [runs EXCEPT ![r] = row]
       /\ row.pr = p /\ row.key = key /\ row.status = "queued" /\ ~row.ckpt

\* What a dispatcher has in hand.
LEMMA RouteKnown ==
  ASSUME LaneInv, NEW h \in Routers, routes[h].step # "idle"
  PROVE  routes[h] \in Route
<1>1. routes[h] \in Route \cup {NoRoute}
  BY DEF LaneInv, TypeOK
<1>2. routes[h] # NoRoute
  BY DEF NoRoute
<1>3. QED
  BY <1>1, <1>2

\* A request as it is first made.
LEMMA AsksType ==
  ASSUME LaneInv, NEW d, d.pr \in PRs, d.action \in Actions, d.head \in Heads,
         NEW trigger \in Triggers, NEW notBefore \in Nat
  PROVE  Asks(d, trigger, notBefore) \in Route
<1> DEFINE key == [trigger |-> trigger, head |-> d.head,
                   since |-> trigger = "push" /\ prs[d.pr].last # 0, after |-> 0]
<1>1. (trigger = "push" /\ prs[d.pr].last # 0) \in BOOLEAN
  OBVIOUS
<1>2. key \in Keys
  BY <1>1, LaneAssumption DEF Keys
<1>3. Asks(d, trigger, notBefore) =
        [NoRoute EXCEPT !.step = "ask", !.pr = d.pr, !.action = d.action, !.head = d.head,
           !.key = key, !.notBefore = notBefore, !.left = MaxLooks]
  BY DEF Asks
<1> HIDE DEF key
<1>4. Asks(d, trigger, notBefore) =
        [step |-> "ask", pr |-> d.pr, action |-> d.action, head |-> d.head, key |-> key,
         notBefore |-> notBefore, left |-> MaxLooks]
  BY <1>3 DEF NoRoute
<1>5. QED
  BY <1>2, <1>4, LaneAssumption DEF Route

\* A delivery as it is taken up.
LEMMA StartsType ==
  ASSUME NEW d, d.pr \in PRs, d.action \in Actions, d.head \in Heads, NEW step \in {"moved", "cancel"}
  PROVE  [NoRoute EXCEPT !.step = step, !.pr = d.pr, !.action = d.action, !.head = d.head] \in Route
<1> DEFINE Any == [step : {"idle", "moved", "cancel"}, pr : PRs \cup {NoPR}, action : Actions, head : Heads,
                   key : Keys, notBefore : Nat, left : 0..MaxLooks]
<1>1. NoKey \in Keys /\ 1 \in Heads /\ MaxLooks \in Nat
  BY LaneAssumption DEF NoKey, Keys, Heads, Triggers
<1>2. NoRoute \in Any
  BY <1>1 DEF NoRoute, Actions
<1>3. QED
  BY <1>2 DEF Route

\* UpsertReviewPR leaves the record of reviews and of the summary alone.
LEMMA UpsertShape ==
  ASSUME LaneInv, NEW d, d.pr \in PRs, d.head \in Heads, UpsertReviewPR(d)
  PROVE  /\ prs' \in [PRs -> PRRow]
         /\ \A p \in PRs : prs'[p].reviews = prs[p].reviews /\ prs'[p].summary = prs[p].summary
<1>0. prs \in [PRs -> PRRow] /\ prs[d.pr] \in PRRow /\ d.head \in 0..MaxHead
  BY LaneAssumption DEF LaneInv, TypeOK, Heads
<1> DEFINE new == [prs[d.pr] EXCEPT !.open = d.action # "closed", !.head = d.head]
<1>1. new \in PRRow /\ new.reviews = prs[d.pr].reviews /\ new.summary = prs[d.pr].summary
  BY <1>0 DEF PRRow
<1>2. prs' = [prs EXCEPT ![d.pr] = new]
  BY <1>0 DEF UpsertReviewPR
<1> HIDE DEF new
<1>3. QED
  BY <1>0, <1>1, <1>2

\* EnqueueReviewRun makes a row for a key that no run has, or none.
LEMMA EnqueueShape ==
  ASSUME LaneInv, NEW h \in Routers, routes[h].step = "ask", EnqueueReviewRun(routes[h])
  PROVE  runs' = runs \/ \E r \in Runs : Queued(routes[h].pr, routes[h].key, r)
<1> DEFINE q == routes[h]
<1>0. q \in Route
  BY RouteKnown
<1>1. CASE runs' = runs
  BY <1>1
<1>2. CASE runs' # runs
  <2> DEFINE row == [NoRun EXCEPT !.pr = q.pr, !.key = q.key, !.head = q.head, !.status = "queued",
                                  !.notBefore = q.notBefore]
  <2>1. PICK r \in Runs : NewRow(r, q) /\ \A o \in Runs : ~Has(o, q.pr, q.key)
    BY <1>2 DEF EnqueueReviewRun
  <2>2. /\ runs' = [runs EXCEPT ![r] = row]
        /\ runs[r].status = "none" /\ (\A o \in Runs : o < r => runs[o].status # "none")
    BY <2>1 DEF NewRow
  <2>3. q.pr \in PRs /\ q.key \in Keys /\ q.head \in Heads /\ q.notBefore \in Nat
    BY <1>0 DEF Route
  <2>4. row \in RunRow /\ row.pr = q.pr /\ row.key = q.key /\ row.status = "queued" /\ ~row.ckpt
    BY <2>3, BlankTypes DEF RunRow, NoRun, Unended
  <2> HIDE DEF row
  <2>5. Queued(q.pr, q.key, r)
    BY <2>1, <2>2, <2>3, <2>4 DEF Queued
  <2>6. QED
    BY <2>5
<1>3. QED
  BY <1>1, <1>2

\* CancelReviewRuns keeps the types.
LEMMA CancelledType ==
  ASSUME LaneInv, NEW p \in PRs
  PROVE  Cancelled(p) \in [Runs -> RunRow]
<1>1. ASSUME NEW r \in Runs PROVE Cancelled(p)[r] \in RunRow
  <2>1. runs[r] \in RunRow
    BY DEF LaneInv, TypeOK
  <2>2. [runs[r] EXCEPT !.status = "cancelled", !.cancel = TRUE, !.lease = 0] \in RunRow
    BY <2>1 DEF RunRow, Ends
  <2>3. [runs[r] EXCEPT !.cancel = TRUE] \in RunRow
    BY <2>1 DEF RunRow
  <2>4. QED
    BY <2>1, <2>2, <2>3 DEF Cancelled
<1>2. QED
  BY <1>1 DEF Cancelled

\* A dispatcher's step on the routes.
RouteStep(h) ==
  \/ Routed(h)
  \/ \E q \in Route : routes' = [routes EXCEPT ![h] = q]

\* What a step of a dispatcher does, whichever it is.
LEMMA RouteShape ==
  ASSUME LaneInv, Routes
  PROVE  /\ TypeOK'
         /\ \/ runs' = runs
            \/ \E p \in PRs, key \in Keys, r \in Runs : Queued(p, key, r)
            \/ \E p \in PRs : runs' = Cancelled(p)
         /\ \A p \in PRs : prs'[p].reviews = prs[p].reviews /\ prs'[p].summary = prs[p].summary
         /\ UNCHANGED <<now, prLease, laneVars, hubVars, stored>>
<1>0. TypeOK
  BY DEF LaneInv
<1>1. PICK h \in Routers : RouterStep(h) \/ RouteFails(h)
  BY DEF Routes
<1> DEFINE PrsKept == \A p \in PRs : prs'[p].reviews = prs[p].reviews /\ prs'[p].summary = prs[p].summary
           RunsKept == \/ runs' = runs
                       \/ \E p \in PRs, key \in Keys, r \in Runs : Queued(p, key, r)
                       \/ \E p \in PRs : runs' = Cancelled(p)
<1>2. UNCHANGED <<now, prLease, laneVars, hubVars, stored>> /\ faults' \in 0..MaxFaults
  <2>1. CASE RouteFails(h)
    BY <1>0, <2>1, Faulty DEF RouteFails, rowVars
  <2>2. CASE ~RouteFails(h)
    BY <1>0, <1>1, <2>2
    DEF RouterStep, RouteOpened, RoutePush, RouteClosed, RouteMoved, RouteRefused, RouteLook, RouteQueue,
        RouteCancel, Take, rowVars, TypeOK
  <2>3. QED
    BY <2>1, <2>2
<1>3. ASSUME NEW d \in deliveries, RouteOpened(h, d) \/ RoutePush(h, d) \/ RouteClosed(h, d)
      PROVE  /\ runs' = runs /\ UpsertReviewPR(d) /\ d \in Delivery /\ deliveries' \subseteq Delivery
             /\ RouteStep(h)
  <2>1. Take(h, d) /\ d \in Delivery
    BY <1>0, <1>3 DEF RouteOpened, RoutePush, RouteClosed, TypeOK
  <2>2. d.pr \in PRs /\ d.action \in Actions /\ d.head \in Heads
    BY <2>1 DEF Delivery
  <2>3. CASE RouteOpened(h, d)
    <3>1. Asks(d, "open", 0) \in Route
      BY <2>2, AsksType DEF Triggers
    <3>2. QED
      BY <1>0, <2>1, <2>3, <3>1 DEF RouteOpened, RouteStep, Take, TypeOK
  <2>4. CASE RoutePush(h, d) \/ RouteClosed(h, d)
    <3>1. PICK step \in {"moved", "cancel"} :
            routes' = [routes EXCEPT ![h] =
              [NoRoute EXCEPT !.step = step, !.pr = d.pr, !.action = d.action, !.head = d.head]]
      BY <2>4 DEF RoutePush, RouteClosed
    <3>3. [NoRoute EXCEPT !.step = step, !.pr = d.pr, !.action = d.action, !.head = d.head] \in Route
      BY <2>2, StartsType
    <3>4. QED
      BY <1>0, <2>1, <3>1, <3>3 DEF RouteStep, Take, TypeOK
  <2>5. QED
    BY <1>3, <2>3, <2>4
<1>4. ASSUME NEW q \in Route
      PROVE  q.pr \in PRs /\ q.action \in Actions /\ q.head \in Heads /\ q.key \in Keys
  BY DEF Route
<1>5. CASE \E d \in deliveries : RouteOpened(h, d) \/ RoutePush(h, d) \/ RouteClosed(h, d)
  <2>1. PICK d \in deliveries :
          /\ runs' = runs /\ UpsertReviewPR(d) /\ d \in Delivery /\ deliveries' \subseteq Delivery
          /\ RouteStep(h)
    BY <1>3, <1>5
  <2>2. d.pr \in PRs /\ d.head \in Heads
    BY <2>1 DEF Delivery
  <2>3. prs' \in [PRs -> PRRow] /\ PrsKept
    BY <2>1, <2>2, UpsertShape
  <2>4. QED
    BY <1>0, <1>2, <2>1, <2>3 DEF RouteStep, Routed, TypeOK, laneVars, hubVars
<1>6. CASE RouteMoved(h)
  <2>1. routes[h] \in Route /\ now + Debounce \in Nat
    BY <1>0, <1>6, RouteKnown, LaneAssumption DEF RouteMoved, TypeOK
  <2>2. Asks(routes[h], "push", now + Debounce) \in Route
    BY <1>4, <2>1, AsksType DEF Triggers
  <2>3. prs' \in [PRs -> PRRow] /\ PrsKept
    BY <1>4, <1>6, <2>1, UpsertShape DEF RouteMoved
  <2>4. routes' \in [Routers -> Route \cup {NoRoute}]
    BY <1>0, <1>6, <2>2 DEF RouteMoved, TypeOK
  <2>5. QED
    BY <1>0, <1>2, <1>6, <2>3, <2>4 DEF RouteMoved, TypeOK, laneVars, hubVars
<1>7. CASE RouteRefused(h)
  BY <1>0, <1>2, <1>7 DEF RouteRefused, Routed, TypeOK, rowVars, laneVars, hubVars
<1>8. CASE RouteLook(h)
  <2>1. routes[h] \in Route /\ routes[h].left \in 1..MaxLooks
    BY <1>8, RouteKnown, LaneAssumption DEF RouteLook, Route
  <2>2. routes' \in [Routers -> Route \cup {NoRoute}]
    <3>1. CASE Routed(h)
      BY <1>0, <3>1 DEF Routed, TypeOK
    <3>2. CASE routes' = [routes EXCEPT ![h].left = 0]
      <4>1. [routes[h] EXCEPT !.left = 0] \in Route
        BY <2>1, LaneAssumption DEF Route
      <4>2. QED
        BY <1>0, <3>2, <4>1 DEF TypeOK
    <3>3. ASSUME NEW r \in Runs, routes' = [routes EXCEPT ![h].key.after = r, ![h].left = @ - 1]
          PROVE  routes' \in [Routers -> Route \cup {NoRoute}]
      <4> DEFINE key == [routes[h].key EXCEPT !.after = r]
                 left == routes[h].left - 1
      <4>1. key \in Keys /\ left \in 0..MaxLooks
        BY <1>4, <2>1, LaneAssumption DEF Keys, Runs
      <4>3. routes' = [routes EXCEPT ![h] = [routes[h] EXCEPT !.key = key, !.left = left]]
        BY <1>0, <3>3 DEF TypeOK
      <4> HIDE DEF key, left
      <4>2. [routes[h] EXCEPT !.key = key, !.left = left] \in Route
        BY <2>1, <4>1 DEF Route
      <4>4. QED
        BY <1>0, <4>2, <4>3 DEF TypeOK
    <3>4. QED
      BY <1>8, <3>1, <3>2, <3>3 DEF RouteLook
  <2>3. QED
    BY <1>0, <1>2, <1>8, <2>2 DEF RouteLook, TypeOK, rowVars, laneVars, hubVars
<1>9. CASE RouteQueue(h)
  <2>1. routes[h] \in Route /\ routes[h].step = "ask" /\ EnqueueReviewRun(routes[h])
    BY <1>9, RouteKnown DEF RouteQueue
  <2>2. runs' = runs \/ \E r \in Runs : Queued(routes[h].pr, routes[h].key, r)
    BY <2>1, EnqueueShape
  <2>3. runs' \in [Runs -> RunRow]
    BY <1>0, <2>2 DEF Queued, TypeOK
  <2>4. RunsKept
    BY <1>4, <2>1, <2>2
  <2>5. TypeOK'
    BY <1>0, <1>2, <1>9, <2>3 DEF RouteQueue, Routed, TypeOK, laneVars, hubVars
  <2>6. QED
    BY <1>2, <1>9, <2>4, <2>5 DEF RouteQueue
<1>10. CASE RouteCancel(h)
  <2>1. routes[h].pr \in PRs /\ runs' = Cancelled(routes[h].pr)
    BY <1>4, <1>10, RouteKnown DEF RouteCancel
  <2>2. runs' \in [Runs -> RunRow]
    BY <2>1, CancelledType
  <2>3. TypeOK'
    BY <1>0, <1>2, <1>10, <2>2 DEF RouteCancel, Routed, TypeOK, laneVars, hubVars
  <2>4. QED
    BY <1>2, <1>10, <2>1, <2>3 DEF RouteCancel
<1>11. CASE RouteFails(h)
  <2>1. routes[h] \in Route
    BY <1>11, RouteKnown DEF RouteFails
  <2>2. [pr |-> routes[h].pr, action |-> routes[h].action, head |-> routes[h].head] \in Delivery
    BY <1>4, <2>1 DEF Delivery
  <2>3. QED
    BY <1>0, <1>2, <1>11, <2>2 DEF RouteFails, Routed, TypeOK, rowVars, laneVars, hubVars
<1>12. QED
  BY <1>1, <1>5, <1>6, <1>7, <1>8, <1>9, <1>10, <1>11 DEF RouterStep

\* The sweep and the clock.
LEMMA SweepType ==
  ASSUME LaneInv, Sweep
  PROVE  TypeOK'
<1>0. TypeOK
  BY DEF LaneInv
<1>1. ASSUME NEW r \in Runs PROVE runs'[r] \in RunRow
  <2>1. runs[r] \in RunRow
    BY <1>0 DEF TypeOK
  <2>2. /\ [runs[r] EXCEPT !.status = "cancelled", !.lease = 0] \in RunRow
        /\ [runs[r] EXCEPT !.status = "failed", !.lease = 0] \in RunRow
    BY <2>1 DEF RunRow, Ends
  <2>3. QED
    BY <2>1, <2>2 DEF Sweep
<1>2. runs' \in [Runs -> RunRow]
  BY <1>1 DEF Sweep
<1>3. QED
  BY <1>0, <1>2 DEF Sweep, TypeOK, laneVars, hubVars, givenVars, wordVars

\* The clock keeps the types.
LEMMA TickType == ASSUME LaneInv, Tick PROVE TypeOK'
BY DEF LaneInv, Tick, TypeOK, rowVars, laneVars, hubVars, givenVars, wordVars

-----------------------------------------------------------------------------
\* The other lanes are as they were.
Alone(l) ==
  \A m \in Lanes : m # l => pc'[m] = pc[m] /\ hold'[m] = hold[m] /\ mine'[m] = mine[m]

\* A row of which only this much may have changed is the same run: its request, its status and its
\* checkpoint.
SameRun(r) ==
  /\ runs'[r].pr = runs[r].pr /\ runs'[r].key = runs[r].key /\ runs'[r].status = runs[r].status
  /\ runs'[r].ckpt = runs[r].ckpt /\ runs'[r].attempts = runs[r].attempts

\* A lane that is free again carries nothing, and the others are as they were.
LEMMA FreeFacts ==
  ASSUME TypeOK, NEW l \in Lanes, Free(l)
  PROVE  Alone(l) /\ pc'[l] = "idle" /\ hold'[l] = NoHold /\ mine'[l] = Blank
BY DEF TypeOK, Free, Alone

\* A renewal moves the lease of the run, of the pull request and of the lane, together.
LEMMA RenewFacts ==
  ASSUME LaneInv, NEW l \in Lanes, Renews(l)
  PROVE  /\ pc[l] \in Working /\ pc'[l] \in Working /\ FencedPR(l)
         /\ \/ pc'[l] = pc[l] \/ (pc[l] = "touch" /\ pc'[l] = "look")
            \/ (pc[l] = "sumtouch" /\ pc'[l] = "sumwrite")
         /\ Alone(l)
         /\ hold'[l].run = hold[l].run /\ hold'[l].pr = hold[l].pr /\ hold'[l].lease = now + Lease
         /\ mine'[l].head = mine[l].head /\ mine'[l].ckpt = mine[l].ckpt
         /\ mine'[l].inline = mine[l].inline /\ mine'[l].summary = mine[l].summary
         /\ SameRun(hold[l].run) /\ runs'[hold[l].run].lease = now + Lease
         /\ \A r \in Runs : r # hold[l].run => runs'[r] = runs[r]
         /\ prLease'[hold[l].pr] = now + Lease
         /\ \A p \in PRs : p # hold[l].pr => prLease'[p] = prLease[p]
         /\ UNCHANGED <<now, prs, hub, posted, stored>>
<1>0. TypeOK
  BY DEF LaneInv
<1>1. PICK next \in Working :
        /\ Renewed(l, next) /\ pc[l] \in Working
        /\ next = pc[l] \/ (pc[l] = "touch" /\ next = "look") \/ (pc[l] = "sumtouch" /\ next = "sumwrite")
  BY DEF Renews, Touch, PostTouch, SummaryTouch, Working
<1>2. pc'[l] = next /\ FencedPR(l)
  BY <1>0, <1>1 DEF Renewed, TypeOK
<1>3. Alone(l)
  BY <1>0, <1>1 DEF Renewed, TypeOK, Alone
<1>4. hold'[l].run = hold[l].run /\ hold'[l].pr = hold[l].pr /\ hold'[l].lease = now + Lease
  BY <1>0, <1>1 DEF Renewed, TypeOK, Hold
<1>5. /\ mine'[l].head = mine[l].head /\ mine'[l].ckpt = mine[l].ckpt
      /\ mine'[l].inline = mine[l].inline /\ mine'[l].summary = mine[l].summary
  BY <1>0, <1>1 DEF Renewed, TypeOK, Memory
<1>6. /\ SameRun(hold[l].run) /\ runs'[hold[l].run].lease = now + Lease
      /\ \A r \in Runs : r # hold[l].run => runs'[r] = runs[r]
  <2>1. runs' = [runs EXCEPT ![hold[l].run].lease = now + Lease] /\ runs \in [Runs -> RunRow]
    BY <1>0, <1>1 DEF Renewed, TypeOK
  <2>2. QED
    BY <1>1, <2>1, AtWork DEF SameRun, RunRow
<1>7. /\ prLease'[hold[l].pr] = now + Lease
      /\ \A p \in PRs : p # hold[l].pr => prLease'[p] = prLease[p]
  BY <1>0, <1>1, AtWork DEF Renewed, TypeOK
<1>8. UNCHANGED <<now, prs, hub, posted, stored>>
  BY <1>1 DEF Renewed, hubVars
<1>9. QED
  BY <1>1, <1>2, <1>3, <1>4, <1>5, <1>6, <1>7, <1>8

\* A claim takes a run whose lease has run out, and its pull request's, under one value.
LEMMA TakeFacts ==
  ASSUME LaneInv, NEW l \in Lanes, ClaimTake(l)
  PROVE  LET r == hold[l].run p == runs[r].pr IN
         /\ pc[l] = "picked" /\ pc'[l] = "gate" /\ Takeable(r) /\ prLease[p] <= now
         /\ hold[l].pr = NoPR /\ hold[l].lease = 0 /\ r \in Runs /\ p \in PRs
         /\ Alone(l)
         /\ hold'[l].run = r /\ hold'[l].pr = p /\ hold'[l].lease = now + Lease
         /\ mine'[l].head \in Heads /\ mine'[l].ckpt = runs[r].ckpt /\ mine'[l].summary = 0
         /\ runs'[r].pr = runs[r].pr /\ runs'[r].key = runs[r].key /\ runs'[r].status = "running"
         /\ runs'[r].ckpt = runs[r].ckpt /\ runs'[r].attempts > 0 /\ runs'[r].lease = now + Lease
         /\ \A q \in Runs : q # r => runs'[q] = runs[q]
         /\ prLease'[p] = now + Lease
         /\ \A q \in PRs : q # p => prLease'[q] = prLease[q]
         /\ UNCHANGED <<now, prs, hub, posted, stored>>
<1> DEFINE r == hold[l].run
           p == runs[r].pr
<1>0. TypeOK /\ HoldOk(l)
  BY DEF LaneInv, LaneOk
<1>1. /\ pc[l] = "picked" /\ Takeable(r) /\ prLease[p] <= now
      /\ runs' = [runs EXCEPT ![r].status = "running", ![r].lease = now + Lease, ![r].attempts = @ + 1]
      /\ prLease' = [prLease EXCEPT ![p] = now + Lease]
      /\ hold' = [hold EXCEPT ![l].pr = p, ![l].lease = now + Lease]
      /\ mine' = [mine EXCEPT ![l].head = runs[r].head, ![l].ckpt = runs[r].ckpt,
                              ![l].github = runs[r].github]
      /\ pc' = [pc EXCEPT ![l] = "gate"]
      /\ UNCHANGED <<now, prs, hub, posted, stored>>
  BY DEF ClaimTake, hubVars
<1>2. /\ r \in Runs /\ hold[l].pr = NoPR /\ hold[l].lease = 0 /\ runs[r] \in RunRow /\ RowOk(r)
      /\ mine[l] = Blank
  BY <1>0, <1>1 DEF HoldOk, LaneInv, TypeOK, Working
<1>3. p \in PRs /\ runs[r].head \in Heads /\ runs[r].attempts \in Nat
  BY <1>1, <1>2, LaneAssumption DEF RowOk, RunRow, Takeable, Unended
<1>4. Alone(l) /\ pc'[l] = "gate"
  BY <1>0, <1>1 DEF TypeOK, Alone
<1>5. hold'[l].run = r /\ hold'[l].pr = p /\ hold'[l].lease = now + Lease
  <2>1. hold'[l] = [hold[l] EXCEPT !.pr = p, !.lease = now + Lease] /\ hold[l] \in Hold
    BY <1>0, <1>1 DEF TypeOK
  <2>2. QED
    BY <2>1 DEF Hold
<1>6. mine'[l].head \in Heads /\ mine'[l].ckpt = runs[r].ckpt /\ mine'[l].summary = 0
  <2>1. mine'[l] = [mine[l] EXCEPT !.head = runs[r].head, !.ckpt = runs[r].ckpt,
                                   !.github = runs[r].github]
    BY <1>0, <1>1 DEF TypeOK
  <2>2. QED
    BY <1>2, <1>3, <2>1 DEF Blank
<1>7. /\ runs'[r].pr = runs[r].pr /\ runs'[r].key = runs[r].key /\ runs'[r].status = "running"
      /\ runs'[r].ckpt = runs[r].ckpt /\ runs'[r].attempts > 0 /\ runs'[r].lease = now + Lease
  <2>1. runs'[r] = [runs[r] EXCEPT !.status = "running", !.lease = now + Lease, !.attempts = @ + 1]
    BY <1>0, <1>1, <1>2 DEF TypeOK
  <2>2. QED
    BY <1>2, <1>3, <2>1 DEF RunRow
<1>8. \A q \in Runs : q # r => runs'[q] = runs[q]
  BY <1>0, <1>1 DEF TypeOK
<1>9. prLease'[p] = now + Lease /\ \A q \in PRs : q # p => prLease'[q] = prLease[q]
  BY <1>0, <1>1, <1>3 DEF TypeOK
<1>10. QED
  BY <1>1, <1>2, <1>3, <1>4, <1>5, <1>6, <1>7, <1>8, <1>9

\* The checkpoint and the review's id are written under both leases, and move neither.
LEMMA StoreFacts ==
  ASSUME LaneInv, NEW l \in Lanes, Stores(l)
  PROVE  LET r == hold[l].run IN
         /\ pc[l] \in {"engine", "record"} /\ FencedPR(l) /\ Alone(l) /\ hold' = hold
         /\ pc[l] = "engine" => pc'[l] = "publish" /\ mine'[l].ckpt /\ runs'[r].ckpt
         /\ pc[l] = "record" =>
              /\ pc'[l] = IF mine[l].inline THEN "summary" ELSE "finish"
              /\ mine'[l].ckpt = mine[l].ckpt /\ runs'[r].ckpt = runs[r].ckpt /\ stored' = stored
         /\ pc[l] = "engine" => stored' = [stored EXCEPT ![r] = @ + 1]
         /\ mine'[l].head = mine[l].head /\ mine'[l].inline = mine[l].inline
         /\ mine'[l].summary = mine[l].summary
         /\ runs'[r].pr = runs[r].pr /\ runs'[r].key = runs[r].key /\ runs'[r].status = runs[r].status
         /\ runs'[r].lease = runs[r].lease /\ runs'[r].attempts = runs[r].attempts
         /\ \A q \in Runs : q # r => runs'[q] = runs[q]
         /\ UNCHANGED <<now, prs, prLease, hub, posted>>
<1> DEFINE r == hold[l].run
<1>0. TypeOK /\ pc[l] \in Working /\ FencedPR(l) /\ runs \in [Runs -> RunRow] /\ mine \in [Lanes -> Memory]
      /\ pc \in [Lanes -> {"idle", "picked"} \cup Working]
  BY DEF LaneInv, Stores, Save, Record, Working, TypeOK
<1>1. r \in Runs /\ runs[r] \in RunRow /\ mine[l] \in Memory
  BY <1>0, AtWork
<1>2. CASE Save(l)
  <2>1. /\ runs' = [runs EXCEPT ![r].ckpt = TRUE, ![r].head = mine[l].head, ![r].findings = "open"]
        /\ stored' = [stored EXCEPT ![r] = @ + 1]
        /\ mine' = [mine EXCEPT ![l].ckpt = TRUE]
        /\ pc' = [pc EXCEPT ![l] = "publish"]
        /\ hold' = hold /\ pc[l] = "engine" /\ UNCHANGED <<now, prs, prLease, hub, posted>>
    BY <1>0, <1>2 DEF Save, Goto, hubVars
  <2>2. runs'[r] = [runs[r] EXCEPT !.ckpt = TRUE, !.head = mine[l].head, !.findings = "open"]
    BY <1>0, <1>1, <2>1
  <2>3. /\ runs'[r].pr = runs[r].pr /\ runs'[r].key = runs[r].key /\ runs'[r].status = runs[r].status
        /\ runs'[r].lease = runs[r].lease /\ runs'[r].attempts = runs[r].attempts /\ runs'[r].ckpt
    BY <1>1, <2>2 DEF RunRow
  <2>4. /\ mine'[l].ckpt /\ mine'[l].head = mine[l].head /\ mine'[l].inline = mine[l].inline
        /\ mine'[l].summary = mine[l].summary
    BY <1>0, <1>1, <2>1 DEF Memory
  <2>5. Alone(l) /\ pc'[l] = "publish" /\ \A q \in Runs : q # r => runs'[q] = runs[q]
    BY <1>0, <2>1 DEF Alone
  <2>6. QED
    BY <1>0, <2>1, <2>3, <2>4, <2>5
<1>3. CASE Record(l)
  <2>1. /\ runs' = [runs EXCEPT ![r].github = TRUE]
        /\ mine' = [mine EXCEPT ![l].github = TRUE]
        /\ pc' = [pc EXCEPT ![l] = IF mine[l].inline THEN "summary" ELSE "finish"]
        /\ hold' = hold /\ pc[l] = "record" /\ UNCHANGED <<now, prs, prLease, hub, posted, stored>>
    BY <1>0, <1>3 DEF Record, Goto, hubVars
  <2>2. runs'[r] = [runs[r] EXCEPT !.github = TRUE]
    BY <1>0, <1>1, <2>1
  <2>3. /\ runs'[r].pr = runs[r].pr /\ runs'[r].key = runs[r].key /\ runs'[r].status = runs[r].status
        /\ runs'[r].lease = runs[r].lease /\ runs'[r].attempts = runs[r].attempts
        /\ runs'[r].ckpt = runs[r].ckpt
    BY <1>1, <2>2 DEF RunRow
  <2>4. /\ mine'[l].ckpt = mine[l].ckpt /\ mine'[l].head = mine[l].head
        /\ mine'[l].inline = mine[l].inline /\ mine'[l].summary = mine[l].summary
    BY <1>0, <1>1, <2>1 DEF Memory
  <2>5. /\ Alone(l) /\ pc'[l] = IF mine[l].inline THEN "summary" ELSE "finish"
        /\ \A q \in Runs : q # r => runs'[q] = runs[q]
    BY <1>0, <2>1 DEF Alone
  <2>6. QED
    BY <1>0, <2>1, <2>3, <2>4, <2>5
<1>4. QED
  BY <1>2, <1>3 DEF Stores

\* A lane that moves on leaves the runs and the leases alone.
LEMMA MoveFacts ==
  ASSUME LaneInv, NEW l \in Lanes, Moves(l)
  PROVE  /\ Alone(l) /\ hold' = hold /\ UNCHANGED <<now, runs, prLease, stored>>
         /\ \A p \in PRs : prs'[p].reviews = prs[p].reviews
<1>0. TypeOK /\ hold[l].pr \in PRs /\ prs \in [PRs -> PRRow]
  BY MovesType, AtWork DEF LaneInv, TypeOK
<1>1. Alone(l)
  BY <1>0
  DEF Moves, GateSuperseded, GatePassed, PublishSuperseded, PublishGo, Gives, Adopt, Post,
         PostRefused, SummaryFind, SummaryEdit, SummaryGone, SummaryCreate, SummarySet, Goto, Alone, TypeOK
<1>2. hold' = hold /\ UNCHANGED <<now, runs, prLease, stored>>
  BY DEF Moves, GateSuperseded, GatePassed, PublishSuperseded, PublishGo, Gives, Adopt, Post,
         PostRefused, SummaryFind, SummaryEdit, SummaryGone, SummaryCreate, SummarySet, rowVars
<1>3. prs' = prs \/ SummaryFind(l) \/ SummarySet(l)
  BY DEF Moves, GateSuperseded, GatePassed, PublishSuperseded, PublishGo, Gives, Adopt, Post,
         PostRefused, SummaryEdit, SummaryGone, SummaryCreate, rowVars
<1>4. \A p \in PRs : prs'[p].reviews = prs[p].reviews
  <2>1. prs' = prs \/ \E c : prs' = [prs EXCEPT ![hold[l].pr].summary = c]
    BY <1>3 DEF SummaryFind, SummarySet
  <2>2. ASSUME NEW c, prs' = [prs EXCEPT ![hold[l].pr].summary = c]
        PROVE  \A p \in PRs : prs'[p].reviews = prs[p].reviews
    BY <1>0, <2>2 DEF PRRow
  <2>3. QED
    BY <2>1, <2>2
<1>5. QED
  BY <1>1, <1>2, <1>4

-----------------------------------------------------------------------------
\* A lane that shares a run, or a pull request, with one that passes the fence does not, and its
\* lease has run out.
LEMMA Overtaken ==
  ASSUME LaneInv, NEW l \in Lanes, NEW m \in Lanes, l # m, pc[l] \in Working, pc[m] \in Working
  PROVE  /\ hold[m].pr = hold[l].pr => hold[m].lease # hold[l].lease
         /\ hold[m].run = hold[l].run /\ Fenced(l) => ~Fenced(m) /\ hold[m].lease <= now
         /\ hold[m].pr = hold[l].pr /\ HeldPR(l) => ~HeldPR(m) /\ hold[m].lease <= now
<1>1. /\ runs[hold[l].run].pr = hold[l].pr /\ runs[hold[m].run].pr = hold[m].pr
      /\ hold[m].lease \in Nat /\ now \in Nat /\ (hold[m].lease > now => Fenced(m) /\ HeldPR(m))
  BY AtWork DEF FencedPR
<1>2. hold[m].pr = hold[l].pr => hold[m].lease # hold[l].lease
  BY DEF LaneInv, OneHolder
<1>3. ASSUME hold[m].run = hold[l].run, Fenced(l) PROVE ~Fenced(m) /\ hold[m].lease <= now
  BY <1>1, <1>2, <1>3 DEF Fenced
<1>4. ASSUME hold[m].pr = hold[l].pr, HeldPR(l) PROVE ~HeldPR(m) /\ hold[m].lease <= now
  BY <1>1, <1>2, <1>4 DEF HeldPR
<1>5. QED
  BY <1>2, <1>3, <1>4

\* What a lane that does not move relies on.
Kept(m) ==
  LET r == hold[m].run p == hold[m].pr IN
  /\ pc'[m] = pc[m] /\ hold'[m] = hold[m] /\ mine'[m] = mine[m]
  /\ pc[m] \in Working =>
       /\ runs'[r].pr = runs[r].pr
       /\ runs'[r].status = "running" /\ runs'[r].lease = hold[m].lease
          => Fenced(m) /\ runs'[r].ckpt = runs[r].ckpt
       /\ prLease'[p] = hold[m].lease => HeldPR(m)
       /\ hold[m].lease > now' =>
            /\ hold[m].lease > now /\ prLease'[p] = prLease[p]
            /\ runs'[r].status = runs[r].status /\ runs'[r].lease = runs[r].lease
       /\ pc[m] \in {"look", "post", "sumwrite"} => now' < hold[m].lease
       /\ pc[m] = "post" => posted'[r] = posted[r]
       /\ hub'[p].made = hub[p].made \/ hub'[p].made = hub[p].made + 1
       /\ hub[p].gone # {} => hub'[p].gone # {}
       /\ pc[m] = "sumwrite" \/ (pc[m] = "sumtouch" /\ HeldPR(m)) => hub'[p].made = hub[p].made

\* It goes on relying on it.
LEMMA KeptOk ==
  ASSUME LaneInv, NEW m \in Lanes, Kept(m)
  PROVE  LaneOk(m)'
<1>0. LaneOk(m)
  BY DEF LaneInv
<1>1. CASE pc[m] \notin Working
  <2>1. pc'[m] = pc[m] /\ hold'[m] = hold[m] /\ mine'[m] = mine[m]
    BY DEF Kept
  <2>2. pc[m] \notin {"engine", "look", "post", "sumwrite"}
    BY <1>1 DEF Working
  <2>3. QED
    BY <1>0, <1>1, <2>1, <2>2 DEF LaneOk, HoldOk, CheckpointOk, PostOk, SummaryOk
<1>2. CASE pc[m] \in Working
  <2>1. HoldOk(m)'
    BY <1>0, <1>2, AtWork DEF LaneOk, HoldOk, Kept, FencedPR, Fenced, HeldPR
  <2>2. CheckpointOk(m)'
    BY <1>0, <1>2 DEF LaneOk, CheckpointOk, Kept, Fenced
  <2>3. PostOk(m)'
    BY <1>0, <1>2 DEF LaneOk, PostOk, Kept
  <2>4. SummaryOk(m)'
    <3>1. hub[hold[m].pr].made \in Nat /\ mine[m].summary \in Nat
      BY <1>2, AtWork DEF LaneInv, TypeOK, OnHub, Memory
    <3>2. QED
      BY <1>0, <1>2, <3>1 DEF LaneOk, SummaryOk, Kept, HeldPR
  <2>5. QED
    BY <2>1, <2>2, <2>3, <2>4 DEF LaneOk
<1>3. QED
  BY <1>1, <1>2

\* No summary is made, and none that was deleted comes back.
SameSummaries == \A p \in PRs : hub'[p].made = hub[p].made /\ (hub[p].gone # {} => hub'[p].gone # {})

\* A step that changes neither the rows of runs, nor the leases, nor what is on GitHub keeps
\* everybody.
LEMMA KeptStill ==
  ASSUME LaneInv, NEW m \in Lanes,
         pc'[m] = pc[m] /\ hold'[m] = hold[m] /\ mine'[m] = mine[m],
         UNCHANGED <<now, runs, prLease, posted>>, SameSummaries
  PROVE  Kept(m)
<1>1. pc[m] \in {"look", "post", "sumwrite"} => now < hold[m].lease
  BY DEF LaneInv, LaneOk, PostOk
<1>2. pc[m] \in Working => hold[m].pr \in PRs /\ hub[hold[m].pr].made \in Nat
  BY AtWork DEF LaneInv, TypeOK, OnHub
<1>3. QED
  BY <1>1, <1>2 DEF Kept, SameSummaries, Fenced, HeldPR

\* A lane that lets go of a run keeps the others.
LEMMA HandsKept ==
  ASSUME LaneInv, NEW l \in Lanes, Hands(l), NEW m \in Lanes, m # l
  PROVE  Kept(m)
<1>0. TypeOK /\ (pc[m] \in {"look", "post", "sumwrite"} => now < hold[m].lease)
  BY DEF LaneInv, LaneOk, PostOk
<1>1. CASE Leaves(l)
  <2>1. pc'[m] = pc[m] /\ hold'[m] = hold[m] /\ mine'[m] = mine[m]
    BY <1>0, <1>1, FreeFacts DEF Leaves, Alone
  <2>2. UNCHANGED <<now, runs, prLease, posted>> /\ SameSummaries
    BY <1>1 DEF Leaves, rowVars, SameSummaries
  <2>3. QED
    BY <2>1, <2>2, KeptStill
<1>2. ASSUME NEW s \in Ends \cup {"queued"}, LetsGo(l, s) PROVE Kept(m)
  <2>1. pc'[m] = pc[m] /\ hold'[m] = hold[m] /\ mine'[m] = mine[m]
    BY <1>0, <1>2, FreeFacts DEF LetsGo, Alone
  <2>2. UNCHANGED <<now, hub, posted>>
    BY <1>2 DEF LetsGo
  <2>3. CASE pc[m] \notin Working
    BY <2>1, <2>3 DEF Kept
  <2>4. CASE pc[m] \in Working
    <3> DEFINE r == hold[m].run
               p == hold[m].pr
    <3>0. /\ r \in Runs /\ p \in PRs /\ hold[m].lease \in Nat /\ hold[m].lease > 0 /\ now \in Nat
          /\ hold[m].lease > now => Fenced(m) /\ HeldPR(m)
      BY <2>4, AtWork DEF FencedPR
    <3>1. CASE r # hold[l].run
      <4>1. runs'[r] = runs[r]
        BY <1>0, <1>2, <3>1 DEF LetsGo, TypeOK
      <4>2. prLease'[p] = prLease[p]
            \/ (prLease'[p] = 0 /\ pc[l] \in Working /\ HeldPR(l) /\ p = hold[l].pr)
        BY <1>0, <1>2, <3>0 DEF LetsGo, TypeOK
      <4>3. prLease'[p] = hold[m].lease => HeldPR(m)
        BY <3>0, <4>2 DEF HeldPR
      <4>4. hold[m].lease > now => prLease'[p] = prLease[p]
        BY <2>4, <3>0, <4>2, Overtaken
      <4>5. QED
        BY <1>0, <2>1, <2>2, <2>4, <4>1, <4>3, <4>4 DEF Kept, Fenced
    <3>2. CASE r = hold[l].run
      <4>1. ~(hold[m].lease > now)
        <5>1. CASE pc[l] \in Working /\ Fenced(l)
          BY <2>4, <3>0, <3>2, <5>1, Overtaken
        <5>2. CASE Takeable(r)
          <6>1. runs[r].lease <= now /\ runs[r].lease \in Nat
            BY <1>0, <3>0, <5>2 DEF Takeable, TypeOK, RunRow
          <6>2. QED
            BY <3>0, <6>1 DEF Fenced
        <5>3. QED
          BY <1>2, <3>2, <5>1, <5>2 DEF LetsGo
      <4>2. runs'[r].pr = runs[r].pr /\ runs'[r].lease = 0
        BY <1>0, <1>2, <3>0, <3>2 DEF LetsGo, TypeOK
      <4>3. prLease'[p] = prLease[p] \/ prLease'[p] = 0
        BY <1>0, <1>2, <3>0 DEF LetsGo, TypeOK
      <4>4. QED
        BY <1>0, <2>1, <2>2, <3>0, <4>1, <4>2, <4>3 DEF Kept, HeldPR
    <3>3. QED
      BY <3>1, <3>2
  <2>5. QED
    BY <2>3, <2>4
<1>3. QED
  BY <1>1, <1>2 DEF Hands

\* So does one that renews.
LEMMA RenewsKept ==
  ASSUME LaneInv, NEW l \in Lanes, Renews(l), NEW m \in Lanes, m # l
  PROVE  Kept(m)
<1>0. TypeOK /\ (pc[m] \in {"look", "post", "sumwrite"} => now < hold[m].lease)
  BY DEF LaneInv, LaneOk, PostOk
<1>1. pc'[m] = pc[m] /\ hold'[m] = hold[m] /\ mine'[m] = mine[m] /\ UNCHANGED <<now, hub, posted>>
      /\ pc[l] \in Working /\ Fenced(l) /\ HeldPR(l)
  BY RenewFacts DEF Alone, FencedPR
<1>2. CASE pc[m] \notin Working
  BY <1>1, <1>2 DEF Kept
<1>3. CASE pc[m] \in Working
  <2> DEFINE r == hold[m].run
             p == hold[m].pr
  <2>0. /\ r \in Runs /\ p \in PRs /\ hold[m].lease \in Nat /\ hold[m].lease > 0 /\ now \in Nat
        /\ hold[m].lease > now => Fenced(m) /\ HeldPR(m)
        /\ now + Lease > now
    BY <1>3, AtWork, LaneAssumption DEF FencedPR
  <2>1. CASE p # hold[l].pr
    <3>1. r # hold[l].run
      BY <1>1, <1>3, <2>1, AtWork
    <3>2. runs'[r] = runs[r] /\ prLease'[p] = prLease[p]
      BY <2>0, <2>1, <3>1, RenewFacts
    <3>3. QED
      BY <1>0, <1>1, <3>2 DEF Kept, Fenced, HeldPR
  <2>2. CASE p = hold[l].pr
    <3>1. ~HeldPR(m) /\ hold[m].lease <= now
      BY <1>1, <1>3, <2>2, Overtaken
    <3>2. prLease'[p] = now + Lease
      BY <2>2, RenewFacts
    <3>3. runs'[r].pr = runs[r].pr /\ (runs'[r] = runs[r] \/ runs'[r].lease = now + Lease)
      BY <2>0, RenewFacts DEF SameRun
    <3>4. QED
      BY <1>0, <1>1, <2>0, <3>1, <3>2, <3>3 DEF Kept, Fenced, HeldPR
  <2>3. QED
    BY <2>1, <2>2
<1>4. QED
  BY <1>2, <1>3

\* And one that claims: what it takes has run out for everybody.
LEMMA ClaimKept ==
  ASSUME LaneInv, NEW l \in Lanes, ClaimPick(l) \/ ClaimTake(l), NEW m \in Lanes, m # l
  PROVE  Kept(m)
<1>0. TypeOK /\ (pc[m] \in {"look", "post", "sumwrite"} => now < hold[m].lease)
  BY DEF LaneInv, LaneOk, PostOk
<1>1. CASE ClaimPick(l)
  <2>1. pc'[m] = pc[m] /\ hold'[m] = hold[m] /\ mine'[m] = mine[m]
    BY <1>0, <1>1 DEF ClaimPick, TypeOK
  <2>2. UNCHANGED <<now, runs, prLease, posted>> /\ SameSummaries
    BY <1>1 DEF ClaimPick, rowVars, hubVars, SameSummaries
  <2>3. QED
    BY <2>1, <2>2, KeptStill
<1>2. CASE ClaimTake(l)
  <2>1. pc'[m] = pc[m] /\ hold'[m] = hold[m] /\ mine'[m] = mine[m] /\ UNCHANGED <<now, hub, posted>>
    BY <1>2, TakeFacts DEF Alone
  <2>2. CASE pc[m] \notin Working
    BY <2>1, <2>2 DEF Kept
  <2>3. CASE pc[m] \in Working
    <3> DEFINE r == hold[m].run
               p == hold[m].pr
               t == hold[l].run
    <3>0. /\ r \in Runs /\ p \in PRs /\ hold[m].lease \in Nat /\ hold[m].lease > 0 /\ now \in Nat
          /\ hold[m].lease > now => Fenced(m) /\ HeldPR(m)
          /\ now + Lease > now /\ runs[r].pr = p
      BY <2>3, AtWork, LaneAssumption DEF FencedPR
    <3>1. CASE p # runs[t].pr
      <4>1. runs'[r] = runs[r] /\ prLease'[p] = prLease[p]
        BY <1>2, <3>0, <3>1, TakeFacts
      <4>2. QED
        BY <1>0, <2>1, <4>1 DEF Kept, Fenced, HeldPR
    <3>2. CASE p = runs[t].pr
      <4>1. prLease[p] <= now /\ prLease'[p] = now + Lease /\ prLease[p] \in Nat
        BY <1>0, <1>2, <3>0, <3>2, TakeFacts DEF TypeOK
      <4>2. hold[m].lease <= now
        BY <3>0, <4>1 DEF HeldPR
      <4>3. runs'[r].pr = runs[r].pr /\ (runs'[r] = runs[r] \/ runs'[r].lease = now + Lease)
        BY <1>2, <3>0, TakeFacts
      <4>4. QED
        BY <1>0, <2>1, <3>0, <4>1, <4>2, <4>3 DEF Kept, Fenced, HeldPR
    <3>3. QED
      BY <3>1, <3>2
  <2>4. QED
    BY <2>2, <2>3
<1>3. QED
  BY <1>1, <1>2

\* And one that stores.
LEMMA StoresKept ==
  ASSUME LaneInv, NEW l \in Lanes, Stores(l), NEW m \in Lanes, m # l
  PROVE  Kept(m)
<1>0. TypeOK /\ (pc[m] \in {"look", "post", "sumwrite"} => now < hold[m].lease)
  BY DEF LaneInv, LaneOk, PostOk
<1>1. /\ pc'[m] = pc[m] /\ hold'[m] = hold[m] /\ mine'[m] = mine[m]
      /\ UNCHANGED <<now, prLease, hub, posted>> /\ pc[l] \in Working /\ Fenced(l)
  BY StoreFacts DEF Alone, FencedPR, Working
<1>2. CASE pc[m] \notin Working
  BY <1>1, <1>2 DEF Kept
<1>3. CASE pc[m] \in Working
  <2> DEFINE r == hold[m].run
  <2>0. r \in Runs
    BY <1>3, AtWork
  <2>1. CASE r # hold[l].run
    <3>1. runs'[r] = runs[r]
      BY <2>0, <2>1, StoreFacts
    <3>2. QED
      BY <1>0, <1>1, <3>1 DEF Kept, Fenced, HeldPR
  <2>2. CASE r = hold[l].run
    <3>1. ~Fenced(m)
      BY <1>1, <1>3, <2>2, Overtaken
    <3>2. /\ runs'[r].pr = runs[r].pr /\ runs'[r].status = runs[r].status
          /\ runs'[r].lease = runs[r].lease
      BY <2>2, StoreFacts
    <3>3. QED
      BY <1>0, <1>1, <3>1, <3>2 DEF Kept, Fenced, HeldPR
  <2>3. QED
    BY <2>1, <2>2
<1>4. QED
  BY <1>2, <1>3

\* And one that goes on, though it writes to GitHub: of the lanes on a pull request, one is within
\* its lease.
LEMMA MovesKept ==
  ASSUME LaneInv, NEW l \in Lanes, Moves(l), NEW m \in Lanes, m # l
  PROVE  Kept(m)
<1>0. TypeOK /\ PostOk(m) /\ PostOk(l) /\ pc[l] \in Working
  BY MovesType DEF LaneInv, LaneOk
<1>1. pc'[m] = pc[m] /\ hold'[m] = hold[m] /\ mine'[m] = mine[m] /\ UNCHANGED <<now, runs, prLease>>
  BY MoveFacts DEF Alone
<1>2. CASE pc[m] \notin Working
  BY <1>1, <1>2 DEF Kept
<1>3. CASE pc[m] \in Working
  <2>0. /\ hold[m].run \in Runs /\ hold[m].pr \in PRs /\ hold[m].lease \in Nat /\ now \in Nat
        /\ hold[m].lease > now => Fenced(m) /\ HeldPR(m)
        /\ hold[l].run \in Runs /\ hold[l].pr \in PRs /\ hold[l].lease \in Nat
        /\ hold[l].lease > now => Fenced(l) /\ HeldPR(l)
    BY <1>0, <1>3, AtWork DEF FencedPR
  <2>1. pc[m] = "post" => posted'[hold[m].run] = posted[hold[m].run]
    <3>1. CASE Post(l)
      <4>1. HeldPR(l) /\ Fenced(l)
        BY <1>0, <2>0, <3>1 DEF Post, PostOk
      <4>2. pc[m] = "post" => hold[m].run # hold[l].run
        BY <1>0, <1>3, <2>0, <4>1, Overtaken DEF PostOk
      <4>3. posted' = [posted EXCEPT ![hold[l].run] = @ + 1] /\ posted \in [Runs -> Nat]
        BY <1>0, <3>1 DEF Post, TypeOK
      <4>4. QED
        BY <2>0, <4>2, <4>3
    <3>2. CASE ~Post(l)
      <4>1. posted' = posted
        BY <3>2
        DEF Moves, GateSuperseded, GatePassed, PublishSuperseded, PublishGo, Gives, Adopt, PostRefused,
            SummaryFind, SummaryEdit, SummaryGone, SummaryCreate, SummarySet, hubVars
      <4>2. QED
        BY <4>1
    <3>3. QED
      BY <3>1, <3>2
  <2>2. /\ hub'[hold[m].pr].made = hub[hold[m].pr].made \/ hub'[hold[m].pr].made = hub[hold[m].pr].made + 1
        /\ hub'[hold[m].pr].gone = hub[hold[m].pr].gone
        /\ pc[m] = "sumwrite" \/ (pc[m] = "sumtouch" /\ HeldPR(m))
           => hub'[hold[m].pr].made = hub[hold[m].pr].made
    <3>1. CASE SummaryCreate(l)
      <4>1. HeldPR(l)
        BY <1>0, <2>0, <3>1 DEF SummaryCreate, PostOk
      <4>2. hub' = [hub EXCEPT ![hold[l].pr].made = @ + 1] /\ hub \in [PRs -> OnHub]
        BY <1>0, <3>1 DEF SummaryCreate, TypeOK
      <4>3. pc[m] = "sumwrite" \/ (pc[m] = "sumtouch" /\ HeldPR(m)) => hold[m].pr # hold[l].pr
        BY <1>0, <1>3, <2>0, <4>1, Overtaken DEF PostOk
      <4>4. /\ hold[m].pr # hold[l].pr => hub'[hold[m].pr] = hub[hold[m].pr]
            /\ hold[m].pr = hold[l].pr => hub'[hold[m].pr].made = hub[hold[m].pr].made + 1
            /\ hub'[hold[m].pr].gone = hub[hold[m].pr].gone
        BY <2>0, <4>2 DEF OnHub
      <4>5. QED
        BY <4>3, <4>4
    <3>2. CASE ~SummaryCreate(l)
      <4>1. hub' = hub
        BY <3>2
        DEF Moves, GateSuperseded, GatePassed, PublishSuperseded, PublishGo, Gives, Adopt, Post, PostRefused,
            SummaryFind, SummaryEdit, SummaryGone, SummarySet, hubVars
      <4>2. QED
        BY <4>1
    <3>3. QED
      BY <3>1, <3>2
  <2>3. QED
    BY <1>0, <1>1, <2>1, <2>2 DEF Kept, Fenced, HeldPR, PostOk
<1>4. QED
  BY <1>2, <1>3

\* What a delivery or a sweep does to a run that there is: it stays the same run, and if it does not
\* keep its status and its lease it has been ended, which no run whose lease is live has.
OutsideRow(r) ==
  /\ runs'[r].pr = runs[r].pr /\ runs'[r].key = runs[r].key /\ runs'[r].ckpt = runs[r].ckpt
  /\ runs'[r].attempts = runs[r].attempts
  /\ \/ runs'[r].status = runs[r].status /\ runs'[r].lease = runs[r].lease
     \/ /\ runs'[r].lease = 0 /\ runs'[r].status \in {"cancelled", "failed"}
        /\ runs[r].status \in Unended /\ ~Live(r)

\* CancelReviewRuns, on one row.
LEMMA CancelRow ==
  ASSUME LaneInv, NEW p \in PRs, runs' = Cancelled(p), NEW r \in Runs
  PROVE  OutsideRow(r) /\ (runs[r].status = "none" => runs'[r] = runs[r])
<1>0. runs[r] \in RunRow /\ runs[r].lease \in Nat /\ now \in Nat
  BY DEF LaneInv, TypeOK, RunRow
<1>1. CASE runs[r].pr = p /\ (runs[r].status = "queued" \/ (runs[r].status = "running" /\ runs[r].lease <= now))
  <2>1. runs'[r] = [runs[r] EXCEPT !.status = "cancelled", !.cancel = TRUE, !.lease = 0]
    BY <1>1 DEF Cancelled
  <2>2. ~Live(r) /\ runs[r].status \in Unended /\ runs[r].status # "none"
    BY <1>0, <1>1 DEF Live, Unended
  <2>3. QED
    BY <1>0, <2>1, <2>2 DEF OutsideRow, RunRow
<1>2. CASE /\ runs[r].pr = p /\ runs[r].status = "running"
           /\ ~(runs[r].status = "queued" \/ (runs[r].status = "running" /\ runs[r].lease <= now))
  <2>1. runs'[r] = [runs[r] EXCEPT !.cancel = TRUE]
    BY <1>2 DEF Cancelled
  <2>2. QED
    BY <1>0, <1>2, <2>1 DEF OutsideRow, RunRow
<1>3. CASE \/ runs[r].pr # p
           \/ runs[r].status # "queued" /\ runs[r].status # "running"
  <2>1. runs'[r] = runs[r]
    BY <1>3 DEF Cancelled
  <2>2. QED
    BY <2>1 DEF OutsideRow
<1>4. QED
  BY <1>1, <1>2, <1>3

\* sweepReviewRuns, on one row.
LEMMA SweepRow ==
  ASSUME LaneInv, Sweep, NEW r \in Runs
  PROVE  OutsideRow(r) /\ (runs[r].status = "none" => runs'[r] = runs[r])
<1>0. runs[r] \in RunRow /\ runs[r].lease \in Nat /\ now \in Nat
  BY DEF LaneInv, TypeOK, RunRow
<1>1. CASE Swept(r)
  <2>1. \/ runs'[r] = [runs[r] EXCEPT !.status = "cancelled", !.lease = 0]
        \/ runs'[r] = [runs[r] EXCEPT !.status = "failed", !.lease = 0]
    <3>1. runs'[r] = [runs[r] EXCEPT !.status = IF runs[r].cancel THEN "cancelled" ELSE "failed", !.lease = 0]
      BY <1>1 DEF Sweep
    <3>2. QED
      BY <3>1
  <2>2. ~Live(r) /\ runs[r].status \in Unended /\ runs[r].status # "none"
    BY <1>0, <1>1 DEF Swept, Live, Unended
  <2>3. QED
    BY <1>0, <2>1, <2>2 DEF OutsideRow, RunRow
<1>2. CASE ~Swept(r)
  <2>1. runs'[r] = runs[r]
    BY <1>2 DEF Sweep
  <2>2. QED
    BY <2>1 DEF OutsideRow
<1>3. QED
  BY <1>1, <1>2

\* A new run takes a row that had none, and a row that has one stays as it is.
LEMMA QueuedApart ==
  ASSUME LaneInv, NEW p \in PRs, NEW key \in Keys, NEW q \in Runs, Queued(p, key, q),
         NEW r \in Runs, r # q
  PROVE  runs'[r] = runs[r]
BY DEF LaneInv, TypeOK, Queued

\* A delivery and a sweep, on a row that is a run.
LEMMA OutsideRows ==
  ASSUME LaneInv, Routes \/ Sweep, NEW r \in Runs, runs[r].status # "none"
  PROVE  OutsideRow(r)
<1>1. ASSUME NEW q \in Runs, NEW p \in PRs, NEW key \in Keys, Queued(p, key, q)
      PROVE  runs'[r] = runs[r]
  <2>1. q # r
    BY <1>1 DEF Queued
  <2>2. QED
    BY <1>1, <2>1, QueuedApart
<1>2. CASE runs'[r] = runs[r]
  BY <1>2 DEF OutsideRow
<1>3. CASE Sweep
  BY <1>3, SweepRow
<1>4. CASE Routes
  BY <1>1, <1>2, <1>4, CancelRow, RouteShape
<1>5. QED
  BY <1>3, <1>4

\* The dispatcher, the sweep, GitHub and the clock keep every lane: a cancel or a sweep touches no
\* run whose lease is live.
LEMMA OutsideKept ==
  ASSUME LaneInv, NEW m \in Lanes, Routes \/ Sweep \/ Tick \/ \E p \in PRs : People(p)
  PROVE  Kept(m)
<1>0. TypeOK /\ PostOk(m)
  BY DEF LaneInv, LaneOk
<1>1. ASSUME NEW p \in PRs, People(p) PROVE Kept(m)
  <2>1. UNCHANGED <<now, runs, prLease, posted, pc, hold, mine>> /\ SameSummaries
    BY <1>1, HubType DEF SameSummaries, rowVars, laneVars
  <2>2. QED
    BY <2>1, KeptStill
<1>2. CASE Routes \/ Sweep
  <2>1. UNCHANGED <<now, prLease, hub, posted, pc, hold, mine>>
    BY <1>2, RouteShape DEF Sweep, laneVars, hubVars
  <2>2. CASE pc[m] \notin Working
    BY <2>1, <2>2 DEF Kept
  <2>3. CASE pc[m] \in Working
    <3> DEFINE r == hold[m].run
    <3>0. /\ r \in Runs /\ runs[r] \in RunRow /\ runs[r].pr \in PRs /\ RowOk(r) /\ now \in Nat
          /\ hold[m].lease \in Nat /\ hold[m].lease > 0 /\ (hold[m].lease > now => Fenced(m))
      BY <2>3, AtWork DEF FencedPR
    <3>1. runs[r].status # "none"
      BY <3>0, LaneAssumption DEF RowOk, NoRun
    <3>2. OutsideRow(r)
      BY <1>2, <3>0, <3>1, OutsideRows
    <3>3. QED
      BY <1>0, <2>1, <3>0, <3>2 DEF OutsideRow, Live, Kept, Fenced, HeldPR, PostOk
  <2>4. QED
    BY <2>2, <2>3
<1>3. CASE Tick
  <2>1. UNCHANGED <<runs, prLease, hub, posted, pc, hold, mine>> /\ now' = now + 1 /\ Prompt(m) /\ now \in Nat
    BY <1>0, <1>3 DEF Tick, rowVars, laneVars, hubVars, TypeOK
  <2>2. pc[m] \in Working => hold[m].lease \in Nat
    BY AtWork
  <2>3. QED
    BY <2>1, <2>2 DEF Kept, Fenced, HeldPR, Prompt
<1>4. QED
  BY <1>1, <1>2, <1>3

-----------------------------------------------------------------------------
\* The lane that moves.

\* A lane that carries nothing relies on nothing.
LEMMA FreeOk ==
  ASSUME NEW l \in Lanes, pc'[l] = "idle", hold'[l] = NoHold, mine'[l] = Blank
  PROVE  LaneOk(l)'
BY DEF LaneOk, HoldOk, CheckpointOk, PostOk, SummaryOk, Working

\* A lane that renews is within its lease again, and carries what it did.
LEMMA RenewsOk ==
  ASSUME LaneInv, NEW l \in Lanes, Renews(l)
  PROVE  LaneOk(l)'
<1>0. /\ LaneOk(l) /\ pc[l] \in Working /\ Fenced(l) /\ HeldPR(l) /\ now \in Nat /\ Lease \in Nat /\ Lease > 0
      /\ pc'[l] \in Working /\ UNCHANGED <<now, hub, posted>>
  BY RenewFacts, AtWork, LaneAssumption DEF LaneInv, FencedPR
<1>1. /\ hold'[l].run = hold[l].run /\ hold'[l].pr = hold[l].pr /\ hold'[l].lease = now + Lease
      /\ SameRun(hold[l].run) /\ runs'[hold[l].run].lease = now + Lease
      /\ prLease'[hold[l].pr] = now + Lease
  BY RenewFacts
<1>2. /\ mine'[l].head = mine[l].head /\ mine'[l].ckpt = mine[l].ckpt
      /\ mine'[l].inline = mine[l].inline /\ mine'[l].summary = mine[l].summary
  BY RenewFacts
<1>3. \/ pc'[l] = pc[l] \/ (pc[l] = "touch" /\ pc'[l] = "look")
      \/ (pc[l] = "sumtouch" /\ pc'[l] = "sumwrite")
  BY RenewFacts
<1>4. HoldOk(l)'
  <2>1. FencedPR(l)'
    BY <1>0, <1>1 DEF FencedPR, Fenced, HeldPR, SameRun
  <2>2. pc'[l] \notin {"idle", "picked"}
    BY <1>0 DEF Working
  <2>3. QED
    BY <1>0, <1>1, <1>2, <2>1, <2>2 DEF LaneOk, HoldOk, SameRun
<1>5. CheckpointOk(l)'
  BY <1>0, <1>1, <1>2, <1>3 DEF LaneOk, CheckpointOk, Fenced, SameRun, Working
<1>6. PostOk(l)'
  BY <1>0, <1>1, <1>3 DEF LaneOk, PostOk
<1>7. SummaryOk(l)'
  BY <1>0, <1>1, <1>2, <1>3 DEF LaneOk, SummaryOk, HeldPR
<1>8. QED
  BY <1>4, <1>5, <1>6, <1>7 DEF LaneOk

\* A lane that claims starts from what the row says.
LEMMA ClaimOk ==
  ASSUME LaneInv, NEW l \in Lanes, ClaimPick(l) \/ ClaimTake(l)
  PROVE  LaneOk(l)'
<1>0. LaneOk(l) /\ TypeOK /\ now \in Nat
  BY DEF LaneInv, TypeOK
<1>1. CASE ClaimPick(l)
  <2>1. PICK r \in Runs : hold' = [hold EXCEPT ![l].run = r]
    BY <1>1 DEF ClaimPick
  <2>2. hold'[l].run \in Runs /\ hold'[l].pr = NoPR /\ hold'[l].lease = 0 /\ pc'[l] = "picked" /\ mine'[l] = Blank
    BY <1>0, <1>1, <2>1 DEF ClaimPick, TypeOK, Hold, LaneOk, HoldOk, NoHold, Working
  <2>3. QED
    BY <2>2 DEF LaneOk, HoldOk, CheckpointOk, PostOk, SummaryOk, Working
<1>2. CASE ClaimTake(l)
  <2>1. /\ pc'[l] = "gate" /\ hold'[l].run = hold[l].run /\ hold[l].run \in Runs
        /\ hold'[l].pr = runs[hold[l].run].pr /\ hold'[l].pr \in PRs
        /\ hold'[l].lease = now + Lease /\ runs'[hold[l].run].pr = runs[hold[l].run].pr
        /\ runs'[hold[l].run].status = "running" /\ runs'[hold[l].run].lease = now + Lease
        /\ prLease'[hold'[l].pr] = now + Lease /\ runs'[hold[l].run].ckpt = runs[hold[l].run].ckpt
    BY <1>2, TakeFacts
  <2>2. mine'[l].head > 0 /\ mine'[l].ckpt = runs[hold[l].run].ckpt /\ mine'[l].summary = 0
    BY <1>2, TakeFacts, LaneAssumption DEF Heads
  <2>3. now' = now /\ now + Lease > 0 /\ pc'[l] \in Working
    BY <1>0, <1>2, <2>1, TakeFacts, LaneAssumption DEF Working
  <2>4. HoldOk(l)'
    BY <2>1, <2>2, <2>3 DEF HoldOk, FencedPR, Fenced, HeldPR
  <2>5. CheckpointOk(l)' /\ PostOk(l)' /\ SummaryOk(l)'
    <3>1. hub' = hub /\ 0 <= hub[hold'[l].pr].made
      BY <1>0, <1>2, <2>1, TakeFacts DEF TypeOK, OnHub
    <3>2. QED
      BY <2>1, <2>2, <3>1 DEF CheckpointOk, PostOk, SummaryOk
  <2>6. QED
    BY <2>4, <2>5 DEF LaneOk
<1>3. QED
  BY <1>1, <1>2

\* A lane that has stored knows what the row says.
LEMMA StoresOk ==
  ASSUME LaneInv, NEW l \in Lanes, Stores(l)
  PROVE  LaneOk(l)'
<1>0. /\ LaneOk(l) /\ pc[l] \in {"engine", "record"} /\ pc[l] \in Working /\ Fenced(l) /\ HeldPR(l)
      /\ hold' = hold /\ UNCHANGED <<now, prLease, hub, posted>>
  BY StoreFacts DEF LaneInv, FencedPR, Working
<1>1. /\ runs'[hold[l].run].pr = runs[hold[l].run].pr
      /\ runs'[hold[l].run].status = runs[hold[l].run].status
      /\ runs'[hold[l].run].lease = runs[hold[l].run].lease
  BY StoreFacts
<1>2. mine'[l].head = mine[l].head /\ mine'[l].inline = mine[l].inline /\ mine'[l].summary = mine[l].summary
  BY StoreFacts
<1>3. \/ pc'[l] = "publish" /\ mine'[l].ckpt = TRUE /\ runs'[hold[l].run].ckpt = TRUE
      \/ /\ pc[l] = "record" /\ pc'[l] = (IF mine[l].inline THEN "summary" ELSE "finish")
         /\ mine'[l].ckpt = mine[l].ckpt /\ runs'[hold[l].run].ckpt = runs[hold[l].run].ckpt
  <2>1. TypeOK'
    BY StoresType
  <2>2. hold[l].run \in Runs
    BY <1>0, AtWork
  <2>3. mine'[l].ckpt \in BOOLEAN /\ runs'[hold[l].run].ckpt \in BOOLEAN
    BY <2>1, <2>2 DEF TypeOK, Memory, RunRow
  <2>4. QED
    BY <1>0, <2>3, StoreFacts
<1>4. pc'[l] \in {"publish", "summary", "finish"} /\ pc'[l] \in Working
  BY <1>3 DEF Working
<1>5. HoldOk(l)'
  BY <1>0, <1>1, <1>2, <1>4 DEF LaneOk, HoldOk, FencedPR, Fenced, HeldPR
<1>6. CheckpointOk(l)'
  BY <1>0, <1>1, <1>3, <1>4 DEF LaneOk, CheckpointOk, Fenced
<1>7. PostOk(l)'
  BY <1>4 DEF PostOk
<1>8. SummaryOk(l)'
  BY <1>0, <1>2, <1>3, <1>4 DEF LaneOk, SummaryOk
<1>9. QED
  BY <1>5, <1>6, <1>7, <1>8 DEF LaneOk

\* One that goes on carries what the next step relies on.
LEMMA MovesOk ==
  ASSUME LaneInv, NEW l \in Lanes, Moves(l)
  PROVE  LaneOk(l)'
<1> DEFINE r == hold[l].run
           p == hold[l].pr
<1>0. /\ TypeOK /\ HoldOk(l) /\ CheckpointOk(l) /\ PostOk(l) /\ SummaryOk(l) /\ SummaryRead
      /\ pc[l] \in Working /\ pc'[l] \in Working /\ hold' = hold /\ UNCHANGED <<now, runs, prLease>>
  BY MovesType, MoveFacts DEF LaneInv, LaneOk
<1>1. /\ r \in Runs /\ p \in PRs /\ mine[l] \in Memory /\ mine[l].head \in Heads /\ hub[p] \in OnHub
      /\ hub[p].head \in Heads /\ hub[p].made \in Nat /\ mine[l].summary \in Nat
      /\ posted[r] \in Nat
      /\ mine \in [Lanes -> Memory] /\ pc \in [Lanes -> {"idle", "picked"} \cup Working]
  BY <1>0, AtWork DEF TypeOK, OnHub, Memory
<1>2. ASSUME mine'[l].head \in Heads PROVE HoldOk(l)'
  <2>1. mine'[l].head > 0
    BY <1>2, LaneAssumption DEF Heads
  <2>2. pc'[l] \notin {"idle", "picked"}
    BY <1>0 DEF Working
  <2>3. QED
    BY <1>0, <2>1, <2>2 DEF HoldOk, FencedPR, Fenced, HeldPR
<1>3. CASE GatePassed(l)
  <2> DEFINE head == IF mine[l].ckpt THEN mine[l].head ELSE hub[p].head
  <2>1. /\ mine' = [mine EXCEPT ![l].summary = prs[p].summary, ![l].head = head] /\ pc[l] = "gate"
        /\ pc'[l] = (IF mine[l].ckpt THEN "publish" ELSE "engine") /\ hub' = hub
    BY <1>1, <1>3 DEF GatePassed, Goto, hubVars
  <2>2. head \in Heads
    BY <1>1
  <2> HIDE DEF head
  <2>3. mine'[l].head \in Heads /\ mine'[l].ckpt = mine[l].ckpt /\ mine'[l].summary = prs[p].summary
    BY <1>1, <2>1, <2>2 DEF Memory
  <2>4. CheckpointOk(l)'
    BY <1>0, <2>1, <2>3 DEF CheckpointOk, Fenced
  <2>5. PostOk(l)' /\ SummaryOk(l)'
    BY <1>0, <1>1, <2>1, <2>3 DEF PostOk, SummaryOk, SummaryRead
  <2>6. QED
    BY <1>2, <2>3, <2>4, <2>5 DEF LaneOk
<1>4. CASE PublishGo(l)
  <2>1. PICK inline \in BOOLEAN :
          /\ mine' = [mine EXCEPT ![l].inline = inline]
          /\ pc'[l] = AfterPublish(l, inline) /\ pc[l] = "publish" /\ hub' = hub
    BY <1>1, <1>4 DEF PublishGo, Goto, hubVars
  <2>2. /\ mine'[l].head = mine[l].head /\ mine'[l].ckpt = mine[l].ckpt
        /\ mine'[l].summary = mine[l].summary /\ mine'[l].inline = inline
    BY <1>1, <2>1 DEF Memory
  <2>3. pc'[l] = "summary" \/ (pc'[l] = "touch" /\ inline)
    BY <2>1 DEF AfterPublish
  <2>4. CheckpointOk(l)'
    BY <1>0, <2>1, <2>2, <2>3 DEF CheckpointOk, Fenced
  <2>5. PostOk(l)' /\ SummaryOk(l)'
    BY <1>0, <2>1, <2>2, <2>3 DEF PostOk, SummaryOk
  <2>6. QED
    BY <1>1, <1>2, <2>2, <2>4, <2>5 DEF LaneOk
<1>5. CASE Gives(l)
  <2>1. mine' = mine /\ hub' = hub /\ pc'[l] = "finish" /\ ~mine[l].inline
        /\ pc[l] \in {"touch", "look", "post", "unheard"}
    BY <1>1, <1>5 DEF Gives, Goto, hubVars
  <2>2. CheckpointOk(l)' /\ PostOk(l)'
    BY <1>0, <2>1 DEF CheckpointOk, PostOk, Fenced
  <2>3. SummaryOk(l)'
    BY <1>0, <2>1 DEF SummaryOk
  <2>4. QED
    BY <1>1, <1>2, <2>1, <2>2, <2>3 DEF LaneOk
<1>6. CASE Adopt(l)
  <2>1. mine' = mine /\ hub' = hub /\ posted' = posted /\ pc[l] = "look"
    BY <1>6 DEF Adopt, hubVars
  <2>2. \/ pc'[l] = "record"
        \/ pc'[l] = "finish" /\ ~mine[l].inline
        \/ pc'[l] = "post" /\ posted[r] = 0
    BY <1>1, <1>6 DEF Adopt, Goto
  <2>3. CheckpointOk(l)' /\ PostOk(l)'
    BY <1>0, <2>1, <2>2 DEF CheckpointOk, PostOk, Fenced
  <2>4. SummaryOk(l)'
    BY <1>0, <2>1, <2>2 DEF SummaryOk
  <2>5. QED
    BY <1>1, <1>2, <2>1, <2>3, <2>4 DEF LaneOk
<1>7. CASE Post(l)
  <2>1. mine' = mine /\ hub' = hub /\ pc[l] = "post" /\ pc'[l] \in {"record", "unheard"}
    BY <1>1, <1>7 DEF Post, Goto
  <2>2. CheckpointOk(l)' /\ PostOk(l)'
    BY <1>0, <2>1 DEF CheckpointOk, PostOk, Fenced
  <2>3. SummaryOk(l)'
    BY <1>0, <2>1 DEF SummaryOk
  <2>4. QED
    BY <1>1, <1>2, <2>1, <2>2, <2>3 DEF LaneOk
<1>8. CASE PostRefused(l)
  <2>1. /\ mine' = [mine EXCEPT ![l].inline = FALSE] /\ hub' = hub /\ pc[l] = "post"
        /\ pc'[l] = "summary"
    BY <1>1, <1>8 DEF PostRefused, Goto, hubVars
  <2>2. /\ mine'[l].head = mine[l].head /\ mine'[l].ckpt = mine[l].ckpt
        /\ mine'[l].summary = mine[l].summary
    BY <1>1, <2>1 DEF Memory
  <2>3. CheckpointOk(l)' /\ PostOk(l)'
    BY <1>0, <2>1, <2>2 DEF CheckpointOk, PostOk, Fenced
  <2>4. SummaryOk(l)'
    BY <1>0, <2>1, <2>2 DEF SummaryOk
  <2>5. QED
    BY <1>1, <1>2, <2>2, <2>3, <2>4 DEF LaneOk
<1>9. CASE SummaryFind(l)
  <2>1. hub' = hub /\ pc[l] = "summary" /\ pc'[l] = "sumtouch"
    BY <1>1, <1>9 DEF SummaryFind, Goto, hubVars
  <2>2. CASE mine[l].summary = 0 /\ Comments(p) # {}
    <3>1. PICK c \in Comments(p) : mine' = [mine EXCEPT ![l].summary = c]
      BY <1>9, <2>2 DEF SummaryFind
    <3>2. /\ mine'[l].head = mine[l].head /\ mine'[l].ckpt = mine[l].ckpt
          /\ mine'[l].summary = c /\ c # 0 /\ c <= hub[p].made
      BY <1>1, <3>1 DEF Memory, Comments
    <3>3. CheckpointOk(l)' /\ PostOk(l)'
      BY <1>0, <2>1, <3>2 DEF CheckpointOk, PostOk, Fenced
    <3>4. SummaryOk(l)'
      BY <1>0, <2>1, <3>2 DEF SummaryOk
    <3>5. QED
      BY <1>1, <1>2, <3>2, <3>3, <3>4 DEF LaneOk
  <2>3. CASE ~(mine[l].summary = 0 /\ Comments(p) # {})
    <3>1. mine' = mine
      BY <1>9, <2>3 DEF SummaryFind
    <3>2. CheckpointOk(l)' /\ PostOk(l)'
      BY <1>0, <2>1, <3>1 DEF CheckpointOk, PostOk, Fenced
    <3>3. mine[l].summary = 0 => hub[p].made = 0 \/ hub[p].gone # {}
      BY <1>1, <2>3 DEF Comments
    <3>4. SummaryOk(l)'
      BY <1>0, <2>1, <3>1, <3>3 DEF SummaryOk
    <3>5. QED
      BY <1>1, <1>2, <3>1, <3>2, <3>4 DEF LaneOk
  <2>4. QED
    BY <2>2, <2>3
<1>10. CASE SummaryEdit(l)
  <2>1. /\ mine' = mine /\ hub' = hub /\ pc[l] = "sumwrite" /\ mine[l].summary \in Comments(p)
        /\ pc'[l] \in {"finish", "touch"}
    BY <1>1, <1>10 DEF SummaryEdit, AfterSummary, Goto, hubVars
  <2>2. CheckpointOk(l)' /\ PostOk(l)'
    BY <1>0, <2>1 DEF CheckpointOk, PostOk, Fenced
  <2>3. SummaryOk(l)'
    <3>1. hub[p].made > 0
      BY <1>1, <2>1 DEF Comments
    <3>2. QED
      BY <1>0, <2>1, <3>1 DEF SummaryOk
  <2>4. QED
    BY <1>1, <1>2, <2>1, <2>2, <2>3 DEF LaneOk
<1>11. CASE SummaryGone(l)
  <2>1. /\ mine' = [mine EXCEPT ![l].summary = 0] /\ hub' = hub /\ pc[l] = "sumwrite"
        /\ mine[l].summary # 0 /\ mine[l].summary \notin Comments(p) /\ pc'[l] = "sumtouch"
    BY <1>1, <1>11 DEF SummaryGone, Goto, hubVars
  <2>2. /\ mine'[l].head = mine[l].head /\ mine'[l].ckpt = mine[l].ckpt
        /\ mine'[l].summary = 0
    BY <1>1, <2>1 DEF Memory
  <2>3. CheckpointOk(l)' /\ PostOk(l)'
    BY <1>0, <2>1, <2>2 DEF CheckpointOk, PostOk, Fenced
  <2>4. SummaryOk(l)'
    <3>1. mine[l].summary <= hub[p].made
      BY <1>0 DEF SummaryOk
    <3>2. hub[p].gone # {}
      BY <1>1, <2>1, <3>1 DEF Comments
    <3>3. QED
      BY <1>0, <1>1, <2>1, <2>2, <3>2 DEF SummaryOk
  <2>5. QED
    BY <1>1, <1>2, <2>2, <2>3, <2>4 DEF LaneOk
<1>12. CASE SummaryCreate(l)
  <2>1. /\ mine' = [mine EXCEPT ![l].summary = hub[p].made + 1] /\ hub' = [hub EXCEPT ![p].made = @ + 1]
        /\ pc[l] = "sumwrite" /\ pc'[l] = "sumset" /\ hub \in [PRs -> OnHub]
    BY <1>0, <1>1, <1>12 DEF SummaryCreate, Goto, TypeOK
  <2>2. hub'[p].made = hub[p].made + 1
    BY <1>1, <2>1 DEF OnHub
  <2>3. /\ mine'[l].head = mine[l].head /\ mine'[l].ckpt = mine[l].ckpt
        /\ mine'[l].summary = hub[p].made + 1
    BY <1>1, <2>1 DEF Memory
  <2>4. CheckpointOk(l)' /\ PostOk(l)'
    BY <1>0, <2>1, <2>3 DEF CheckpointOk, PostOk, Fenced
  <2>5. SummaryOk(l)'
    BY <1>0, <1>1, <2>1, <2>2, <2>3 DEF SummaryOk
  <2>6. QED
    BY <1>1, <1>2, <2>3, <2>4, <2>5 DEF LaneOk
<1>13. CASE SummarySet(l)
  <2>1. mine' = mine /\ hub' = hub /\ pc[l] = "sumset" /\ pc'[l] \in {"finish", "touch"}
    BY <1>1, <1>13 DEF SummarySet, AfterSummary, Goto, hubVars
  <2>2. CheckpointOk(l)' /\ PostOk(l)'
    BY <1>0, <2>1 DEF CheckpointOk, PostOk, Fenced
  <2>3. SummaryOk(l)'
    BY <1>0, <2>1 DEF SummaryOk
  <2>4. QED
    BY <1>1, <1>2, <2>1, <2>2, <2>3 DEF LaneOk
<1>14. CASE GateSuperseded(l) \/ PublishSuperseded(l)
  <2>1. mine' = mine /\ hub' = hub /\ pc'[l] = "aside"
    BY <1>1, <1>14 DEF GateSuperseded, PublishSuperseded, Goto, hubVars
  <2>2. CheckpointOk(l)' /\ PostOk(l)'
    BY <1>0, <2>1 DEF CheckpointOk, PostOk, Fenced
  <2>3. SummaryOk(l)'
    BY <1>0, <2>1 DEF SummaryOk
  <2>4. QED
    BY <1>1, <1>2, <2>1, <2>2, <2>3 DEF LaneOk
<1>15. QED
  BY <1>3, <1>4, <1>5, <1>6, <1>7, <1>8, <1>9, <1>10, <1>11, <1>12, <1>13, <1>14 DEF Moves

\* A lane's step keeps what every lane relies on, its own included.
LEMMA LaneStepOk ==
  ASSUME LaneInv, NEW l \in Lanes, LaneActs(l), NEW m \in Lanes
  PROVE  LaneOk(m)'
<1>1. TypeOK
  BY DEF LaneInv
<1>2. CASE m = l
  <2>1. ASSUME Hands(l) PROVE LaneOk(l)'
    <3>1. Free(l)
      BY <2>1 DEF Hands, Leaves, LetsGo
    <3>2. QED
      BY <1>1, <3>1, FreeFacts, FreeOk
  <2>2. QED
    BY <1>2, <2>1, LaneShapes, RenewsOk, ClaimOk, StoresOk, MovesOk
<1>3. CASE m # l
  <2>1. Kept(m)
    BY <1>3, LaneShapes, HandsKept, RenewsKept, ClaimKept, StoresKept, MovesKept
  <2>2. QED
    BY <2>1, KeptOk
<1>4. QED
  BY <1>2, <1>3

-----------------------------------------------------------------------------
\* Steps from outside the lanes.
Outside == Routes \/ Sweep \/ Tick \/ \E p \in PRs : People(p)

\* A step of the system is a lane's, or comes from outside.
LEMMA NextCases == ASSUME Next PROVE Outside \/ \E l \in Lanes : LaneActs(l)
BY DEF Next, Outside, Routes, People, LaneActs

\* The run a lane is to let go of is one.
LEMMA LetsGoRun ==
  ASSUME LaneInv, NEW l \in Lanes, NEW s \in Ends \cup {"queued"}, LetsGo(l, s)
  PROVE  LET r == hold[l].run IN
         /\ r \in Runs /\ runs[r] \in RunRow /\ RowOk(r) /\ runs[r].status \in Unended
         /\ runs'[r].status = s /\ runs'[r].lease = 0
         /\ runs'[r].pr = runs[r].pr /\ runs'[r].key = runs[r].key /\ runs'[r].ckpt = runs[r].ckpt
         /\ \A q \in Runs : q # r => runs'[q] = runs[q]
<1> DEFINE r == hold[l].run
<1>0. TypeOK /\ HoldOk(l) /\ runs \in [Runs -> RunRow]
  BY DEF LaneInv, LaneOk, TypeOK
<1>1. (pc[l] \in Working /\ Fenced(l)) \/ (pc[l] = "picked" /\ Takeable(r))
  BY DEF LetsGo
<1>2. r \in Runs
  BY <1>0, <1>1 DEF HoldOk
<1>3. runs[r].status \in Unended
  BY <1>1 DEF Fenced, Takeable, Unended
<1>4. PICK row \in RunRow :
       /\ runs' = [runs EXCEPT ![r] = row]
       /\ row.status = s /\ row.lease = 0
       /\ row.pr = runs[r].pr /\ row.key = runs[r].key /\ row.ckpt = runs[r].ckpt
  BY DEF LetsGo
<1>5. runs'[r] = row /\ \A q \in Runs : q # r => runs'[q] = runs[q]
  BY <1>0, <1>2, <1>4
<1>6. QED
  BY <1>0, <1>2, <1>3, <1>4, <1>5 DEF LaneInv

\* A row that stays the same run stays a good one.
LEMMA SameRowOk ==
  ASSUME NEW r \in Runs, RowOk(r), stored'[r] = stored[r],
         \/ runs'[r] = runs[r]
         \/ /\ runs[r].status # "none" /\ runs'[r].status # "none" /\ runs'[r].pr = runs[r].pr
            /\ runs'[r].ckpt = runs[r].ckpt /\ (runs'[r].status = "running" => runs'[r].attempts > 0)
  PROVE  RowOk(r)'
BY DEF RowOk

\* A lane's step keeps every row good: a checkpoint is stored by a lane that is not overtaken, and
\* only where there is none.
LEMMA LaneRowOk ==
  ASSUME LaneInv, NEW l \in Lanes, LaneActs(l), NEW r \in Runs
  PROVE  RowOk(r)'
<1>0. TypeOK /\ RowOk(r) /\ CheckpointOk(l) /\ stored \in [Runs -> Nat] /\ runs[r] \in RunRow
  BY DEF LaneInv, LaneOk, TypeOK
<1>1. CASE Leaves(l) \/ ClaimPick(l) \/ Moves(l)
  <2>1. runs' = runs /\ stored' = stored
    BY <1>1, MoveFacts DEF Leaves, ClaimPick, rowVars
  <2>2. QED
    BY <1>0, <2>1, SameRowOk
<1>2. ASSUME NEW s \in Ends \cup {"queued"}, LetsGo(l, s) PROVE RowOk(r)'
  <2>1. stored' = stored
    BY <1>2 DEF LetsGo
  <2>2. s \notin {"none", "running"}
    BY DEF Ends
  <2>3. QED
    BY <1>0, <1>2, <2>1, <2>2, LetsGoRun, SameRowOk DEF Unended
<1>3. CASE Renews(l)
  <2>1. /\ stored' = stored /\ pc[l] \in Working /\ Fenced(l) /\ SameRun(hold[l].run)
        /\ (r # hold[l].run => runs'[r] = runs[r])
    BY <1>3, RenewFacts DEF FencedPR
  <2>2. CASE r = hold[l].run
    BY <1>0, <2>1, <2>2, SameRowOk DEF SameRun, Fenced, RowOk
  <2>3. QED
    BY <1>0, <2>1, <2>2, SameRowOk
<1>4. CASE ClaimTake(l)
  <2>1. stored' = stored /\ (r # hold[l].run => runs'[r] = runs[r])
    BY <1>4, TakeFacts
  <2>2. CASE r = hold[l].run
    <3>1. /\ runs[r].status # "none" /\ runs'[r].status = "running" /\ runs'[r].pr = runs[r].pr
          /\ runs'[r].ckpt = runs[r].ckpt /\ runs'[r].attempts > 0
      BY <1>4, <2>2, TakeFacts DEF Takeable, Unended
    <3>2. QED
      BY <1>0, <2>1, <3>1, SameRowOk
  <2>3. QED
    BY <1>0, <2>1, <2>2, SameRowOk
<1>5. CASE Stores(l)
  <2>1. CASE r # hold[l].run
    <3>1. runs'[r] = runs[r] /\ stored'[r] = stored[r]
      BY <1>0, <1>5, <2>1, StoreFacts
    <3>2. QED
      BY <1>0, <3>1, SameRowOk
  <2>2. CASE r = hold[l].run
    <3>1. /\ pc[l] \in {"engine", "record"} /\ pc[l] \in Working /\ Fenced(l)
          /\ runs'[r].pr = runs[r].pr /\ runs'[r].status = runs[r].status
          /\ runs'[r].attempts = runs[r].attempts /\ runs[r].status = "running"
      BY <1>5, <2>2, StoreFacts DEF FencedPR, Fenced, Working
    <3>2. CASE pc[l] = "record"
      <4>1. runs'[r].ckpt = runs[r].ckpt /\ stored' = stored
        BY <1>5, <2>2, <3>2, StoreFacts
      <4>2. QED
        BY <1>0, <3>1, <4>1, SameRowOk DEF RowOk
    <3>3. CASE pc[l] = "engine"
      <4>1. ~runs[r].ckpt
        BY <1>0, <2>2, <3>1, <3>3 DEF CheckpointOk
      <4>2. runs'[r].ckpt /\ stored' = [stored EXCEPT ![r] = @ + 1]
        BY <1>5, <2>2, <3>3, StoreFacts
      <4>3. stored'[r] = 1
        BY <1>0, <4>1, <4>2 DEF RowOk
      <4>4. QED
        BY <1>0, <3>1, <4>2, <4>3 DEF RowOk
    <3>4. QED
      BY <3>1, <3>2, <3>3
  <2>3. QED
    BY <2>1, <2>2
<1>6. QED
  BY <1>1, <1>2, <1>3, <1>4, <1>5, LaneShapes DEF Hands

\* So do the steps from outside.
LEMMA OutsideRowOk ==
  ASSUME LaneInv, Outside, NEW r \in Runs
  PROVE  RowOk(r)'
<1>0. TypeOK /\ RowOk(r) /\ runs[r] \in RunRow
  BY DEF LaneInv, TypeOK
<1>1. stored' = stored
  BY RouteShape, HubType DEF Outside, Sweep, Tick
<1>2. CASE ~(Routes \/ Sweep)
  <2>1. runs' = runs
    BY <1>2, HubType DEF Outside, Tick, rowVars
  <2>2. QED
    BY <1>0, <1>1, <2>1, SameRowOk
<1>3. CASE (Routes \/ Sweep) /\ runs[r].status # "none"
  <2>1. OutsideRow(r)
    BY <1>3, OutsideRows
  <2>2. QED
    BY <1>0, <1>1, <1>3, <2>1, SameRowOk DEF OutsideRow, RowOk
<1>4. CASE (Routes \/ Sweep) /\ runs[r].status = "none"
  <2>1. ASSUME NEW q \in Runs, NEW p \in PRs, NEW key \in Keys, Queued(p, key, q) PROVE RowOk(r)'
    <3>1. CASE q # r
      BY <1>0, <1>1, <2>1, <3>1, QueuedApart, SameRowOk
    <3>2. CASE q = r
      <4>1. PICK row \in RunRow :
              /\ runs' = [runs EXCEPT ![r] = row]
              /\ row.pr = p /\ row.key = key /\ row.status = "queued" /\ ~row.ckpt
        BY <2>1, <3>2 DEF Queued
      <4>2. runs'[r] = row
        BY <1>0, <4>1 DEF TypeOK
      <4>3. stored[r] = 0
        BY <1>0, <1>4 DEF RowOk, NoRun
      <4>4. p # NoPR
        BY LaneAssumption
      <4>5. QED
        BY <1>1, <4>1, <4>2, <4>3, <4>4 DEF RowOk
    <3>3. QED
      BY <3>1, <3>2
  <2>2. CASE runs'[r] = runs[r]
    BY <1>0, <1>1, <2>2, SameRowOk
  <2>3. QED
    BY <1>4, <2>1, <2>2, RouteShape, CancelRow, SweepRow
<1>5. QED
  BY <1>2, <1>3, <1>4

\* A claim or a renewal gives a lane a value none of the others on its pull request has.
LEMMA LaneApart ==
  ASSUME LaneInv, NEW l \in Lanes, LaneActs(l), NEW m \in Lanes, m # l,
         pc'[l] \in Working, pc[m] \in Working, hold'[l].pr = hold[m].pr
  PROVE  hold'[l].lease # hold[m].lease
<1>0. /\ TypeOK /\ now \in Nat /\ Lease \in Nat /\ Lease > 0 /\ hold[m].lease \in Nat /\ hold[m].pr \in PRs
      /\ hold[m].lease > now => HeldPR(m)
  BY AtWork, LaneAssumption DEF LaneInv, TypeOK, FencedPR
<1>1. ~Hands(l)
  <2>1. Hands(l) => Free(l)
    BY DEF Hands, Leaves, LetsGo
  <2>2. Free(l) => pc'[l] = "idle"
    BY <1>0, FreeFacts
  <2>3. QED
    BY <2>1, <2>2 DEF Working
<1>2. CASE Renews(l)
  <2>1. /\ pc[l] \in Working /\ HeldPR(l) /\ hold'[l].pr = hold[l].pr /\ hold'[l].lease = now + Lease
    BY <1>2, RenewFacts DEF FencedPR
  <2>2. hold[m].lease <= now
    BY <2>1, Overtaken
  <2>3. QED
    BY <1>0, <2>1, <2>2
<1>3. CASE ClaimPick(l)
  BY <1>0, <1>3 DEF ClaimPick, TypeOK, Working
<1>4. CASE ClaimTake(l)
  <2>1. prLease[hold[m].pr] <= now /\ hold'[l].lease = now + Lease
    BY <1>4, TakeFacts
  <2>2. hold[m].lease <= now
    BY <1>0, <2>1 DEF HeldPR
  <2>3. QED
    BY <1>0, <2>1, <2>2
<1>5. CASE Stores(l) \/ Moves(l)
  <2>1. hold' = hold /\ pc[l] \in Working
    BY <1>5, StoreFacts, MoveFacts, MovesType DEF Working
  <2>2. QED
    BY <2>1, Overtaken
<1>6. QED
  BY <1>1, <1>2, <1>3, <1>4, <1>5, LaneShapes

\* So no two lanes on a pull request ever have the same value.
LEMMA LaneHolder ==
  ASSUME LaneInv, NEW l \in Lanes, LaneActs(l)
  PROVE  OneHolder'
<1>0. TypeOK /\ OneHolder
  BY DEF LaneInv
<1>1. Alone(l)
  <2>1. Hands(l) => Free(l)
    BY DEF Hands, Leaves, LetsGo
  <2>2. ClaimPick(l) => Alone(l)
    BY <1>0 DEF ClaimPick, Alone, TypeOK
  <2>3. QED
    BY <1>0, <2>1, <2>2, LaneShapes, FreeFacts, RenewFacts, TakeFacts, StoreFacts, MoveFacts
<1>2. ASSUME NEW a \in Lanes, NEW b \in Lanes, a # b, pc'[a] \in Working, pc'[b] \in Working,
             hold'[a].pr = hold'[b].pr
      PROVE  hold'[a].lease # hold'[b].lease
  <2>1. CASE a = l
    BY <1>1, <1>2, <2>1, LaneApart DEF Alone
  <2>2. CASE b = l
    BY <1>1, <1>2, <2>2, LaneApart DEF Alone
  <2>3. CASE a # l /\ b # l
    BY <1>0, <1>1, <1>2, <2>3 DEF Alone, OneHolder
  <2>4. QED
    BY <2>1, <2>2, <2>3
<1>3. QED
  BY <1>2 DEF OneHolder

\* A lane makes a summary one at a time, and where none was ever deleted only where there is none;
\* nobody else makes one, and what is deleted stays deleted.
LEMMA SummariesGrow ==
  ASSUME LaneInv, Next, NEW p \in PRs
  PROVE  /\ hub[p].made \in Nat /\ (hub[p].gone # {} => hub'[p].gone # {})
         /\ \/ hub'[p].made = hub[p].made
            \/ hub'[p].made = hub[p].made + 1 /\ (hub[p].gone = {} => hub[p].made = 0)
<1>0. TypeOK /\ hub \in [PRs -> OnHub] /\ hub[p].made \in Nat
  BY DEF LaneInv, TypeOK, OnHub
<1>1. CASE Outside
  <2>1. CASE Routes \/ Sweep \/ Tick
    BY <1>0, <2>1, RouteShape DEF Sweep, Tick, hubVars
  <2>2. QED
    BY <1>0, <1>1, <2>1, HubType DEF Outside
<1>2. ASSUME NEW l \in Lanes, LaneActs(l)
      PROVE  /\ hub[p].gone # {} => hub'[p].gone # {}
             /\ \/ hub'[p].made = hub[p].made
                \/ hub'[p].made = hub[p].made + 1 /\ (hub[p].gone = {} => hub[p].made = 0)
  <2>1. CASE SummaryCreate(l)
    <3>1. /\ hub' = [hub EXCEPT ![hold[l].pr].made = @ + 1] /\ pc[l] = "sumwrite" /\ mine[l].summary = 0
          /\ pc[l] \in Working
      BY <2>1 DEF SummaryCreate, Working
    <3>2. hold[l].pr \in PRs /\ SummaryOk(l)
      BY <3>1, AtWork DEF LaneInv, LaneOk
    <3>3. hub[hold[l].pr].gone = {} => hub[hold[l].pr].made = 0
      BY <3>1, <3>2 DEF SummaryOk
    <3>4. /\ hub'[p].gone = hub[p].gone
          /\ hub'[p].made = IF p = hold[l].pr THEN hub[p].made + 1 ELSE hub[p].made
      BY <1>0, <3>1, <3>2 DEF OnHub
    <3>5. QED
      BY <1>0, <3>3, <3>4
  <2>2. CASE ~SummaryCreate(l)
    <3>1. Moves(l) => hub' = hub
      BY <2>2
      DEF Moves, GateSuperseded, GatePassed, PublishSuperseded, PublishGo, Gives, Adopt, Post, PostRefused,
          SummaryFind, SummaryEdit, SummaryGone, SummarySet, hubVars
    <3>2. Hands(l) \/ ClaimPick(l) => hub' = hub
      BY DEF Hands, Leaves, LetsGo, ClaimPick, hubVars
    <3>3. hub' = hub
      BY <1>2, <3>1, <3>2, LaneShapes, RenewFacts, TakeFacts, StoreFacts
    <3>4. QED
      BY <3>3
  <2>3. QED
    BY <2>1, <2>2
<1>3. QED
  BY <1>0, <1>1, <1>2, NextCases

\* The number on record is that of a summary that was made.
LEMMA SummaryReadKept ==
  ASSUME LaneInv, Next
  PROVE  SummaryRead'
<1>0. TypeOK /\ SummaryRead /\ prs \in [PRs -> PRRow]
  BY DEF LaneInv, TypeOK
<1> SUFFICES ASSUME NEW p \in PRs PROVE prs'[p].summary <= hub'[p].made
  BY DEF SummaryRead
<1>1. prs[p] \in PRRow /\ prs[p].summary \in Nat /\ prs[p].summary <= hub[p].made /\ hub[p].made \in Nat
  BY <1>0 DEF PRRow, SummaryRead, TypeOK, OnHub
<1>2. prs'[p].summary \in Nat /\ prs'[p].summary <= hub[p].made
  <2>1. CASE prs'[p].summary = prs[p].summary
    BY <1>1, <2>1
  <2>2. CASE Outside
    <3>1. Routes => prs'[p].summary = prs[p].summary
      BY RouteShape
    <3>2. ~Routes => prs' = prs
      BY <2>2, HubType DEF Outside, Sweep, Tick, rowVars
    <3>3. QED
      BY <2>1, <3>1, <3>2
  <2>3. ASSUME NEW l \in Lanes, LaneActs(l) PROVE prs'[p].summary \in Nat /\ prs'[p].summary <= hub[p].made
    <3>1. CASE SummaryFind(l) \/ SummarySet(l)
      <4>1. pc[l] \in Working
        BY <3>1 DEF SummaryFind, SummarySet, Working
      <4>2. hold[l].pr \in PRs /\ SummaryOk(l) /\ mine[l].summary \in Nat
        BY <4>1, AtWork DEF LaneInv, LaneOk, Memory
      <4>3. \/ prs' = prs
            \/ \E c \in Comments(hold[l].pr) : prs' = [prs EXCEPT ![hold[l].pr].summary = c]
            \/ prs' = [prs EXCEPT ![hold[l].pr].summary = mine[l].summary]
        BY <3>1 DEF SummaryFind, SummarySet
      <4>4. ASSUME NEW c \in Nat, c <= hub[hold[l].pr].made, prs' = [prs EXCEPT ![hold[l].pr].summary = c]
            PROVE  prs'[p].summary \in Nat /\ prs'[p].summary <= hub[p].made
        <5>1. CASE p = hold[l].pr
          BY <1>0, <1>1, <4>4, <5>1 DEF PRRow
        <5>2. CASE p # hold[l].pr
          BY <1>0, <2>1, <4>4, <5>2
        <5>3. QED
          BY <5>1, <5>2
      <4>5. \A c \in Comments(hold[l].pr) : c \in Nat /\ c <= hub[hold[l].pr].made
        BY <1>0, <4>2 DEF Comments, TypeOK, OnHub
      <4>6. mine[l].summary <= hub[hold[l].pr].made
        BY <4>1, <4>2 DEF SummaryOk
      <4>7. QED
        BY <2>1, <4>2, <4>3, <4>4, <4>5, <4>6
    <3>2. ASSUME NEW s \in Ends \cup {"queued"}, LetsGo(l, s) PROVE prs'[p].summary = prs[p].summary
      <4>1. \/ prs' = prs
            \/ prs' = [prs EXCEPT ![hold[l].pr].last = mine[l].head, ![hold[l].pr].reviews = @ + 1]
        BY <3>2 DEF LetsGo
      <4>2. \/ prs'[p] = prs[p]
            \/ prs'[p] = [prs[p] EXCEPT !.last = mine[l].head, !.reviews = @ + 1]
        BY <1>0, <4>1
      <4>3. [prs[p] EXCEPT !.last = mine[l].head, !.reviews = @ + 1].summary = prs[p].summary
        BY <1>1 DEF PRRow
      <4>4. QED
        BY <4>2, <4>3
    <3>3. CASE ~SummaryFind(l) /\ ~SummarySet(l) /\ \A s \in Ends \cup {"queued"} : ~LetsGo(l, s)
      <4>1. Moves(l) => prs' = prs
        BY <3>3
        DEF Moves, GateSuperseded, GatePassed, PublishSuperseded, PublishGo, Gives, Adopt, Post, PostRefused,
            SummaryEdit, SummaryGone, SummaryCreate, rowVars
      <4>2. Hands(l) \/ ClaimPick(l) => prs' = prs
        BY <3>3 DEF Hands, Leaves, ClaimPick, rowVars
      <4>3. prs' = prs
        BY <2>3, <4>1, <4>2, LaneShapes, RenewFacts, TakeFacts, StoreFacts
      <4>4. QED
        BY <2>1, <4>3
    <3>4. QED
      BY <2>1, <3>1, <3>2, <3>3
  <2>4. QED
    BY <2>2, <2>3, NextCases
<1>3. hub'[p].made = hub[p].made \/ hub'[p].made = hub[p].made + 1
  BY SummariesGrow
<1>4. QED
  BY <1>1, <1>2, <1>3

\* Every step keeps the invariant.
LEMMA NextLane == LaneInv /\ [Next]_vars => LaneInv'
<1> SUFFICES ASSUME LaneInv, [Next]_vars PROVE LaneInv'
  OBVIOUS
<1>1. CASE UNCHANGED vars
  <2>1. TypeOK'
    BY <1>1 DEF vars, LaneInv, TypeOK
  <2>2. ASSUME NEW r \in Runs PROVE RowOk(r)'
    BY <1>1 DEF vars, LaneInv, RowOk
  <2>3. ASSUME NEW l \in Lanes PROVE LaneOk(l)'
    <3>1. LaneOk(l)
      BY DEF LaneInv
    <3>2. UNCHANGED <<now, runs, prLease, pc, hold, mine, hub, posted>>
      BY <1>1 DEF vars
    <3>3. HoldOk(l)' /\ CheckpointOk(l)'
      BY <3>1, <3>2 DEF LaneOk, HoldOk, CheckpointOk, FencedPR, Fenced, HeldPR
    <3>4. PostOk(l)' /\ SummaryOk(l)'
      BY <3>1, <3>2 DEF LaneOk, PostOk, SummaryOk, HeldPR
    <3>5. QED
      BY <3>3, <3>4 DEF LaneOk
  <2>4. OneHolder' /\ SummaryRead'
    BY <1>1 DEF vars, LaneInv, OneHolder, SummaryRead
  <2>5. QED
    BY <2>1, <2>2, <2>3, <2>4 DEF LaneInv
<1>2. CASE Next /\ Outside
  <2>1. TypeOK'
    BY <1>2, HubType, RouteShape, SweepType, TickType DEF Outside
  <2>2. \A r \in Runs : RowOk(r)'
    BY <1>2, OutsideRowOk
  <2>3. \A l \in Lanes : LaneOk(l)'
    BY <1>2, OutsideKept, KeptOk DEF Outside
  <2>4. OneHolder'
    <3>1. UNCHANGED <<pc, hold>>
      BY <1>2, RouteShape, HubType DEF Outside, Sweep, Tick, laneVars
    <3>2. QED
      BY <3>1 DEF LaneInv, OneHolder
  <2>5. SummaryRead'
    BY <1>2, SummaryReadKept
  <2>6. QED
    BY <2>1, <2>2, <2>3, <2>4, <2>5 DEF LaneInv
<1>3. ASSUME Next, NEW l \in Lanes, LaneActs(l) PROVE LaneInv'
  <2>1. TypeOK'
    BY <1>3, LaneShapes, HandsType, RenewsType, ClaimType, StoresType, MovesType
  <2>2. \A r \in Runs : RowOk(r)'
    BY <1>3, LaneRowOk
  <2>3. \A m \in Lanes : LaneOk(m)'
    BY <1>3, LaneStepOk
  <2>4. OneHolder' /\ SummaryRead'
    BY <1>3, LaneHolder, SummaryReadKept
  <2>5. QED
    BY <2>1, <2>2, <2>3, <2>4 DEF LaneInv
<1>4. QED
  BY <1>1, <1>2, <1>3, NextCases

\* The lane's invariant holds of every behaviour, whatever the crashes, takeovers, cancels, sweeps
\* and deliveries, and however many lanes, runs and pull requests there are.
THEOREM LaneInvariant == Spec => []LaneInv
<1>1. Init => LaneInv
  BY InitLane
<1>2. LaneInv /\ [Next]_vars => LaneInv'
  BY NextLane
<1>3. QED
  BY <1>1, <1>2, PTL DEF Spec

-----------------------------------------------------------------------------
\* What a step does to a run: it stays where it was; or it is new; or, not ended yet, it is taken,
\* let go of by the lane that has it, cancelled or swept.
RunStep(r) ==
  \/ /\ runs'[r].pr = runs[r].pr /\ runs'[r].key = runs[r].key /\ runs'[r].status = runs[r].status
     /\ runs[r].ckpt => runs'[r].ckpt
  \/ \E p \in PRs, key \in Keys : Queued(p, key, r)
  \/ /\ runs'[r].pr = runs[r].pr /\ runs'[r].key = runs[r].key /\ runs[r].status \in Unended
     /\ \/ runs'[r].status = "running"
        \/ runs'[r].status \in {"cancelled", "failed"}
        \/ \E l \in Lanes, s \in Ends \cup {"queued"} :
             LetsGo(l, s) /\ hold[l].run = r /\ runs'[r].status = s

\* Every step is one of these, on every run.
LEMMA RunSteps ==
  ASSUME LaneInv, [Next]_vars, NEW r \in Runs
  PROVE  RunStep(r)
<1>0. TypeOK
  BY DEF LaneInv
<1>1. CASE runs'[r] = runs[r]
  BY <1>1 DEF RunStep
<1>2. CASE Outside
  <2>1. ASSUME NEW q \in Runs, NEW p \in PRs, NEW key \in Keys, Queued(p, key, q) PROVE RunStep(r)
    <3>1. CASE q = r
      BY <2>1, <3>1 DEF RunStep
    <3>2. CASE q # r
      BY <1>1, <2>1, <3>2, QueuedApart
    <3>3. QED
      BY <3>1, <3>2
  <2>2. ASSUME OutsideRow(r) PROVE RunStep(r)
    BY <2>2 DEF OutsideRow, RunStep
  <2>3. CASE Routes \/ Sweep
    BY <1>1, <2>1, <2>2, <2>3, RouteShape, CancelRow, SweepRow
  <2>4. CASE ~(Routes \/ Sweep)
    <3>1. runs' = runs
      BY <1>2, <2>4, HubType DEF Outside, Tick, rowVars
    <3>2. QED
      BY <1>1, <3>1
  <2>5. QED
    BY <2>3, <2>4
<1>3. ASSUME NEW l \in Lanes, LaneActs(l) PROVE RunStep(r)
  <2>1. CASE Leaves(l) \/ ClaimPick(l) \/ Moves(l)
    <3>1. runs' = runs
      BY <2>1, MoveFacts DEF Leaves, ClaimPick, rowVars
    <3>2. QED
      BY <1>1, <3>1
  <2>2. ASSUME NEW s \in Ends \cup {"queued"}, LetsGo(l, s) PROVE RunStep(r)
    <3>1. CASE r = hold[l].run
      BY <2>2, <3>1, LetsGoRun DEF RunStep
    <3>2. CASE r # hold[l].run
      BY <1>1, <2>2, <3>2, LetsGoRun
    <3>3. QED
      BY <3>1, <3>2
  <2>3. CASE Renews(l)
    <3>1. r # hold[l].run => runs'[r] = runs[r]
      BY <2>3, RenewFacts
    <3>2. r = hold[l].run => SameRun(r)
      BY <2>3, RenewFacts
    <3>3. QED
      BY <1>1, <3>1, <3>2 DEF SameRun, RunStep
  <2>4. CASE ClaimTake(l)
    <3>1. r # hold[l].run => runs'[r] = runs[r]
      BY <2>4, TakeFacts
    <3>2. r = hold[l].run =>
            /\ runs'[r].pr = runs[r].pr /\ runs'[r].key = runs[r].key /\ runs[r].status \in Unended
            /\ runs'[r].status = "running"
      BY <2>4, TakeFacts DEF Takeable
    <3>3. QED
      BY <1>1, <3>1, <3>2 DEF RunStep
  <2>5. CASE Stores(l)
    <3>1. r # hold[l].run => runs'[r] = runs[r]
      BY <2>5, StoreFacts
    <3>2. r = hold[l].run =>
            /\ runs'[r].pr = runs[r].pr /\ runs'[r].key = runs[r].key /\ runs'[r].status = runs[r].status
            /\ runs[r].ckpt => runs'[r].ckpt
      <4>1. ASSUME r = hold[l].run, runs[r].ckpt PROVE runs'[r].ckpt
        BY <2>5, <4>1, StoreFacts
      <4>2. QED
        BY <2>5, <4>1, StoreFacts
    <3>3. QED
      BY <1>1, <3>1, <3>2 DEF RunStep
  <2>6. QED
    BY <1>3, <2>1, <2>2, <2>3, <2>4, <2>5, LaneShapes DEF Hands
<1>4. CASE UNCHANGED vars
  BY <1>1, <1>4 DEF vars
<1>5. QED
  BY <1>2, <1>3, <1>4, NextCases

\* An ending is final: no stale lane, sweep or late cancel takes it back or rewrites it
\* (endReviewRun, CancelReviewRuns, sweepReviewRuns).
THEOREM EndedIsFinalAlways == Spec => EndedIsFinal
<1>1. ASSUME LaneInv, [Next]_vars, NEW r \in Runs, runs[r].status \in Ends
      PROVE  runs'[r].status = runs[r].status
  <2>1. runs[r].status \notin Unended /\ runs[r].status # "none"
    BY <1>1 DEF Ends, Unended
  <2>2. QED
    BY <1>1, <2>1, RunSteps DEF RunStep, Queued
<1>2. LaneInv /\ [Next]_vars
        => [\A r \in Runs : runs[r].status \in Ends => runs'[r].status = runs[r].status]_vars
  BY <1>1
<1>3. QED
  BY <1>2, LaneInvariant, PTL DEF Spec, EndedIsFinal

\* A run's findings are stored at most once, however often it is taken over or resumed
\* (saveReviewCheckpoint).
THEOREM FindingsStoredOnceAlways == Spec => []FindingsStoredOnce
<1>1. LaneInv => FindingsStoredOnce
  BY DEF LaneInv, RowOk, FindingsStoredOnce
<1>2. QED
  BY <1>1, LaneInvariant, PTL

\* GitHub carries at most one review object of a run, whichever lanes tried to post it and whatever
\* answers were lost (postInlineReview, adoptReview).
THEOREM OneReviewPerRunAlways == Spec => []OneReviewPerRun
<1>1. Init => OneReviewPerRun
  BY DEF Init, OneReviewPerRun
<1>2. LaneInv /\ OneReviewPerRun /\ [Next]_vars => OneReviewPerRun'
  <2> SUFFICES ASSUME LaneInv, OneReviewPerRun, [Next]_vars, NEW r \in Runs PROVE posted'[r] <= 1
    BY DEF OneReviewPerRun
  <2>0. posted \in [Runs -> Nat] /\ posted[r] <= 1
    BY DEF LaneInv, TypeOK, OneReviewPerRun
  <2>1. CASE posted' = posted
    BY <2>0, <2>1
  <2>2. CASE Outside \/ UNCHANGED vars
    <3>1. posted' = posted
      BY <2>2, RouteShape, HubType DEF Outside, Sweep, Tick, hubVars, vars
    <3>2. QED
      BY <2>1, <3>1
  <2>3. ASSUME NEW l \in Lanes, LaneActs(l) PROVE posted'[r] <= 1
    <3>1. CASE Post(l)
      <4>1. pc[l] = "post" /\ posted' = [posted EXCEPT ![hold[l].run] = @ + 1]
        BY <3>1 DEF Post
      <4>2. posted[hold[l].run] = 0
        BY <4>1 DEF LaneInv, LaneOk, PostOk
      <4>3. QED
        BY <2>0, <4>1, <4>2
    <3>2. CASE ~Post(l)
      <4>1. Moves(l) => posted' = posted
        BY <3>2
        DEF Moves, GateSuperseded, GatePassed, PublishSuperseded, PublishGo, Gives, Adopt, PostRefused,
            SummaryFind, SummaryEdit, SummaryGone, SummaryCreate, SummarySet, hubVars
      <4>2. Hands(l) \/ ClaimPick(l) => posted' = posted
        BY DEF Hands, Leaves, LetsGo, ClaimPick, hubVars
      <4>3. posted' = posted
        BY <2>3, <4>1, <4>2, LaneShapes, RenewFacts, TakeFacts, StoreFacts
      <4>4. QED
        BY <2>1, <4>3
    <3>3. QED
      BY <3>1, <3>2
  <2>4. QED
    BY <2>2, <2>3, NextCases
<1>3. QED
  BY <1>1, <1>2, LaneInvariant, PTL DEF Spec

\* Until one is deleted, no more than one summary is made.
MadeOnce == \A p \in PRs : hub[p].gone = {} => hub[p].made <= 1

\* A pull request nobody deleted a summary of has at most one, though two runs and any number of
\* lanes write it, answers are lost, and its id is recorded without a fence (upsertReviewSummary).
THEOREM OneSummaryPerPRAlways == Spec => []OneSummaryPerPR
<1>1. Init => MadeOnce
  BY DEF Init, MadeOnce
<1>2. LaneInv /\ MadeOnce /\ [Next]_vars => MadeOnce'
  <2> SUFFICES ASSUME LaneInv, MadeOnce, [Next]_vars, NEW p \in PRs, hub'[p].gone = {}
               PROVE  hub'[p].made <= 1
    BY DEF MadeOnce
  <2>1. CASE Next
    BY <2>1, SummariesGrow DEF MadeOnce
  <2>2. CASE UNCHANGED vars
    BY <2>2 DEF vars, MadeOnce
  <2>3. QED
    BY <2>1, <2>2
<1>3. LaneInv /\ MadeOnce => OneSummaryPerPR
  <2> SUFFICES ASSUME LaneInv, MadeOnce, NEW p \in PRs, hub[p].gone = {}
               PROVE  Cardinality(Comments(p)) <= 1
    BY DEF OneSummaryPerPR
  <2>1. hub[p].made \in Nat /\ hub[p].made <= 1
    BY DEF LaneInv, TypeOK, OnHub, MadeOnce
  <2>2. Comments(p) = 1..hub[p].made
    BY DEF Comments
  <2>3. Cardinality(1..hub[p].made) = IF 1 > hub[p].made THEN 0 ELSE hub[p].made - 1 + 1
    <3>1. 1 \in Int /\ hub[p].made \in Int
      BY <2>1
    <3>2. QED
      BY <3>1, FS_Interval
  <2>4. QED
    BY <2>1, <2>2, <2>3
<1>4. QED
  BY <1>1, <1>2, <1>3, LaneInvariant, PTL DEF Spec

-----------------------------------------------------------------------------
(* Requests and runs.                                                      *)

\* A run there is stays the request it was, and an ending without an answer stays one.
LEMMA RowKept ==
  ASSUME LaneInv, [Next]_vars, NEW r \in Runs, runs[r].status # "none"
  PROVE  /\ runs'[r].status # "none" /\ runs'[r].pr = runs[r].pr /\ runs'[r].key = runs[r].key
         /\ runs[r].status \in Dead => runs'[r].status \in Dead
<1>1. RunStep(r)
  BY RunSteps
<1>2. runs[r].status \in Dead => runs[r].status \notin Unended
  BY DEF Dead, Unended
<1>3. \A st \in Ends \cup {"queued"} : st # "none"
  BY DEF Ends
<1>4. QED
  BY <1>1, <1>2, <1>3 DEF RunStep, Queued

\* A new run was asked for, has the first row that is free, and is the only one.
LEMMA RowNew ==
  ASSUME LaneInv, [Next]_vars, NEW r \in Runs, runs[r].status = "none", runs'[r].status # "none"
  PROVE  /\ \E p \in PRs, key \in Keys : Queued(p, key, r) /\ runs'[r].pr = p /\ runs'[r].key = key
         /\ \A o \in Runs : o # r => runs'[o] = runs[o]
<1>1. RunStep(r)
  BY RunSteps
<1>2. PICK p \in PRs, key \in Keys : Queued(p, key, r)
  BY <1>1 DEF RunStep, Unended
<1>3. runs'[r].pr = p /\ runs'[r].key = key
  BY <1>2 DEF Queued, LaneInv, TypeOK
<1>4. QED
  BY <1>2, <1>3, QueuedApart

\* The runs of one request.
Alike(q, r) == runs[q].pr = runs[r].pr /\ SameRequest(runs[q].key, runs[r].key)
Is(r) == runs[r].status # "none"

\* Rows are filled in order, and no two runs of a pull request have one key.
Filled == \A r, o \in Runs : Is(r) /\ o < r => Is(o)
KeysApart == \A q, r \in Runs : Is(q) /\ Is(r) /\ runs[q].pr = runs[r].pr /\ runs[q].key = runs[r].key => q = r
\* A key has moved on from an earlier run of the request, one that ended without an answer.
MovedOn ==
  \A r \in Runs : Is(r) /\ runs[r].key.after # 0 =>
    \E a \in Runs : /\ a = runs[r].key.after /\ a < r
                    /\ Is(a) /\ Alike(a, r) /\ runs[a].status \in Dead
\* Every run of a request but the last has one whose key has moved on from it; one has a key that
\* has not moved.
Chained ==
  \A q, r \in Runs : Is(q) /\ Is(r) /\ q < r /\ Alike(q, r) =>
    \E o \in Runs : Is(o) /\ Alike(o, q) /\ runs[o].key.after = q
Rooted == \A r \in Runs : Is(r) => \E o \in Runs : Is(o) /\ Alike(o, r) /\ runs[o].key.after = 0
\* What a dispatcher is about to ask for has a key that has moved on no further.
Dies(a, p, key) ==
  /\ a \in Runs /\ Is(a) /\ runs[a].pr = p /\ SameRequest(runs[a].key, key) /\ runs[a].status \in Dead
Asked ==
  \A h \in Routers : routes[h].step = "ask" =>
    \/ routes[h].key.after = 0
    \/ Dies(routes[h].key.after, routes[h].pr, routes[h].key)

ChainInv == Filled /\ KeysApart /\ MovedOn /\ Chained /\ Rooted /\ Asked

\* A key is what it asks for and where it has moved on from.
LEMMA KeyIs ==
  ASSUME NEW a \in Keys, NEW b \in Keys, SameRequest(a, b), a.after = b.after
  PROVE  a = b
BY DEF Keys, SameRequest

\* What a dispatcher asks for after a step: what it did; a key not moved; or one moved on from a run
\* found dead.
LEMMA AsksNext ==
  ASSUME LaneInv, [Next]_vars, NEW h \in Routers, routes'[h].step = "ask"
  PROVE  \/ routes'[h].key.after = 0
         \/ /\ routes[h].step = "ask" /\ routes'[h].pr = routes[h].pr
            /\ routes'[h].key = routes[h].key
         \/ Dies(routes'[h].key.after, routes'[h].pr, routes'[h].key)
<1>0. routes \in [Routers -> Route \cup {NoRoute}]
  BY DEF LaneInv, TypeOK
<1>1. CASE routes'[h] = routes[h]
  BY <1>1
<1>2. CASE ~Routes
  <2>1. CASE Outside
    BY <1>1, <1>2, <2>1, HubType DEF Outside, Sweep, Tick, givenVars, wordVars
  <2>2. ASSUME NEW l \in Lanes, LaneActs(l) PROVE routes' = routes
    <3>1. Hands(l) => routes' = routes
      BY DEF Hands, Leaves, LetsGo
    <3>2. Renews(l) \/ ClaimPick(l) \/ ClaimTake(l) \/ Stores(l) => routes' = routes
      BY DEF Renews, Touch, PostTouch, SummaryTouch, Renewed, ClaimPick, ClaimTake, Stores, Save, Record,
             givenVars, wordVars
    <3>3. Moves(l) => routes' = routes
      BY DEF Moves, GateSuperseded, GatePassed, PublishSuperseded, PublishGo, Gives, Adopt, Post,
             PostRefused, SummaryFind, SummaryEdit, SummaryGone, SummaryCreate, SummarySet, givenVars, wordVars
    <3>4. QED
      BY <2>2, <3>1, <3>2, <3>3, LaneShapes
  <2>3. CASE UNCHANGED vars
    BY <1>1, <2>3 DEF vars
  <2>4. QED
    BY <1>1, <2>1, <2>2, <2>3, NextCases
<1>3. CASE Routes
  <2>1. PICK g \in Routers : RouterStep(g) \/ RouteFails(g)
    BY <1>3 DEF Routes
  <2>2. CASE g # h
    <3>1. \E q : routes' = [routes EXCEPT ![g] = q]
      <4>1. CASE RouteLook(g)
        <5>1. \/ routes' = [routes EXCEPT ![g] = NoRoute]
              \/ routes' = [routes EXCEPT ![g] = [routes[g] EXCEPT !.left = 0]]
              \/ \E r \in Runs : routes' = [routes EXCEPT ![g] = [routes[g] EXCEPT !.key.after = r, !.left = @ - 1]]
          BY <1>0, <4>1 DEF RouteLook, Routed
        <5>2. QED
          BY <5>1
      <4>2. CASE ~RouteLook(g)
        BY <2>1, <4>2
        DEF RouterStep, RouteOpened, RoutePush, RouteClosed, RouteMoved, RouteRefused, RouteQueue,
            RouteCancel, RouteFails, Routed
      <4>3. QED
        BY <4>1, <4>2
    <3>2. QED
      BY <1>0, <1>1, <2>2, <3>1
  <2>3. CASE g = h
    <3>1. CASE Routed(h)
      <4>1. routes'[h] = NoRoute
        BY <1>0, <3>1 DEF Routed
      <4>2. QED
        BY <4>1 DEF NoRoute
    <3>2. ASSUME NEW d, NEW trigger, NEW notBefore, routes' = [routes EXCEPT ![h] = Asks(d, trigger, notBefore)]
          PROVE  routes'[h].key.after = 0
      <4> DEFINE key == [trigger |-> trigger, head |-> d.head,
                         since |-> trigger = "push" /\ prs[d.pr].last # 0, after |-> 0]
      <4>1. routes'[h] = Asks(d, trigger, notBefore) /\ key.after = 0
        BY <1>0, <3>2
      <4>2. Asks(d, trigger, notBefore) =
              [NoRoute EXCEPT !.step = "ask", !.pr = d.pr, !.action = d.action, !.head = d.head,
                 !.key = key, !.notBefore = notBefore, !.left = MaxLooks]
        BY DEF Asks
      <4> HIDE DEF key
      <4>3. Asks(d, trigger, notBefore).key = key
        BY <4>2 DEF NoRoute
      <4>4. QED
        BY <4>1, <4>3
    <3>3. CASE RouteLook(h)
      <4>1. routes[h].step = "ask" /\ routes[h] \in Route /\ routes[h].key \in Keys
        BY <3>3, RouteKnown DEF RouteLook, Route
      <4>2. CASE routes' = [routes EXCEPT ![h].left = 0]
        BY <1>0, <4>1, <4>2 DEF Route
      <4>3. ASSUME NEW r \in Runs, Has(r, routes[h].pr, routes[h].key), runs[r].status \in Dead,
                   routes' = [routes EXCEPT ![h].key.after = r, ![h].left = @ - 1]
            PROVE  Dies(routes'[h].key.after, routes'[h].pr, routes'[h].key)
        <5> DEFINE key == [routes[h].key EXCEPT !.after = r]
                   left == routes[h].left - 1
        <5>1. routes'[h] = [routes[h] EXCEPT !.key = key, !.left = left]
          BY <1>0, <4>3
        <5>2. key.after = r /\ SameRequest(routes[h].key, key)
          BY <4>1 DEF Keys, SameRequest
        <5> HIDE DEF key, left
        <5>3. routes'[h].pr = routes[h].pr /\ routes'[h].key = key
          BY <4>1, <5>1 DEF Route
        <5>4. QED
          BY <4>3, <5>2, <5>3 DEF Dies, Has, Is
      <4>4. QED
        BY <3>1, <3>3, <4>2, <4>3 DEF RouteLook
    <3>4. CASE ~RouteLook(h) /\ ~Routed(h)
      <4>1. \/ \E d \in deliveries : RouteOpened(h, d) \/ RoutePush(h, d) \/ RouteClosed(h, d)
            \/ RouteMoved(h)
        BY <2>1, <2>3, <3>4 DEF RouterStep, RouteRefused, RouteQueue, RouteCancel, RouteFails
      <4>2. ASSUME NEW d, RoutePush(h, d) \/ RouteClosed(h, d) PROVE FALSE
        <5>1. PICK step \in {"moved", "cancel"} :
                routes'[h] = [NoRoute EXCEPT !.step = step, !.pr = d.pr, !.action = d.action, !.head = d.head]
          BY <1>0, <4>2 DEF RoutePush, RouteClosed
        <5>2. routes'[h].step = step
          BY <5>1 DEF NoRoute
        <5>3. QED
          BY <5>2
      <4>3. QED
        BY <3>2, <4>1, <4>2 DEF RouteOpened, RouteMoved
    <3>5. QED
      BY <3>1, <3>3, <3>4
  <2>4. QED
    BY <2>2, <2>3
<1>4. QED
  BY <1>2, <1>3

\* A run found dead stays the dead run of its request.
LEMMA DiesStill ==
  ASSUME LaneInv, [Next]_vars, NEW a, NEW p, NEW key, Dies(a, p, key)
  PROVE  Dies(a, p, key)'
BY RowKept DEF Dies, Is

\* A step that makes no run keeps the chains.
LEMMA ChainSame ==
  ASSUME LaneInv, ChainInv, [Next]_vars, \A r \in Runs : runs'[r].status # "none" => runs[r].status # "none"
  PROVE  Filled' /\ KeysApart' /\ MovedOn' /\ Chained' /\ Rooted'
<1>1. \A r \in Runs : Is(r)' <=> Is(r)
  BY RowKept DEF Is
<1>2. \A r \in Runs : Is(r) => /\ runs'[r].pr = runs[r].pr /\ runs'[r].key = runs[r].key
                               /\ runs[r].status \in Dead => runs'[r].status \in Dead
  BY RowKept DEF Is
<1>3. \A q, r \in Runs : Is(q) /\ Is(r) => (Alike(q, r)' <=> Alike(q, r))
  BY <1>2 DEF Alike
<1>4. Filled'
  BY <1>1 DEF ChainInv, Filled
<1>5. KeysApart'
  BY <1>1, <1>2 DEF ChainInv, KeysApart
<1>6. MovedOn'
  BY <1>1, <1>2, <1>3 DEF ChainInv, MovedOn
<1>7. Chained'
  BY <1>1, <1>2, <1>3 DEF ChainInv, Chained
<1>8. Rooted'
  BY <1>1, <1>2, <1>3 DEF ChainInv, Rooted
<1>9. QED
  BY <1>4, <1>5, <1>6, <1>7, <1>8

\* A run that is made is the next of its request's chain: the key is unique, so where its key has
\* not moved there is no other, and where it has, it is the first to move on from that run.
LEMMA ChainMore ==
  ASSUME LaneInv, ChainInv, [Next]_vars, NEW n \in Runs, runs[n].status = "none", runs'[n].status # "none"
  PROVE  Filled' /\ KeysApart' /\ MovedOn' /\ Chained' /\ Rooted'
<1>0. \A o \in Runs : o # n => runs'[o] = runs[o]
  BY RowNew
<1>1. PICK p \in PRs, key \in Keys : Queued(p, key, n) /\ runs'[n].pr = p /\ runs'[n].key = key
  BY RowNew
<1>2. \A o \in Runs : Is(o) <=> o < n
  <2>1. \A o \in Runs : o < n => Is(o)
    BY <1>1 DEF Queued, Is
  <2>2. ~Is(n) /\ \A o \in Runs : n < o => ~Is(o)
    BY DEF ChainInv, Filled, Is
  <2>3. QED
    BY <2>1, <2>2 DEF Runs
<1>3. \A o \in Runs : Is(o)' <=> Is(o) \/ o = n
  BY <1>0 DEF Is
<1>4. \A o \in Runs : Is(o) => o # n /\ runs'[o] = runs[o] /\ runs[o].key \in Keys
  BY <1>0 DEF Is, LaneInv, TypeOK, RunRow
<1>5. \A q, r \in Runs : Is(q) /\ Is(r) => (Alike(q, r)' <=> Alike(q, r))
  BY <1>4 DEF Alike
<1>6. \A o \in Runs : Is(o) => /\ Alike(o, n)' <=> runs[o].pr = p /\ SameRequest(runs[o].key, key)
                               /\ Alike(n, o)' <=> runs[o].pr = p /\ SameRequest(runs[o].key, key)
  BY <1>1, <1>4 DEF Alike, SameRequest
<1>7. \A o \in Runs : ~(Is(o) /\ runs[o].pr = p /\ runs[o].key = key)
  BY <1>1 DEF Queued, Has, Is
<1>8. key.after = 0 \/ Dies(key.after, p, key)
  BY <1>1 DEF Queued, ChainInv, Asked
<1>9. Filled'
  BY <1>2, <1>3 DEF Filled, Runs
<1>10. KeysApart'
  BY <1>1, <1>3, <1>4, <1>7 DEF ChainInv, KeysApart
<1>11. MovedOn'
  <2> SUFFICES ASSUME NEW r \in Runs, Is(r)', runs'[r].key.after # 0
               PROVE  \E a \in Runs : /\ a = runs'[r].key.after /\ a < r
                                      /\ Is(a)' /\ Alike(a, r)' /\ runs'[a].status \in Dead
    BY DEF MovedOn
  <2>1. CASE r = n
    <3>1. PICK a \in Runs : /\ a = key.after /\ Is(a) /\ runs[a].pr = p
                            /\ SameRequest(runs[a].key, key) /\ runs[a].status \in Dead
      BY <1>1, <1>8, <2>1 DEF Dies
    <3>2. a = runs'[r].key.after /\ a < r
      BY <1>1, <1>2, <2>1, <3>1
    <3>3. Is(a)' /\ Alike(a, n)' /\ runs'[a].status \in Dead
      BY <1>3, <1>4, <1>6, <3>1
    <3>4. QED
      BY <2>1, <3>2, <3>3
  <2>2. CASE r # n
    <3>1. Is(r) /\ runs'[r] = runs[r]
      BY <1>0, <1>3, <2>2
    <3>2. PICK a \in Runs : /\ a = runs[r].key.after /\ a < r
                            /\ Is(a) /\ Alike(a, r) /\ runs[a].status \in Dead
      BY <3>1 DEF ChainInv, MovedOn
    <3>3. Is(a)' /\ Alike(a, r)' /\ runs'[a].status \in Dead
      BY <1>3, <1>4, <1>5, <3>1, <3>2
    <3>4. QED
      BY <3>1, <3>2, <3>3
  <2>3. QED
    BY <2>1, <2>2
<1>12. ASSUME NEW q \in Runs, Is(q), runs[q].pr = p, SameRequest(runs[q].key, key)
       PROVE  \E o \in Runs : Is(o)' /\ Alike(o, q)' /\ runs'[o].key.after = q
  <2>1. ASSUME NEW o \in Runs, Is(o), Alike(o, q), runs[o].key.after = key.after PROVE FALSE
    <3>1. runs[o].pr = p /\ SameRequest(runs[o].key, key)
      BY <1>12, <2>1 DEF Alike, SameRequest
    <3>2. runs[o].key = key
      BY <1>4, <2>1, <3>1, KeyIs
    <3>3. QED
      BY <1>7, <2>1, <3>1, <3>2
  <2>2. key.after # 0
    BY <1>12, <2>1 DEF ChainInv, Rooted
  <2>3. Dies(key.after, p, key)
    BY <1>8, <2>2
  <2> DEFINE a == key.after
  <2>4. a \in Runs /\ Is(a) /\ Alike(a, q) /\ Alike(q, a)
    BY <1>12, <2>3 DEF Dies, Alike, SameRequest
  <2>5. ~(a < q)
    <3>1. ASSUME a < q PROVE FALSE
      <4>1. PICK o \in Runs : Is(o) /\ Alike(o, a) /\ runs[o].key.after = a
        BY <1>12, <2>4, <3>1 DEF ChainInv, Chained
      <4>2. Alike(o, q)
        BY <2>4, <4>1 DEF Alike, SameRequest
      <4>3. QED
        BY <2>1, <4>1, <4>2
    <3>2. QED
      BY <3>1
  <2>6. CASE a = q
    BY <1>1, <1>3, <1>6, <1>12, <2>6
  <2>7. CASE q < a
    <3>1. PICK o \in Runs : Is(o) /\ Alike(o, q) /\ runs[o].key.after = q
      BY <1>12, <2>4, <2>7 DEF ChainInv, Chained
    <3>2. QED
      BY <1>3, <1>4, <1>5, <1>12, <3>1
  <2>8. QED
    BY <2>4, <2>5, <2>6, <2>7 DEF Runs
<1>13. Chained'
  <2> SUFFICES ASSUME NEW q \in Runs, NEW r \in Runs, Is(q)', Is(r)', q < r, Alike(q, r)'
               PROVE  \E o \in Runs : Is(o)' /\ Alike(o, q)' /\ runs'[o].key.after = q
    BY DEF Chained
  <2>1. Is(q)
    BY <1>2, <1>3 DEF Runs
  <2>2. CASE r = n
    BY <1>6, <1>12, <2>1, <2>2
  <2>3. CASE r # n
    <3>1. Is(r) /\ Alike(q, r)
      BY <1>3, <1>5, <2>1, <2>3
    <3>2. PICK o \in Runs : Is(o) /\ Alike(o, q) /\ runs[o].key.after = q
      BY <2>1, <3>1 DEF ChainInv, Chained
    <3>3. QED
      BY <1>3, <1>4, <1>5, <2>1, <3>2
  <2>4. QED
    BY <2>2, <2>3
<1>14. Rooted'
  <2> SUFFICES ASSUME NEW r \in Runs, Is(r)'
               PROVE  \E o \in Runs : Is(o)' /\ Alike(o, r)' /\ runs'[o].key.after = 0
    BY DEF Rooted
  <2>1. ASSUME NEW a \in Runs, Is(a), Alike(a, r)' PROVE \E o \in Runs : Is(o)' /\ Alike(o, r)' /\ runs'[o].key.after = 0
    <3>1. PICK o \in Runs : Is(o) /\ Alike(o, a) /\ runs[o].key.after = 0
      BY <2>1 DEF ChainInv, Rooted
    <3>2. Alike(o, a)'
      BY <1>5, <2>1, <3>1
    <3>3. Alike(o, r)'
      BY <2>1, <3>2 DEF Alike, SameRequest
    <3>4. QED
      BY <1>3, <1>4, <3>1, <3>3
  <2>2. CASE r # n
    <3>1. Is(r) /\ Alike(r, r)'
      BY <1>3, <2>2 DEF Alike, SameRequest
    <3>2. QED
      BY <2>1, <3>1
  <2>3. CASE r = n /\ key.after = 0
    <3>1. Alike(n, n)'
      BY DEF Alike, SameRequest
    <3>2. QED
      BY <1>1, <2>3, <3>1
  <2>4. CASE r = n /\ Dies(key.after, p, key)
    <3>1. key.after \in Runs /\ Is(key.after) /\ Alike(key.after, n)'
      BY <1>6, <2>4 DEF Dies
    <3>2. QED
      BY <2>1, <2>4, <3>1
  <2>5. QED
    BY <1>8, <2>2, <2>3, <2>4
<1>15. QED
  BY <1>9, <1>10, <1>11, <1>13, <1>14

\* Two requests that are one never have two runs under way, in whichever order dispatchers look for a
\* run and queue one, deliveries are routed again and runs end (enqueueReview, EnqueueReviewRun).
THEOREM OneRunPerRequestAlways == Spec => []OneRunPerRequest
<1>1. Init => ChainInv
  <2> SUFFICES ASSUME Init PROVE ChainInv
    OBVIOUS
  <2>1. \A r \in Runs : ~Is(r)
    BY DEF Init, Is, NoRun
  <2>2. Asked
    BY DEF Init, Asked, NoRoute
  <2>3. QED
    BY <2>1, <2>2 DEF ChainInv, Filled, KeysApart, MovedOn, Chained, Rooted
<1>2. LaneInv /\ ChainInv /\ [Next]_vars => ChainInv'
  <2> SUFFICES ASSUME LaneInv, ChainInv, [Next]_vars PROVE ChainInv'
    OBVIOUS
  <2>1. Asked'
    <3> SUFFICES ASSUME NEW h \in Routers, routes'[h].step = "ask"
                 PROVE  (routes[h].key.after = 0 \/ Dies(routes[h].key.after, routes[h].pr, routes[h].key))'
      BY DEF Asked
    <3>1. \/ routes'[h].key.after = 0
          \/ Dies(routes'[h].key.after, routes'[h].pr, routes'[h].key)
      BY AsksNext DEF ChainInv, Asked
    <3>2. ASSUME NEW a, NEW p, NEW key, a = routes'[h].key.after, p = routes'[h].pr, key = routes'[h].key,
                 Dies(a, p, key)
          PROVE  Dies(routes[h].key.after, routes[h].pr, routes[h].key)'
      <4>1. Dies(a, p, key)'
        BY <3>2, DiesStill
      <4>2. QED
        BY <3>2, <4>1 DEF Dies, Is
    <3>3. QED
      BY <3>1, <3>2
  <2>2. Filled' /\ KeysApart' /\ MovedOn' /\ Chained' /\ Rooted'
    BY ChainSame, ChainMore
  <2>3. QED
    BY <2>1, <2>2 DEF ChainInv
<1>3. ChainInv => OneRunPerRequest
  <2> SUFFICES ASSUME ChainInv, NEW q \in Runs, NEW r \in Runs, q < r,
                      runs[q].status \in Unended, runs[r].status \in Unended,
                      runs[q].pr = runs[r].pr, SameRequest(runs[q].key, runs[r].key)
               PROVE  FALSE
    <3>1. \A a, b : SameRequest(a, b) => SameRequest(b, a)
      BY DEF SameRequest
    <3>2. \A q, r \in Runs : q = r \/ q < r \/ r < q
      BY DEF Runs
    <3>3. QED
      BY <3>1, <3>2 DEF OneRunPerRequest
  <2>1. Is(q) /\ Is(r) /\ Alike(q, r)
    BY DEF Is, Alike, Unended
  <2>2. PICK o \in Runs : Is(o) /\ Alike(o, q) /\ runs[o].key.after = q
    BY <2>1 DEF ChainInv, Chained
  <2>3. q # 0
    BY DEF Runs
  <2>4. runs[q].status \in Dead
    BY <2>2, <2>3 DEF ChainInv, MovedOn
  <2>5. QED
    BY <2>4 DEF Dead, Unended
<1>4. QED
  BY <1>1, <1>2, <1>3, LaneInvariant, PTL DEF Spec

-----------------------------------------------------------------------------
\* A later run of the pull request that has not stood aside.
Other(r, p) == \E q \in Runs : q > r /\ runs[q].pr = p /\ runs[q].status # "superseded"

\* A lane about to stand aside leaves one, as every run that has stood aside does.
AsideOk ==
  AsideForOther /\ \A l \in Lanes : pc[l] = "aside" => Other(hold[l].run, hold[l].pr)

\* A run comes to stand aside by the lane that holds it.
LEMMA StoodAside ==
  ASSUME LaneInv, [Next]_vars, NEW r \in Runs, runs'[r].status = "superseded"
  PROVE  /\ runs'[r].pr = runs[r].pr /\ runs[r].pr \in PRs
         /\ \/ runs[r].status = "superseded"
            \/ \E l \in Lanes : /\ pc[l] = "aside" /\ hold[l].run = r /\ hold[l].pr = runs[r].pr
                               /\ \A q \in Runs : q # r => runs'[q] = runs[q]
<1>0. RowOk(r) /\ runs[r] \in RunRow
  BY DEF LaneInv, TypeOK
<1>1. RunStep(r)
  BY RunSteps
<1>2. ASSUME NEW p \in PRs, NEW key \in Keys, Queued(p, key, r) PROVE FALSE
  BY <1>2 DEF Queued, LaneInv, TypeOK
<1>3. runs'[r].pr = runs[r].pr /\ runs[r].status # "none"
  BY <1>1, <1>2 DEF RunStep, Unended
<1>4. runs[r].pr \in PRs
  BY <1>0, <1>3 DEF RowOk, RunRow
<1>5. ASSUME NEW l \in Lanes, LetsGo(l, "superseded"), hold[l].run = r
      PROVE  /\ pc[l] = "aside" /\ hold[l].pr = runs[r].pr
             /\ \A q \in Runs : q # r => runs'[q] = runs[q]
  <2>1. pc[l] = "aside" /\ pc[l] \in Working
    BY <1>5 DEF LetsGo, Working
  <2>2. "superseded" \in Ends \cup {"queued"}
    BY DEF Ends
  <2>3. QED
    BY <1>5, <2>1, <2>2, AtWork, LetsGoRun
<1>6. QED
  BY <1>1, <1>2, <1>3, <1>4, <1>5 DEF RunStep

\* The run another was left to may stand aside in turn, and then there is one after it.
LEMMA OtherStill ==
  ASSUME LaneInv, AsideOk, [Next]_vars, NEW r \in Runs, NEW p \in PRs, Other(r, p)
  PROVE  Other(r, p)'
<1>1. PICK q \in Runs : q > r /\ runs[q].pr = p /\ runs[q].status # "superseded"
  BY DEF Other
<1>2. CASE runs'[q].status # "superseded"
  <2>1. runs[q].status # "none"
    BY <1>1, LaneAssumption DEF LaneInv, RowOk, NoRun
  <2>2. runs'[q].pr = p
    BY <1>1, <2>1, RowKept
  <2>3. QED
    BY <1>1, <1>2, <2>2 DEF Other
<1>3. CASE runs'[q].status = "superseded"
  <2>1. PICK l \in Lanes : /\ pc[l] = "aside" /\ hold[l].run = q /\ hold[l].pr = p
                           /\ \A o \in Runs : o # q => runs'[o] = runs[o]
    BY <1>1, <1>3, StoodAside
  <2>2. PICK o \in Runs : o > q /\ runs[o].pr = p /\ runs[o].status # "superseded"
    BY <2>1 DEF AsideOk, Other
  <2>3. o > r /\ o # q
    BY <1>1, <2>2 DEF Runs
  <2>4. QED
    BY <2>1, <2>2, <2>3 DEF Other
<1>4. QED
  BY <1>2, <1>3

\* A lane is about to stand aside because it was, or because it has read of a newer run.
LEMMA AsideNext ==
  ASSUME LaneInv, [Next]_vars, NEW l \in Lanes, pc'[l] = "aside"
  PROVE  /\ pc[l] \in Working /\ hold'[l].run = hold[l].run /\ hold'[l].pr = hold[l].pr
         /\ pc[l] = "aside" \/ NewerQueued(l)
<1>0. TypeOK /\ pc \in [Lanes -> {"idle", "picked"} \cup Working]
  BY DEF LaneInv, TypeOK
<1>1. CASE pc'[l] = pc[l] /\ hold'[l] = hold[l]
  BY <1>1 DEF Working
<1>2. CASE Outside
  BY <1>1, <1>2, OutsideKept DEF Outside, Kept
<1>3. ASSUME NEW m \in Lanes, LaneActs(m), m # l PROVE Kept(l)
  BY <1>3, LaneShapes, HandsKept, RenewsKept, ClaimKept, StoresKept, MovesKept
<1>4. CASE LaneActs(l)
  <2>1. ~Hands(l)
    <3>1. Hands(l) => Free(l)
      BY DEF Hands, Leaves, LetsGo
    <3>2. Free(l) => pc'[l] = "idle"
      BY <1>0, FreeFacts
    <3>3. QED
      BY <3>1, <3>2
  <2>2. CASE Renews(l)
    BY <2>2, RenewFacts
  <2>3. ~ClaimPick(l) /\ ~ClaimTake(l)
    <3>1. ClaimPick(l) => pc'[l] = "picked"
      BY <1>0 DEF ClaimPick
    <3>2. QED
      BY <3>1, TakeFacts
  <2>4. ~Stores(l)
    BY StoreFacts
  <2>5. CASE Moves(l)
    <3>1. pc[l] \in Working /\ hold' = hold
      BY <2>5, MovesType, MoveFacts
    <3>2. GateSuperseded(l) \/ PublishSuperseded(l)
      BY <1>0, <2>5
      DEF Moves, GatePassed, PublishGo, AfterPublish, Gives, Adopt, Post, PostRefused, SummaryFind,
          SummaryEdit, SummaryGone, SummaryCreate, SummarySet, AfterSummary, Goto
    <3>3. QED
      BY <3>1, <3>2 DEF GateSuperseded, PublishSuperseded, StandsAside, LateAnswer
  <2>6. QED
    BY <1>4, <2>1, <2>2, <2>3, <2>4, <2>5, LaneShapes
<1>5. CASE UNCHANGED vars
  BY <1>1, <1>5 DEF vars
<1>6. QED
  BY <1>1, <1>2, <1>3, <1>4, <1>5, NextCases DEF Kept

\* Standing aside always leaves a later run that did not, though a lane reads of it in one statement
\* and ends its own run in another (newerReviewQueued, endReviewRun).
THEOREM AsideForOtherAlways == Spec => []AsideForOther
<1>1. Init => AsideOk
  BY DEF Init, AsideOk, AsideForOther, NoRun
<1>2. LaneInv /\ AsideOk /\ [Next]_vars => AsideOk'
  <2> SUFFICES ASSUME LaneInv, AsideOk, [Next]_vars PROVE AsideOk'
    OBVIOUS
  <2>1. ASSUME NEW r \in Runs, runs'[r].status = "superseded" PROVE Other(r, runs[r].pr)'
    <3>1. runs'[r].pr = runs[r].pr /\ runs[r].pr \in PRs
      BY <2>1, StoodAside
    <3>2. Other(r, runs[r].pr)
      BY <2>1, StoodAside DEF AsideOk, AsideForOther, Other
    <3>3. ASSUME NEW p \in PRs, p = runs[r].pr PROVE Other(r, runs[r].pr)'
      <4>1. Other(r, p)'
        BY <3>2, <3>3, OtherStill
      <4>2. QED
        BY <3>1, <3>3, <4>1 DEF Other
    <3>4. QED
      BY <3>1, <3>3
  <2>2. ASSUME NEW l \in Lanes, pc'[l] = "aside" PROVE Other(hold[l].run, hold[l].pr)'
    <3>1. /\ pc[l] \in Working /\ hold'[l].run = hold[l].run /\ hold'[l].pr = hold[l].pr
          /\ pc[l] = "aside" \/ NewerQueued(l)
      BY <2>2, AsideNext
    <3>2. hold[l].run \in Runs /\ hold[l].pr \in PRs
      BY <3>1, AtWork
    <3>3. NewerQueued(l) => Other(hold[l].run, hold[l].pr)
      BY DEF NewerQueued, Other
    <3>4. Other(hold[l].run, hold[l].pr)
      BY <3>1, <3>3 DEF AsideOk
    <3>5. ASSUME NEW r \in Runs, NEW p \in PRs, r = hold[l].run, p = hold[l].pr
          PROVE  Other(hold[l].run, hold[l].pr)'
      <4>1. Other(r, p)'
        BY <3>4, <3>5, OtherStill
      <4>2. QED
        BY <3>1, <3>5, <4>1 DEF Other
    <3>6. QED
      BY <3>2, <3>5
  <2>3. AsideForOther'
    BY <2>1 DEF AsideForOther, Other
  <2>4. QED
    BY <2>2, <2>3 DEF AsideOk
<1>3. AsideOk => AsideForOther
  BY DEF AsideOk
<1>4. QED
  BY <1>1, <1>2, <1>3, LaneInvariant, PTL DEF Spec

\* A posted run has its checkpoint, and its pull request has a summary.
PostedOk ==
  \A r \in Runs : runs[r].status = "posted" => runs[r].ckpt /\ hub[runs[r].pr].made > 0

\* A run is recorded as posted only with its findings stored and the summary on GitHub, whichever
\* attempt, of whichever lane, got how far (publishReview).
THEOREM PostedIsThereAlways == Spec => []PostedIsThere
<1>1. Init => PostedOk
  BY DEF Init, PostedOk, NoRun
<1>2. LaneInv /\ PostedOk /\ [Next]_vars => PostedOk'
  <2> SUFFICES ASSUME LaneInv, PostedOk, [Next]_vars, NEW r \in Runs, runs'[r].status = "posted"
               PROVE  runs'[r].ckpt /\ hub'[runs'[r].pr].made > 0
    BY DEF PostedOk
  <2>0. RowOk(r) /\ runs[r] \in RunRow /\ runs \in [Runs -> RunRow]
    BY DEF LaneInv, TypeOK
  <2>1. runs'[r].ckpt /\ runs'[r].pr = runs[r].pr /\ hub[runs[r].pr].made > 0 /\ runs[r].pr \in PRs
    <3>1. RunStep(r)
      BY RunSteps
    <3>2. ASSUME NEW p \in PRs, NEW key \in Keys, Queued(p, key, r) PROVE FALSE
      BY <2>0, <3>2 DEF Queued
    <3>3. CASE /\ runs'[r].pr = runs[r].pr /\ runs'[r].key = runs[r].key
               /\ runs'[r].status = runs[r].status /\ (runs[r].ckpt => runs'[r].ckpt)
      BY <2>0, <3>3 DEF PostedOk, RowOk, RunRow
    <3>4. ASSUME NEW l \in Lanes, LetsGo(l, "posted"), hold[l].run = r
          PROVE  runs'[r].ckpt /\ runs'[r].pr = runs[r].pr /\ hub[runs[r].pr].made > 0 /\ runs[r].pr \in PRs
      <4>1. pc[l] \in Working /\ pc[l] = "finish" /\ Fenced(l)
        BY <3>4 DEF LetsGo, FencedPR
      <4>2. CheckpointOk(l) /\ SummaryOk(l) /\ runs[r].pr = hold[l].pr /\ hold[l].pr \in PRs
        BY <3>4, <4>1, AtWork DEF LaneInv, LaneOk
      <4>3. hub[hold[l].pr].made > 0 /\ mine[l].ckpt
        BY <4>1, <4>2 DEF CheckpointOk, SummaryOk
      <4>4. mine[l].ckpt = runs[r].ckpt
        BY <3>4, <4>1, <4>2 DEF CheckpointOk
      <4>5. runs'[r].ckpt = runs[r].ckpt /\ runs'[r].pr = runs[r].pr
        <5>1. "posted" \in Ends \cup {"queued"}
          BY DEF Ends
        <5>2. QED
          BY <3>4, <5>1, LetsGoRun
      <4>6. QED
        BY <4>2, <4>3, <4>4, <4>5
    <3>5. QED
      BY <3>1, <3>2, <3>3, <3>4 DEF RunStep
  <2>2. CASE Next
    BY <2>1, <2>2, SummariesGrow
  <2>3. CASE UNCHANGED vars
    BY <2>1, <2>3 DEF vars
  <2>4. QED
    BY <2>2, <2>3
<1>3. LaneInv /\ PostedOk => PostedIsThere
  BY DEF LaneInv, PostedOk, PostedIsThere, RowOk
<1>4. QED
  BY <1>1, <1>2, <1>3, LaneInvariant, PTL DEF Spec

\* The runs of a pull request that ended with a review.
Reviewed(p) == {r \in Runs : runs[r].pr = p /\ runs[r].status \in {"posted", "shadow"}}

\* A finite set counts one more with one more element.
LEMMA CountOneMore ==
  ASSUME NEW S, IsFiniteSet(S), NEW T, NEW x, x \notin S, T = S \cup {x}
  PROVE  Cardinality(T) = Cardinality(S) + 1
BY FS_AddElement

\* Unless a lane ends its run with a review, no count of reviews moves.
LEMMA ReviewsKept ==
  ASSUME LaneInv, [Next]_vars, NEW p \in PRs,
         \A l \in Lanes, s \in {"posted", "shadow"} : ~LetsGo(l, s)
  PROVE  prs'[p].reviews = prs[p].reviews /\ Reviewed(p)' = Reviewed(p)
<1>1. prs'[p].reviews = prs[p].reviews
  <2>1. CASE prs' = prs
    BY <2>1
  <2>2. CASE Outside
    <3>1. ~Routes => prs' = prs
      BY <2>2, HubType DEF Outside, Sweep, Tick, rowVars
    <3>2. QED
      BY <2>1, <3>1, RouteShape
  <2>3. ASSUME NEW l \in Lanes, LaneActs(l) PROVE prs'[p].reviews = prs[p].reviews
    <3>1. Hands(l) \/ ClaimPick(l) => prs' = prs
      BY DEF Hands, Leaves, LetsGo, ClaimPick, rowVars
    <3>2. CASE Moves(l)
      BY <3>2, MoveFacts
    <3>3. CASE ~Moves(l)
      BY <2>1, <2>3, <3>1, <3>3, LaneShapes, RenewFacts, TakeFacts, StoreFacts
    <3>4. QED
      BY <3>2, <3>3
  <2>4. CASE UNCHANGED vars
    BY <2>1, <2>4 DEF vars
  <2>5. QED
    BY <2>2, <2>3, <2>4, NextCases
<1>2. ASSUME NEW r \in Runs PROVE (r \in Reviewed(p))' <=> r \in Reviewed(p)
  <2>1. RunStep(r)
    BY RunSteps
  <2>2. ASSUME NEW q \in PRs, NEW key \in Keys, Queued(q, key, r)
        PROVE  runs[r].status = "none" /\ runs'[r].status = "queued"
    BY <2>2 DEF Queued, LaneInv, TypeOK
  <2>3. \/ runs'[r].pr = runs[r].pr /\ runs'[r].status = runs[r].status
        \/ /\ runs[r].status \notin {"posted", "shadow"}
           /\ runs'[r].status \notin {"posted", "shadow"}
    BY <2>1, <2>2 DEF RunStep, Unended
  <2>4. QED
    BY <2>3 DEF Reviewed
<1>3. QED
  BY <1>1, <1>2 DEF Reviewed

\* reviews_count is the number of reviews that ended posted or recorded: one that died near its end
\* and was resumed is not counted twice, and none is left out (finishReviewRun).
THEOREM ReviewsCountedAlways == Spec => []ReviewsCounted
<1>0. \A p \in PRs : IsFiniteSet(Reviewed(p)) /\ Reviewed(p) \subseteq Runs
  <2>1. IsFiniteSet(Runs)
    BY FS_Interval, LaneAssumption DEF Runs
  <2>2. QED
    BY <2>1, FS_Subset DEF Reviewed
<1>1. Init => ReviewsCounted
  <2> SUFFICES ASSUME Init, NEW p \in PRs PROVE prs[p].reviews = Cardinality(Reviewed(p))
    BY DEF ReviewsCounted, Reviewed
  <2>1. Reviewed(p) = {}
    BY DEF Init, Reviewed, NoRun
  <2>2. QED
    BY <2>1, FS_EmptySet DEF Init
<1>2. LaneInv /\ ReviewsCounted /\ [Next]_vars => ReviewsCounted'
  <2> SUFFICES ASSUME LaneInv, ReviewsCounted, [Next]_vars, NEW p \in PRs
               PROVE  prs'[p].reviews = Cardinality(Reviewed(p)')
    BY DEF ReviewsCounted, Reviewed
  <2>0. prs[p].reviews = Cardinality(Reviewed(p)) /\ prs \in [PRs -> PRRow]
    BY DEF ReviewsCounted, Reviewed, LaneInv, TypeOK
  <2>1. ASSUME NEW l \in Lanes, NEW s \in {"posted", "shadow"}, LetsGo(l, s)
        PROVE  prs'[p].reviews = Cardinality(Reviewed(p)')
    <3> DEFINE r == hold[l].run
    <3>0. s \in Ends \cup {"queued"}
      BY DEF Ends
    <3>1. /\ r \in Runs /\ runs[r].status \in Unended /\ runs'[r].status = s
          /\ runs'[r].pr = runs[r].pr /\ \A q \in Runs : q # r => runs'[q] = runs[q]
      BY <2>1, <3>0, LetsGoRun
    <3>2. /\ pc[l] \in Working
          /\ prs' = [prs EXCEPT ![hold[l].pr].last = mine[l].head, ![hold[l].pr].reviews = @ + 1]
      BY <2>1 DEF LetsGo
    <3>3. hold[l].pr \in PRs /\ runs[r].pr = hold[l].pr
      BY <3>2, AtWork
    <3>4. CASE p # hold[l].pr
      <4>1. Reviewed(p)' = Reviewed(p)
        BY <3>1, <3>3, <3>4 DEF Reviewed
      <4>2. QED
        BY <2>0, <3>2, <3>4, <4>1
    <3>5. CASE p = hold[l].pr
      <4>1. Reviewed(p)' = Reviewed(p) \cup {r}
        BY <3>1, <3>3, <3>5 DEF Reviewed
      <4>2. r \notin Reviewed(p)
        BY <3>1 DEF Reviewed, Unended
      <4>3. Cardinality(Reviewed(p)') = Cardinality(Reviewed(p)) + 1
        BY <1>0, <4>1, <4>2, CountOneMore
      <4>4. prs'[p].reviews = prs[p].reviews + 1
        <5>1. prs'[p] = [prs[p] EXCEPT !.last = mine[l].head, !.reviews = @ + 1] /\ prs[p] \in PRRow
          BY <2>0, <3>2, <3>5
        <5>2. [prs[p] EXCEPT !.last = mine[l].head, !.reviews = @ + 1].reviews = prs[p].reviews + 1
          BY <5>1 DEF PRRow
        <5>3. QED
          BY <5>1, <5>2
      <4>5. QED
        BY <2>0, <4>3, <4>4
    <3>6. QED
      BY <3>4, <3>5
  <2>2. CASE \A l \in Lanes, s \in {"posted", "shadow"} : ~LetsGo(l, s)
    BY <2>0, <2>2, ReviewsKept
  <2>3. QED
    BY <2>1, <2>2
<1>3. QED
  BY <1>1, <1>2, LaneInvariant, PTL DEF Spec

-----------------------------------------------------------------------------
\* What the lanes hold, as the abstract fence sees it.
KeyBar == [l \in Lanes |-> hold[l].pr]
TokenBar == [l \in Lanes |-> hold[l].lease]

\* A lane that is free again holds nothing.
LEMMA FreeBar ==
  ASSUME TypeOK, NEW l \in Lanes, Free(l)
  PROVE  KeyBar' = [KeyBar EXCEPT ![l] = NoPR] /\ TokenBar' = [TokenBar EXCEPT ![l] = 0]
<1>1. \A m \in Lanes : hold'[m] = IF m = l THEN NoHold ELSE hold[m]
  BY FreeFacts DEF Alone
<1>2. \A m \in Lanes : /\ hold'[m].pr = IF m = l THEN NoPR ELSE hold[m].pr
                       /\ hold'[m].lease = IF m = l THEN 0 ELSE hold[m].lease
  BY <1>1 DEF NoHold
<1>3. QED
  BY <1>2 DEF KeyBar, TokenBar

\* A lane that leaves or lets go of its run drops the pull request or releases it.
LEMMA HandsFence ==
  ASSUME LaneInv, NEW l \in Lanes, Hands(l)
  PROVE  Fence!Next \/ UNCHANGED <<now, prLease, KeyBar, TokenBar>>
<1>0. TypeOK /\ HoldOk(l) /\ prLease \in [PRs -> Nat] /\ pc[l] \in {"idle", "picked"} \cup Working
  BY DEF LaneInv, LaneOk, TypeOK
<1>1. Free(l) /\ now' = now
  BY DEF Hands, Leaves, LetsGo
<1>2. KeyBar' = [KeyBar EXCEPT ![l] = NoPR] /\ TokenBar' = [TokenBar EXCEPT ![l] = 0]
  BY <1>0, <1>1, FreeBar
<1>3. \/ prLease' = prLease
      \/ pc[l] \in Working /\ HeldPR(l) /\ prLease' = [prLease EXCEPT ![hold[l].pr] = 0]
  BY DEF Hands, Leaves, LetsGo, rowVars
<1>4. CASE pc[l] \notin Working
  <2>1. hold[l].pr = NoPR /\ hold[l].lease = 0
    BY <1>0, <1>4 DEF HoldOk, NoHold
  <2>2. KeyBar' = KeyBar /\ TokenBar' = TokenBar
    <3>1. KeyBar[l] = NoPR /\ TokenBar[l] = 0
      BY <2>1 DEF KeyBar, TokenBar
    <3>2. KeyBar = [m \in Lanes |-> KeyBar[m]] /\ TokenBar = [m \in Lanes |-> TokenBar[m]]
      BY DEF KeyBar, TokenBar
    <3>3. QED
      BY <1>2, <3>1, <3>2
  <2>3. QED
    BY <1>1, <1>3, <1>4, <2>2
<1>5. CASE pc[l] \in Working
  <2>1. KeyBar[l] = hold[l].pr /\ TokenBar[l] = hold[l].lease /\ hold[l].pr \in PRs /\ hold[l].pr # NoPR
    BY <1>5, AtWork, LaneAssumption DEF KeyBar, TokenBar
  <2>2. CASE prLease' = prLease
    <3>1. Fence!Drop(l)
      BY <1>1, <1>2, <2>1, <2>2 DEF Fence!Drop, KeyBar, TokenBar
    <3>2. QED
      BY <3>1 DEF Fence!Next
  <2>3. CASE HeldPR(l) /\ prLease' = [prLease EXCEPT ![hold[l].pr] = 0]
    <3>1. prLease[KeyBar[l]] = TokenBar[l] /\ prLease' = [prLease EXCEPT ![KeyBar[l]] = 0]
      BY <2>1, <2>3 DEF HeldPR
    <3>2. Fence!Release(l, 0)
      BY <1>1, <1>2, <2>1, <3>1 DEF Fence!Release, Fence!Passes, KeyBar, TokenBar
    <3>3. QED
      BY <3>2 DEF Fence!Next
  <2>4. QED
    BY <1>3, <2>2, <2>3
<1>6. QED
  BY <1>4, <1>5

\* Each step of the lanes is a step of the fence or leaves it as it is.
LEMMA StepFence == ASSUME LaneInv, [Next]_vars PROVE [Fence!Next]_Fence!fenceVars
<1> DEFINE Same == UNCHANGED <<now, prLease, KeyBar, TokenBar>>
<1>0. Same => UNCHANGED Fence!fenceVars
  BY DEF Fence!fenceVars, KeyBar, TokenBar
<1>1. TypeOK
  BY DEF LaneInv
<1>2. ASSUME UNCHANGED <<prLease, hold>> PROVE UNCHANGED <<prLease, KeyBar, TokenBar>>
  BY <1>2 DEF KeyBar, TokenBar
<1>3. CASE Outside
  <2>1. UNCHANGED <<prLease, hold>>
    BY <1>3, RouteShape, HubType DEF Outside, Sweep, Tick, rowVars, laneVars
  <2>2. CASE Tick
    <3>1. Fence!Tick
      BY <1>2, <2>1, <2>2 DEF Tick, Fence!Tick, KeyBar, TokenBar
    <3>2. QED
      BY <3>1 DEF Fence!Next
  <2>3. CASE ~Tick
    <3>1. now' = now
      BY <1>3, <2>3, RouteShape, HubType DEF Outside, Sweep
    <3>2. QED
      BY <1>0, <1>2, <2>1, <3>1
  <2>4. QED
    BY <2>2, <2>3
<1>4. ASSUME NEW l \in Lanes, LaneActs(l) PROVE Fence!Next \/ Same
  <2>1. CASE Hands(l)
    BY <2>1, HandsFence
  <2>2. CASE Stores(l) \/ Moves(l)
    BY <1>2, <2>2, StoreFacts, MoveFacts
  <2>3. CASE ClaimPick(l)
    <3>1. PICK r \in Runs : hold' = [hold EXCEPT ![l].run = r]
      BY <2>3 DEF ClaimPick
    <3>2. \A m \in Lanes : hold'[m].pr = hold[m].pr /\ hold'[m].lease = hold[m].lease
      BY <1>1, <3>1 DEF TypeOK, Hold
    <3>3. QED
      BY <2>3, <3>2 DEF ClaimPick, rowVars, KeyBar, TokenBar
  <2>4. CASE ClaimTake(l)
    <3>0. PICK p \in PRs : p = runs[hold[l].run].pr
      BY <2>4, TakeFacts
    <3>1. /\ prLease[p] <= now /\ hold[l].pr = NoPR /\ now' = now
          /\ Alone(l) /\ hold'[l].pr = p /\ hold'[l].lease = now + Lease
      BY <2>4, <3>0, TakeFacts
    <3>2. prLease' = [prLease EXCEPT ![p] = now + Lease]
      BY <2>4, <3>0 DEF ClaimTake
    <3>3. KeyBar' = [KeyBar EXCEPT ![l] = p] /\ TokenBar' = [TokenBar EXCEPT ![l] = now + Lease]
      <4>1. \A m \in Lanes : /\ hold'[m].pr = IF m = l THEN p ELSE hold[m].pr
                             /\ hold'[m].lease = IF m = l THEN now + Lease ELSE hold[m].lease
        BY <3>1 DEF Alone
      <4>2. QED
        BY <4>1 DEF KeyBar, TokenBar
    <3>4. KeyBar[l] = NoPR
      BY <3>1 DEF KeyBar
    <3>5. Fence!Take(l, p)
      BY <3>1, <3>2, <3>3, <3>4 DEF Fence!Take, KeyBar, TokenBar
    <3>6. QED
      BY <3>5 DEF Fence!Next
  <2>5. CASE Renews(l)
    <3>1. /\ pc[l] \in Working /\ HeldPR(l) /\ Alone(l) /\ now' = now
          /\ hold'[l].pr = hold[l].pr /\ hold'[l].lease = now + Lease
      BY <2>5, RenewFacts DEF FencedPR
    <3>2. prLease' = [prLease EXCEPT ![hold[l].pr] = now + Lease]
      BY <2>5 DEF Renews, Touch, PostTouch, SummaryTouch, Renewed
    <3>3. KeyBar' = KeyBar /\ TokenBar' = [TokenBar EXCEPT ![l] = now + Lease]
      <4>1. \A m \in Lanes : /\ hold'[m].pr = hold[m].pr
                             /\ hold'[m].lease = IF m = l THEN now + Lease ELSE hold[m].lease
        BY <3>1 DEF Alone
      <4>2. QED
        BY <4>1 DEF KeyBar, TokenBar
    <3>4. KeyBar[l] = hold[l].pr /\ TokenBar[l] = hold[l].lease /\ KeyBar[l] # NoPR
      BY <3>1, AtWork, LaneAssumption DEF KeyBar, TokenBar
    <3>5. prLease[KeyBar[l]] = TokenBar[l] /\ prLease' = [prLease EXCEPT ![KeyBar[l]] = now + Lease]
      BY <3>1, <3>2, <3>4 DEF HeldPR
    <3>6. Fence!Renew(l)
      BY <3>1, <3>3, <3>4, <3>5 DEF Fence!Renew, Fence!Passes, KeyBar, TokenBar
    <3>7. QED
      BY <3>6 DEF Fence!Next
  <2>6. QED
    BY <1>4, <2>1, <2>2, <2>3, <2>4, <2>5, LaneShapes
<1>5. CASE UNCHANGED vars
  BY <1>0, <1>2, <1>5 DEF vars
<1>6. QED
  BY <1>0, <1>3, <1>4, <1>5, NextCases

\* The pull request's lease is a fence: ReviewLane implements LeaseFence, whatever the runs' own
\* leases do, so what is proved of the fence holds of ClaimReviewRun, touchReviewRun,
\* releaseReviewPRLease and finishReviewRun.
THEOREM LaneImplementsFence == Spec => FenceSpec
<1>1. Init => Fence!Init
  BY DEF Init, Fence!Init, NoHold
<1>2. QED
  BY <1>1, StepFence, LaneInvariant, PTL DEF Spec, FenceSpec, Fence!Spec

\* What the fence promises of the pull requests: of the lanes that claimed one and have not let go
\* of it at most one matches the row in its WHERE clause, and one whose lease is live does.
THEOREM LaneFenced == Spec => []Fence!OneWriterPerKey
<1>1. LaneInv => Fence!OneWriterPerKey
  <2> SUFFICES ASSUME LaneInv PROVE Fence!OneWriterPerKey
    OBVIOUS
  <2>1. /\ now \in Nat /\ hold \in [Lanes -> Hold] /\ OneHolder
        /\ \A l \in Lanes : HoldOk(l) /\ (pc[l] \in Working \/ pc[l] \in {"idle", "picked"})
    BY DEF LaneInv, TypeOK, LaneOk, Working
  <2>2. ASSUME NEW l \in Lanes, hold[l].pr # NoPR
        PROVE  /\ pc[l] \in Working /\ hold[l].lease \in Nat
               /\ hold[l].lease > now => prLease[hold[l].pr] = hold[l].lease
    BY <2>1, <2>2 DEF HoldOk, NoHold, Hold, FencedPR, HeldPR
  <2>3. \A l, m \in Lanes : hold[l].pr # NoPR /\ hold[l].pr = hold[m].pr /\ hold[l].lease = hold[m].lease
          => l = m
    BY <2>1, <2>2 DEF OneHolder
  <2>4. QED
    BY <2>1, <2>2, <2>3 DEF Fence!OneWriterPerKey, Fence!Passes
<1>2. QED
  BY <1>1, LaneInvariant, PTL
=============================================================================
