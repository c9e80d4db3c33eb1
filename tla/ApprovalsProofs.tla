-------------------------- MODULE ApprovalsProofs ---------------------------
(***************************************************************************)
(* Approvals, proved for any number of writes, people, approvers and       *)
(* handlers.  The invariant is ApprovalsInv: where a write's turn has come *)
(* to says where the write can be answered, and a handler's next step is   *)
(* its own to take (WriteOk, AnswerOk, OneRunner).                         *)
(***************************************************************************)
EXTENDS Approvals, TLAPS

\* A handler at rest.
LEMMA IdleType == Idle \in Answer
BY ApprovalsAssumption DEF Idle, At, Answer

\* The ways a step moves a handler on.
LEMMA MoveType ==
  ASSUME TypeOK, NEW p \in Handlers, NEW x \in {"run", "list", "replay", "ran", "broke"},
         \/ act' = [act EXCEPT ![p] = Idle]
         \/ act' = [act EXCEPT ![p].pc = x]
  PROVE  act' \in [Handlers -> Answer]
<1>1. act[p] \in Answer /\ act \in [Handlers -> Answer]
  BY DEF TypeOK
<1>2. [act[p] EXCEPT !.pc = x] \in Answer
  BY <1>1 DEF Answer
<1> QED BY <1>1, <1>2, IdleType

\* The ways it goes through the writes a cancel drops.
LEMMA TodoType ==
  ASSUME TypeOK, NEW p \in Handlers, NEW T \in SUBSET Writes,
         \/ act' = [act EXCEPT ![p].todo = T]
         \/ act' = [act EXCEPT ![p].pc = "drop", ![p].todo = T]
  PROVE  act' \in [Handlers -> Answer]
<1>1. act[p] \in Answer /\ act \in [Handlers -> Answer]
  BY DEF TypeOK
<1>2. /\ [act[p] EXCEPT !.todo = T] \in Answer
      /\ [act[p] EXCEPT !.pc = "drop", !.todo = T] \in Answer
  BY <1>1 DEF Answer
<1>3. CASE act' = [act EXCEPT ![p].pc = "drop", ![p].todo = T]
  BY <1>1, <1>2, <1>3
<1> QED BY <1>1, <1>2, <1>3

\* A press or a message is taken up.
LEMMA AnswersType ==
  ASSUME TypeOK, NEW p \in Handlers, NEW a \in Answer, Answers(p, a)
  PROVE  act' \in [Handlers -> Answer] /\ answers' \in 0..MaxAnswers
BY ApprovalsAssumption DEF TypeOK, Answers

\* The way a step drops held writes.
LEMMA DiscardedType == ASSUME TypeOK, NEW ws PROVE Discarded(ws) \in [Writes -> Write]
BY DEF TypeOK, Write, Discarded

\* The ways a step writes a request's row.
LEMMA RequestType ==
  ASSUME TypeOK, NEW w \in Writes, NEW u \in People \cup {Nobody},
         NEW x \in {"pending", "approved", "denied", "failed", "expired", "executed"},
         \/ reqs' = reqs
         \/ reqs' = [reqs EXCEPT ![w].status = x]
         \/ reqs' = [reqs EXCEPT ![w].status = x, ![w].by = u]
         \/ reqs' = [reqs EXCEPT ![w].late = TRUE]
  PROVE reqs' \in [Writes -> Request]
<1>1. reqs[w] \in Request /\ reqs \in [Writes -> Request]
  BY DEF TypeOK
<1>2. [reqs[w] EXCEPT !.status = x] \in Request /\ [reqs[w] EXCEPT !.late = TRUE] \in Request
  BY <1>1 DEF Request
<1>3. [reqs[w] EXCEPT !.status = x, !.by = u] \in Request
  BY <1>1 DEF Request
<1>4. CASE reqs' = [reqs EXCEPT ![w].status = x, ![w].by = u]
  BY <1>1, <1>3, <1>4
<1> QED BY <1>1, <1>2, <1>4
\* The first states satisfy the invariant: nothing is held and nobody answers.
LEMMA InitApprovals == Init => ApprovalsInv
BY ApprovalsAssumption
DEF Init, ApprovalsInv, TypeOK, WriteOk, AnswerOk, OneRunner, Granting, Write, Request, Answer, Idle, At,
    Writes

\* Every step keeps to the types: one case per action.
LEMMA NextType ==
  ASSUME ApprovalsInv, [Next]_vars
  PROVE TypeOK'
<1> USE ApprovalsAssumption DEF ApprovalsInv, TypeOK, AnswerOk, Granting, history
<1>1. ASSUME NEW w \in Writes, Hold(w) PROVE TypeOK'
  BY <1>1 DEF Hold, Write
<1>2. ASSUME NEW w \in Writes, PostConfirm(w) PROVE TypeOK'
  BY <1>2 DEF PostConfirm
<1>3. ASSUME NEW w \in Writes, EscalateRead(w) PROVE TypeOK'
  BY <1>3 DEF EscalateRead
<1>4. ASSUME NEW w \in Writes, EscalateMove(w) PROVE TypeOK'
  BY <1>4, DiscardedType DEF EscalateMove
<1>5. ASSUME NEW w \in Writes, Raise(w) PROVE TypeOK'
  <2>1. reqs' \in [Writes -> Request]
    BY <1>5, RequestType DEF Raise
  <2>2. QED
    BY <1>5, <2>1 DEF Raise
<1>6. ASSUME NEW w \in Writes, Deliver(w) PROVE TypeOK'
  <2>1. reqs' \in [Writes -> Request]
    BY <1>6, RequestType DEF Deliver, SendCard, Delivered, Undelivered
  <2>2. QED
    BY <1>6, <2>1 DEF Deliver, SendCard, Delivered, Undelivered
<1>7. ASSUME NEW w \in Writes, StopTurn(w) PROVE TypeOK'
  BY <1>7, DiscardedType DEF StopTurn
<1>8. ASSUME NEW w \in Writes, TurnDies(w) PROVE TypeOK'
  BY <1>8 DEF TurnDies
<1>9. ASSUME NEW w \in Writes, Lapse(w) PROVE TypeOK'
  BY <1>9 DEF Lapse, Write
<1>10. ASSUME NEW w \in Writes, Age(w) PROVE TypeOK'
  <2>1. reqs' \in [Writes -> Request]
    BY <1>10, RequestType DEF Age, Open
  <2>2. QED
    BY <1>10, <2>1 DEF Age, Open
<1>11. ASSUME NEW w \in Writes, Expire(w) PROVE TypeOK'
  <2>1. reqs' \in [Writes -> Request]
    BY <1>11, RequestType DEF Expire, Expirable, Open
  <2>2. QED
    BY <1>11, <2>1 DEF Expire, Expirable, Open
<1>12. ASSUME NEW p \in Handlers, ClaimWrite(p) PROVE TypeOK'
  <2>1. act' \in [Handlers -> Answer]
    BY <1>12, MoveType DEF ClaimWrite, StillPending
  <2>2. writes' \in [Writes -> Write]
    BY <1>12 DEF ClaimWrite, StillPending, Write
  <2>3. QED
    BY <1>12, <2>1, <2>2 DEF ClaimWrite
<1>13. ASSUME NEW p \in Handlers, RunWrite(p) PROVE TypeOK'
  <2>1. act' \in [Handlers -> Answer]
    BY <1>13, MoveType DEF RunWrite
  <2>2. QED
    BY <1>13, <2>1 DEF RunWrite
<1>14. ASSUME NEW p \in Handlers, DropList(p) PROVE TypeOK'
  <2>1. HeldFor(act[p].who) \in SUBSET Writes
    BY DEF HeldFor
  <2>2. act' \in [Handlers -> Answer]
    BY <1>14, <2>1, TodoType DEF DropList
  <2>3. QED
    BY <1>14, <2>2 DEF DropList
<1>15. ASSUME NEW p \in Handlers, DropOne(p) PROVE TypeOK'
  <2>1. PICK w \in act[p].todo : writes' = Discarded({w}) /\ act' = [act EXCEPT ![p].todo = @ \ {w}]
    BY <1>15 DEF DropOne
  <2>2. act[p].todo \ {w} \in SUBSET Writes
    BY DEF Answer
  <2>3. act' = [act EXCEPT ![p].todo = act[p].todo \ {w}]
    BY <2>1
  <2>4. act' \in [Handlers -> Answer]
    BY <2>2, <2>3, TodoType
  <2>5. QED
    BY <1>15, <2>1, <2>4, DiscardedType DEF DropOne
<1>16. ASSUME NEW p \in Handlers, DropDone(p) PROVE TypeOK'
  <2>1. act' \in [Handlers -> Answer]
    BY <1>16, MoveType DEF DropDone
  <2>2. \A w \in Writes : [reqs[w] EXCEPT !.status = "cancelled"] \in Request
    BY DEF Request
  <2>3. reqs' \in [Writes -> Request]
    BY <1>16, <2>2 DEF DropDone, Own
  <2>4. QED
    BY <1>16, <2>1, <2>3 DEF DropDone, Own
<1>17. ASSUME NEW p \in Handlers, TakeRequest(p) PROVE TypeOK'
  <2>1. act' \in [Handlers -> Answer]
    BY <1>17, MoveType DEF TakeRequest
  <2>2. act[p].w \in Writes /\ act[p].who \in People \cup {Nobody}
    BY <1>17 DEF TakeRequest, Answer
  <2>3. reqs' \in [Writes -> Request]
    BY <1>17, <2>2, RequestType DEF TakeRequest, Request
  <2>4. QED
    BY <1>17, <2>1, <2>3 DEF TakeRequest
<1>18. ASSUME NEW p \in Handlers, Replay(p) PROVE TypeOK'
  <2>1. act' \in [Handlers -> Answer]
    BY <1>18, MoveType DEF Replay
  <2>2. QED
    BY <1>18, <2>1 DEF Replay
<1>19. ASSUME NEW p \in Handlers, FinishRequest(p) PROVE TypeOK'
  <2>1. act' \in [Handlers -> Answer]
    BY <1>19, MoveType DEF FinishRequest
  <2>2. act[p].w \in Writes /\ act[p].who \in People \cup {Nobody}
    BY <1>19 DEF FinishRequest, Answer
  <2>3. reqs' \in [Writes -> Request]
    BY <1>19, <2>2, RequestType DEF FinishRequest, Request
  <2>4. QED
    BY <1>19, <2>1, <2>3 DEF FinishRequest
<1>20. ASSUME NEW p \in Handlers, HandlerDies(p) PROVE TypeOK'
  <2>1. act' \in [Handlers -> Answer]
    BY <1>20, MoveType DEF HandlerDies
  <2>2. QED
    BY <1>20, <2>1 DEF HandlerDies
<1>21. ASSUME NEW p \in Handlers, NEW u \in People, ConfirmTyped(p, u) PROVE TypeOK'
  <2>1. PICK w \in Writes : Answers(p, At("claim", u, w, FALSE))
    BY <1>21 DEF ConfirmTyped
  <2>2. At("claim", u, w, FALSE) \in Answer
    BY DEF At, Answer, Writes
  <2>3. QED
    BY <1>21, <2>1, <2>2, AnswersType DEF ConfirmTyped
<1>22. ASSUME NEW p \in Handlers, NEW u \in People, CancelTyped(p, u) PROVE TypeOK'
  <2>1. At("list", u, 0, TRUE) \in Answer
    BY DEF At, Answer, Writes
  <2>2. QED
    BY <1>22, <2>1, AnswersType DEF CancelTyped
<1>23. ASSUME NEW p \in Handlers, NEW u \in People, NEW w \in Writes, ConfirmPressed(p, u, w)
       PROVE TypeOK'
  <2>1. At("claim", u, w, FALSE) \in Answer
    BY DEF At, Answer, Writes
  <2>2. QED
    BY <1>23, <2>1, AnswersType DEF ConfirmPressed
<1>24. ASSUME NEW p \in Handlers, NEW u \in People, NEW w \in Writes, CancelPressed(p, u, w)
       PROVE TypeOK'
  <2>1. At("discard", u, w, FALSE) \in Answer
    BY DEF At, Answer, Writes
  <2>2. QED
    BY <1>24, <2>1, AnswersType DEF CancelPressed
<1>25. ASSUME NEW p \in Handlers, NEW u \in People, NEW w \in Writes, ApprovePressed(p, u, w)
       PROVE TypeOK'
  <2>1. At("take", u, w, FALSE) \in Answer
    BY DEF At, Answer, Writes
  <2>2. QED
    BY <1>25, <2>1, AnswersType DEF ApprovePressed
<1>26. ASSUME NEW u \in People, Demote(u) PROVE TypeOK'
  BY <1>26 DEF Demote
<1>27. ASSUME NEW w \in Writes, Deny(w) PROVE TypeOK'
  <2>1. reqs' \in [Writes -> Request]
    BY <1>27, RequestType DEF Deny, Open
  <2>2. QED
    BY <1>27, <2>1 DEF Deny, Open
<1>30. ASSUME NEW p \in Handlers, DropOwn(p) PROVE TypeOK'
  <2>1. act' \in [Handlers -> Answer]
    BY <1>30, MoveType DEF DropOwn
  <2>2. QED
    BY <1>30, <2>1, DiscardedType DEF DropOwn
<1>28. CASE UNCHANGED vars
  BY <1>28 DEF vars, history
<1>29. QED
  BY <1>1, <1>2, <1>3, <1>4, <1>5, <1>6, <1>7, <1>8, <1>9, <1>10, <1>11, <1>12, <1>13, <1>14,
     <1>15, <1>16, <1>17, <1>18, <1>19, <1>20, <1>21, <1>22, <1>23, <1>24, <1>25, <1>26, <1>27,
            <1>28, <1>30
  DEF Next, HandlerStep

\* What can still be answered has not run.
LEMMA PendingNotRun ==
  ASSUME NEW w \in Writes, WriteOk(w), runs[w] \in Nat, grants[w] \in Nat
  PROVE  /\ writes[w].status = "pending" => runs[w] = 0
         /\ reqs[w].status = "pending" => grants[w] = 0
<1>1. /\ writes[w].status = "pending" => runs[w] # 1
      /\ reqs[w].status = "pending" => grants[w] # 1
  BY DEF WriteOk
<1>2. runs[w] <= 1 /\ grants[w] <= 1
  BY DEF WriteOk
<1> QED BY <1>1, <1>2

\* Where a write can be answered, and what has run, agree after every step.
LEMMA NextWrite ==
  ASSUME ApprovalsInv, TypeOK', [Next]_vars, NEW v \in Writes
  PROVE WriteOk(v)'
<1> USE ApprovalsAssumption DEF ApprovalsInv, TypeOK, Write, Request, Answer, Idle, At, WriteOk,
        AnswerOk, OneRunner, Granting, history
<1>1. ASSUME NEW w \in Writes, Hold(w) PROVE WriteOk(v)'
  BY <1>1 DEF Hold
<1>2. ASSUME NEW w \in Writes, PostConfirm(w) PROVE WriteOk(v)'
  BY <1>2 DEF PostConfirm
<1>3. ASSUME NEW w \in Writes, EscalateRead(w) PROVE WriteOk(v)'
  BY <1>3 DEF EscalateRead
<1>4. ASSUME NEW w \in Writes, EscalateMove(w) PROVE WriteOk(v)'
  BY <1>4 DEF EscalateMove, Discarded
<1>5. ASSUME NEW w \in Writes, Raise(w) PROVE WriteOk(v)'
  BY <1>5 DEF Raise
<1>6. ASSUME NEW w \in Writes, Deliver(w) PROVE WriteOk(v)'
  <2>1. WriteOk(v) /\ reqs[v] \in Request /\ turn[v] \in {"idle", "working", "read", "moved",
        "raised", "over", "died"}
    OBVIOUS
  <2>2. reqs \in [Writes -> Request] /\ turn \in [Writes -> {"idle", "working", "read", "moved",
        "raised", "over", "died"}]
    OBVIOUS
  <2> HIDE DEF ApprovalsInv, TypeOK
  <2>3. \/ turn'[v] = turn[v] /\ reqs'[v] = reqs[v]
        \/ /\ turn[v] = "raised" /\ turn'[v] = "over"
           /\ reqs'[v] = reqs[v] \/ reqs'[v] = [reqs[v] EXCEPT !.status = "failed"]
    BY <1>6, <2>2 DEF Deliver, SendCard, Delivered, Undelivered
  <2>4. /\ UNCHANGED <<writes, card, runs, grants, early, refused>>
        /\ v \in asked' => v \in asked \/ turn[v] = "raised"
    BY <1>6 DEF Deliver, SendCard, Delivered, Undelivered
  <2>5. w \in Writes /\ (turn[v] = "raised" => w = v \/ turn'[v] = turn[v])
    BY <1>6, <2>2 DEF Deliver, SendCard, Delivered, Undelivered
  <2>6. QED
    BY <2>1, <2>3, <2>4
<1>7. ASSUME NEW w \in Writes, StopTurn(w) PROVE WriteOk(v)'
  BY <1>7 DEF StopTurn, Discarded
<1>8. ASSUME NEW w \in Writes, TurnDies(w) PROVE WriteOk(v)'
  BY <1>8 DEF TurnDies
<1>9. ASSUME NEW w \in Writes, Lapse(w) PROVE WriteOk(v)'
  BY <1>9 DEF Lapse
<1>10. ASSUME NEW w \in Writes, Age(w) PROVE WriteOk(v)'
  BY <1>10 DEF Age, Open
<1>11. ASSUME NEW w \in Writes, Expire(w) PROVE WriteOk(v)'
  <2>1. WriteOk(v) /\ reqs[v] \in Request /\ grants[v] \in Nat /\ runs[v] \in Nat
    OBVIOUS
  <2>2. reqs \in [Writes -> Request]
    OBVIOUS
  <2> HIDE DEF ApprovalsInv, TypeOK
  <2>3. \/ reqs'[v] = reqs[v] /\ (v \in refused' <=> v \in refused)
        \/ reqs[v].status = "pending" /\ reqs'[v] = [reqs[v] EXCEPT !.status = "expired"]
    BY <1>11, <2>2 DEF Expire, Expirable, Open
  <2>4. UNCHANGED <<writes, turn, card, asked, runs, grants, early>>
    BY <1>11 DEF Expire, Expirable, Open
  <2>5. reqs[v].status = "pending" => grants[v] = 0
    BY <2>1, PendingNotRun
  <2>6. QED
    BY <2>1, <2>3, <2>4, <2>5
<1>12. ASSUME NEW p \in Handlers, ClaimWrite(p) PROVE WriteOk(v)'
  <2>1. WriteOk(v) /\ AnswerOk(p) /\ writes \in [Writes -> Write]
    OBVIOUS
  <2> HIDE DEF ApprovalsInv, TypeOK
  <2>2. UNCHANGED <<turn, card, reqs, asked, runs, grants, refused>>
    BY <1>12 DEF ClaimWrite
  <2>3. \/ writes'[v] = writes[v] /\ (v \in early' <=> v \in early)
        \/ /\ v = act[p].w /\ writes[v].status = "pending" /\ writes'[v].status = "approved"
           /\ v \in early' <=> v \in early \/ turn[v] \in {"working", "read"}
    BY <1>12, <2>1 DEF ClaimWrite, StillPending
  <2>4. QED
    BY <1>12, <2>1, <2>2, <2>3 DEF ClaimWrite
<1>13. ASSUME NEW p \in Handlers, RunWrite(p) PROVE WriteOk(v)'
  BY <1>13 DEF RunWrite
<1>14. ASSUME NEW p \in Handlers, DropList(p) PROVE WriteOk(v)'
  <2>1. UNCHANGED <<writes, turn, card, reqs, asked, runs, grants, early, refused>>
    BY <1>14 DEF DropList
  <2>2. QED
    BY <2>1
<1>15. ASSUME NEW p \in Handlers, DropOne(p) PROVE WriteOk(v)'
  BY <1>15 DEF DropOne, Discarded
<1>16. ASSUME NEW p \in Handlers, DropDone(p) PROVE WriteOk(v)'
  <2>1. WriteOk(v) /\ reqs[v] \in Request /\ grants[v] \in Nat /\ runs[v] \in Nat
    OBVIOUS
  <2>2. reqs \in [Writes -> Request]
    OBVIOUS
  <2> HIDE DEF ApprovalsInv, TypeOK
  <2>3. \/ reqs'[v] = reqs[v] /\ (v \in refused' <=> v \in refused)
        \/ reqs[v].status = "pending" /\ reqs'[v] = [reqs[v] EXCEPT !.status = "cancelled"]
    BY <1>16, <2>2 DEF DropDone, Own, Open
  <2>4. UNCHANGED <<writes, turn, card, asked, runs, grants, early>>
    BY <1>16 DEF DropDone, Own, Open
  <2>5. reqs[v].status = "pending" => grants[v] = 0
    BY <2>1, PendingNotRun
  <2>6. QED
    BY <2>1, <2>3, <2>4, <2>5
<1>17. ASSUME NEW p \in Handlers, TakeRequest(p) PROVE WriteOk(v)'
  <2>1. WriteOk(v) /\ AnswerOk(p) /\ reqs \in [Writes -> Request]
    OBVIOUS
  <2> HIDE DEF ApprovalsInv, TypeOK
  <2>2. UNCHANGED <<turn, card, writes, asked, runs, grants, early, refused>>
    BY <1>17 DEF TakeRequest
  <2>3. \/ reqs'[v] = reqs[v]
        \/ /\ v = act[p].w /\ Open(v) /\ reqs'[v].status = "approved"
           /\ reqs'[v].by = act[p].who /\ reqs'[v].late = reqs[v].late
    BY <1>17, <2>1 DEF TakeRequest, Takeable
  <2>4. QED
    BY <1>17, <2>1, <2>2, <2>3 DEF TakeRequest, Open
<1>18. ASSUME NEW p \in Handlers, Replay(p) PROVE WriteOk(v)'
  BY <1>18 DEF Replay
<1>19. ASSUME NEW p \in Handlers, FinishRequest(p) PROVE WriteOk(v)'
  <2>1. /\ WriteOk(v) /\ AnswerOk(p) /\ reqs \in [Writes -> Request] /\ reqs[v] \in Request
        /\ grants[v] \in Nat
    OBVIOUS
  <2> HIDE DEF ApprovalsInv, TypeOK
  <2>2. \/ reqs'[v] = reqs[v]
        \/ v = act[p].w /\ \E x \in {"executed", "failed"} : reqs'[v] = [reqs[v] EXCEPT !.status = x]
    BY <1>19, <2>1 DEF FinishRequest
  <2>3. UNCHANGED <<writes, turn, card, asked, runs, grants, early, refused>>
    BY <1>19 DEF FinishRequest
  <2>4. act[p].pc \in {"ran", "broke"}
    BY <1>19 DEF FinishRequest
  <2>5. QED
    BY <2>1, <2>2, <2>3, <2>4
<1>20. ASSUME NEW p \in Handlers, HandlerDies(p) PROVE WriteOk(v)'
  BY <1>20 DEF HandlerDies
<1>21. ASSUME NEW p \in Handlers, NEW u \in People, ConfirmTyped(p, u) PROVE WriteOk(v)'
  BY <1>21 DEF ConfirmTyped, Answers, Live, MayConfirm
<1>22. ASSUME NEW p \in Handlers, NEW u \in People, CancelTyped(p, u) PROVE WriteOk(v)'
  BY <1>22 DEF CancelTyped, Answers
<1>23. ASSUME NEW p \in Handlers, NEW u \in People, NEW w \in Writes, ConfirmPressed(p, u, w)
       PROVE WriteOk(v)'
  BY <1>23 DEF ConfirmPressed, Answers, Live, MayConfirm
<1>24. ASSUME NEW p \in Handlers, NEW u \in People, NEW w \in Writes, CancelPressed(p, u, w)
       PROVE WriteOk(v)'
  BY <1>24 DEF CancelPressed, Answers, Live, MayConfirm
<1>25. ASSUME NEW p \in Handlers, NEW u \in People, NEW w \in Writes, ApprovePressed(p, u, w)
       PROVE WriteOk(v)'
  BY <1>25 DEF ApprovePressed, Answers, MayApprove
<1>26. ASSUME NEW u \in People, Demote(u) PROVE WriteOk(v)'
  BY <1>26 DEF Demote
<1>27. ASSUME NEW w \in Writes, Deny(w) PROVE WriteOk(v)'
  <2>1. WriteOk(v) /\ reqs[v] \in Request /\ grants[v] \in Nat /\ runs[v] \in Nat
    OBVIOUS
  <2>2. reqs \in [Writes -> Request]
    OBVIOUS
  <2> HIDE DEF ApprovalsInv, TypeOK
  <2>3. \/ reqs'[v] = reqs[v] /\ (v \in refused' <=> v \in refused)
        \/ reqs[v].status = "pending" /\ reqs'[v] = [reqs[v] EXCEPT !.status = "denied"]
    BY <1>27, <2>2 DEF Deny, Open
  <2>4. UNCHANGED <<writes, turn, card, asked, runs, grants, early>>
    BY <1>27 DEF Deny, Open
  <2>5. reqs[v].status = "pending" => grants[v] = 0
    BY <2>1, PendingNotRun
  <2>6. QED
    BY <2>1, <2>3, <2>4, <2>5
<1>30. ASSUME NEW p \in Handlers, DropOwn(p) PROVE WriteOk(v)'
  <2>1. UNCHANGED <<turn, card, reqs, asked, runs, grants, early, refused>>
    BY <1>30 DEF DropOwn
  <2>2. writes'[v] = writes[v] \/ (writes[v].status = "pending" /\ writes'[v].status = "discarded")
    BY <1>30 DEF DropOwn, Discarded
  <2>3. QED
    BY <2>1, <2>2
<1>28. CASE UNCHANGED vars
  BY <1>28 DEF vars, history
<1>29. QED
  BY <1>1, <1>2, <1>3, <1>4, <1>5, <1>6, <1>7, <1>8, <1>9, <1>10, <1>11, <1>12, <1>13, <1>14,
     <1>15, <1>16, <1>17, <1>18, <1>19, <1>20, <1>21, <1>22, <1>23, <1>24, <1>25, <1>26, <1>27,
            <1>28, <1>30
  DEF Next, HandlerStep

\* What a handler is about to do stays its own to do, whatever the others' steps are.
LEMMA NextAnswer ==
  ASSUME ApprovalsInv, TypeOK', [Next]_vars, NEW q \in Handlers
  PROVE AnswerOk(q)'
<1> USE ApprovalsAssumption DEF ApprovalsInv, TypeOK, Write, Request, Answer, Idle, At, WriteOk,
        AnswerOk, OneRunner, Granting, history
<1>1. ASSUME NEW w \in Writes, Hold(w) PROVE AnswerOk(q)'
  BY <1>1 DEF Hold
<1>2. ASSUME NEW w \in Writes, PostConfirm(w) PROVE AnswerOk(q)'
  BY <1>2 DEF PostConfirm
<1>3. ASSUME NEW w \in Writes, EscalateRead(w) PROVE AnswerOk(q)'
  BY <1>3 DEF EscalateRead
<1>4. ASSUME NEW w \in Writes, EscalateMove(w) PROVE AnswerOk(q)'
  BY <1>4 DEF EscalateMove, Discarded
<1>5. ASSUME NEW w \in Writes, Raise(w) PROVE AnswerOk(q)'
  <2>1. AnswerOk(q) /\ WriteOk(w) /\ reqs \in [Writes -> Request] /\ turn \in [Writes -> {"idle",
        "working", "read", "moved", "raised", "over", "died"}]
    OBVIOUS
  <2> HIDE DEF ApprovalsInv, TypeOK
  <2>2. \A x \in Writes :
          /\ x # w => turn'[x] = turn[x] /\ reqs'[x] = reqs[x]
          /\ turn[x] # "idle" => turn'[x] # "idle"
    BY <1>5, <2>1 DEF Raise
  <2>3. reqs[w].status = "none"
    BY <1>5, <2>1 DEF Raise
  <2>4. UNCHANGED <<writes, act, runs, grants, refused, asked>>
    BY <1>5 DEF Raise
  <2>5. act'[q].todo \subseteq {x \in Writes : turn'[x] # "idle"}
    <3>1. act[q].todo \subseteq {x \in Writes : turn[x] # "idle"}
      BY <2>1
    <3>2. QED
      BY <2>2, <2>4, <3>1, Zenon
  <2>6. act[q].pc \in Granting => act[q].w # w
    BY <2>1, <2>3
  <2>7. act[q].pc \in Granting => reqs'[act[q].w] = reqs[act[q].w]
    BY <2>1, <2>2, <2>6
  <2>8. \A x \in Writes : turn[x] # "idle" => turn'[x] # "idle"
    BY <2>2
  <2>9. act'[q] = act[q]
    BY <2>4
  <2> HIDE DEF WriteOk
  <2>10. QED
    BY <2>1, <2>4, <2>5, <2>7, <2>8, <2>9
<1>6. ASSUME NEW w \in Writes, Deliver(w) PROVE AnswerOk(q)'
  <2>1. AnswerOk(q) /\ WriteOk(w) /\ reqs \in [Writes -> Request] /\ turn \in [Writes -> {"idle",
        "working", "read", "moved", "raised", "over", "died"}]
    OBVIOUS
  <2> HIDE DEF ApprovalsInv, TypeOK
  <2>2. \A x \in Writes : x # w => turn'[x] = turn[x] /\ reqs'[x] = reqs[x]
    BY <1>6, <2>1 DEF Deliver, SendCard, Delivered, Undelivered
  <2>3. /\ turn[w] = "raised" /\ turn'[w] \in {"raised", "over"}
        /\ reqs'[w] = reqs[w] \/ reqs'[w] = [reqs[w] EXCEPT !.status = "failed"]
    BY <1>6, <2>1 DEF Deliver, SendCard, Delivered, Undelivered
  <2>4. UNCHANGED <<writes, act, runs, grants, refused>> /\ asked \subseteq asked'
    BY <1>6 DEF Deliver, SendCard, Delivered, Undelivered
  <2>5. reqs[w] \in Request
    BY <2>1
  <2>6. QED
    BY <2>1, <2>2, <2>3, <2>4, <2>5
<1>7. ASSUME NEW w \in Writes, StopTurn(w) PROVE AnswerOk(q)'
  BY <1>7 DEF StopTurn, Discarded
<1>8. ASSUME NEW w \in Writes, TurnDies(w) PROVE AnswerOk(q)'
  BY <1>8 DEF TurnDies
<1>9. ASSUME NEW w \in Writes, Lapse(w) PROVE AnswerOk(q)'
  BY <1>9 DEF Lapse
<1>10. ASSUME NEW w \in Writes, Age(w) PROVE AnswerOk(q)'
  BY <1>10 DEF Age, Open
<1>11. ASSUME NEW w \in Writes, Expire(w) PROVE AnswerOk(q)'
  BY <1>11 DEF Expire, Expirable, Open
<1>12. ASSUME NEW p \in Handlers, ClaimWrite(p) PROVE AnswerOk(q)'
  <2>1. /\ AnswerOk(p) /\ AnswerOk(q) /\ act[p].w \in Writes /\ WriteOk(act[p].w)
        /\ act \in [Handlers -> Answer] /\ writes \in [Writes -> Write] /\ runs[act[p].w] \in Nat /\ grants[act[p].w] \in Nat
    BY <1>12 DEF ClaimWrite
  <2> HIDE DEF ApprovalsInv, TypeOK
  <2>2. writes[act[p].w].status = "pending" => runs[act[p].w] = 0
    BY <2>1, PendingNotRun
  <2>3. UNCHANGED <<turn, reqs, asked, runs, grants, refused>>
    BY <1>12 DEF ClaimWrite
  <2>4. CASE q = p
    BY <1>12, <2>1, <2>2, <2>3, <2>4 DEF ClaimWrite, StillPending
  <2>5. CASE q # p
    <3>1. act'[q] = act[q]
      BY <1>12, <2>1, <2>5 DEF ClaimWrite
    <3>2. \A w \in Writes : writes'[w] = writes[w] \/ writes'[w].status = "approved"
      BY <1>12, <2>1 DEF ClaimWrite
    <3>3. QED
      BY <2>1, <2>3, <3>1, <3>2
  <2>6. QED
    BY <2>4, <2>5
<1>13. ASSUME NEW p \in Handlers, RunWrite(p) PROVE AnswerOk(q)'
  BY <1>13 DEF RunWrite
<1>14. ASSUME NEW p \in Handlers, DropList(p) PROVE AnswerOk(q)'
  <2>1. HeldFor(act[p].who) \subseteq {w \in Writes : turn[w] # "idle"}
    BY DEF HeldFor, Live
  <2>2. UNCHANGED <<writes, turn, reqs, asked, runs, grants, refused>>
    BY <1>14 DEF DropList
  <2>4. CASE q = p
    BY <1>14, <2>1, <2>2, <2>4 DEF DropList
  <2>5. CASE q # p
    <3>1. act'[q] = act[q]
      BY <1>14, <2>1, <2>5 DEF DropList
    <3>2. QED
      BY <2>2, <3>1
  <2>6. QED
    BY <2>4, <2>5
<1>15. ASSUME NEW p \in Handlers, DropOne(p) PROVE AnswerOk(q)'
  BY <1>15 DEF DropOne, Discarded
<1>16. ASSUME NEW p \in Handlers, DropDone(p) PROVE AnswerOk(q)'
  BY <1>16 DEF DropDone, Own, Open
<1>17. ASSUME NEW p \in Handlers, TakeRequest(p) PROVE AnswerOk(q)'
  <2>1. /\ AnswerOk(p) /\ AnswerOk(q) /\ act[p].w \in Writes /\ WriteOk(act[p].w)
        /\ act \in [Handlers -> Answer] /\ reqs \in [Writes -> Request] /\ runs[act[p].w] \in Nat /\ grants[act[p].w] \in Nat
    BY <1>17 DEF TakeRequest
  <2> HIDE DEF ApprovalsInv, TypeOK
  <2>2. Open(act[p].w) => grants[act[p].w] = 0
    BY <2>1, PendingNotRun DEF Open
  <2>3. UNCHANGED <<turn, writes, asked, runs, grants, refused>>
    BY <1>17 DEF TakeRequest
  <2>4. CASE q = p
    <3>1. CASE Takeable(act[p].who, act[p].w)
      <4>1. act'[p] = [act[p] EXCEPT !.pc = "replay"] /\ act[p].pc = "take"
        BY <1>17, <2>1, <3>1 DEF TakeRequest
      <4>2. reqs'[act[p].w].status = "approved" /\ reqs'[act[p].w].by = act[p].who
        BY <1>17, <2>1, <3>1 DEF TakeRequest
      <4>3. reqs[act[p].w].status = "pending"
        BY <3>1 DEF Takeable, Open
      <4>4. act[p].w \notin refused
        BY <2>1, <4>3
      <4>5. QED
        BY <2>1, <2>2, <2>3, <2>4, <4>1, <4>2, <4>3, <4>4 DEF Open
    <3>2. CASE ~Takeable(act[p].who, act[p].w)
      BY <1>17, <2>1, <2>4, <3>2 DEF TakeRequest
    <3>3. QED
      BY <3>1, <3>2
  <2>5. CASE q # p
    <3>1. act'[q] = act[q]
      BY <1>17, <2>1, <2>5 DEF TakeRequest
    <3>2. \A w \in Writes : reqs'[w] = reqs[w] \/ reqs[w].status = "pending"
      BY <1>17, <2>1 DEF TakeRequest, Takeable, Open
    <3>3. QED
      BY <2>1, <2>3, <3>1, <3>2
  <2>6. QED
    BY <2>4, <2>5
<1>18. ASSUME NEW p \in Handlers, Replay(p) PROVE AnswerOk(q)'
  <2>1. /\ AnswerOk(p) /\ AnswerOk(q) /\ act[p].w \in Writes /\ OneRunner
        /\ act \in [Handlers -> Answer] /\ grants \in [Writes -> Nat]
    BY <1>18 DEF Replay
  <2> HIDE DEF ApprovalsInv, TypeOK
  <2>2. UNCHANGED <<turn, writes, reqs, asked, runs, refused>>
    BY <1>18 DEF Replay
  <2>3. \A w \in Writes : w # act[p].w => grants'[w] = grants[w]
    BY <1>18, <2>1 DEF Replay
  <2>4. CASE q = p
    <3>1. act'[p] = [act[p] EXCEPT !.pc = "ran"] \/ act'[p] = [act[p] EXCEPT !.pc = "broke"]
      BY <1>18, <2>1 DEF Replay
    <3>2. QED
      BY <1>18, <2>1, <2>2, <2>4, <3>1 DEF Replay
  <2>5. CASE q # p
    <3>1. act'[q] = act[q]
      BY <1>18, <2>1, <2>5 DEF Replay
    <3>2. QED
      BY <1>18, <2>1, <2>2, <2>3, <2>5, <3>1 DEF Replay
  <2>6. QED
    BY <2>4, <2>5
<1>19. ASSUME NEW p \in Handlers, FinishRequest(p) PROVE AnswerOk(q)'
  BY <1>19 DEF FinishRequest
<1>20. ASSUME NEW p \in Handlers, HandlerDies(p) PROVE AnswerOk(q)'
  BY <1>20 DEF HandlerDies
<1>21. ASSUME NEW p \in Handlers, NEW u \in People, ConfirmTyped(p, u) PROVE AnswerOk(q)'
  BY <1>21 DEF ConfirmTyped, Answers, Live, MayConfirm
<1>22. ASSUME NEW p \in Handlers, NEW u \in People, CancelTyped(p, u) PROVE AnswerOk(q)'
  BY <1>22 DEF CancelTyped, Answers
<1>23. ASSUME NEW p \in Handlers, NEW u \in People, NEW w \in Writes, ConfirmPressed(p, u, w)
       PROVE AnswerOk(q)'
  BY <1>23 DEF ConfirmPressed, Answers, Live, MayConfirm
<1>24. ASSUME NEW p \in Handlers, NEW u \in People, NEW w \in Writes, CancelPressed(p, u, w)
       PROVE AnswerOk(q)'
  BY <1>24 DEF CancelPressed, Answers, Live, MayConfirm
<1>25. ASSUME NEW p \in Handlers, NEW u \in People, NEW w \in Writes, ApprovePressed(p, u, w)
       PROVE AnswerOk(q)'
  BY <1>25 DEF ApprovePressed, Answers, MayApprove
<1>26. ASSUME NEW u \in People, Demote(u) PROVE AnswerOk(q)'
  BY <1>26 DEF Demote
<1>27. ASSUME NEW w \in Writes, Deny(w) PROVE AnswerOk(q)'
  BY <1>27 DEF Deny, Open
<1>30. ASSUME NEW p \in Handlers, DropOwn(p) PROVE AnswerOk(q)'
  <2>1. UNCHANGED <<turn, card, reqs, asked, runs, grants, early, refused>>
    BY <1>30 DEF DropOwn
  <2>2. \A w \in Writes : writes'[w] = writes[w] \/ (writes[w].status = "pending"
        /\ writes'[w].status = "discarded")
    BY <1>30 DEF DropOwn, Discarded
  <2>3. CASE q = p
    BY <1>30, <2>1, <2>3 DEF DropOwn
  <2>4. CASE q # p
    <3>1. act'[q] = act[q]
      BY <1>30, <2>4 DEF DropOwn
    <3>2. AnswerOk(q)
      OBVIOUS
    <3> HIDE DEF ApprovalsInv, TypeOK
    <3>3. \A w \in Writes : writes[w].status \in {"none", "approved"} => writes'[w] = writes[w]
      BY <2>2
    <3>4. \A w \in Writes : writes[w].status # "none" => writes'[w].status # "none"
      BY <2>2
    <3>5. QED
      BY <2>1, <3>1, <3>2, <3>3, <3>4
  <2>5. QED
    BY <2>3, <2>4
<1>28. CASE UNCHANGED vars
  BY <1>28 DEF vars, history
<1>29. QED
  BY <1>1, <1>2, <1>3, <1>4, <1>5, <1>6, <1>7, <1>8, <1>9, <1>10, <1>11, <1>12, <1>13, <1>14,
     <1>15, <1>16, <1>17, <1>18, <1>19, <1>20, <1>21, <1>22, <1>23, <1>24, <1>25, <1>26, <1>27,
            <1>28, <1>30
  DEF Next, HandlerStep

\* No step but those two puts a handler to carrying a write out.
LEMMA RunnerKept ==
  ASSUME OneRunner, NEW p \in Handlers,
         \A q \in Handlers : q # p => act'[q] = act[q],
         /\ act'[p].pc = "run" => act[p].pc = "run" /\ act'[p].w = act[p].w
         /\ act'[p].pc \in Granting => act[p].pc \in Granting /\ act'[p].w = act[p].w
  PROVE  OneRunner'
BY DEF OneRunner, Granting

\* The two updates that decide who answered first keep two handlers from one write.
LEMMA NextOneRunner ==
  ASSUME ApprovalsInv, TypeOK', [Next]_vars
  PROVE OneRunner'
<1> USE ApprovalsAssumption DEF ApprovalsInv, TypeOK, Write, Request, Answer, Idle, At, WriteOk,
        AnswerOk, OneRunner, Granting, history
<1>1. ASSUME NEW w \in Writes, Hold(w) PROVE OneRunner'
  BY <1>1 DEF Hold
<1>2. ASSUME NEW w \in Writes, PostConfirm(w) PROVE OneRunner'
  BY <1>2 DEF PostConfirm
<1>3. ASSUME NEW w \in Writes, EscalateRead(w) PROVE OneRunner'
  BY <1>3 DEF EscalateRead
<1>4. ASSUME NEW w \in Writes, EscalateMove(w) PROVE OneRunner'
  BY <1>4 DEF EscalateMove, Discarded
<1>5. ASSUME NEW w \in Writes, Raise(w) PROVE OneRunner'
  BY <1>5 DEF Raise
<1>6. ASSUME NEW w \in Writes, Deliver(w) PROVE OneRunner'
  BY <1>6 DEF Deliver, SendCard, Delivered, Undelivered
<1>7. ASSUME NEW w \in Writes, StopTurn(w) PROVE OneRunner'
  BY <1>7 DEF StopTurn, Discarded
<1>8. ASSUME NEW w \in Writes, TurnDies(w) PROVE OneRunner'
  BY <1>8 DEF TurnDies
<1>9. ASSUME NEW w \in Writes, Lapse(w) PROVE OneRunner'
  BY <1>9 DEF Lapse
<1>10. ASSUME NEW w \in Writes, Age(w) PROVE OneRunner'
  BY <1>10 DEF Age, Open
<1>11. ASSUME NEW w \in Writes, Expire(w) PROVE OneRunner'
  BY <1>11 DEF Expire, Expirable, Open
<1>12. ASSUME NEW p \in Handlers, ClaimWrite(p) PROVE OneRunner'
  <2>1. act \in [Handlers -> Answer] /\ OneRunner /\ AnswerOk(p)
    OBVIOUS
  <2>2. \A q \in Handlers : act[q].pc = "run" => writes[act[q].w].status = "approved"
    OBVIOUS
  <2> HIDE DEF ApprovalsInv, TypeOK, AnswerOk, WriteOk
  <2>3. \A q \in Handlers : q # p => act'[q] = act[q]
    BY <1>12, <2>1 DEF ClaimWrite
  <2>4. CASE StillPending(act[p].w)
    <3>1. act'[p] = [act[p] EXCEPT !.pc = "run"] /\ act[p] \in Answer
      BY <1>12, <2>1, <2>4 DEF ClaimWrite
    <3>2. \A q \in Handlers : act[q].pc = "run" => act[q].w # act[p].w
      BY <2>2, <2>4 DEF StillPending
    <3>3. act'[p].pc = "run" /\ act'[p].w = act[p].w
      BY <3>1
    <3>4. QED
      BY <2>1, <2>3, <3>2, <3>3
  <2>5. CASE ~StillPending(act[p].w)
    <3>1. act'[p].pc = "idle"
      BY <1>12, <2>1, <2>5 DEF ClaimWrite
    <3>2. QED
      BY <2>1, <2>3, <3>1, RunnerKept
  <2>6. QED
    BY <2>4, <2>5
<1>13. ASSUME NEW p \in Handlers, RunWrite(p) PROVE OneRunner'
  BY <1>13 DEF RunWrite
<1>14. ASSUME NEW p \in Handlers, DropList(p) PROVE OneRunner'
  <2>1. act'[p].pc = "drop" /\ \A q \in Handlers : q # p => act'[q] = act[q]
    BY <1>14 DEF DropList
  <2>2. OneRunner
    OBVIOUS
  <2> HIDE DEF ApprovalsInv, TypeOK, AnswerOk, WriteOk, OneRunner
  <2>3. QED
    BY <2>1, <2>2, RunnerKept DEF Granting
<1>15. ASSUME NEW p \in Handlers, DropOne(p) PROVE OneRunner'
  BY <1>15 DEF DropOne, Discarded
<1>16. ASSUME NEW p \in Handlers, DropDone(p) PROVE OneRunner'
  BY <1>16 DEF DropDone, Own, Open
<1>17. ASSUME NEW p \in Handlers, TakeRequest(p) PROVE OneRunner'
  <2>1. AnswerOk(p) /\ OneRunner /\ act \in [Handlers -> Answer]
    OBVIOUS
  <2>2. ASSUME NEW q \in Handlers, act[q].pc \in Granting, Open(act[p].w)
        PROVE  act[q].w # act[p].w
    <3>1. AnswerOk(q) /\ AnswerOk(p) /\ WriteOk(act[p].w)
      BY <1>17 DEF TakeRequest
    <3> HIDE DEF ApprovalsInv, TypeOK, OneRunner
    <3>2. QED
      BY <1>17, <2>2, <3>1 DEF TakeRequest, Open
  <2> HIDE DEF ApprovalsInv, TypeOK, AnswerOk, WriteOk
  <2>3. \A q \in Handlers : q # p => act'[q] = act[q]
    BY <1>17, <2>1 DEF TakeRequest
  <2>4. (act'[p].w = act[p].w /\ Open(act[p].w)) \/ act'[p].pc = "idle"
    BY <1>17, <2>1 DEF TakeRequest, Takeable
  <2>5. \A q \in Handlers : act[q].pc \in Granting /\ Open(act[p].w) => act[q].w # act[p].w
    BY <2>2
  <2>6. CASE act'[p].pc = "idle"
    BY <2>1, <2>3, <2>6, RunnerKept
  <2>7. CASE act'[p].w = act[p].w /\ Open(act[p].w)
    <3>1. act'[p].pc # "run"
      BY <1>17, <2>1 DEF TakeRequest
    <3>2. QED
      BY <2>1, <2>3, <2>5, <2>7, <3>1
  <2>8. QED
    BY <2>4, <2>6, <2>7
<1>18. ASSUME NEW p \in Handlers, Replay(p) PROVE OneRunner'
  <2>1. OneRunner /\ act \in [Handlers -> Answer]
    OBVIOUS
  <2> HIDE DEF ApprovalsInv, TypeOK, AnswerOk, WriteOk
  <2>2. \A q \in Handlers : act'[q].w = act[q].w /\ (q # p => act'[q] = act[q])
    BY <1>18, <2>1 DEF Replay
  <2>3. act[p].pc = "replay"
    BY <1>18 DEF Replay
  <2>4. act'[p].pc \in {"ran", "broke"}
    BY <1>18, <2>1 DEF Replay
  <2>5. QED
    BY <2>1, <2>2, <2>3, <2>4, RunnerKept
<1>19. ASSUME NEW p \in Handlers, FinishRequest(p) PROVE OneRunner'
  BY <1>19 DEF FinishRequest
<1>20. ASSUME NEW p \in Handlers, HandlerDies(p) PROVE OneRunner'
  BY <1>20 DEF HandlerDies
<1>21. ASSUME NEW p \in Handlers, NEW u \in People, ConfirmTyped(p, u) PROVE OneRunner'
  BY <1>21 DEF ConfirmTyped, Answers, Live, MayConfirm
<1>22. ASSUME NEW p \in Handlers, NEW u \in People, CancelTyped(p, u) PROVE OneRunner'
  BY <1>22 DEF CancelTyped, Answers
<1>23. ASSUME NEW p \in Handlers, NEW u \in People, NEW w \in Writes, ConfirmPressed(p, u, w)
       PROVE OneRunner'
  BY <1>23 DEF ConfirmPressed, Answers, Live, MayConfirm
<1>24. ASSUME NEW p \in Handlers, NEW u \in People, NEW w \in Writes, CancelPressed(p, u, w)
       PROVE OneRunner'
  BY <1>24 DEF CancelPressed, Answers, Live, MayConfirm
<1>25. ASSUME NEW p \in Handlers, NEW u \in People, NEW w \in Writes, ApprovePressed(p, u, w)
       PROVE OneRunner'
  BY <1>25 DEF ApprovePressed, Answers, MayApprove
<1>26. ASSUME NEW u \in People, Demote(u) PROVE OneRunner'
  BY <1>26 DEF Demote
<1>27. ASSUME NEW w \in Writes, Deny(w) PROVE OneRunner'
  BY <1>27 DEF Deny, Open
<1>30. ASSUME NEW p \in Handlers, DropOwn(p) PROVE OneRunner'
  <2>1. act'[p].pc = "list" /\ \A q \in Handlers : q # p => act'[q] = act[q]
    BY <1>30 DEF DropOwn
  <2>2. OneRunner
    OBVIOUS
  <2> HIDE DEF ApprovalsInv, TypeOK, AnswerOk, WriteOk, OneRunner
  <2>3. QED
    BY <2>1, <2>2, RunnerKept DEF Granting
<1>28. CASE UNCHANGED vars
  BY <1>28 DEF vars, history
<1>29. QED
  BY <1>1, <1>2, <1>3, <1>4, <1>5, <1>6, <1>7, <1>8, <1>9, <1>10, <1>11, <1>12, <1>13, <1>14,
     <1>15, <1>16, <1>17, <1>18, <1>19, <1>20, <1>21, <1>22, <1>23, <1>24, <1>25, <1>26, <1>27,
            <1>28, <1>30
  DEF Next, HandlerStep

\* Every reachable state satisfies the invariant, also when somebody confirms under a turn at work
\* and when the console denies a request whose cards are going out.
THEOREM ApprovalsInvariant == Spec => []ApprovalsInv
<1>1. ApprovalsInv /\ [Next]_vars => ApprovalsInv'
  BY NextType, NextWrite, NextAnswer, NextOneRunner DEF ApprovalsInv
<1>2. QED
  BY InitApprovals, <1>1, PTL DEF Spec

\* A write runs only as it was answered, once in each place it can be answered in and in one of them
\* only unless it was confirmed early, and never after its request was refused
\* (TakePendingWriteByID, TakeAccessRequest).
THEOREM RunWasAnsweredAlways == Spec => []RunWasAnswered
<1>1. ApprovalsInv => RunWasAnswered
  <2> SUFFICES ASSUME ApprovalsInv, NEW w \in Writes
               PROVE  /\ runs[w] <= 1 /\ grants[w] <= 1
                      /\ runs[w] = 1 => writes[w].status = "approved"
                      /\ grants[w] = 1 =>
                           /\ reqs[w].status \in {"approved", "executed", "failed"}
                           /\ reqs[w].by \in Approvers \ {AskerOf[w]} /\ w \notin refused
                      /\ runs[w] + grants[w] = 2 => w \in early
    BY DEF RunWasAnswered
  <2>1. WriteOk(w) /\ runs[w] \in Nat /\ grants[w] \in Nat
    BY DEF ApprovalsInv, TypeOK
  <2>2. runs[w] + grants[w] = 2 => runs[w] = 1 /\ grants[w] = 1
    BY <2>1 DEF WriteOk
  <2>3. QED
    BY <2>1, <2>2 DEF WriteOk
<1>2. QED
  BY <1>1, ApprovalsInvariant, PTL

\* A write held on a turn that tagged an approver is not confirmed in the thread once the turn is
\* over, unless the turn's process died before it moved the write (escalatePending).
THEOREM TaggedNeedsApproverAlways == Spec => []TaggedNeedsApprover
<1>1. ApprovalsInv => TaggedNeedsApprover
  <2> SUFFICES ASSUME ApprovalsInv, NEW w \in Tagged, runs[w] > 0, w \notin early
               PROVE  turn[w] = "died"
    BY DEF TaggedNeedsApprover
  <2>1. w \in Writes /\ WriteOk(w) /\ runs[w] \in Nat
    BY ApprovalsAssumption DEF ApprovalsInv, TypeOK
  <2>2. turn[w] \in {"idle", "working", "read", "moved", "raised", "over", "died"}
    BY <2>1 DEF ApprovalsInv, TypeOK
  <2>3. runs[w] = 1
    BY <2>1 DEF WriteOk
  <2>4. QED
    BY <2>1, <2>2, <2>3 DEF WriteOk
<1>2. QED
  BY <1>1, ApprovalsInvariant, PTL

\* An answered request stays answered as it was: no late press, sweep or withdrawal rewrites it, only
\* the turn that raised it when it reached nobody (DenyAccessRequest, claimAccess, deliverAccessCards).
THEOREM AnswerIsFinalAlways == Spec => AnswerIsFinal
<1> DEFINE Final(w) ==
       reqs[w].status \in {"denied", "cancelled", "expired", "executed"} =>
         \/ reqs'[w].status = reqs[w].status
         \/ turn[w] = "raised" /\ turn'[w] = "over" /\ reqs'[w].status = "failed"
<1>1. ApprovalsInv /\ [Next]_vars => [\A w \in Writes : Final(w)]_vars
  <2> SUFFICES ASSUME ApprovalsInv, Next, NEW v \in Writes PROVE Final(v)
    OBVIOUS
  <2>0. /\ WriteOk(v) /\ reqs \in [Writes -> Request] /\ (\A p \in Handlers : AnswerOk(p))
        /\ turn \in [Writes -> {"idle", "working", "read", "moved", "raised", "over", "died"}]
    BY DEF ApprovalsInv, TypeOK
  <2>1. ASSUME NEW w \in Writes, Raise(w) \/ Deliver(w) PROVE Final(v)
    BY <2>0, <2>1 DEF Raise, Deliver, SendCard, Delivered, Undelivered, WriteOk, Request
  <2>2. ASSUME NEW w \in Writes, Age(w) \/ Expire(w) \/ Deny(w) PROVE Final(v)
    BY <2>0, <2>2 DEF Age, Expire, Expirable, Open, Deny, Request
  <2>3. ASSUME NEW p \in Handlers, DropDone(p) PROVE Final(v)
    BY <2>0, <2>3 DEF DropDone, Own, Open, Request
  <2>4. ASSUME NEW p \in Handlers, TakeRequest(p) PROVE Final(v)
    BY <2>0, <2>4 DEF TakeRequest, Takeable, Open, Request
  <2>5. ASSUME NEW p \in Handlers, FinishRequest(p) PROVE Final(v)
    BY <2>0, <2>5 DEF FinishRequest, AnswerOk, Granting, Request
  <2>6. CASE UNCHANGED reqs
    BY <2>6
  <2>7. QED
    BY <2>1, <2>2, <2>3, <2>4, <2>5, <2>6
    DEF Next, HandlerStep, Hold, PostConfirm, EscalateRead, EscalateMove, StopTurn, TurnDies, Lapse,
        ClaimWrite, RunWrite, DropOwn, DropList, DropOne, Replay, HandlerDies, ConfirmTyped,
        CancelTyped, ConfirmPressed, CancelPressed, ApprovePressed, Demote
<1>2. QED
  BY <1>1, ApprovalsInvariant, PTL DEF Spec, AnswerIsFinal
=============================================================================
