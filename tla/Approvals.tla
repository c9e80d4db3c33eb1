----------------------------- MODULE Approvals ------------------------------
(***************************************************************************)
(* Writes that wait for a person.  A turn holds a write; its requester or  *)
(* an approver confirms it in the thread, by a button or by typing, or     *)
(* drops it.  On a turn that tagged an approver the held write is moved to *)
(* an access request, which only an approver answers, and whose recorded   *)
(* calls are then replayed.  Every answer is a handler of its own, and     *)
(* nothing but conditional updates keeps them apart.                       *)
(***************************************************************************)
EXTENDS Naturals, FiniteSets, FiniteSetsExt

CONSTANTS
  N,           \* bound: writes held in the thread, numbered in the order of their ids
  People,
  Approvers,   \* who holds an approval role at first
  AskerOf,     \* who asked for each write
  Tagged,      \* the writes held by a turn that tagged an approver, its requester being none
  Handlers,    \* presses and messages being handled at once
  Nobody,
  MaxAnswers   \* bound: presses and messages

Writes == 1..N

ASSUME ApprovalsAssumption ==
  /\ N \in Nat /\ MaxAnswers \in Nat
  /\ Nobody \notin People /\ Approvers \subseteq People
  /\ AskerOf \in [Writes -> People] /\ Tagged \subseteq Writes
  /\ \A w \in Tagged : AskerOf[w] \notin Approvers

VARIABLES
  writes,     \* pending_writes: status, and whether the confirmation window is open
  turn,       \* how far the turn that holds each write has come
  card,       \* writes whose confirmation card is in the thread
  reqs,       \* access_requests: status, who approved, whether its time is up
  asked,      \* requests of which a card has reached an approver
  approvers,  \* who holds an approval role now
  act,        \* act[p]: the answer a handler is at, and how far
  runs,       \* times each write has run as it was held, confirmed in the thread
  grants,     \* times it has run as a request, approved
  cut,        \* history: writes whose approved request lost its handler before it could say how it ended
  early,      \* history: writes confirmed before the turn that held them was through with them
  refused,    \* history: writes whose request was denied, withdrawn or left to expire
  answers     \* presses and messages so far

history == <<cut, early, refused>>
vars == <<writes, turn, card, reqs, asked, approvers, act, runs, grants, history, answers>>

Write == [status : {"none", "pending", "approved", "discarded"}, fresh : BOOLEAN]
Request == [status : {"none", "pending", "approved", "denied", "cancelled", "expired", "failed", "executed"},
            by : People \cup {Nobody}, late : BOOLEAN]
Answer == [pc : {"idle", "claim", "run", "discard", "list", "drop", "take", "replay", "ran", "broke"},
           who : People \cup {Nobody}, w : 0..N, todo : SUBSET Writes, typed : BOOLEAN]

\* A handler at the start of its answer.
At(pc, u, w, typed) == [pc |-> pc, who |-> u, w |-> w, todo |-> {}, typed |-> typed]

Idle == At("idle", Nobody, 0, FALSE)

TypeOK ==
  /\ writes \in [Writes -> Write]
  /\ turn \in [Writes -> {"idle", "working", "read", "moved", "raised", "over", "died"}]
  /\ card \subseteq Writes /\ asked \subseteq Writes
  /\ cut \subseteq Writes /\ early \subseteq Writes /\ refused \subseteq Writes
  /\ reqs \in [Writes -> Request]
  /\ approvers \subseteq Approvers
  /\ act \in [Handlers -> Answer]
  /\ runs \in [Writes -> Nat] /\ grants \in [Writes -> Nat] /\ answers \in 0..MaxAnswers

Init ==
  /\ writes = [w \in Writes |-> [status |-> "none", fresh |-> FALSE]]
  /\ turn = [w \in Writes |-> "idle"]
  /\ card = {} /\ asked = {} /\ cut = {} /\ early = {} /\ refused = {}
  /\ reqs = [w \in Writes |-> [status |-> "none", by |-> Nobody, late |-> FALSE]]
  /\ approvers = Approvers
  /\ act = [p \in Handlers |-> Idle]
  /\ runs = [w \in Writes |-> 0] /\ grants = [w \in Writes |-> 0] /\ answers = 0
-----------------------------------------------------------------------------
(* The turn that holds the write.                                          *)

\* AddPendingWrite.  A thread's turns come one after the other.
Hold(w) ==
  /\ turn[w] = "idle" /\ \A v \in Writes : v < w => turn[v] \in {"over", "died"}
  /\ turn' = [turn EXCEPT ![w] = "working"]
  /\ writes' = [writes EXCEPT ![w] = [status |-> "pending", fresh |-> TRUE]]
  /\ UNCHANGED <<card, reqs, asked, approvers, act, runs, grants, history, answers>>

\* postPendingConfirm: the card of a write nobody was tagged for.
PostConfirm(w) ==
  /\ turn[w] = "working" /\ w \notin Tagged
  /\ turn' = [turn EXCEPT ![w] = "over"]
  /\ card' = card \cup {w}
  /\ UNCHANGED <<writes, reqs, asked, approvers, act, runs, grants, history, answers>>

\* escalatePending reads the held write; one already answered is left.
EscalateRead(w) ==
  /\ turn[w] = "working" /\ w \in Tagged
  /\ turn' = [turn EXCEPT ![w] = IF writes[w].status = "pending" THEN "read" ELSE "over"]
  /\ UNCHANGED <<writes, card, reqs, asked, approvers, act, runs, grants, history, answers>>

\* (mutant: a write is dropped whatever its status)
DiscardedAny(ws) ==
  [w \in Writes |-> IF w \in ws THEN [writes[w] EXCEPT !.status = "discarded"] ELSE writes[w]]

\* DiscardPendingWrite.
Discarded(ws) ==
  [w \in Writes |-> IF w \in ws /\ writes[w].status = "pending"
                    THEN [writes[w] EXCEPT !.status = "discarded"] ELSE writes[w]]

\* (mutant: the write stays where its requester can answer it)
EscalateCopy(w) ==
  /\ turn[w] = "read"
  /\ turn' = [turn EXCEPT ![w] = "moved"]
  /\ UNCHANGED <<writes, card, reqs, asked, approvers, act, runs, grants, history, answers>>

\* Then it discards it, and does not ask whether it was still there to discard.
EscalateMove(w) ==
  /\ turn[w] = "read"
  /\ turn' = [turn EXCEPT ![w] = "moved"]
  /\ writes' = Discarded({w})
  /\ UNCHANGED <<card, reqs, asked, approvers, act, runs, grants, history, answers>>

\* raiseAccessRequest: a tier can grant it, and the request is recorded; or none can.
Raise(w) ==
  /\ turn[w] = "moved"
  /\ \/ /\ turn' = [turn EXCEPT ![w] = "raised"]
        /\ reqs' = [reqs EXCEPT ![w].status = "pending"]
     \/ /\ turn' = [turn EXCEPT ![w] = "over"]
        /\ reqs' = reqs
  /\ UNCHANGED <<writes, card, asked, approvers, act, runs, grants, history, answers>>

\* deliverAccessCards: a card reaches an approver, who may answer it while the others go out.
SendCard(w) ==
  /\ turn[w] = "raised" /\ w \notin asked
  /\ asked' = asked \cup {w}
  /\ UNCHANGED <<writes, turn, card, reqs, approvers, act, runs, grants, history, answers>>

\* Slack said that one got there.
Delivered(w) ==
  /\ turn[w] = "raised" /\ w \in asked
  /\ turn' = [turn EXCEPT ![w] = "over"]
  /\ UNCHANGED <<writes, card, reqs, asked, approvers, act, runs, grants, history, answers>>

\* It never did - no card got there, or no answer came back - and the request is closed, whatever
\* became of it meanwhile: FinishAccessRequest names the request only.
Undelivered(w) ==
  /\ turn[w] = "raised"
  /\ turn' = [turn EXCEPT ![w] = "over"]
  /\ reqs' = [reqs EXCEPT ![w].status = "failed"]
  /\ UNCHANGED <<writes, card, asked, approvers, act, runs, grants, history, answers>>

Deliver(w) == SendCard(w) \/ Delivered(w) \/ Undelivered(w)

\* finishStopped: the turn is called off, and with it everything held in the thread.
StopTurn(w) ==
  /\ turn[w] = "working"
  /\ turn' = [turn EXCEPT ![w] = "over"]
  /\ writes' = Discarded(Writes)
  /\ UNCHANGED <<card, reqs, asked, approvers, act, runs, grants, history, answers>>

\* The process dies under the turn.
TurnDies(w) ==
  /\ turn[w] \in {"working", "read", "moved", "raised"}
  /\ turn' = [turn EXCEPT ![w] = "died"]
  /\ UNCHANGED <<writes, card, reqs, asked, approvers, act, runs, grants, history, answers>>
-----------------------------------------------------------------------------
(* Answering a held write.                                                 *)

Live(w) == writes[w].status = "pending" /\ writes[w].fresh
MayConfirm(u, w) == u = AskerOf[w] \/ u \in approvers

Answers(p, a) ==
  /\ act[p].pc = "idle" /\ answers < MaxAnswers
  /\ answers' = answers + 1
  /\ act' = [act EXCEPT ![p] = a]

\* confirmPressed, as far as the update: the write is live and the presser may confirm it.
ConfirmPressed(p, u, w) ==
  /\ w \in card /\ Live(w) /\ MayConfirm(u, w)
  /\ Answers(p, At("claim", u, w, FALSE))
  /\ UNCHANGED <<writes, turn, card, reqs, asked, approvers, runs, grants, history>>

\* confirmFlow: the newest live write of the thread, whichever the person meant, and whether or not
\* the turn that holds it is still at work.
ConfirmTyped(p, u) ==
  /\ \E w \in Writes :
       /\ Live(w) /\ \A v \in Writes : Live(v) => v <= w
       /\ MayConfirm(u, w)
       /\ Answers(p, At("claim", u, w, FALSE))
  /\ UNCHANGED <<writes, turn, card, reqs, asked, approvers, runs, grants, history>>

\* (mutant: the update does not ask again, as TakePendingWrite's does not)
StillPendingRead(w) == TRUE
StillPending(w) == writes[w].status = "pending"

\* TakePendingWriteByID: the update decides who answered first.
ClaimWrite(p) ==
  LET w == act[p].w IN
  /\ act[p].pc = "claim"
  /\ IF StillPending(w)
     THEN /\ writes' = [writes EXCEPT ![w].status = "approved"]
          /\ early' = IF turn[w] \in {"working", "read"} THEN early \cup {w} ELSE early
          /\ act' = [act EXCEPT ![p].pc = "run"]
     ELSE UNCHANGED <<writes, early>> /\ act' = [act EXCEPT ![p] = Idle]
  /\ UNCHANGED <<turn, card, reqs, asked, approvers, runs, grants, cut, refused, answers>>

\* runPending: the service took the call, or it failed.
RunWrite(p) ==
  LET w == act[p].w IN
  /\ act[p].pc = "run"
  /\ runs' \in {runs, [runs EXCEPT ![w] = @ + 1]}
  /\ act' = [act EXCEPT ![p] = Idle]
  /\ UNCHANGED <<writes, turn, card, reqs, asked, approvers, grants, history, answers>>

\* cancelPressed: refused only while the write is live and somebody else's.
CancelPressed(p, u, w) ==
  /\ w \in card /\ (Live(w) => MayConfirm(u, w))
  /\ Answers(p, At("discard", u, w, FALSE))
  /\ UNCHANGED <<writes, turn, card, reqs, asked, approvers, runs, grants, history>>

\* confirmFlow, cancel typed.
CancelTyped(p, u) ==
  /\ Answers(p, At("list", u, 0, TRUE))
  /\ UNCHANGED <<writes, turn, card, reqs, asked, approvers, runs, grants, history>>

\* PendingWritesInThread, those the person may answer.
HeldFor(u) == {w \in Writes : Live(w) /\ MayConfirm(u, w)}

\* The card's own write is dropped, whether or not it still waits.
DropOwn(p) ==
  /\ act[p].pc = "discard"
  /\ writes' = Discarded({act[p].w})
  /\ act' = [act EXCEPT ![p].pc = "list"]
  /\ UNCHANGED <<turn, card, reqs, asked, approvers, runs, grants, history, answers>>

\* dropHeldWrites: the thread's are read, and then dropped one by one.
DropList(p) ==
  /\ act[p].pc = "list"
  /\ act' = [act EXCEPT ![p].pc = "drop", ![p].todo = HeldFor(act[p].who)]
  /\ UNCHANGED <<writes, turn, card, reqs, asked, approvers, runs, grants, history, answers>>

DropOne(p) ==
  /\ act[p].pc = "drop"
  /\ \E w \in act[p].todo :
       /\ writes' = Discarded({w})
       /\ act' = [act EXCEPT ![p].todo = @ \ {w}]
  /\ UNCHANGED <<turn, card, reqs, asked, approvers, runs, grants, history, answers>>

\* (mutant: a request is open until it has run)
OpenUntilRun(w) == reqs[w].status \in {"pending", "denied", "cancelled", "expired"}
Open(w) == reqs[w].status = "pending"

\* A typed cancel also withdraws the person's own requests (CancelAccessRequests).
Own(p) == {w \in Writes : act[p].typed /\ AskerOf[w] = act[p].who /\ Open(w)}

DropDone(p) ==
  /\ act[p].pc = "drop" /\ act[p].todo = {}
  /\ reqs' = [w \in Writes |->
                IF w \in Own(p) THEN [reqs[w] EXCEPT !.status = "cancelled"] ELSE reqs[w]]
  /\ refused' = refused \cup Own(p)
  /\ act' = [act EXCEPT ![p] = Idle]
  /\ UNCHANGED <<writes, turn, card, asked, approvers, runs, grants, cut, early, answers>>

\* The confirmation window closes.
Lapse(w) ==
  /\ Live(w)
  /\ writes' = [writes EXCEPT ![w].fresh = FALSE]
  /\ UNCHANGED <<turn, card, reqs, asked, approvers, act, runs, grants, history, answers>>
-----------------------------------------------------------------------------
(* Answering an access request.                                            *)

\* mayApprove.  A setting that lets the requester approve (AllowSelfApprove) is off; a write is only
\* moved to a request when its requester is no approver.
MayApprove(u, w) == u \in approvers /\ u # AskerOf[w]

ApprovePressed(p, u, w) ==
  /\ w \in asked /\ MayApprove(u, w)
  /\ Answers(p, At("take", u, w, FALSE))
  /\ UNCHANGED <<writes, turn, card, reqs, asked, approvers, runs, grants, history>>

\* TakeAccessRequest.
Takeable(u, w) == Open(w) /\ ~reqs[w].late /\ u # AskerOf[w]

TakeRequest(p) ==
  LET w == act[p].w IN
  /\ act[p].pc = "take"
  /\ IF Takeable(act[p].who, w)
     THEN /\ reqs' = [reqs EXCEPT ![w].status = "approved", ![w].by = act[p].who]
          /\ act' = [act EXCEPT ![p].pc = "replay"]
     ELSE reqs' = reqs /\ act' = [act EXCEPT ![p] = Idle]
  /\ UNCHANGED <<writes, turn, card, asked, approvers, runs, grants, history, answers>>

\* runGrant and replay: the calls ran; or one failed, after some of them ran or before any did.
Replay(p) ==
  LET w == act[p].w
      ran == [grants EXCEPT ![w] = @ + 1]
  IN /\ act[p].pc = "replay"
     /\ \/ grants' = ran /\ act' = [act EXCEPT ![p].pc = "ran"]
        \/ grants' \in {grants, ran} /\ act' = [act EXCEPT ![p].pc = "broke"]
     /\ UNCHANGED <<writes, turn, card, reqs, asked, approvers, runs, history, answers>>

\* FinishAccessRequest.
FinishRequest(p) ==
  /\ act[p].pc \in {"ran", "broke"}
  /\ reqs' = [reqs EXCEPT ![act[p].w].status = IF act[p].pc = "ran" THEN "executed" ELSE "failed"]
  /\ act' = [act EXCEPT ![p] = Idle]
  /\ UNCHANGED <<writes, turn, card, asked, approvers, runs, grants, history, answers>>

\* DenyAccessRequest: an approver's press, or the console's deny, which asks neither for a card nor
\* for an approver.
Deny(w) ==
  /\ Open(w)
  /\ reqs' = [reqs EXCEPT ![w].status = "denied"]
  /\ refused' = refused \cup {w}
  /\ UNCHANGED <<writes, turn, card, asked, approvers, act, runs, grants, cut, early, answers>>

\* A request's time is up, days after its cards went out.
Age(w) ==
  /\ Open(w) /\ ~reqs[w].late /\ turn[w] # "raised"
  /\ reqs' = [reqs EXCEPT ![w].late = TRUE]
  /\ UNCHANGED <<writes, turn, card, asked, approvers, act, runs, grants, history, answers>>

\* (mutant: the sweep looks at the requests somebody was asked about)
ExpirableAsked(w) == Open(w) /\ reqs[w].late /\ w \in asked
Expirable(w) == Open(w) /\ reqs[w].late

\* sweepAccessRequests.
Expire(w) ==
  /\ Expirable(w)
  /\ reqs' = [reqs EXCEPT ![w].status = "expired"]
  /\ refused' = refused \cup {w}
  /\ UNCHANGED <<writes, turn, card, asked, approvers, act, runs, grants, cut, early, answers>>

\* Somebody loses the approval role.
Demote(u) ==
  /\ u \in approvers
  /\ approvers' = approvers \ {u}
  /\ UNCHANGED <<writes, turn, card, reqs, asked, act, runs, grants, history, answers>>

\* The process dies under a handler; nobody takes its work up again.
HandlerDies(p) ==
  /\ act[p].pc # "idle"
  /\ cut' = IF act[p].pc \in {"replay", "ran", "broke"} THEN cut \cup {act[p].w} ELSE cut
  /\ act' = [act EXCEPT ![p] = Idle]
  /\ UNCHANGED <<writes, turn, card, reqs, asked, approvers, runs, grants, early, refused, answers>>

HandlerStep(p) ==
  \/ ClaimWrite(p) \/ RunWrite(p) \/ DropOwn(p) \/ DropList(p) \/ DropOne(p) \/ DropDone(p)
  \/ TakeRequest(p) \/ Replay(p) \/ FinishRequest(p)

Next ==
  \/ \E w \in Writes :
       \/ Hold(w) \/ PostConfirm(w) \/ EscalateRead(w) \/ EscalateMove(w) \/ Raise(w) \/ Deliver(w)
       \/ StopTurn(w) \/ TurnDies(w) \/ Lapse(w) \/ Age(w) \/ Expire(w) \/ Deny(w)
  \/ \E p \in Handlers :
       \/ HandlerStep(p) \/ HandlerDies(p)
       \/ \E u \in People :
            \/ ConfirmTyped(p, u) \/ CancelTyped(p, u)
            \/ \E w \in Writes : ConfirmPressed(p, u, w) \/ CancelPressed(p, u, w) \/ ApprovePressed(p, u, w)
  \/ \E u \in People : Demote(u)

\* Handlers and turns have deadlines, time passes and the sweep runs on a ticker.  Nobody has to answer.
Spec ==
  /\ Init /\ [][Next]_vars
  /\ \A p \in Handlers : WF_vars(HandlerStep(p))
  /\ \A w \in Writes : WF_vars(Age(w)) /\ WF_vars(Expire(w)) /\ WF_vars(Deliver(w))
-----------------------------------------------------------------------------
\* The invariant of the proofs.  A write: where its turn has come to says where it can be answered -
\* in the thread or as a request, and both only when it was confirmed early - and what has run was
\* answered there.
WriteOk(w) ==
  /\ turn[w] = "idle" => writes[w].status = "none"
  /\ turn[w] \in {"working", "read"} /\ w \notin early => writes[w].status \in {"pending", "discarded"}
  /\ turn[w] \in {"moved", "raised"} \/ reqs[w].status # "none" =>
       writes[w].status = "discarded" \/ w \in early
  /\ w \in early => writes[w].status = "approved"
  /\ turn[w] \in {"idle", "working", "read", "moved"} => reqs[w].status = "none"
  /\ turn[w] = "raised" => reqs[w].status # "none"
  /\ w \in Tagged /\ turn[w] = "over" => writes[w].status = "discarded" \/ w \in early
  /\ w \in card => turn[w] = "over" /\ w \notin Tagged
  /\ w \in asked => reqs[w].status # "none"
  /\ runs[w] <= 1 /\ grants[w] <= 1
  /\ runs[w] = 1 => writes[w].status = "approved"
  /\ grants[w] = 1 => reqs[w].status \in {"approved", "executed", "failed"}
  /\ reqs[w].status \in {"approved", "executed"} \/ grants[w] = 1 =>
       reqs[w].by \in Approvers \ {AskerOf[w]}
  /\ w \in refused => grants[w] = 0 /\ reqs[w].status \in {"denied", "cancelled", "expired", "failed"}

\* A handler at an approved request.
Granting == {"replay", "ran", "broke"}

\* A handler: what it is about to do is still its own to do.
AnswerOk(p) ==
  LET w == act[p].w IN
  /\ act[p].pc = "claim" => w \in Writes /\ turn[w] # "idle" /\ writes[w].status # "none"
  /\ act[p].pc = "run" => w \in Writes /\ writes[w].status = "approved" /\ runs[w] = 0
  /\ act[p].pc = "take" =>
       w \in Writes /\ w \in asked /\ act[p].who \in Approvers \ {AskerOf[w]}
  /\ act[p].pc \in Granting =>
       /\ w \in Writes /\ w \notin refused
       /\ reqs[w].status \in {"approved", "failed"} /\ reqs[w].by \in Approvers \ {AskerOf[w]}
  /\ act[p].pc = "replay" => grants[w] = 0
  /\ act[p].pc = "discard" => w \in Writes
  /\ act[p].todo \subseteq {v \in Writes : turn[v] # "idle"}

\* Two handlers never carry out one write.
OneRunner ==
  \A p, q \in Handlers :
    p # q /\ act[p].w = act[q].w =>
      /\ ~(act[p].pc = "run" /\ act[q].pc = "run")
      /\ ~(act[p].pc \in Granting /\ act[q].pc \in Granting)

\* Every reachable state of writes, requests and the handlers that answer them (confirm.go,
\* access_requests.go, store_access.go).  Inductive.
ApprovalsInv ==
  /\ TypeOK
  /\ \A w \in Writes : WriteOk(w)
  /\ \A p \in Handlers : AnswerOk(p)
  /\ OneRunner

\* Whichever of its cards are pressed, pressed again or answered by typing at the same time, a write
\* runs at most once in the thread and then it was taken there; at most once as a request and then
\* somebody who did not ask for it approved it; and a request once denied, withdrawn or expired never
\* runs, also when its record was overwritten.  It runs in one place only, unless it was confirmed
\* before its turn was through with it (TakePendingWriteByID, TakeAccessRequest, escalatePending).
RunWasAnswered ==
  \A w \in Writes :
    /\ runs[w] <= 1 /\ grants[w] <= 1
    /\ runs[w] = 1 => writes[w].status = "approved"
    /\ grants[w] = 1 =>
         /\ reqs[w].status \in {"approved", "executed", "failed"}
         /\ reqs[w].by \in Approvers \ {AskerOf[w]} /\ w \notin refused
    /\ runs[w] + grants[w] = 2 => w \in early

\* A write held on a turn that tagged an approver is not its requester's to confirm once the turn is
\* over (escalatePending): it runs in the thread only when it was confirmed while the turn was still
\* at work, or when the process died before the turn's end.
TaggedNeedsApprover ==
  \A w \in Tagged : runs[w] > 0 => w \in early \/ turn[w] = "died"

\* An answer is final: a request denied, withdrawn, expired or executed stays so, but for the turn
\* that raised it, which may still close it as undeliverable (deliverAccessCards).
AnswerIsFinal ==
  [][\A w \in Writes :
       reqs[w].status \in {"denied", "cancelled", "expired", "executed"} =>
         \/ reqs'[w].status = reqs[w].status
         \/ turn[w] = "raised" /\ turn'[w] = "over" /\ reqs'[w].status = "failed"]_vars

\* Nobody waits for ever: every request is answered or expires, and an approved one is executed or
\* failed unless the process that replayed it died.
RequestsClose ==
  \A w \in Tagged :
    reqs[w].status \in {"pending", "approved"} ~>
      (reqs[w].status \notin {"pending", "approved"} \/ w \in cut)
=============================================================================
