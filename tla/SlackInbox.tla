----------------------------- MODULE SlackInbox -----------------------------
(***************************************************************************)
(* The inbox of Slack's deliveries and the hand-off of a claimed delivery  *)
(* to the turn it starts.  A dispatcher claims a delivery under a lease    *)
(* and dispatches it; a message that starts a turn is adopted by the turn, *)
(* which renews the lease and closes the delivery when it ends, and        *)
(* everything else is closed by the dispatcher.  seen_events keeps one     *)
(* mention, of which Slack sends two events, to one answer.                *)
(***************************************************************************)
EXTENDS Naturals, FiniteSets

CONSTANTS
  Deliveries,    \* delivery keys
  Kinds,         \* what the deliveries may be
  Message,       \* the channel and timestamp of a mention, for which Slack sends two events
  Handoffs,      \* claimed deliveries under way at once, in all instances
  None,          \* no delivery
  OrgLimit,      \* slackOrgPendingLimit, the tightest of the three caps
  Lease,         \* slackDeliveryLease
  RenewEvery,    \* how often a turn renews it (a third of it in the code)
  DispatchTime,  \* how long a dispatch may take to start its turn (45 s of the lease's 60)
  TurnTime,      \* turnCeiling and the minute after it
  MaxAttempts,   \* slackDeliveryMaxAttempts
  MaxSends,      \* bound: times Slack sends one delivery
  MaxFaults      \* bound: faults, of different kinds

ASSUME SlackAssumption ==
  /\ None \notin Deliveries /\ Message \notin Deliveries
  /\ Kinds \subseteq [Deliveries -> {"event", "press", "noise"}]
  /\ OrgLimit \in Nat \ {0} /\ Lease \in Nat \ {0} /\ MaxAttempts \in Nat \ {0}
  /\ RenewEvery \in 1..Lease - 1 /\ DispatchTime \in 0..Lease - 1 /\ TurnTime \in Nat
  /\ MaxSends \in Nat /\ MaxFaults \in Nat

Mentions == Deliveries \cup {Message}

VARIABLES
  now,
  kind,     \* what each delivery is: an event of the mention, a button press, or of nobody's concern
  rows,     \* slack_deliveries; done and dead are whether done_at and dead_at are set
  recv,     \* deliveries a request has found room for and not yet inserted
  seen,     \* seen_events: the delivery that owns each mention
  work,     \* deliveryHandoff: where each is, and the lease and attempt it remembers
  started,  \* turns and presses started for each mention
  cut,      \* of those, the ones that died
  ended,    \* deliveries whose turn ran to its end, or whose press began
  stuck,    \* deliveries whose last attempt died, or could not record how it ended
  lapsed,   \* history: deliveries whose lease was let run out under the work on them
  sends,    \* times Slack sent each delivery
  faults    \* what has gone wrong: a process, a renewal, a dedup query, a dispatch's time, a closing write

ghosts == <<started, cut, ended, stuck, lapsed>>
vars == <<now, kind, rows, recv, seen, work, ghosts, sends, faults>>

Row == [here : BOOLEAN, lease : Nat, attempts : 0..MaxAttempts, done : BOOLEAN, dead : BOOLEAN]
Work == [pc : {"idle", "picked", "dispatch", "ok", "failed", "turn"}, id : Deliveries \cup {None},
         lease : Nat, attempts : 0..MaxAttempts, since : Nat, renew : Nat]

NoRow == [here |-> FALSE, lease |-> 0, attempts |-> 0, done |-> FALSE, dead |-> FALSE]
NoWork == [pc |-> "idle", id |-> None, lease |-> 0, attempts |-> 0, since |-> 0, renew |-> 0]

TypeOK ==
  /\ now \in Nat \ {0} /\ kind \in [Deliveries -> {"event", "press", "noise"}]
  /\ rows \in [Deliveries -> Row] /\ recv \subseteq Deliveries
  /\ seen \in [Mentions -> Deliveries \cup {None}]
  /\ work \in [Handoffs -> Work]
  /\ started \in [Mentions -> Nat] /\ cut \in [Mentions -> Nat]
  /\ ended \subseteq Deliveries /\ stuck \subseteq Deliveries /\ lapsed \subseteq Deliveries
  /\ sends \in [Deliveries -> 0..MaxSends]
  /\ faults \subseteq {"crash", "renewal", "dedup", "stall", "outcome"}

Init ==
  /\ now = 1 /\ kind \in Kinds
  /\ rows = [d \in Deliveries |-> NoRow] /\ recv = {}
  /\ seen = [m \in Mentions |-> None]
  /\ work = [h \in Handoffs |-> NoWork]
  /\ started = [m \in Mentions |-> 0] /\ cut = [m \in Mentions |-> 0]
  /\ ended = {} /\ stuck = {} /\ lapsed = {}
  /\ sends = [d \in Deliveries |-> 0] /\ faults = {}

\* The key of seen_events: channel and timestamp of a message, trigger id of a press.
MentionOf(d) == IF kind[d] = "event" THEN Message ELSE d

Pending(d) == rows[d].here /\ ~rows[d].done /\ ~rows[d].dead

Fault(f) ==
  /\ f \notin faults /\ Cardinality(faults) < MaxFaults
  /\ faults' = faults \cup {f}
-----------------------------------------------------------------------------
(* enqueueSlackDelivery: look for the delivery, count, insert.             *)

\* A delivery already here is acknowledged as a new one is, full inbox or not; one there is no
\* room for is refused, and Slack sends it again.
Receive(d) ==
  /\ sends[d] < MaxSends /\ d \notin recv
  /\ sends' = [sends EXCEPT ![d] = @ + 1]
  /\ recv' = IF ~rows[d].here /\ Cardinality({e \in Deliveries : Pending(e)}) < OrgLimit
             THEN recv \cup {d} ELSE recv
  /\ UNCHANGED <<now, kind, rows, seen, work, ghosts, faults>>

Insert(d) ==
  /\ d \in recv
  /\ recv' = recv \ {d}
  /\ rows' = IF rows[d].here THEN rows
             ELSE [rows EXCEPT ![d].here = TRUE]
  /\ UNCHANGED <<now, kind, seen, work, ghosts, sends, faults>>
-----------------------------------------------------------------------------
(* claimSlackDelivery: the subquery picks from a snapshot (the oldest; any *)
(* here), the update checks the row again.                                 *)

Claimable(d) == Pending(d) /\ rows[d].attempts < MaxAttempts /\ rows[d].lease <= now

ClaimPick(h) ==
  /\ work[h].pc = "idle"
  /\ \E d \in Deliveries :
       /\ Claimable(d)
       /\ work' = [work EXCEPT ![h].pc = "picked", ![h].id = d]
  /\ UNCHANGED <<now, kind, rows, recv, seen, ghosts, sends, faults>>

\* (mutant: the update names the delivery only)
StillClaimablePicked(d) == Pending(d)
StillClaimable(d) == Claimable(d)

ClaimTake(h) ==
  LET d == work[h].id IN
  /\ work[h].pc = "picked"
  /\ IF StillClaimable(d)
     THEN /\ rows' = [rows EXCEPT ![d].lease = now + Lease, ![d].attempts = @ + 1]
          /\ work' = [work EXCEPT ![h] = [pc |-> "dispatch", id |-> d, lease |-> now + Lease,
                        attempts |-> rows[d].attempts + 1, since |-> now, renew |-> 0]]
     ELSE rows' = rows /\ work' = [work EXCEPT ![h] = NoWork]
  /\ UNCHANGED <<now, kind, recv, seen, ghosts, sends, faults>>
-----------------------------------------------------------------------------
(* dispatchSlackPayload, incoming and interaction: SeenEvent decides       *)
(* whether anything starts.                                                *)

\* SeenEvent lets a mention through the first time, and again for the delivery that owns it.
Owned(m, d) == seen[m] = d

\* (mutant: the dispatcher closes the delivery of a turn that has only started)
BeginUnadopted(h) ==
  /\ lapsed' = lapsed
  /\ started' = [started EXCEPT ![MentionOf(work[h].id)] = @ + 1]
  /\ ended' = ended
  /\ work' = [work EXCEPT ![h].pc = "ok"]

\* The turn's first renewal, a third of the lease from now, finds that lease run out.
Late(h) == work[h].lease <= now + RenewEvery

\* adoptDelivery, and the turn; or the press.
Begin(h) ==
  LET d == work[h].id
      m == MentionOf(d)
  IN /\ started' = [started EXCEPT ![m] = @ + 1]
     /\ IF kind[d] = "press"
        THEN /\ ended' = ended \cup {d} /\ lapsed' = lapsed
             /\ work' = [work EXCEPT ![h].pc = "ok"]
        ELSE /\ ended' = ended /\ lapsed' = IF Late(h) THEN lapsed \cup {d} ELSE lapsed
             /\ work' = [work EXCEPT ![h].pc = "turn", ![h].since = now, ![h].renew = now + RenewEvery]

\* A message of nobody's concern, or one already seen, leaves the delivery to the dispatcher.
Skip(h) ==
  LET d == work[h].id
      m == MentionOf(d)
  IN /\ work[h].pc = "dispatch"
     /\ kind[d] = "noise" \/ (seen[m] # None /\ ~Owned(m, d))
     /\ work' = [work EXCEPT ![h].pc = "ok"]
     /\ UNCHANGED <<now, kind, rows, recv, seen, ghosts, sends, faults>>

\* incoming adopts the delivery and the turn runs beside the dispatcher; a press is started and
\* the dispatcher closes its delivery.
Start(h) ==
  LET d == work[h].id
      m == MentionOf(d)
  IN /\ work[h].pc = "dispatch" /\ kind[d] # "noise"
     /\ seen[m] = None \/ Owned(m, d)
     /\ seen' = [seen EXCEPT ![m] = d]
     /\ Begin(h)
     /\ UNCHANGED <<now, kind, rows, recv, cut, stuck, sends, faults>>

\* SeenEvent's statements fail: the insert, and it starts; the select after it, and it does not.
StartUnsure(h) ==
  LET d == work[h].id IN
  /\ work[h].pc = "dispatch" /\ kind[d] # "noise"
  /\ Fault("dedup")
  /\ \/ Begin(h)
     \/ /\ seen[MentionOf(d)] # None
        /\ work' = [work EXCEPT ![h].pc = "ok"]
        /\ UNCHANGED <<started, ended, lapsed>>
  /\ UNCHANGED <<now, kind, rows, recv, seen, cut, stuck, sends>>

\* The payload does not open or parse, or the dispatch runs out of its time.
DispatchFails(h) ==
  /\ work[h].pc = "dispatch"
  /\ work' = [work EXCEPT ![h].pc = "failed"]
  /\ UNCHANGED <<now, kind, rows, recv, seen, ghosts, sends, faults>>
-----------------------------------------------------------------------------
(* Closing the delivery: by the dispatcher, or by the turn that adopted it.*)

Finished(h) ==
  LET d == work[h].id IN
  IF rows[d].here /\ rows[d].lease = work[h].lease /\ ~rows[d].done
  THEN [rows EXCEPT ![d].done = TRUE] ELSE rows

\* finishSlackDelivery by the dispatcher.  What it finds changed it leaves.
Finish(h) ==
  /\ work[h].pc = "ok"
  /\ rows' = Finished(h)
  /\ work' = [work EXCEPT ![h] = NoWork]
  /\ UNCHANGED <<now, kind, recv, seen, ghosts, sends, faults>>

\* The turn ends, whatever came of it, and closes the delivery.
TurnEnds(h) ==
  /\ work[h].pc = "turn"
  /\ rows' = Finished(h)
  /\ ended' = ended \cup {work[h].id}
  /\ work' = [work EXCEPT ![h] = NoWork]
  /\ UNCHANGED <<now, kind, recv, seen, started, cut, stuck, lapsed, sends, faults>>

\* (mutant: one attempt too many is waited for)
LastAttemptLate(n) == n > MaxAttempts
LastAttempt(n) == n >= MaxAttempts

\* failSlackDelivery names the delivery and not the lease.  Short of the last attempt it only
\* notes why: the row waits for its lease to run out.
DeadLettered(h) ==
  LET d == work[h].id IN
  IF LastAttempt(work[h].attempts) /\ rows[d].here /\ ~rows[d].done
  THEN [rows EXCEPT ![d].dead = TRUE] ELSE rows

Fail(h) ==
  /\ work[h].pc = "failed"
  /\ rows' = DeadLettered(h)
  /\ work' = [work EXCEPT ![h] = NoWork]
  /\ UNCHANGED <<now, kind, recv, seen, ghosts, sends, faults>>

StuckWith(h) ==
  IF LastAttempt(work[h].attempts) THEN stuck \cup {work[h].id} ELSE stuck

\* The statement that closes the delivery fails; it is not tried again.
CloseFails(h) ==
  /\ work[h].pc \in {"ok", "failed", "turn"}
  /\ Fault("outcome")
  /\ stuck' = StuckWith(h)
  /\ ended' = IF work[h].pc = "turn" THEN ended \cup {work[h].id} ELSE ended
  /\ work' = [work EXCEPT ![h] = NoWork]
  /\ UNCHANGED <<now, kind, rows, recv, seen, started, cut, lapsed, sends>>
-----------------------------------------------------------------------------
(* keepLeased, and what happens to the process.                            *)

HoldsRow(h) ==
  Pending(work[h].id) /\ rows[work[h].id].lease = work[h].lease

\* (mutant: the renewal is noted and not written)
RenewUnwritten(h) ==
  /\ work[h].pc = "turn" /\ work[h].renew # 0 /\ work[h].renew <= now
  /\ work' = [work EXCEPT ![h].renew = now + RenewEvery]
  /\ UNCHANGED <<now, kind, rows, recv, seen, ghosts, sends, faults>>

\* touchSlackDelivery.  A lease found lost is not renewed again; the turn goes on.
Renew(h) ==
  /\ work[h].pc = "turn" /\ work[h].renew # 0 /\ work[h].renew <= now
  /\ IF HoldsRow(h)
     THEN /\ rows' = [rows EXCEPT ![work[h].id].lease = now + Lease]
          /\ work' = [work EXCEPT ![h].lease = now + Lease, ![h].renew = now + RenewEvery]
     ELSE rows' = rows /\ work' = [work EXCEPT ![h].renew = 0]
  /\ UNCHANGED <<now, kind, recv, seen, ghosts, sends, faults>>

\* Nor is one whose renewal failed: the first error ends the renewing.
RenewFails(h) ==
  /\ work[h].pc = "turn" /\ work[h].renew # 0 /\ work[h].renew <= now
  /\ Fault("renewal")
  /\ work' = [work EXCEPT ![h].renew = 0]
  /\ lapsed' = lapsed \cup {work[h].id}
  /\ UNCHANGED <<now, kind, rows, recv, seen, started, cut, ended, stuck, sends>>

\* A dispatch is held up past its time, in a call that does not mind its context.
Stall(h) ==
  /\ work[h].pc = "dispatch" /\ work[h].since # 0
  /\ Fault("stall")
  /\ work' = [work EXCEPT ![h].since = 0]
  /\ lapsed' = lapsed \cup {work[h].id}
  /\ UNCHANGED <<now, kind, rows, recv, seen, started, cut, ended, stuck, sends>>

\* The process dies, and a turn or a press with it.
Crash(h) ==
  /\ work[h].pc \in {"dispatch", "ok", "failed", "turn"}
  /\ Fault("crash")
  /\ stuck' = StuckWith(h)
  /\ cut' = IF work[h].pc = "turn" \/ (work[h].pc = "ok" /\ kind[work[h].id] = "press")
            THEN [cut EXCEPT ![MentionOf(work[h].id)] = @ + 1] ELSE cut
  /\ work' = [work EXCEPT ![h] = NoWork]
  /\ UNCHANGED <<now, kind, rows, recv, seen, started, ended, lapsed, sends>>

\* purgeSlackDeliveries forgets a row closed a day or a week ago: no work on it and no retry of
\* Slack's is left by then.  A row out of attempts and not closed is not looked at.
Purge(d) ==
  /\ rows[d].done \/ rows[d].dead
  /\ sends[d] = MaxSends /\ d \notin recv /\ \A h \in Handoffs : work[h].id # d
  /\ rows' = [rows EXCEPT ![d] = NoRow]
  /\ UNCHANGED <<now, kind, recv, seen, work, ghosts, sends, faults>>

\* Time passes while anything waits for it; the code's own timers are kept.
Tick ==
  /\ \A h \in Handoffs :
       /\ work[h].pc \notin {"picked", "ok", "failed"}
       /\ work[h].pc = "dispatch" => work[h].since = 0 \/ now < work[h].since + DispatchTime
       /\ work[h].pc = "turn" =>
            now < work[h].since + TurnTime /\ (work[h].renew = 0 \/ now < work[h].renew)
  /\ \/ \E d \in Deliveries : Pending(d) /\ rows[d].lease > now
     \/ \E h \in Handoffs : work[h].pc = "turn"
  /\ now' = now + 1
  /\ UNCHANGED <<kind, rows, recv, seen, work, ghosts, sends, faults>>

DispatcherStep(h) ==
  \/ ClaimPick(h) \/ ClaimTake(h) \/ Skip(h) \/ Start(h) \/ DispatchFails(h)
  \/ Finish(h) \/ Fail(h)

Next ==
  \/ \E d \in Deliveries : Receive(d) \/ Insert(d) \/ Purge(d)
  \/ \E h \in Handoffs :
       \/ DispatcherStep(h) \/ TurnEnds(h) \/ Renew(h)
       \/ StartUnsure(h) \/ CloseFails(h) \/ RenewFails(h) \/ Stall(h) \/ Crash(h)
  \/ Tick

\* The dispatchers' loop goes on in some instance, a dispatch and a turn end (both have
\* deadlines), and time passes.  Nothing obliges Slack to send or a process to die.
Spec ==
  /\ Init /\ [][Next]_vars
  /\ WF_vars(Tick)
  /\ \A h \in Handoffs : WF_vars(DispatcherStep(h)) /\ WF_vars(TurnEnds(h))
-----------------------------------------------------------------------------
\* A hand-off past its claim.
Busy(h) == work[h].pc \notin {"idle", "picked"}

\* Who works has a delivery, and a mention is owned by a delivery that is of it.
HandoffOk ==
  /\ \A h \in Handoffs : work[h].pc # "idle" => work[h].id \in Deliveries
  /\ \A m \in Mentions : seen[m] # None => MentionOf(seen[m]) = m /\ kind[seen[m]] # "noise"

\* Nothing is left to do for a delivery: it is of nobody's concern, or its mention has an owner,
\* which is another or has done its part.
Answered(d) ==
  \/ kind[d] = "noise"
  \/ seen[MentionOf(d)] # None /\ (seen[MentionOf(d)] = d => d \in ended)

\* What is closed, or about to be by its dispatcher, is answered; a turn owns its mention.
ClosedIsAnswered ==
  "dedup" \notin faults =>
    /\ \A d \in Deliveries : rows[d].done => Answered(d)
    /\ \A h \in Handoffs :
         /\ work[h].pc = "ok" => Answered(work[h].id)
         /\ work[h].pc = "turn" => seen[MentionOf(work[h].id)] = work[h].id

\* Who works on a delivery whose lease was kept has its row, open and under a live lease, alone.
LeaseHeld ==
  \A h \in Handoffs : Busy(h) /\ work[h].id \notin lapsed =>
    /\ HoldsRow(h) /\ now < work[h].lease
    /\ work[h].pc = "dispatch" =>
         /\ work[h].since \in 1..now /\ now <= work[h].since + DispatchTime
         /\ work[h].lease = work[h].since + Lease
    /\ work[h].pc = "turn" =>
         work[h].renew # 0 /\ now <= work[h].renew /\ work[h].renew < work[h].lease
    /\ \A g \in Handoffs : Busy(g) /\ work[g].id = work[h].id => g = h

\* A delivery nobody will claim again, and one whose turn or press is under way.
Over(d) ==
  \/ rows[d].done \/ rows[d].dead
  \/ ~rows[d].here /\ d \notin recv /\ sends[d] = MaxSends

Begun(d) ==
  \E h \in Handoffs :
    work[h].id = d /\ (work[h].pc = "turn" \/ (work[h].pc = "ok" /\ kind[d] = "press"))

\* The statements that decide and record were answered, and the mention's lease was kept.
Sound(m) == "dedup" \notin faults /\ "outcome" \notin faults /\ seen[m] \notin lapsed

\* A mention whose turn did not die is that of a delivery under way or over.
TurnsCounted ==
  \A m \in Mentions : Sound(m) =>
    /\ seen[m] = None => started[m] = 0
    /\ seen[m] # None /\ started[m] > cut[m] => Over(seen[m]) \/ Begun(seen[m])

\* One mention, one answer: whatever events Slack sends and resends, of the turns started for one
\* mention all but one died with their process (incoming, SeenEvent, claimSlackDelivery).  It takes a
\* dedup query and a closing write that are answered, and a lease that was kept: a dispatch that
\* starts its turn between 40 and 45 s after its claim, both of them allowed to it, does not keep it.
OneTurn ==
  \A m \in Mentions : Sound(m) => started[m] <= cut[m] + 1

\* The part of the invariant that is about what is closed.
HandoffInv == TypeOK /\ HandoffOk /\ ClosedIsAnswered

\* The inbox is well typed, who works on a delivery holds it alone as long as its lease is kept, and
\* no mention has two answers (OneTurn).
SlackInv == HandoffInv /\ LeaseHeld /\ TurnsCounted /\ OneTurn

\* A delivery is closed as done by the one that owns its mention only when its turn has run to its
\* end or its press has begun, so that what a dead process left undone is tried again
\* (deliveryHandoff.finish).  A dedup query that fails on a retry is what breaks it.
DoneWasWorked ==
  "dedup" \notin faults =>
    \A d \in Deliveries : rows[d].done /\ seen[MentionOf(d)] = d => d \in ended

\* A delivery whose turn is running is not dead-lettered under it, though failSlackDelivery does not
\* ask for the lease: unless the lease was let run out - a dispatch too late for the first renewal
\* or held up past its time, a renewal that failed - nobody else has claimed it to fail it.
DeadHasNoTurn ==
  \A h \in Handoffs :
    work[h].pc = "turn" /\ work[h].id \notin lapsed => ~rows[work[h].id].dead

\* Every delivery accepted is closed in the end, unless its last attempt died or could not record
\* its outcome: that row keeps its slot, for nothing retires it (purgeSlackDeliveries).
DeliveriesSettle ==
  \A d \in Deliveries : Pending(d) ~> (~Pending(d) \/ d \in stuck)
=============================================================================
