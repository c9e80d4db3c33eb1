----------------------------- MODULE ReviewLane -----------------------------
(***************************************************************************)
(* The code review lane: the queue of review runs and the workers that     *)
(* claim, run, post and end them.                                          *)
(*                                                                         *)
(* A lane worker is one goroutine of runReviewLane, in this or any other   *)
(* instance of the program; they share nothing but the database and        *)
(* GitHub.  Every SQL statement or transaction is one step and so is every *)
(* call to GitHub, so a lane can be overtaken, stall or die between any    *)
(* two of them.                                                            *)
(***************************************************************************)
EXTENDS Naturals, FiniteSets

CONSTANTS
  PRs,          \* the pull requests under review
  Lanes,        \* the lane workers of all instances
  Routers,      \* the dispatchers of GitHub's deliveries of all instances
  NoPR,         \* the pull request of a lane that holds none
  MaxRuns,      \* bound: rows of review_runs
  MaxHead,      \* bound: commits pushed to a pull request
  MaxCloses,    \* bound: times a pull request is closed or made a draft
  MaxDeletes,   \* bound: summary comments people delete from a pull request
  Horizon,      \* bound: until when a lane renews beside its work and people delete summaries
  MaxFaults,    \* bound: crashes, shutdowns, lost answers, waits GitHub asks for, deliveries retried
  MaxLooks,     \* how often a request's key moves on before it is queued (10 in the code)
  Lease,        \* reviewRunLease
  MaxAttempts,  \* reviewRunMaxAttempts
  Backoff,      \* reviewRunDeferral, a retry's minute, a wait GitHub asks for
  Debounce,     \* reviewPushDebounce
  OrgRunning,   \* reviewOrgRunning
  Shadow        \* whether the repository may be switched to shadow mode

ASSUME LaneAssumption ==
  /\ NoPR \notin PRs
  /\ MaxRuns \in Nat /\ MaxHead \in Nat \ {0} /\ MaxCloses \in Nat /\ Horizon \in Nat
  /\ MaxDeletes \in Nat /\ MaxLooks \in Nat
  /\ MaxFaults \in Nat
  /\ Lease \in Nat \ {0} /\ MaxAttempts \in Nat \ {0}
  /\ Backoff \in Nat /\ Debounce \in Nat /\ OrgRunning \in Nat \ {0}
  /\ Shadow \in BOOLEAN

VARIABLES
  now,         \* the clock
  runs,        \* review_runs
  prs,         \* review_prs, but for lease_until
  prLease,     \* review_prs.lease_until
  pc,          \* where each lane is
  hold,        \* the run a lane holds, its pull request and the lease value (reviewHold)
  mine,        \* what the lane carries in memory of its run and its pull request
  hub,         \* the pull requests on GitHub
  posted,      \* review objects on GitHub carrying each run's marker
  stored,      \* times each run's findings were stored
  deliveries,  \* webhook deliveries accepted and not yet dispatched
  routes,      \* the delivery each dispatcher routes, and how far it has come
  faults       \* faults so far

rowVars == <<runs, prs, prLease>>
laneVars == <<pc, hold, mine>>
hubVars == <<hub, posted>>
wordVars == <<deliveries, routes>>
givenVars == <<wordVars, faults>>
vars == <<now, runs, prs, prLease, pc, hold, mine, hub, posted, stored, deliveries, routes, faults>>

Runs == 1..MaxRuns
Heads == 1..MaxHead
Ends == {"posted", "shadow", "noop", "skipped", "superseded", "failed", "cancelled"}
Unended == {"queued", "running"}
\* The endings that answered nothing: a request with the same key is a new one.
Dead == {"cancelled", "skipped", "failed", "superseded"}
Triggers == {"open", "push"}
\* dedupe_key: what is asked for, and the run without an answer it has moved on from, if any.
Keys == [trigger : Triggers, head : Heads, since : BOOLEAN, after : 0..MaxRuns]
NoKey == [trigger |-> "open", head |-> 1, since |-> FALSE, after |-> 0]

RunRow ==
  [pr : PRs \cup {NoPR}, key : Keys, head : Heads, status : {"none"} \cup Unended \cup Ends,
   lease : Nat, notBefore : Nat, attempts : 0..MaxAttempts, cancel : BOOLEAN,
   ckpt : BOOLEAN, github : BOOLEAN, findings : {"none", "open", "outdated"}]
PRRow == [open : BOOLEAN, head : 0..MaxHead, last : 0..MaxHead, reviews : Nat, summary : Nat]
Hold == [run : 0..MaxRuns, pr : PRs \cup {NoPR}, lease : Nat]
Memory ==
  [head : 0..MaxHead, ckpt : BOOLEAN, github : BOOLEAN, inline : BOOLEAN, summary : Nat,
   asked : BOOLEAN]
\* The summary comments of a pull request are numbered as they are made.
OnHub ==
  [open : BOOLEAN, draft : BOOLEAN, head : Heads, closes : 0..MaxCloses, made : Nat, gone : SUBSET Nat]
Actions == {"opened", "synchronize", "closed", "converted_to_draft"}
Delivery == [pr : PRs, action : Actions, head : Heads]
NoRoute ==
  [step |-> "idle", pr |-> NoPR, action |-> "opened", head |-> 1, key |-> NoKey, notBefore |-> 0,
   left |-> 0]
Route ==
  [step : {"moved", "ask", "cancel"}, pr : PRs, action : Actions, head : Heads, key : Keys,
   notBefore : Nat, left : 0..MaxLooks]

\* Where a lane that holds a run can be: before the engine, in it, about to stand aside for a newer
\* run, deciding what to post, the steps of a review object, the four of the summary comment, and recording the review.
Working ==
  {"gate", "engine", "aside", "publish", "touch", "look", "post", "unheard", "record",
   "summary", "sumtouch", "sumwrite", "sumset", "finish"}

TypeOK ==
  /\ now \in Nat
  /\ runs \in [Runs -> RunRow]
  /\ prs \in [PRs -> PRRow] /\ prLease \in [PRs -> Nat]
  /\ pc \in [Lanes -> {"idle", "picked"} \cup Working]
  /\ hold \in [Lanes -> Hold] /\ mine \in [Lanes -> Memory]
  /\ hub \in [PRs -> OnHub]
  /\ posted \in [Runs -> Nat] /\ stored \in [Runs -> Nat]
  /\ deliveries \subseteq Delivery /\ routes \in [Routers -> Route \cup {NoRoute}]
  /\ faults \in 0..MaxFaults

NoRun ==
  [pr |-> NoPR, key |-> NoKey, head |-> 1,
   status |-> "none", lease |-> 0, notBefore |-> 0, attempts |-> 0, cancel |-> FALSE,
   ckpt |-> FALSE, github |-> FALSE, findings |-> "none"]
NoHold == [run |-> 0, pr |-> NoPR, lease |-> 0]
Blank ==
  [head |-> 0, ckpt |-> FALSE, github |-> FALSE, inline |-> FALSE, summary |-> 0,
   asked |-> FALSE]

\* Every pull request has just been opened, and GitHub has sent word of it.
Init ==
  /\ now = 0
  /\ runs = [r \in Runs |-> NoRun]
  /\ prs = [p \in PRs |-> [open |-> TRUE, head |-> 0, last |-> 0, reviews |-> 0, summary |-> 0]]
  /\ prLease = [p \in PRs |-> 0]
  /\ pc = [l \in Lanes |-> "idle"]
  /\ hold = [l \in Lanes |-> NoHold]
  /\ mine = [l \in Lanes |-> Blank]
  /\ hub = [p \in PRs |-> [open |-> TRUE, draft |-> FALSE, head |-> 1, closes |-> 0, made |-> 0, gone |-> {}]]
  /\ posted = [r \in Runs |-> 0]
  /\ stored = [r \in Runs |-> 0]
  /\ deliveries = {[pr |-> p, action |-> "opened", head |-> 1] : p \in PRs}
  /\ routes = [h \in Routers |-> NoRoute]
  /\ faults = 0

\* A step that is a fault, and one that is not.
Fault == faults < MaxFaults /\ faults' = faults + 1
NoFault == UNCHANGED faults
-----------------------------------------------------------------------------
(* GitHub, and what people do there.                                       *)

Send(p, action) == deliveries' = deliveries \cup {[pr |-> p, action |-> action, head |-> hub'[p].head]}

PushOn(p) ==
  /\ hub[p].open /\ hub[p].head < MaxHead
  /\ hub' = [hub EXCEPT ![p].head = @ + 1]
  /\ Send(p, "synchronize")
  /\ UNCHANGED <<now, rowVars, laneVars, posted, stored, routes, faults>>

CloseOn(p) ==
  /\ hub[p].open /\ hub[p].closes < MaxCloses
  /\ hub' = [hub EXCEPT ![p].open = FALSE, ![p].closes = @ + 1]
  /\ Send(p, "closed")
  /\ UNCHANGED <<now, rowVars, laneVars, posted, stored, routes, faults>>

DraftOn(p) ==
  /\ hub[p].open /\ ~hub[p].draft /\ hub[p].closes < MaxCloses
  /\ hub' = [hub EXCEPT ![p].draft = TRUE, ![p].closes = @ + 1]
  /\ Send(p, "converted_to_draft")
  /\ UNCHANGED <<now, rowVars, laneVars, posted, stored, routes, faults>>

\* Reopened, or marked ready for review.
ReopenOn(p) ==
  /\ ~hub[p].open \/ hub[p].draft
  /\ hub' = [hub EXCEPT ![p].open = TRUE, ![p].draft = FALSE]
  /\ Send(p, "opened")
  /\ UNCHANGED <<now, rowVars, laneVars, posted, stored, routes, faults>>

\* The summary comments a pull request has, and a person's deleting one.
Comments(p) == (1..hub[p].made) \ hub[p].gone

DeleteOn(p) ==
  /\ Cardinality(hub[p].gone) < MaxDeletes /\ now < Horizon
  /\ \E c \in Comments(p) : hub' = [hub EXCEPT ![p].gone = @ \cup {c}]
  /\ UNCHANGED <<now, rowVars, laneVars, posted, stored, givenVars>>
-----------------------------------------------------------------------------
(* reviewPullRequestEvent: the dispatchers route deliveries in any order   *)
(* and beside one another, statement by statement.                         *)

\* UpsertReviewPR with a delivery's facts: the delivery's, whatever is newer on GitHub.
UpsertReviewPR(d) ==
  prs' = [prs EXCEPT ![d.pr].open = d.action # "closed", ![d.pr].head = d.head]

\* A dispatcher takes a delivery and writes its facts down.
Take(h, d) ==
  /\ routes[h].step = "idle" /\ d \in deliveries
  /\ deliveries' = deliveries \ {d}
  /\ UpsertReviewPR(d)
  /\ UNCHANGED <<now, runs, prLease, laneVars, hubVars, stored, faults>>

\* enqueueReview has read the row: reviewDedupeKey, where a push to a pull request that has been
\* reviewed asks for what is new.
Asks(d, trigger, notBefore) ==
  [NoRoute EXCEPT !.step = "ask", !.pr = d.pr, !.action = d.action, !.head = d.head,
     !.key = [trigger |-> trigger, head |-> d.head, since |-> trigger = "push" /\ prs[d.pr].last # 0,
              after |-> 0],
     !.notBefore = notBefore, !.left = MaxLooks]

RouteOpened(h, d) ==
  /\ d.action = "opened" /\ Take(h, d)
  /\ routes' = [routes EXCEPT ![h] = Asks(d, "open", 0)]

\* reviewHeadMoved writes the facts, and enqueueReview after it again.
RoutePush(h, d) ==
  /\ d.action = "synchronize" /\ Take(h, d)
  /\ routes' = [routes EXCEPT ![h] =
       [NoRoute EXCEPT !.step = "moved", !.pr = d.pr, !.action = d.action, !.head = d.head]]

RouteMoved(h) ==
  /\ routes[h].step = "moved"
  /\ UpsertReviewPR(routes[h])
  /\ routes' = [routes EXCEPT ![h] = Asks(routes[h], "push", now + Debounce)]
  /\ UNCHANGED <<now, runs, prLease, laneVars, hubVars, stored, deliveries, faults>>

RouteClosed(h, d) ==
  /\ d.action \in {"closed", "converted_to_draft"} /\ Take(h, d)
  /\ routes' = [routes EXCEPT ![h] =
       [NoRoute EXCEPT !.step = "cancel", !.pr = d.pr, !.action = d.action, !.head = d.head]]

\* The delivery is routed, and what it did stands.
Routed(h) == routes' = [routes EXCEPT ![h] = NoRoute]

\* The settings, the plan, the pause, the money or the throttles refuse a request.
RouteRefused(h) ==
  /\ routes[h].step = "ask" /\ Routed(h)
  /\ UNCHANGED <<now, rowVars, laneVars, hubVars, stored, deliveries, faults>>

\* The run that has a request's key, or will when it is queued.
Has(r, p, key) == runs[r].status # "none" /\ runs[r].pr = p /\ runs[r].key = key

\* ReviewRunByDedupeKey: a run that has the key is the answer, unless it ended without one: then
\* the key moves on from it.
RouteLook(h) ==
  LET q == routes[h] IN
  /\ q.step = "ask" /\ q.left > 0
  /\ \/ /\ \A r \in Runs : ~Has(r, q.pr, q.key)
        /\ routes' = [routes EXCEPT ![h].left = 0]
     \/ \E r \in Runs :
          /\ Has(r, q.pr, q.key)
          /\ IF runs[r].status \in Dead
             THEN routes' = [routes EXCEPT ![h].key.after = r, ![h].left = @ - 1]
             ELSE Routed(h)
  /\ UNCHANGED <<now, rowVars, laneVars, hubVars, stored, deliveries, faults>>

NewRow(r, q) ==
  /\ runs[r].status = "none" /\ (\A o \in Runs : o < r => runs[o].status # "none")
  /\ runs' = [runs EXCEPT ![r] =
       [NoRun EXCEPT !.pr = q.pr, !.key = q.key, !.head = q.head, !.status = "queued",
                     !.notBefore = q.notBefore]]

\* (mutant: the key is not unique)
EnqueueReviewRunAgain(q) == \E r \in Runs : NewRow(r, q)

\* EnqueueReviewRun, on conflict do nothing: a key somebody took since is that run's, however it
\* ended.  A row the bound has no room for is not made.
EnqueueReviewRun(q) ==
  IF (\E r \in Runs : Has(r, q.pr, q.key)) \/ (\A r \in Runs : runs[r].status # "none")
  THEN UNCHANGED runs
  ELSE \E r \in Runs : NewRow(r, q)

RouteQueue(h) ==
  /\ routes[h].step = "ask" /\ routes[h].left = 0
  /\ EnqueueReviewRun(routes[h])
  /\ Routed(h)
  /\ UNCHANGED <<now, prs, prLease, laneVars, hubVars, stored, deliveries, faults>>

\* The dispatcher dies or a statement fails: the inbox has the delivery routed again.
RouteFails(h) ==
  /\ routes[h].step # "idle"
  /\ deliveries' = deliveries \cup {[pr |-> routes[h].pr, action |-> routes[h].action, head |-> routes[h].head]}
  /\ Routed(h) /\ Fault
  /\ UNCHANGED <<now, rowVars, laneVars, hubVars, stored>>

\* (mutant: the status is not asked for)
CancelledAll(p) ==
  [r \in Runs |-> IF runs[r].pr # p THEN runs[r]
                  ELSE [runs[r] EXCEPT !.status = "cancelled", !.cancel = TRUE, !.lease = 0]]

\* CancelReviewRuns: a run nobody is running ends at once, a running one is asked to.
Cancelled(p) ==
  [r \in Runs |->
     IF runs[r].pr # p THEN runs[r]
     ELSE IF runs[r].status = "queued" \/ (runs[r].status = "running" /\ runs[r].lease <= now)
     THEN [runs[r] EXCEPT !.status = "cancelled", !.cancel = TRUE, !.lease = 0]
     ELSE IF runs[r].status = "running" THEN [runs[r] EXCEPT !.cancel = TRUE]
     ELSE runs[r]]

RouteCancel(h) ==
  /\ routes[h].step = "cancel"
  /\ runs' = Cancelled(routes[h].pr)
  /\ Routed(h)
  /\ UNCHANGED <<now, prs, prLease, laneVars, hubVars, stored, deliveries, faults>>

RouterStep(h) ==
  \/ \E d \in deliveries : RouteOpened(h, d) \/ RoutePush(h, d) \/ RouteClosed(h, d)
  \/ RouteMoved(h) \/ RouteRefused(h) \/ RouteLook(h) \/ RouteQueue(h) \/ RouteCancel(h)
-----------------------------------------------------------------------------
(* The claim: on Postgres its subquery reads a snapshot, so it is a step   *)
(* of its own; the update then checks the row again.                       *)

Live(r) == runs[r].status = "running" /\ runs[r].lease > now

\* (mutant: a claim does not count the attempts before it)
TakeableForever(r) ==
  runs[r].status \in Unended /\ ~runs[r].cancel /\ runs[r].lease <= now /\ runs[r].notBefore <= now

\* What the outer update checks again.
Takeable(r) ==
  /\ runs[r].status \in Unended /\ ~runs[r].cancel
  /\ runs[r].lease <= now /\ runs[r].notBefore <= now /\ runs[r].attempts < MaxAttempts

Claimable(r) ==
  /\ Takeable(r)
  /\ Cardinality({o \in Runs : Live(o)}) < OrgRunning
  /\ \A o \in Runs : runs[o].pr = runs[r].pr => ~Live(o)

Before(q, r) ==
  runs[q].notBefore < runs[r].notBefore \/ (runs[q].notBefore = runs[r].notBefore /\ q < r)

ClaimPick(l) ==
  /\ pc[l] = "idle"
  /\ \E r \in Runs :
       /\ Claimable(r)
       /\ \A q \in Runs : Claimable(q) => ~Before(q, r)
       /\ hold' = [hold EXCEPT ![l].run = r]
  /\ pc' = [pc EXCEPT ![l] = "picked"]
  /\ UNCHANGED <<now, rowVars, mine, hubVars, stored, givenVars>>

\* The lane is rid of its run, in memory.
Free(l) ==
  /\ pc' = [pc EXCEPT ![l] = "idle"]
  /\ hold' = [hold EXCEPT ![l] = NoHold]
  /\ mine' = [mine EXCEPT ![l] = Blank]

ClaimMiss(l) ==
  /\ pc[l] = "picked" /\ ~Takeable(hold[l].run)
  /\ Free(l)
  /\ UNCHANGED <<now, rowVars, hubVars, stored, givenVars>>

\* The run and its pull request are taken in one transaction under one lease value.
ClaimTake(l) ==
  LET r == hold[l].run p == runs[r].pr IN
  /\ pc[l] = "picked" /\ Takeable(r) /\ prLease[p] <= now
  /\ runs' = [runs EXCEPT ![r].status = "running", ![r].lease = now + Lease, ![r].attempts = @ + 1]
  /\ prLease' = [prLease EXCEPT ![p] = now + Lease]
  /\ hold' = [hold EXCEPT ![l].pr = p, ![l].lease = now + Lease]
  /\ mine' = [mine EXCEPT ![l].head = runs[r].head, ![l].ckpt = runs[r].ckpt,
                          ![l].github = runs[r].github]
  /\ pc' = [pc EXCEPT ![l] = "gate"]
  /\ UNCHANGED <<now, prs, hubVars, stored, givenVars>>

\* Second in a race for the pull request: back in the queue, the attempt handed back.
ClaimDefer(l) ==
  LET r == hold[l].run IN
  /\ pc[l] = "picked" /\ Takeable(r) /\ prLease[runs[r].pr] > now
  /\ runs' = [runs EXCEPT ![r].status = "queued", ![r].lease = 0, ![r].notBefore = now + Backoff]
  /\ Free(l)
  /\ UNCHANGED <<now, prs, prLease, hubVars, stored, givenVars>>
-----------------------------------------------------------------------------
(* The lease under which a run is held.                                    *)

\* (mutant: no lease is asked for)
FencedByStatus(l) == runs[hold[l].run].status = "running"

\* The two halves of the fence (a write's own where clause, and reviewHeldPR).
Fenced(l) == runs[hold[l].run].status = "running" /\ runs[hold[l].run].lease = hold[l].lease
HeldPR(l) == prLease[hold[l].pr] = hold[l].lease

FencedPR(l) == Fenced(l) /\ HeldPR(l)

\* touchReviewRun, succeeding; next is where the lane goes on from.
Renewed(l, next) ==
  /\ FencedPR(l)
  /\ runs' = [runs EXCEPT ![hold[l].run].lease = now + Lease]
  /\ prLease' = [prLease EXCEPT ![hold[l].pr] = now + Lease]
  /\ hold' = [hold EXCEPT ![l].lease = now + Lease]
  /\ mine' = [mine EXCEPT ![l].asked = @ \/ runs[hold[l].run].cancel]
  /\ pc' = [pc EXCEPT ![l] = next]
  /\ UNCHANGED <<now, prs, hubVars, stored, givenVars>>

\* The renewal beside the work, which is how a lane hears that it should stop.
Touch(l) == pc[l] \in Working /\ now < Horizon /\ Renewed(l, pc[l])

\* releaseReviewPRLease: the pull request is let go of only if this run still holds it.
Release(l) ==
  /\ prLease' = [prLease EXCEPT ![hold[l].pr] = IF @ = hold[l].lease THEN 0 ELSE @]
  /\ Free(l)

\* endReviewRun with nothing reviewed.  The findings of a run that has no review on record are
\* retired.  When the run is another lane's by now nothing is written.
End(l, status) ==
  LET r == hold[l].run IN
  /\ IF Fenced(l)
     THEN /\ runs' = [runs EXCEPT ![r].status = status, ![r].lease = 0, ![r].head = mine[l].head,
                        ![r].findings = IF status \in Dead /\ ~mine[l].github /\ @ = "open"
                                        THEN "outdated" ELSE @]
          /\ Release(l)
     ELSE UNCHANGED <<runs, prLease>> /\ Free(l)
  /\ UNCHANGED <<now, prs, hubVars, stored, wordVars>>

\* requeueReview: the run goes back to the queue, with or without the attempt spent.
Requeue(l, notBefore, spend) ==
  LET r == hold[l].run IN
  /\ IF Fenced(l)
     THEN /\ runs' = [runs EXCEPT ![r].status = "queued", ![r].lease = 0,
                        ![r].notBefore = notBefore, ![r].attempts = IF spend THEN @ ELSE @ - 1]
          /\ Release(l)
     ELSE UNCHANGED <<runs, prLease>> /\ Free(l)
  /\ UNCHANGED <<now, prs, hubVars, stored, wordVars>>

\* interrupted: a lane whose lease is gone writes nothing (every write it tries is refused, and
\* reviewHold.lost stops it at the first it notices), a cancel asked for ends the run, and an
\* instance that shuts down puts it back.  The id of a review just posted is recorded first,
\* whatever is asked, and the recording of a whole review rides on the lane's context, which a
\* cancel leaves alone; so does every ending (endReviewRun).
InterruptedLost(l) ==
  /\ pc[l] \in Working /\ ~FencedPR(l)
  /\ Free(l)
  /\ UNCHANGED <<now, rowVars, hubVars, stored, givenVars>>

InterruptedCancel(l) ==
  /\ pc[l] \in Working \ {"record", "finish", "aside"} /\ mine[l].asked
  /\ End(l, "cancelled") /\ NoFault

InterruptedShutdown(l) ==
  /\ pc[l] \in Working \ {"record", "aside"} /\ ~mine[l].asked
  /\ Requeue(l, now, FALSE) /\ Fault

\* The process died, or the database did not take the ending.
Crash(l) ==
  /\ pc[l] \in Working
  /\ Free(l) /\ Fault
  /\ UNCHANGED <<now, rowVars, hubVars, stored, wordVars>>

\* A wait GitHub asked for costs the run no attempt.
Wait(l) == ~mine[l].asked /\ Requeue(l, now + Backoff, FALSE) /\ Fault

\* reviewRunError: a wait, or the run fails.
RunError(l) == Wait(l) \/ (~mine[l].asked /\ End(l, "failed") /\ NoFault)

\* retryOrFail.  A lane that can still write carries the row's own count of attempts.
RetryOrFail(l) ==
  /\ ~mine[l].asked /\ NoFault
  /\ IF runs[hold[l].run].attempts < MaxAttempts
     THEN Requeue(l, now + Backoff, TRUE)
     ELSE End(l, "failed")

\* reviewPostFailed: a wait, or the post is tried again while attempts last.
PostFailed(l) == Wait(l) \/ RetryOrFail(l)
-----------------------------------------------------------------------------
(* processReview and reviewWork: the gate again, the engine, the checkpoint. *)

Goto(l, next) == pc' = [pc EXCEPT ![l] = next]

\* A review queued after this run waits on the same pull request (newerReviewQueued).
NewerQueued(l) ==
  \E q \in Runs : q > hold[l].run /\ runs[q].pr = hold[l].pr
                  /\ runs[q].status = "queued" /\ ~runs[q].cancel

HeadMoved(l) == hub[hold[l].pr].head # mine[l].head
Trigger(l) == runs[hold[l].run].key.trigger

\* The pull request is closed, here or on GitHub.
GateClosed(l) ==
  /\ pc[l] = "gate" /\ ~(prs[hold[l].pr].open /\ hub[hold[l].pr].open)
  /\ End(l, "cancelled") /\ NoFault

\* The settings, the plan, the pause, the money or the throttles say no.
GateSkipped(l) == pc[l] = "gate" /\ prs[hold[l].pr].open /\ End(l, "skipped") /\ NoFault

GateFailed(l) == pc[l] = "gate" /\ prs[hold[l].pr].open /\ (RunError(l) \/ (~mine[l].ckpt /\ RetryOrFail(l)))

\* (mutant: a moved head alone is enough)
StandsAsideMoved(l) == ~mine[l].ckpt /\ Trigger(l) = "push" /\ HeadMoved(l)

\* An automatic review of a head that has moved (pull.Head.SHA) leaves it to the newer run, if one
\* is queued.
StandsAside(l) == ~mine[l].ckpt /\ Trigger(l) = "push" /\ HeadMoved(l) /\ NewerQueued(l)

GateSuperseded(l) ==
  /\ pc[l] = "gate" /\ prs[hold[l].pr].open /\ hub[hold[l].pr].open
  /\ StandsAside(l)
  /\ Goto(l, "aside")
  /\ UNCHANGED <<now, rowVars, hold, mine, hubVars, stored, givenVars>>

\* The run ends on what was read, whatever has become of the newer one since.
Aside(l) == pc[l] = "aside" /\ End(l, "superseded") /\ NoFault

\* Through the gate: to the engine, which reads the head GitHub has now, or with the model work of
\* an earlier attempt stored, straight to the post.  The summary's id is read with the row.
GatePassed(l) ==
  LET p == hold[l].pr IN
  /\ pc[l] = "gate" /\ prs[p].open /\ hub[p].open /\ ~StandsAside(l)
  /\ mine' = [mine EXCEPT ![l].summary = prs[p].summary,
                          ![l].head = IF mine[l].ckpt THEN @ ELSE hub[p].head]
  /\ Goto(l, IF mine[l].ckpt THEN "publish" ELSE "engine")
  /\ UNCHANGED <<now, rowVars, hold, hubVars, stored, givenVars>>

\* Another run reviewed the same commits under the same settings.
EngineCached(l) ==
  /\ pc[l] = "engine"
  /\ \E q \in Runs \ {hold[l].run} :
       runs[q].pr = hold[l].pr /\ runs[q].head = mine[l].head /\ runs[q].status \in {"posted", "shadow"}
  /\ End(l, "noop") /\ NoFault

EngineNothing(l) == pc[l] = "engine" /\ ~mine[l].asked /\ End(l, "skipped") /\ NoFault

EngineFailed(l) == pc[l] = "engine" /\ RunError(l)

\* saveReviewOutcome, fenced on the run and on the pull request: the checkpoint and its findings.
Save(l) ==
  LET r == hold[l].run IN
  /\ pc[l] = "engine" /\ ~mine[l].asked
  /\ IF FencedPR(l)
     THEN /\ runs' = [runs EXCEPT ![r].ckpt = TRUE, ![r].head = mine[l].head, ![r].findings = "open"]
          /\ stored' = [stored EXCEPT ![r] = @ + 1]
          /\ mine' = [mine EXCEPT ![l].ckpt = TRUE]
          /\ Goto(l, "publish")
          /\ UNCHANGED hold
     ELSE UNCHANGED <<runs, stored>> /\ Free(l)
  /\ UNCHANGED <<now, prs, prLease, hubVars, givenVars>>
-----------------------------------------------------------------------------
(* publishReview: what a run found is posted, once.                        *)

\* (mutant: the pull request is written outside the run's transaction)
FinishApart(l, status) ==
  LET r == hold[l].run p == hold[l].pr IN
  /\ prs' = [prs EXCEPT ![p].last = mine[l].head, ![p].reviews = @ + 1]
  /\ IF FencedPR(l)
     THEN /\ runs' = [runs EXCEPT ![r].status = status, ![r].lease = 0, ![r].head = mine[l].head]
          /\ Release(l)
     ELSE UNCHANGED <<runs, prLease>> /\ Free(l)
  /\ UNCHANGED <<now, hubVars, stored, givenVars>>

\* finishReviewRun with a review: the run, its pull request's record of it and the lease, together.
Finish(l, status) ==
  LET r == hold[l].run p == hold[l].pr IN
  /\ IF FencedPR(l)
     THEN /\ runs' = [runs EXCEPT ![r].status = status, ![r].lease = 0, ![r].head = mine[l].head]
          /\ prs' = [prs EXCEPT ![p].last = mine[l].head, ![p].reviews = @ + 1]
          /\ Release(l)
     ELSE UNCHANGED rowVars /\ Free(l)
  /\ UNCHANGED <<now, hubVars, stored, givenVars>>

\* Recorded without a word to GitHub, unless a review of this run is up already.
PublishShadow(l) ==
  /\ pc[l] = "publish" /\ Shadow /\ ~mine[l].github
  /\ Finish(l, "shadow")

PublishFailed(l) == pc[l] = "publish" /\ PostFailed(l)

PublishClosed(l) ==
  /\ pc[l] = "publish" /\ ~hub[hold[l].pr].open
  /\ End(l, "cancelled") /\ NoFault

\* Before the review object is up, a run whose head has moved stands aside for a newer one, unless
\* it is the pull request's first.
LateAnswer(l) ==
  /\ HeadMoved(l) /\ ~mine[l].github
  /\ ~(Trigger(l) = "open" /\ prs[hold[l].pr].last = 0)
  /\ NewerQueued(l)

PublishSuperseded(l) ==
  /\ pc[l] = "publish" /\ hub[hold[l].pr].open /\ LateAnswer(l)
  /\ Goto(l, "aside")
  /\ UNCHANGED <<now, rowVars, hold, mine, hubVars, stored, givenVars>>

\* (mutant: a run whose review is up has nothing left to write)
AfterPublishDone(l, inline) ==
  IF mine[l].github THEN "finish" ELSE IF inline THEN "touch" ELSE "summary"

\* With findings to put on the diff the review object comes first; without, the summary.
AfterPublish(l, inline) == IF inline /\ ~mine[l].github THEN "touch" ELSE "summary"

PublishGo(l) ==
  /\ pc[l] = "publish" /\ hub[hold[l].pr].open /\ ~LateAnswer(l)
  /\ \E inline \in BOOLEAN :
       /\ mine' = [mine EXCEPT ![l].inline = inline]
       /\ Goto(l, AfterPublish(l, inline))
  /\ UNCHANGED <<now, rowVars, hold, hubVars, stored, givenVars>>

\* The lease is renewed, the run's marker is looked for, and only then is the review posted
\* (postInlineReview, postPlainReview).
PostTouch(l) == pc[l] = "touch" /\ Renewed(l, "look")

\* The plain review is best effort: only a wait or a lost lease holds the run up.
PostStepFailed(l) ==
  /\ pc[l] \in {"touch", "look", "post", "unheard"}
  /\ \/ mine[l].inline /\ PostFailed(l)
     \/ ~mine[l].inline /\ Wait(l)
     \/ /\ ~mine[l].inline /\ Goto(l, "finish")
        /\ UNCHANGED <<now, rowVars, hold, mine, hubVars, stored, givenVars>>

\* (mutant: the run's marker is not looked for)
AdoptBlind(l) ==
  LET listed == \E q \in Runs : runs[q].pr = hold[l].pr /\ posted[q] > 0 IN
  /\ pc[l] = "look"
  /\ Goto(l, IF ~mine[l].inline /\ listed THEN "finish" ELSE "post")
  /\ UNCHANGED <<now, rowVars, hold, mine, hubVars, stored, givenVars>>

\* An earlier attempt's review is adopted.  Where there is nothing for the diff, another run's
\* review already lists the App among the reviewers, and none is posted.
Adopt(l) ==
  LET listed == \E q \in Runs : runs[q].pr = hold[l].pr /\ posted[q] > 0 IN
  /\ pc[l] = "look"
  /\ Goto(l, CASE posted[hold[l].run] > 0 -> "record"
               [] posted[hold[l].run] = 0 /\ ~mine[l].inline /\ listed -> "finish"
               [] OTHER -> "post")
  /\ UNCHANGED <<now, rowVars, hold, mine, hubVars, stored, givenVars>>

\* GitHub took the review, and its answer came back or did not.
Post(l) ==
  /\ pc[l] = "post"
  /\ posted' = [posted EXCEPT ![hold[l].run] = @ + 1]
  /\ (Goto(l, "record") /\ NoFault) \/ (Goto(l, "unheard") /\ Fault)
  /\ UNCHANGED <<now, rowVars, hold, mine, hub, stored, wordVars>>

\* GitHub refused every anchor: the findings go to the summary.
PostRefused(l) ==
  /\ pc[l] = "post" /\ mine[l].inline
  /\ mine' = [mine EXCEPT ![l].inline = FALSE]
  /\ Goto(l, "summary")
  /\ UNCHANGED <<now, rowVars, hold, hubVars, stored, givenVars>>

\* recordReviewID, fenced on the run and on the pull request.
Record(l) ==
  LET r == hold[l].run IN
  /\ pc[l] = "record"
  /\ IF FencedPR(l)
     THEN /\ runs' = [runs EXCEPT ![r].github = TRUE]
          /\ mine' = [mine EXCEPT ![l].github = TRUE]
          /\ Goto(l, IF mine[l].inline THEN "summary" ELSE "finish")
          /\ UNCHANGED hold
     ELSE UNCHANGED runs /\ Free(l)
  /\ UNCHANGED <<now, prs, prLease, hubVars, stored, givenVars>>
-----------------------------------------------------------------------------
(* upsertReviewSummary: one comment per pull request, edited in place.     *)

\* (mutant: with no id on record the comment is not looked for)
SummaryFindBlind(l) ==
  /\ pc[l] = "summary"
  /\ Goto(l, "sumtouch")
  /\ UNCHANGED <<now, rowVars, hold, mine, hubVars, stored, givenVars>>

\* With no id on record the comment is looked for by its marker, and its id recorded.
SummaryFind(l) ==
  LET p == hold[l].pr IN
  /\ pc[l] = "summary"
  /\ IF mine[l].summary = 0 /\ Comments(p) # {}
     THEN \E c \in Comments(p) :
            /\ \A b \in Comments(p) : c <= b
            /\ mine' = [mine EXCEPT ![l].summary = c]
            /\ prs' = [prs EXCEPT ![p].summary = c]
     ELSE UNCHANGED <<mine, prs>>
  /\ Goto(l, "sumtouch")
  /\ UNCHANGED <<now, runs, prLease, hold, hubVars, stored, givenVars>>

SummaryTouch(l) == pc[l] = "sumtouch" /\ Renewed(l, "sumwrite")

AfterSummary(l) == IF mine[l].github THEN "finish" ELSE "touch"

SummaryEdit(l) ==
  /\ pc[l] = "sumwrite" /\ mine[l].summary \in Comments(hold[l].pr)
  /\ Goto(l, AfterSummary(l))
  /\ UNCHANGED <<now, rowVars, hold, mine, hubVars, stored, givenVars>>

\* A 404: somebody deleted the comment, and another is made without a look for one.
SummaryGone(l) ==
  /\ pc[l] = "sumwrite" /\ mine[l].summary # 0 /\ mine[l].summary \notin Comments(hold[l].pr)
  /\ mine' = [mine EXCEPT ![l].summary = 0]
  /\ Goto(l, "sumtouch")
  /\ UNCHANGED <<now, rowVars, hold, hubVars, stored, givenVars>>

SummaryCreate(l) ==
  LET p == hold[l].pr IN
  /\ pc[l] = "sumwrite" /\ mine[l].summary = 0
  /\ hub' = [hub EXCEPT ![p].made = @ + 1]
  /\ mine' = [mine EXCEPT ![l].summary = hub[p].made + 1]
  /\ Goto(l, "sumset")
  /\ UNCHANGED <<now, rowVars, hold, posted, stored, givenVars>>

\* SetReviewPRSummaryComment, which is not fenced.
SummarySet(l) ==
  /\ pc[l] = "sumset"
  /\ prs' = [prs EXCEPT ![hold[l].pr].summary = mine[l].summary]
  /\ Goto(l, AfterSummary(l))
  /\ UNCHANGED <<now, runs, prLease, hold, mine, hubVars, stored, givenVars>>

SummaryFailed(l) == pc[l] \in {"summary", "sumtouch", "sumwrite", "sumset"} /\ PostFailed(l)

FinishPosted(l) == pc[l] = "finish" /\ Finish(l, "posted")
-----------------------------------------------------------------------------
\* (mutant: only what somebody cancelled is retired)
SweptCancelled(r) == runs[r].status = "running" /\ runs[r].lease <= now /\ runs[r].cancel

\* sweepReviewRuns: runs no lane will finish are retired.
Swept(r) ==
  /\ runs[r].status = "running" /\ runs[r].lease <= now
  /\ runs[r].attempts >= MaxAttempts \/ runs[r].cancel

Sweep ==
  /\ \E r \in Runs : Swept(r)
  /\ runs' = [r \in Runs |->
       IF Swept(r)
       THEN [runs[r] EXCEPT !.status = IF runs[r].cancel THEN "cancelled" ELSE "failed", !.lease = 0]
       ELSE runs[r]]
  /\ UNCHANGED <<now, prs, prLease, laneVars, hubVars, stored, givenVars>>

\* A lane that has just renewed its lease to write to GitHub is done with that write before the
\* lease runs out: the write and the look before it are bounded by the HTTP client's timeout, and
\* the renewal beside the work goes on.  A claim's transaction takes no time.
Prompt(l) ==
  /\ pc[l] # "picked"
  /\ pc[l] \in {"look", "post", "sumwrite"} => now + 1 < hold[l].lease

\* Time passes while anything waits for it.
Tick ==
  /\ \A l \in Lanes : Prompt(l)
  /\ \/ \E r \in Runs : runs[r].status \in Unended /\ (runs[r].lease > now \/ runs[r].notBefore > now)
     \/ \E p \in PRs : prLease[p] > now
  /\ now' = now + 1
  /\ UNCHANGED <<rowVars, laneVars, hubVars, stored, givenVars>>

LaneStep(l) ==
  \/ ClaimPick(l) \/ ClaimMiss(l) \/ ClaimTake(l) \/ ClaimDefer(l)
  \/ InterruptedLost(l) \/ InterruptedCancel(l)
  \/ GateClosed(l) \/ GateSkipped(l) \/ GateFailed(l) \/ GateSuperseded(l) \/ GatePassed(l)
  \/ Aside(l)
  \/ EngineCached(l) \/ EngineNothing(l) \/ EngineFailed(l) \/ Save(l)
  \/ PublishShadow(l) \/ PublishFailed(l) \/ PublishClosed(l) \/ PublishSuperseded(l) \/ PublishGo(l)
  \/ PostTouch(l) \/ PostStepFailed(l) \/ Adopt(l) \/ Post(l) \/ PostRefused(l) \/ Record(l)
  \/ SummaryFind(l) \/ SummaryTouch(l) \/ SummaryEdit(l) \/ SummaryGone(l) \/ SummaryCreate(l)
  \/ SummarySet(l) \/ SummaryFailed(l) \/ FinishPosted(l)

Next ==
  \/ \E p \in PRs : PushOn(p) \/ CloseOn(p) \/ DraftOn(p) \/ ReopenOn(p) \/ DeleteOn(p)
  \/ \E h \in Routers : RouterStep(h) \/ RouteFails(h)
  \/ \E l \in Lanes : LaneStep(l) \/ Touch(l) \/ InterruptedShutdown(l) \/ Crash(l)
  \/ Sweep
  \/ Tick

Spec == Init /\ [][Next]_vars

\* The lane's loop and the sweep's ticker run for as long as some instance does; nothing obliges a
\* person, a dispatcher or a fault to act.
FairSpec ==
  /\ Spec
  /\ WF_vars(Tick) /\ WF_vars(Sweep)
  /\ \A l \in Lanes : WF_vars(LaneStep(l))
-----------------------------------------------------------------------------
(* What the lane promises.                                                 *)

\* The pull request's lease is a fence: review_prs.lease_until and the value each lane carries
\* implement LeaseFence, whatever the runs' own leases do.
Fence == INSTANCE LeaseFence WITH
  Keys <- PRs, Holders <- Lanes, TTL <- Lease, Delays <- {}, NoKey <- NoPR, lease <- prLease,
  key <- [l \in Lanes |-> hold[l].pr], token <- [l \in Lanes |-> hold[l].lease]
ASSUME LaneFences == Fence!FenceAssumption
FenceSpec == Fence!Spec

\* However often a run is retried, taken over or resumed, and whatever GitHub's answers do, the
\* pull request carries at most one review object of it (postInlineReview, adoptReview).
OneReviewPerRun == \A r \in Runs : posted[r] <= 1

\* A pull request has one summary comment, edited in place (upsertReviewSummary), whatever answers
\* are lost and whoever takes the run over, until a person deletes one: the comment made in its stead
\* is not looked for, so one whose answer is lost then gets a second beside it.
OneSummaryPerPR == \A p \in PRs : hub[p].gone = {} => Cardinality(Comments(p)) <= 1

\* A run taken over after its checkpoint posts from it and never stores its findings twice
\* (saveReviewCheckpoint).
FindingsStoredOnce == \A r \in Runs : stored[r] <= 1

\* reviews_count is the number of reviews that ended posted or recorded: one that died near its
\* end and was resumed is not counted twice (ReviewRunResult.Reviewed).
ReviewsCounted ==
  \A p \in PRs :
    prs[p].reviews = Cardinality({r \in Runs : runs[r].pr = p /\ runs[r].status \in {"posted", "shadow"}})

\* A run is recorded as posted only with its findings stored and the pull request's summary put on
\* GitHub, whichever attempt got how far and whatever people deleted (publishReview).
PostedIsThere ==
  \A r \in Runs : runs[r].status = "posted" => stored[r] = 1 /\ hub[runs[r].pr].made > 0

SameRequest(a, b) == a.trigger = b.trigger /\ a.head = b.head /\ a.since = b.since

\* Two requests that are one never have two runs under way, though dispatchers look for a run and
\* queue one in different statements and a delivery is routed again (enqueueReview,
\* EnqueueReviewRun): the key is unique, and a key that moves on moves to one place.
OneRunPerRequest ==
  \A q, r \in Runs :
    runs[q].status \in Unended /\ runs[r].status \in Unended
    /\ runs[q].pr = runs[r].pr /\ SameRequest(runs[q].key, runs[r].key) => q = r

\* An ending is final: no stale lane, sweep or late cancel takes it back or rewrites it.
EndedIsFinal == [][\A r \in Runs : runs[r].status \in Ends => runs'[r].status = runs[r].status]_vars

\* Every run nobody asks to stop comes to an end, once things stop going wrong.
RunsEnd ==
  \A r \in Runs :
    (runs[r].status \in Unended /\ ~runs[r].cancel) ~> (runs[r].status \in Ends \/ runs[r].cancel)

\* A run asked to stop ends.
CancelEnds == \A r \in Runs : runs[r].cancel ~> runs[r].status \in Ends

\* The findings a run retires were shown to nobody.
RetiredUnshown == \A r \in Runs : runs[r].findings = "outdated" => posted[r] = 0

\* Standing aside always leaves a later run that did not: the newer run a lane read may be
\* cancelled, run by another lane or stand aside itself before the first has ended, but the last of
\* a pull request's runs never does (newerReviewQueued, endReviewRun).
AsideForOther ==
  \A r \in Runs : runs[r].status = "superseded" =>
    \E q \in Runs : q > r /\ runs[q].pr = runs[r].pr /\ runs[q].status # "superseded"
-----------------------------------------------------------------------------
(* The invariant of the proofs, with its parts.                            *)

\* A row: it starts blank, a running one has had an attempt, and its findings are stored when its
\* checkpoint is, and then once.
RowOk(r) ==
  /\ runs[r].status = "none" => runs[r] = NoRun
  /\ runs[r].status # "none" => runs[r].pr # NoPR
  /\ runs[r].status = "running" => runs[r].attempts > 0
  /\ stored[r] = IF runs[r].ckpt THEN 1 ELSE 0

\* A lane with a run holds it under a lease value it was given; while that is live, the rows of
\* the run and of its pull request name it.
HoldOk(l) ==
  /\ pc[l] = "idle" => hold[l] = NoHold
  /\ pc[l] \notin Working => mine[l] = Blank
  /\ pc[l] = "picked" => hold[l].run \in Runs /\ hold[l].pr = NoPR /\ hold[l].lease = 0
  /\ pc[l] \in Working =>
       /\ hold[l].run \in Runs /\ hold[l].pr \in PRs /\ runs[hold[l].run].pr = hold[l].pr
       /\ hold[l].lease > 0 /\ mine[l].head > 0
       /\ hold[l].lease > now => FencedPR(l)

\* Two lanes on one pull request were given different values.
OneHolder ==
  \A l, m \in Lanes :
    l # m /\ pc[l] \in Working /\ pc[m] \in Working /\ hold[l].pr = hold[m].pr
    => hold[l].lease # hold[m].lease

\* A lane that has not been overtaken knows whether its run has a checkpoint, and the engine is
\* where it has none.
CheckpointOk(l) ==
  /\ pc[l] \in Working /\ Fenced(l) => mine[l].ckpt = runs[hold[l].run].ckpt
  /\ pc[l] = "engine" => ~mine[l].ckpt
  /\ pc[l] \in Working \ {"gate", "engine", "aside"} => mine[l].ckpt

\* A lane about to write to GitHub is within its lease, and about to post has found nothing posted.
PostOk(l) ==
  /\ pc[l] \in {"look", "post", "sumwrite"} => now < hold[l].lease
  /\ pc[l] = "post" => posted[hold[l].run] = 0

\* Past the summary there has been one, which is what a lane has the number of; a lane that would
\* create it has found none since it held the pull request, or one was deleted.
SummaryOk(l) ==
  pc[l] \in Working =>
    /\ mine[l].summary <= hub[hold[l].pr].made
    /\ (\/ pc[l] \in {"sumset", "finish"}
        \/ pc[l] \in {"touch", "look", "post", "unheard", "record"} /\ ~mine[l].inline)
       => hub[hold[l].pr].made > 0
    /\ mine[l].summary = 0 /\ (pc[l] = "sumwrite" \/ (pc[l] = "sumtouch" /\ HeldPR(l)))
       => hub[hold[l].pr].made = 0 \/ hub[hold[l].pr].gone # {}

SummaryRead == \A p \in PRs : prs[p].summary <= hub[p].made

LaneOk(l) == HoldOk(l) /\ CheckpointOk(l) /\ PostOk(l) /\ SummaryOk(l)

\* The queue, the pull requests and the lanes are well typed, and what each lane carries agrees
\* with rows that others write, for as long as its lease does (ClaimReviewRun, touchReviewRun,
\* saveReviewCheckpoint, publishReview).  Inductive.
LaneInv ==
  TypeOK /\ (\A r \in Runs : RowOk(r)) /\ (\A l \in Lanes : LaneOk(l)) /\ OneHolder /\ SummaryRead
=============================================================================
