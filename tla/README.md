# TLA+ models of Attest Tag

Attest Tag is one Go binary (`src/internal/app`, plus a worker in `src/internal/worker`) that answers
people in Slack and Teams, reviews pull requests, runs scheduled routines and fix jobs, and keeps all
of its state in one database: SQLite, streamed to a bucket by Litestream, or Postgres. This directory
holds TLA+ models of the parts of it that are hard to test, the TLC configurations that check them,
and the TLAPS proofs of what matters most.

## What is hard in this program

Every long-running piece of work is a row with a *lease*: a worker claims the row by writing
`lease_until`, renews it beside the work, and writes its outcome only `where lease_until = <the value
it wrote>`. Workers of several instances share nothing but the database and GitHub, so any of them can
stall, be overtaken, come back late, die between two statements, or not hear the answer to a call that
took effect. On SQLite nothing fences the database itself: one object in the bucket says who may
write, and time alone keeps two writers apart.

## Inventory

| component | state it keeps | operations | what makes it correct |
|---|---|---|---|
| Leased rows (`store_*.go`) | `lease_until` of a row, the value its holder remembers | claim, renew, release, back off | at most one holder passes the fence |
| Code review lane (`review_lane.go`, `store_review_runs.go`, `store_review_lane.go`) | `review_runs`, `review_prs` | enqueue, dedupe, cancel, claim, touch, gate, checkpoint, requeue, end, sweep | one run per request, one lane per pull request, endings final, every run ends |
| Posting (`review_post.go`) | review objects and the summary comment on GitHub, ids recorded | look, post, adopt, record, upsert summary | each posted once, whatever is retried |
| GitHub inbox (`github_webhook.go`, `store_github_deliveries.go`) | `github_deliveries` | enqueue, claim, touch, finish, fail, purge | closed only with work done or attempts used; receipts kept; slots freed |
| Write lease (`lease.go`, `bot.go`) | lock object in the bucket | acquire, steal, renew, stand down, release | one writer |
| Leader leases (`singleton.go`) | `leader_leases` | take, renew, release | one loop per role, and always one |
| Replication (`replication.go`) | the Litestream child | restore, run, restart, stop | nothing written is lost when the lease moves |
| Slack inbox and hand-off (`slack_http.go`, `store_slack_deliveries.go`, `inbox_handoff.go`) | `slack_deliveries` | enqueue, claim, adopt, keep leased, finish, fail | one turn per message, slots freed |
| Fix jobs (`jobs*.go`, `src/internal/worker`) | `jobs`, `job_events` | start, claim, events, result, cancel, reconcile | terminal once, spend counted once |
| Routines (`routines.go`) | `routines.run_lease`, `next_run` | claim, renew, release, schedule | one run at a time, no slot run twice |
| Billing (`store_billing.go`, `billing*.go`) | balance, allowance, ledger, watermark | move, charge, roll up, sync allowance | ledger and balance add up; a payment counts once |
| Investigations (`investigations*.go`) | `investigations` | claim, touch, finish, release, abandon | one answer per question |
| Held writes (`confirm.go`, `store_admin.go`) | `pending_writes` | hold, confirm, cancel, drop | runs at most once, never after a cancel |
| Access requests (`access_requests.go`, `store_access.go`) | `access_requests` | raise, approve, deny, withdraw, replay, expire | answered once, by somebody who did not ask; never open for ever |
| Rate limits (`limits.go`) | `throttle_events`, a map | allow | at most the limit per window |

Deliveries flow from the webhook handler into the inbox; a dispatcher routes each to the review lane's
`reviewPullRequestEvent`, which writes `review_prs` and queues or cancels `review_runs`; lanes claim
those and talk to GitHub. Slack's deliveries flow the same way into turns, which spend credit and hold
writes; a person's answer runs a held write, turns it into an access request, or starts a fix job, whose
worker reports its spending to the same ledger. The loops that must run once sit behind leader leases; on SQLite all of it
runs only while the process holds the write lease. What is not modelled, and why, is listed under
"components" in `PROJECT.json`; the hazards there are what the properties are for.

## Modules

| module | models | refines |
|---|---|---|
| `LeaseFence` | the promise of a leased row: what every worker of every instance may do to `lease_until` | |
| `ReviewLane` | the review queue, its lanes, GitHub's pull requests, the posting of a review | `LeaseFence`, on `review_prs.lease_until` |
| `GitHubInbox` | the webhook handler's insert, the dispatchers, the purge | `LeaseFence`, on `github_deliveries.lease_until` |
| `WriteLease` | the lock object, and containers booting, restoring, serving, shutting down and dying | |
| `LeaderLease` | one role's row and the instances that want it | |
| `SlackInbox` | Slack's inbox, its dispatchers, and the turns that take deliveries over | |
| `Approvals` | held writes, access requests, and everybody who answers them | |
| `FixJobs` | one fix job between the bot, its worker, a canceller and the reconciler | |
| `Credit` | an account's balance, allowance, ledger and watermark | |
| `LeaseProofs` | theorems and proofs of `LeaderLease` and, through an instance for any rows, of `LeaseFence` | |
| `ReviewLaneProofs`, `GitHubInboxProofs`, `WriteLeaseProofs`, `SlackInboxProofs`, `ApprovalsProofs`, `FixJobsProofs`, `CreditProofs` | theorems and proofs of the module each is named after | |
| `MC*` | symmetry sets, the names of instances, who asks for a write, the state constraints of one run | |

### LeaseFence

`lease[k]` is the column, `key[h]`/`token[h]` what a worker believes it holds and the value it
remembers. A claim needs `lease <= now`; everything later needs `lease = token`. A lease that lapsed
and that nobody took still passes the fence, as the SQL has it. `Release(h, v)` covers both endings of
the code: 0 (`releaseReviewPRLease`) and a back-off (`failGitHubDelivery`). What it asks of its
constants is `FenceAssumption`; `ReviewLane` and `GitHubInbox` assume it of theirs (`LaneFences`,
`InboxFences`), and TLC evaluates those on their runs.

### ReviewLane

`runs`, `prs` and `prLease` are the tables, `hold` and `mine` what a lane carries in memory
(`reviewHold` and the copies `processReview` reads), `hub` and `posted` what is on GitHub, `deliveries`
what the inbox has accepted and `routes` how far each dispatcher has come with the one it routes. One step
is one SQL statement or transaction or one call to GitHub; `pc` walks through `processReview` →
`reviewWork` → `saveReviewOutcome` → `publishReview` → `postInlineReview` → `upsertReviewSummary` →
`postPlainReview` → `finishReviewRun` in the code's order.

* Dispatchers route beside one another, statement by statement: the upsert of the pull request's facts
  (`Take`; a push writes them twice, `RouteMoved`), each `ReviewRunByDedupeKey` of the loop (`RouteLook`), the
  insert `on conflict do nothing` (`RouteQueue`), the cancel after a close or a conversion to draft
  (`RouteCancel`). One that dies has its delivery routed again (`RouteFails`).
* The claim is two steps, `ClaimPick` (the subquery's snapshot) and `ClaimTake`/`ClaimMiss`/`ClaimDefer`
  (the update, which repeats its conditions), because on Postgres two lanes pick the same row.
* Standing aside is two steps, at the gate and at the publishing: the read that finds a newer run queued,
  and the end of the run (`Aside`).
* `reviewHold.lost` is not a variable: a lane may stop once its lease is gone (`InterruptedLost`), and
  if it does not, each fenced write refuses it.
* Settings, plan, pause, money and throttles at the gate and at the enqueue are a nondeterministic
  refusal; the engine is its outcomes (cached, nothing to do, failed, an outcome to save).
* `posted[r]` counts the review objects with run `r`'s marker; `Post` may land with its answer lost. A
  review GitHub refuses (422) is one step, `PostRefused`, which falls back to the plain review; the code's second
  attempt in between, with the comments revalidated, is the same look and post again and is left out.
* People delete summary comments (`DeleteOn`): an edit then gets a 404 (`SummaryGone`), and the comment is
  created again without a look for its marker.
* A database error at the end of a run is `Crash`: the lane lets go, and the lease runs out.
* `Prompt` is the one assumption on time: a lane that has just renewed its lease to write to GitHub is
  done before it lapses. The lease is a minute, the HTTP client's timeout 30 s (`proxy.go:441`), and the
  renewal beside the work goes on every 20 s. Without it two lanes could post one run's review: nothing
  on GitHub is fenced, and no property here is about a process paused between renewal and call.
* Replies, resyncs, tries, labels, checks, resolution replies and notices are not modelled yet.

### GitHubInbox

`Receive` and `Insert` are the two halves of `enqueueGitHubDelivery`, which on Postgres interleave;
`held` is the `githubDelivery` a dispatcher carries. `Route` may fail after it took effect, which is
what a handler's timeout does. `routed` and `claims` are history: since the delivery was accepted, did
its work happen, and how often was it claimed.

### WriteLease

`obj` is the lock object, with the generation the bucket gives each write; a conditional write lands
or is refused (`Matches`), or fails having landed or not (`Unanswered`). It carries two expiries: the
bucket's time of the write and `TTL`, and the one its payload claims by the writer's clock, of which a waiter takes
the later (`Expired`). `pc` follows a container through `Acquire`, `Restore`, serving and `shutdown`. Only
from `serving` on is `Lost()` looked at, as in `Run`, and a restore may take longer than the lease (five
minutes against one in the code): `late` is a history of the containers that lost the lease while they were
still starting up, and the properties say what of the others. `OnTime` lets no process be paused: a poll, a renewal, a call, a restore and a shutdown take
at most their time. The code says the same of itself (the note on `Release`: it is a lease, not a
fence). The bucket's clock is the model's clock; a waiter's may run ahead of it by up to `Skew`. A
write whose call timed out lands within the timeout or not at all.

### LeaderLease

Time is what is left of the lease and of each instance's wait, so the model is finite without a
horizon; nothing makes an instance act in time. The token of the code, the expiry it last wrote, is
abstracted to whose write the row carries. `Name` is what `instanceID` returns, and instances may share
one. `Crash` takes an instance away for good from any state, or restarts one whose loop was running or
stopping. `age` is a history: how long ago an instance that runs the loop heard of a write of its own. The
code does not ask: a failed renewal is left to the next, and after two in a row, or none in time, the lease has
expired under a loop that still runs (`singleton.go:104-110`). So an instance leads *by right*
(`InForce`) when it has a name of its own and `age < TTL`; `OneInForce` says that one does, and both
ways of losing the right are in the run (`MaxFaults = 2`, `r1` and `r2` of one name). `OneLeader`, about all
loops not told to stop, is what `leader_revision` violates: at a shutdown the lease is given back
before the loop has ended, so a loop that is stopping is in neither.

### SlackInbox

`rows` is `slack_deliveries`, `seen` the table that keeps one mention, of which Slack sends an
`app_mention` and a `message` event, to one answer; `kind` says what each delivery is. `work[h]` is a
`deliveryHandoff`: picked, dispatched, then either left to the dispatcher (`ok`, `failed`) or adopted by
a turn, which renews the lease every `RenewEvery` and closes the row. Unlike GitHub's inbox, `Fail` names
the row and not the lease, a failed renewal ends the renewing and not the turn, and no row out of
attempts is retired (`stuck`). `faults` is the set of what went wrong, so that each property says which
faults it is about. `lapsed` is a history of the deliveries whose lease was let run out under their work: by
a dispatch that starts its turn too late for the first renewal (`Late`: the code allows a dispatch 45 s
and the renewal 20 s more, of a lease of 60), one held up past its time (`Stall`), or a renewal that failed.

### Approvals

A write's turn goes `Hold` → `PostConfirm`, or, when an approver was tagged, `EscalateRead` →
`EscalateMove` → `Raise` → `SendCard` → `Delivered`/`Undelivered`. An answer is a handler: `ConfirmPressed`
and `ConfirmTyped` lead to `ClaimWrite` (the conditional update) and `RunWrite`; `CancelPressed` and
`CancelTyped` to `DropOwn`, `DropList`, `DropOne`, `DropDone`; `ApprovePressed` to `TakeRequest`, `Replay`,
`FinishRequest`. Each is one statement, so all of them interleave; a process may die between any two. A
request may be denied from a card or from the console, which asks neither for a card nor for an approver
(`Deny`). A write may be confirmed by typing while the turn that holds it is at work: `confirmFlow` does
not wait for it. `fresh` is the five-minute window, `late` a request's week; `runs` and `grants` count how
often a write ran in the thread and as a request. Three histories say what the properties are about: `early`,
the writes confirmed under their turn, `refused`, those whose request was denied, withdrawn or left to
expire, and `cut`, those whose replay lost its handler. That an approver does not answer a
request of their own is as with `AllowSelfApprove` off, the default.

### FixJobs

`job` is the row, `disp`, `claim`, `ev`, `fin` and `snap` the handlers that act on it at once: `Dispatch`,
`handleJobClaim`, `handleJobEvents`, the five callers of `finish`, and whoever acts on a row read before
(a cancel, the reconciler). `worker` has its phase, whether it was told to stop, and the events it has
not got rid of. A finish is read, conditional write, the row read again (`ReadEnded`), key settlement by what
that showed, log and report; the key's deletion may fail. The per-event inserts and the row's update of one
batch are one step (`AddJobEvents`): no property tells the states between them from those around. Money is in units
of which the worker spends one at a time; `logged` is the usage log and `unlogged` what a cut request
or a dead process took with it. Time is left out: a grace or the deadline may have run out whenever the
reconciler looks, and `SF(Reconcile("timeout"))` says that the deadline comes. The platform is external:
a start may fail having started, a stop may not reach the worker.

### Credit

`acct` is the row of `billing_accounts`, `ledger` a function from `external_id` to amount, `seen` the
events on record. The database is Postgres as the code opens it, a pool at READ COMMITTED: what a
transaction does from its first UPDATE of the account on is one step, a SELECT before it a step of its
own, which is why `MoveCredit` and `ChargeTurn` are one step and `RollRead`/`RollWrite` and
`SyncSelect`/`SyncWrite` two. A turn passes the gate (`StartTurn`), and is charged when it ends. `Rollers`
are two: the leader lease that is to keep the roll-up single can overlap, and the code says that the
hour's key and the watermark are what it relies on. Stripe's events come in any order, again and again, to
any number of handlers at once. `out`, `covered`, `early` and `raced` are history: what left the account
other than by a turn, what turns the present allowance paid for, the events taken up before what they
follow from (a refund or a dispute before its payment, a dispute's end before its beginning), and whether two
refunds were ever read before either had moved. A sync is not held back by an overdue or a free
subscription, as it is in the code, so the model has only more of them.

## Runs

| run | what it shows |
|---|---|
| `lane_takeover` | one run, two lanes, two attempts, one fault anywhere, one deletion of the summary: `LaneInv` (inductive), `OneReviewPerRun`, `OneSummaryPerPR`, `FindingsStoredOnce`, `PostedIsThere`, `ReviewsCounted`, the refinement `FenceSpec`, and `RunsEnd` under fairness |
| `lane_requests` | two lanes and two dispatchers, up to three heads, a close or a draft and a reopening, deliveries in any order, one fault (a dispatcher dies and its delivery is routed again, a lane crashes, shuts down or waits): `OneRunPerRequest`, `AsideForOther`, `EndedIsFinal` |
| `inbox` | one delivery sent twice, two dispatchers, two attempts: `InboxInv` (inductive), `DoneWasRouted`, `DeadUsedAttempts`, `ReceiptKept`, `FenceSpec`, and `SlotsFreed` under fairness |
| `write_lease` | two containers, two boots, two lost calls, skew 1, restores longer than the lease: `OneWriter`, `WriterHolds`, and a waiter behind a killed container: `GivesUpOnLiveLease` |
| `leader_lease` | four instances, two of them of one name, two faults: `OneInForce` (in `LeaderInv`, inductive), and `RoleFilled` under fairness |
| `slack_inbox` | two deliveries, of one mention or not, two hand-offs, two attempts, late dispatches, one fault: one answer to a mention (`OneTurn`, in `SlackInv`, the inductive invariant of the proof), `DoneWasWorked`, `DeadHasNoTurn`, and `DeliveriesSettle` under fairness |
| `approvals` | a plain write and a tagged one, two handlers, two answers, confirmations under the turn, console denials, cards that reach nobody: `RunWasAnswered`, `TaggedNeedsApprover`, `AnswerIsFinal`, `RequestsClose` under fairness, and `ApprovalsInv` (inductive) |
| `fix_jobs` | one job, one unit over budget, a cancel and a fault: `CostLogged` (in `JobsInv`, inductive), `ReportedOnce`, `CancelSticks`, and `JobEnds` under fairness |
| `credit` | two turns, a grant, an allowance over two periods, two roll-ups at once: `LedgerExact` (in `CreditInv`), `OverdraftBounded`, and `DebitWrittenUp` under fairness |
| `credit_events` | one payment with two announcements, two refunds and a dispute in any order, two handlers, one failure: `RecordedHadEffect`, `RefundsExact` |

Several of these properties except a case by a history variable. The case is in the run, TLC reaches it, and
without the exception the property is violated; it is what the code does there, not an assumption:

| property | exception | what the run reaches there |
|---|---|---|
| `OneSummaryPerPR` | a summary was deleted (`hub[p].gone`) | the comment made in its stead, its answer lost, is made again: two summaries (`review_post.go:701`) |
| `OneWriter`, `WriterHolds` | `late` | a lease lost during a long restore is noticed only after it, and two processes have the database (`bot.go:177`, `:433`; `lease.go:9` says nothing may touch it without holding the lease) |
| `OneInForce` (`LeaderInv`) | a shared name, `age = TTL` | a second loop beside one whose name it has, or whose renewals failed twice or came late (`singleton.go:104`, `:124`) |
| `OneTurn` (`SlackInv`), `DeadHasNoTurn` | `lapsed` | with no fault at all, a dispatch that takes most of its 45 s lets another dispatcher start the turn again, and dead-letter the row under it (`inbox_handoff.go:84`, `slack_http.go:299`) |
| `OneTurn` (`SlackInv`), `DoneWasWorked` | a failed dedup query; for `OneTurn` a failed closing write too | a message is answered twice, or a retry closed unanswered (`store.go:1662`) |
| `TaggedNeedsApprover`, `RunWasAnswered` | `early` | "confirm" typed while the turn is at work runs a write its requester was not to confirm, and the request raised of it can run it again (`bot.go:996`; `access_requests.go:213` says it cannot be) |
| `AnswerIsFinal` | the turn whose cards reached nobody | `failed` is written over a denial given from the console meanwhile (`access_requests.go:319`, `store_access.go:143`) |
| `RecordedHadEffect` | `early` | a refund handled before its payment was credited is recorded and never taken (`billing.go:1155`; `billing.go:909` says an event on record has had its whole effect, and `src/guide/billing.md:128` that Stripe gives no order) |
| `RefundsExact` | `raced` | two refund events of one charge handled at once take more than the payment credited (`billing.go:1177`) |
| `DeliveriesSettle`, `RequestsClose` | `stuck`, `cut` | a row, or a request, whose last attempt died keeps its slot, or stays approved |

Two runs end in a violation, each where a comment or a document says more than the code does; the
quotations are under "findings" in `PROJECT.json`.

| run | property | what TLC finds |
|---|---|---|
| `leader_revision` | `OneLeader` | instances of one Cloud Run revision share a name and take the lease from each other |
| `credit_allowance` | `AllowanceSpentOnce` | a turn charged between `SyncAllowance`'s read and its write is undone: the allowance is spent twice. It holds where no charge comes between the two |

### Observations

What the models also show with other constants, each reproduced with TLC from the configuration named.

| property | constants | what happens |
|---|---|---|
| `CancelEnds` (`ReviewLane`) | `ReviewLaneTakeover.cfg`, `MaxCloses = 1` | a cancelled run that is put back in the queue before its lane heard of the cancel, at a shutdown or for a wait GitHub asked for, is never claimed and never swept (`store_review_runs.go:745`; `:770` says its lane ends it) |
| `RetiredUnshown` (`ReviewLane`) | `ReviewLaneTakeover.cfg`, `MaxAttempts = 1` | findings on the pull request are retired as never shown, when the post's answer was lost on the last attempt (`store_review_runs.go:667`) |
| `StealsLate` (`WriteLease`) | `WriteLease.cfg` with `Skew = 0` | a waiter that watched a live generation steals it the moment it expires (`lease.go:221`; `lease.go:33` says `leaseStealAfter` past expiry) |
| `LoggedOnce` (`FixJobs`) | `PerJobKey = FALSE`, `MaxClaims = 2`, `MaxCancels = 0`, `MaxFaults = 0` | a batch of events past the token check when the result ends the job is logged on top of the total (`jobs_store.go:474`) |

Three more that no property states: a request whose key is taken by a run that ended between the look and
the insert gets no run at all (`store_review_runs.go:459` answers with the dead one);
`latestReviewOutcome` orders by id (`store_review_lane.go:254`), so a run posted late is last by time and
not the latest it returns; and with three deliveries, two requests and a cap of one the GitHub inbox
passes its cap by the requests that counted together and no more (`PendingBounded`).

### Bounds

`MaxRuns`, `MaxHead`, `MaxCloses`, `MaxDeletes`, `MaxLooks`, `MaxFaults`, `MaxSends`, `MaxBoots`, `MaxAnswers`, `MaxSpend`,
`MaxClaims`, `MaxCancels`, `MaxTurns` and `MaxPeriods` bound how often people, GitHub, workers and faults
act; the questions are about two actors on one row, so two lanes (dispatchers, containers, handlers)
and one pull request (delivery) reach them; of a leader's instances two more are there that share a name.
`MaxLooks = 2` lets a request's key move on once and be looked for again (ten times in the code); the loop's
end, which queues without a last look, is reached too. With `Lease = 1` one tick makes a lease lapse, so every interleaving of a lapse with the
other lane's steps is there; `MaxAttempts` of 1 and 2 reach both the last attempt and one before it.
`Horizon` stops the renewals beside the work, which a fair lane could repeat for ever, after the first
lapse could have been prevented; in `WriteLease` it is the end of time, later than one whole hand-over
and than the time a waiter gives up. The timings of `WriteLease` keep the order of the code's
(`SelfFence + Renew + OpTimeout + Shutdown + Skew < TTL`), and `MaxRestore` is longer than the lease:
what a longer one adds is time in which nothing new can happen to a process that has lost it.
`ReviewLaneRequests.cfg` alone has CONSTRAINTs: `Early`, on the clock and on the deliveries under way, two
being enough for one to overtake another (a lease lapses in it only once they are routed; `lane_takeover` has
a lapse at every point of a run); `Few`, on what happens on GitHub, two pushes and a close or a push, a
close and a reopening; and `Unposted`, which follows a review up to its posting, since none of its
questions needs more. The theorems have no bound. Symmetry of lanes, dispatchers and containers
is used where no liveness is checked. In `SlackInbox.cfg` a dispatch may take half
the lease and the first renewal comes another half later, so that a dispatch is in time or late, as in the code. In `Approvals.cfg` two answers are enough for
two people, or one person twice, to answer one write; the second write is the one that can be mistaken for
the first. `Budget = 0` makes the first unit a job spends one too many, so that the cancel for money is
reached. In `Credit.cfg` a turn costs at most the unit all amounts are in; two turns, an allowance of one
and a grant of one reach every split of a charge between allowance and balance, and the floor. The Stripe
events have a run of their own, since they meet the turns only in `MoveCredit` and `Charged`, which are
one step each. Deadlock is not checked where the bounds make the system stop.

### Fairness

The lanes' loops, the dispatchers, the sweep, the purge, the polls and the renewals are loops that run
for as long as an instance does, and time passes: weak fairness for each. Nobody is obliged to push,
close, delete, cancel, answer or crash, and no loop to return; the renewal beside the work (`Touch`) and, in
`ReviewLane`, the dispatchers are not fair.
A turn and a handler have deadlines, so they end (`TurnEnds`, `HandlerStep`); the expiry sweep and the
reconciler are tickers. The reconciler's deadline is a time, so of its passes over a running job not all
come before it: strong fairness of `Reconcile("timeout")`, and nothing is asked of the worker. Nothing is asked
of Stripe; the roll-up starts every hour and hours go by.

## Proofs

* `FenceSafe` (`LeaseProofs`): under `FenceAssumption`, `Spec => []OneWriterPerKey` for all rows,
  workers, times and back-offs. `OneWriterPerKey` is not inductive: a worker whose token equals a stale
  one of another would break it, so `FenceInv` adds that a live token is the row's
  (`LiveHoldIsCurrent`) and that two holders of one row remember different values (`DistinctTokens`). A
  take writes `now + TTL`, which no lapsed token can equal, and needs the row lapsed, which rules out a
  live one.
* `InboxInvariant` (`GitHubInboxProofs`): `Spec => []InboxInv`, for any deliveries, requests,
  dispatchers and timings. `DoneWasRouted` alone is not inductive: that a dispatcher's `finish` closes
  the delivery it routed rests on its passing the fence meaning that nobody claimed, retired or
  forgot the row since. So `HoldOk` says of a dispatcher that its lease has run out or is the row's, and
  that while it passes the fence the attempt it remembers is the row's and what it routed is routed;
  `TokenInv` that no two remember the same lease; and `RowOk` that an ended row's lease runs out before
  its receipt is forgotten (`Keep >= Lease`), so that a redelivery accepted afterwards cannot match a
  stale dispatcher. From it `DoneWasRoutedAlways`, `DeadUsedAttemptsAlways`, `ReceiptKeptAlways`
  and the refinement.
* `InboxImplementsFence` (`GitHubInboxProofs`): `Spec => FenceSpec`. A claim is the fence's `Take`, a
  touch its `Renew`, a back-off its `Release`, a finish, a dead letter, a crash and a lost lease its
  `Drop`, a purge its `Forget`; every other step leaves the lease alone. `InboxFenced` says of
  the deliveries what `FenceSafe` says of any leased row: `OneWriterPerKey`, through the mapping. That the back-offs are positive comes from the assumption `InboxFences`: exponentiation is
  beyond the provers, TLC evaluates it.
* `WriteLeaseSafe` and `WriterHoldsAlways` (`WriteLeaseProofs`): under `Margin`, for any number of
  containers and restores of any length. `LeaseInv` says that whoever touches the database and is not
  `late` wrote the lock object (`HolderInv`), that it is never longer past its last renewal than the
  self-fence, a renewal, a call's timeout and the shutdown (`TimeInv`), that one that is `late` has no call under
  way (`LateInv`), and that a take under way was decided on an object that had run out (`TakeInv`); by
  `Margin` the two cannot hold of different containers. `Margin` is a relation of constants the code
  has: 30 + 10 + 5 + 9 s and the skew against 60, which leaves 6 s for skew; it has no `StealAfter` (see
  `StealsLate` among the observations) and says nothing of the restore. `LeaseInv` is in no run; it is proved.

* `LaneInvariant` (`ReviewLaneProofs`): `Spec => []LaneInv`, for any pull requests, lanes, rows, attempts
  and timings. None of the lane's promises is inductive: that a lane posts a run's review only if nobody
  has rests on what it saw a step before, on nobody else being able to post meanwhile, and on its own
  being the run's lane at all. `LaneInv` says so: `HoldOk`, a lane whose lease is live is named by the rows
  of both its run and its pull request; `OneHolder`, two lanes on one pull request were given different
  values; `CheckpointOk`, a lane that passes the fence knows whether its run has a checkpoint, and is in
  the engine only without; `PostOk`, a lane between its look and its write is within its lease (`Prompt`) and
  has found nothing posted; `SummaryOk` and `SummaryRead`, the same of the summary comment, whose id is a copy read
  at the gate, unless one was deleted; `RowOk`, a row has its findings stored when it has its checkpoint, once. The thirty-odd
  steps of a lane are first sorted by what they do to what others read (`LaneShapes`: it leaves, lets go
  of its run, renews, claims, stores, or moves on), and one predicate, `Kept`, says what a lane that does
  not move relies on; each sort of step, and each step from outside, keeps it. From `LaneInv`:
  * `OneReviewPerRunAlways`, `OneSummaryPerPRAlways`, `FindingsStoredOnceAlways`: nothing is posted, created
    or stored twice.
  * `PostedIsThereAlways`, `ReviewsCountedAlways`: what is on record happened, and the count is the
    cardinality of the set of runs it counts.
  * `OneRunPerRequestAlways`: nothing a dispatcher does excludes the others, and what it looked up may be stale when
    it inserts. `ChainInv` says that the runs of a request form one chain: keys are unique, each key that has moved on names an
    earlier run of the request that is dead, every run but the last has one whose key moved on from it, and
    what a dispatcher is about to ask for has moved on from a run that is dead. A second run under way would
    be a second end of the chain.
  * `AsideForOtherAlways`: the newer run a lane read may itself stand aside or be cancelled before the
    lane ends its own; `AsideOk` says of a lane between the two that a later run that did not stand aside
    exists, and one that stands aside hands the duty on to one later still.
  * `EndedIsFinalAlways`: from `RunSteps`, what any step may do to a row.
* `LaneImplementsFence` (`ReviewLaneProofs`): `Spec => FenceSpec`. `ClaimTake` is the fence's `Take`, a renewal
  its `Renew`, an ending or a requeue by the lane that holds the pull request its `Release`, by any other
  its `Drop`, as a crash and a lost lease are. `LaneFenced` is `OneWriterPerKey` of `review_prs.lease_until`.
* `LeaderInvariant` and `OneInForceAlways` (`LeaseProofs`): for any instances, names, timings and
  faults, with no assumption on them. `OneInForce` alone is not inductive; `LeaseKept` adds that whoever leads by
  right has its name on the row, with as much of the lease left as it thinks, and `TokenNamed` that a token
  goes with its owner's name. `leader_revision` is what happens to two instances of one name.
* `SlackInvariant`, `DoneWasWorkedAlways` and `DeadHasNoTurnAlways` (`SlackInboxProofs`), for any deliveries,
  instances, attempts and timings. That a mention is not answered twice is not inductive: nothing in it keeps a
  second dispatcher off a delivery whose turn is running, nor a delivery that was answered from coming
  back. `LeaseHeld` says that whoever is past its claim of a delivery that is not `lapsed` has the row, open,
  under the lease it remembers, which is live, and alone; a dispatch is within its time and a turn before
  its next renewal, which comes before the lease ends. `TurnsCounted` says that a mention one of whose
  turns did not die has an owner that is under way or over, where over is closed, or forgotten when Slack has stopped
  sending it; it is about mentions whose owner's lease was kept and about statements that were answered
  (`Sound`). `DoneWasWorked` needs neither: `ClosedIsAnswered` says of what is done, or about to be, that it is
  of nobody's concern or that its mention has an owner, another or itself with its part done, and an owner once
  found is never replaced (`OwnerStays`). Only a dedup query that fails is excepted.
* `ApprovalsInvariant` (`ApprovalsProofs`): `Spec => []ApprovalsInv`. For each write the state of its hold,
  its request and its turn go together, those confirmed early and those refused included (`WriteOk`), what a handler has
  read is still so or its conditional update will find that it is not (`AnswerOk`), and no two handlers
  run one write (`OneRunner`). From it `RunWasAnsweredAlways`, `TaggedNeedsApproverAlways` and `AnswerIsFinalAlways`,
  with no assumption.
* `JobsInvariant` (`FixJobsProofs`): `Spec => []JobsInv`, for any spend, budget, claims, cancels and faults. Of
  the five callers of `finish` one is past its conditional write (`FinishOk`), and what the row counts is
  logged, under way to be, or lost with a request that was cut (`CostLogged`). From it `ReportedOnceAlways`
  and `CancelSticksAlways`.
* `CreditInvariant` (`CreditProofs`): `Spec => []CreditInv`, for any payment, refunds, grants, turns and any
  number of handlers and of instances that roll up. `LedgerExact` is about a sum over a set that grows,
  and `MapThenSumSet` is a choice of a function that satisfies a recursive equation. `CreditProofs` shows
  from well-foundedness (of the naturals, that such a function exists; of the subsets of a finite set,
  the rest) that a total of integers is an integer (`TotalType`), depends on the values only (`TotalSame`)
  and grows by the amount of a new key (`TotalAdd`). With these `LedgerExact` is inductive: a movement
  moves balance and sum together, a charge balance and `lifetime_debit`, and a roll-up, which writes only
  if the watermark it read is still there, watermark and sum.
* `OverdraftBoundedAlways` (`CreditProofs`): inductive over `CreditInv`. Starting takes a turn's cost from
  the slack and was let in above the floor; ending gives it back and costs no more; what a movement, a
  lapsed period or a sync takes is in `out`.
* `RecordedHadEffectAlways` and `RefundsExactAlways` (`CreditProofs`), for any order of events. Neither is
  inductive: whether an event that is recorded has had its effect was settled when its handler read the
  ledger, and other handlers moved since. `EventsInv` adds what the rows of the ledger are (`LedgerRows`), that
  a handler's movement, with what was refunded since it read, makes its event's effect whole, or finds its
  key on the ledger and then the effect with it (`HandlerOk`), and that a dispute is over before its end is
  handled in turn (`WonComesLast`). What was refunded never falls, so an effect once had lasts. `RefundsInv`
  adds that until two refunds are read at once all that are about to move are of one event, and the first
  of them makes the refunded sum its total (`RefundsApart`). Neither invariant is in a run; TLC was asked about both
  before they were proved.

Assumptions are the named ASSUMEs on the constants, which TLC evaluates on each run, and `Margin`, which the
two theorems on the write lease state and the code's constants satisfy. Every invariant and every action
property that a passing run checks is stated by a theorem, but for `GivesUpOnLiveLease`. Only
model-checked: that one, and liveness (`RunsEnd`, `SlotsFreed`, `RoleFilled`, `DeliveriesSettle`,
`RequestsClose`, `JobEnds`, `DebitWrittenUp`), which is out of the prover's reach.

## Not modelled

The repository is 111 000 lines, most of them handlers that read a request, run one statement and render an
answer, prompts and parsers, and clients of other services; what the models cover is the part whose state
several actors share. Left out, with the reason:

* Review engine, agent turn, documents, transports, console, API and front end: text in, text out. A model
  of them would restate the code; what of theirs has a lasting effect (a run's outcome, a turn's cost, a
  held write) is an input of the models above.
* Fix job executors, GitHub's tokens, sandbox: one call each to an external service or the kernel, present
  as outcomes (`Start`, `StopExecution`, `Verdicts`, a failed post).
* The subscription's record in billing (`PutSubscription` and its four writers): an external mover in
  `Credit` (`SubscriptionMoves`). Its order of events is a question of its own, and next in the plan.
* Investigations and routines: leased rows as in `SlackInbox`, some of whose writes are not fenced; next.
* Review replies, resyncs, tries and catch-up runs: they share the lane's claim and fence; the posting they
  add would multiply `ReviewLane`'s states past what TLC finishes.
* Rate limits: a count before an insert, whose overshoot is that of the inbox's cap.
* Authentication: one conditional update per code or token, by one person at a time.
* Migrations and the Postgres import: one-shot programs over SQL, out of TLC's reach.
* Litestream's supervision: a child's restarts; what they can lose depends on a file system and a stream
  that are not in the repository.

## Plan

Models: the subscription's record under reordered events; investigations and routines as leased rows with
the writes that are not fenced. The proofs of their leases would be instances of `LeaseFence` again.
