---------------------------- MODULE GitHubInbox ----------------------------
(***************************************************************************)
(* The inbox of GitHub's webhook deliveries: the HTTP handler stores a     *)
(* delivery once, and the dispatchers of every instance claim, route and   *)
(* finish it under a lease.  A delivery that keeps failing backs off, and  *)
(* out of attempts is dead-lettered; its receipt stays for a while so that *)
(* a redelivery is recognised.                                             *)
(***************************************************************************)
EXTENDS Naturals, FiniteSets, FiniteSetsExt

CONSTANTS
  Deliveries,   \* delivery ids
  Dispatchers,  \* the dispatchers of all instances
  Receivers,    \* requests the webhook handler serves at once
  NoDelivery,   \* the delivery of a dispatcher or a request that has none
  OrgLimit,     \* githubOrgPendingLimit
  Lease,        \* githubDeliveryLease
  MaxAttempts,  \* githubDeliveryMaxAttempts
  BackoffBase,  \* the first back-off, and
  BackoffCap,   \* the longest
  Keep,         \* githubDeliveryKeep
  MaxSends,     \* bound: times GitHub sends one delivery
  Horizon       \* bound: until when a dispatcher renews its lease

ASSUME InboxAssumption ==
  /\ NoDelivery \notin Deliveries
  /\ OrgLimit \in Nat \ {0} /\ Lease \in Nat \ {0} /\ MaxAttempts \in Nat \ {0}
  /\ BackoffBase \in Nat \ {0} /\ BackoffCap \in Nat \ {0}
  /\ Keep \in Nat /\ Keep >= Lease
  /\ MaxSends \in Nat /\ Horizon \in Nat

VARIABLES
  now,
  rows,    \* github_deliveries; state is pending, done (done_at) or dead (dead_at) at time ended
  recv,    \* recv[x]: the delivery request x has found room for and not yet inserted
  pc,      \* where each dispatcher is
  held,    \* held[h]: the delivery it claimed, with the lease and the attempt it read (githubDelivery)
  routed,  \* deliveries whose routing took effect since they were accepted
  claims,  \* claims of each delivery since it was accepted
  sends    \* times GitHub sent each delivery

hvars == <<pc, held>>
vars == <<now, rows, recv, pc, held, routed, claims, sends>>

Row == [state : {"absent", "pending", "done", "dead"}, lease : Nat, attempts : 0..MaxAttempts,
        accepted : Nat, ended : Nat]
Hold == [id : Deliveries \cup {NoDelivery}, lease : Nat, attempts : 0..MaxAttempts]

NoRow == [state |-> "absent", lease |-> 0, attempts |-> 0, accepted |-> 0, ended |-> 0]
NoHold == [id |-> NoDelivery, lease |-> 0, attempts |-> 0]

TypeOK ==
  /\ now \in Nat
  /\ rows \in [Deliveries -> Row]
  /\ recv \in [Receivers -> Deliveries \cup {NoDelivery}]
  /\ pc \in [Dispatchers -> {"idle", "picked", "routing", "ok", "failed"}]
  /\ held \in [Dispatchers -> Hold]
  /\ routed \subseteq Deliveries
  /\ claims \in [Deliveries -> Nat]
  /\ sends \in [Deliveries -> 0..MaxSends]

Init ==
  /\ now = 0
  /\ rows = [d \in Deliveries |-> NoRow]
  /\ recv = [x \in Receivers |-> NoDelivery]
  /\ pc = [h \in Dispatchers |-> "idle"]
  /\ held = [h \in Dispatchers |-> NoHold]
  /\ routed = {}
  /\ claims = [d \in Deliveries |-> 0]
  /\ sends = [d \in Deliveries |-> 0]

Pending == {d \in Deliveries : rows[d].state = "pending"}
-----------------------------------------------------------------------------
(* enqueueGitHubDelivery: look for the delivery, count, insert.  On        *)
(* Postgres two requests interleave between the count and the insert.      *)

Room == Cardinality(Pending) < OrgLimit

\* A delivery already here is answered as a new one is, full inbox or not; one there is no room
\* for is refused.
Receive(x, d) ==
  /\ recv[x] = NoDelivery /\ sends[d] < MaxSends
  /\ sends' = [sends EXCEPT ![d] = @ + 1]
  /\ recv' = [recv EXCEPT ![x] = IF rows[d].state = "absent" /\ Room
                                 THEN d ELSE NoDelivery]
  /\ UNCHANGED <<now, rows, hvars, routed, claims>>

Insert(x) ==
  LET d == recv[x] IN
  /\ d # NoDelivery
  /\ IF rows[d].state = "absent"
     THEN /\ rows' = [rows EXCEPT ![d].state = "pending", ![d].accepted = now]
          /\ routed' = routed \ {d}
          /\ claims' = [claims EXCEPT ![d] = 0]
     ELSE UNCHANGED <<rows, routed, claims>>
  /\ recv' = [recv EXCEPT ![x] = NoDelivery]
  /\ UNCHANGED <<now, hvars, sends>>
-----------------------------------------------------------------------------
(* claimGitHubDelivery: the subquery picks from a snapshot, the update     *)
(* checks the row again.                                                   *)

\* (mutant: a claim does not count what came before it)
ClaimableForever(d) == rows[d].state = "pending" /\ rows[d].lease <= now

Claimable(d) ==
  rows[d].state = "pending" /\ rows[d].attempts < MaxAttempts /\ rows[d].lease <= now

ClaimPick(h) ==
  /\ pc[h] = "idle"
  /\ \E d \in Deliveries :
       /\ Claimable(d)
       /\ \A e \in Deliveries : Claimable(e) => rows[d].accepted <= rows[e].accepted
       /\ pc' = [pc EXCEPT ![h] = "picked"]
       /\ held' = [held EXCEPT ![h].id = d]
  /\ UNCHANGED <<now, rows, recv, routed, claims, sends>>

LetGo(h) ==
  /\ pc' = [pc EXCEPT ![h] = "idle"]
  /\ held' = [held EXCEPT ![h] = NoHold]

ClaimMiss(h) ==
  /\ pc[h] = "picked" /\ ~Claimable(held[h].id)
  /\ LetGo(h)
  /\ UNCHANGED <<now, rows, recv, routed, claims, sends>>

ClaimTake(h) ==
  LET d == held[h].id IN
  /\ pc[h] = "picked" /\ Claimable(d)
  /\ rows' = [rows EXCEPT ![d].lease = now + Lease, ![d].attempts = @ + 1]
  /\ held' = [held EXCEPT ![h].lease = now + Lease, ![h].attempts = rows[d].attempts + 1]
  /\ pc' = [pc EXCEPT ![h] = "routing"]
  /\ claims' = [claims EXCEPT ![d] = @ + 1]
  /\ UNCHANGED <<now, recv, routed, sends>>
-----------------------------------------------------------------------------
(* dispatchNextGitHubDelivery, under the claim's lease.                    *)

Claimed(h) == pc[h] \in {"routing", "ok", "failed"}

\* (mutant: the writes name the delivery and not the lease)
FencedByState(h) == rows[held[h].id].state = "pending"

\* What touch, finish and fail all ask of the row.
Fenced(h) == rows[held[h].id].state = "pending" /\ rows[held[h].id].lease = held[h].lease

Touch(h) ==
  /\ pc[h] = "routing" /\ now < Horizon /\ Fenced(h)
  /\ rows' = [rows EXCEPT ![held[h].id].lease = now + Lease]
  /\ held' = [held EXCEPT ![h].lease = now + Lease]
  /\ UNCHANGED <<now, recv, pc, routed, claims, sends>>

\* A renewal or the last write found the lease gone: nothing is finished or failed.
Lost(h) ==
  /\ Claimed(h) /\ ~Fenced(h)
  /\ LetGo(h)
  /\ UNCHANGED <<now, rows, recv, routed, claims, sends>>

\* The handler ran to its end; or it failed, or ran out of time, before or after taking effect.
Route(h) ==
  /\ pc[h] = "routing"
  /\ \/ pc' = [pc EXCEPT ![h] = "ok"] /\ routed' = routed \cup {held[h].id}
     \/ pc' = [pc EXCEPT ![h] = "failed"] /\ routed' \in {routed, routed \cup {held[h].id}}
  /\ UNCHANGED <<now, rows, recv, held, claims, sends>>

\* (mutant: a handler that failed is finished all the same)
HandledAnyway(h) == pc[h] \in {"ok", "failed"}
Handled(h) == pc[h] = "ok"

\* finishGitHubDelivery.
Finish(h) ==
  /\ Handled(h) /\ Fenced(h)
  /\ rows' = [rows EXCEPT ![held[h].id].state = "done", ![held[h].id].ended = now]
  /\ LetGo(h)
  /\ UNCHANGED <<now, recv, routed, claims, sends>>

\* githubDeliveryBackoff: four times longer after every failure, up to a cap.
Backoff(n) == Min({BackoffBase * 4 ^ (n - 1), BackoffCap})

\* (mutant: one attempt too few)
LastAttemptEarly(n) == n + 1 >= MaxAttempts
LastAttempt(n) == n >= MaxAttempts

\* failGitHubDelivery: the lease is also the row's not-before.
Fail(h) ==
  LET d == held[h].id IN
  /\ pc[h] = "failed" /\ Fenced(h)
  /\ rows' = IF LastAttempt(held[h].attempts)
             THEN [rows EXCEPT ![d].state = "dead", ![d].ended = now]
             ELSE [rows EXCEPT ![d].lease = now + Backoff(held[h].attempts)]
  /\ LetGo(h)
  /\ UNCHANGED <<now, recv, routed, claims, sends>>

\* The process died, or the database did not take the outcome.
Crash(h) ==
  /\ Claimed(h)
  /\ LetGo(h)
  /\ UNCHANGED <<now, rows, recv, routed, claims, sends>>

\* (mutants: a claim that died on its last attempt is left; receipts go at once)
ExhaustedNever(d) == rows[d].state = "pending" /\ rows[d].attempts > MaxAttempts
OldAtOnce(d) == rows[d].state \in {"done", "dead"}

\* purgeGitHubDeliveries: a delivery out of attempts whose last claim lapsed is retired, and a
\* receipt past its keeping is forgotten.
Exhausted(d) ==
  rows[d].state = "pending" /\ rows[d].attempts >= MaxAttempts /\ rows[d].lease <= now
Old(d) == rows[d].state \in {"done", "dead"} /\ rows[d].ended + Keep < now

Purge ==
  /\ \E d \in Deliveries : Exhausted(d) \/ Old(d)
  /\ rows' = [d \in Deliveries |->
       IF Exhausted(d) THEN [rows[d] EXCEPT !.state = "dead", !.ended = now]
       ELSE IF Old(d) THEN NoRow
       ELSE rows[d]]
  /\ UNCHANGED <<now, recv, hvars, routed, claims, sends>>

\* Time passes while anything waits for it.  A claim's statement takes no time.
Tick ==
  /\ \A h \in Dispatchers : pc[h] # "picked"
  /\ \E d \in Deliveries :
       \/ rows[d].state = "pending" /\ rows[d].lease > now
       \/ rows[d].state \in {"done", "dead"} /\ rows[d].ended + Keep >= now
  /\ now' = now + 1
  /\ UNCHANGED <<rows, recv, hvars, routed, claims, sends>>

DispatcherStep(h) ==
  \/ ClaimPick(h) \/ ClaimMiss(h) \/ ClaimTake(h)
  \/ Lost(h) \/ Route(h) \/ Finish(h) \/ Fail(h)

Next ==
  \/ \E x \in Receivers : Insert(x) \/ \E d \in Deliveries : Receive(x, d)
  \/ \E h \in Dispatchers : DispatcherStep(h) \/ Touch(h) \/ Crash(h)
  \/ Purge
  \/ Tick

Spec == Init /\ [][Next]_vars

\* The dispatchers' loop and the hourly purge go on in some instance; nothing obliges GitHub to
\* send, or a process to die.
FairSpec ==
  /\ Spec
  /\ WF_vars(Tick) /\ WF_vars(Purge)
  /\ \A h \in Dispatchers : WF_vars(DispatcherStep(h))
-----------------------------------------------------------------------------
\* The deliveries' lease is a fence (LeaseFence): a dispatcher that stalled past it and lost the
\* delivery neither finishes, fails nor renews it.
Fence == INSTANCE LeaseFence WITH
  Keys <- Deliveries, Holders <- Dispatchers, TTL <- Lease, NoKey <- NoDelivery,
  Delays <- {Backoff(n) : n \in 1..MaxAttempts},
  lease <- [d \in Deliveries |-> rows[d].lease],
  key <- [h \in Dispatchers |-> IF Claimed(h) THEN held[h].id ELSE NoDelivery],
  token <- [h \in Dispatchers |-> held[h].lease]
ASSUME InboxFences == Fence!FenceAssumption
FenceSpec == Fence!Spec

\* The invariant of the proofs, in three parts.  A row: what it says of its attempts and its
\* ending, and the lease it leaves behind has run out before its receipt is forgotten.
RowOk(d) ==
  /\ claims[d] <= MaxAttempts
  /\ rows[d].state = "absent" => rows[d].lease = 0 /\ rows[d].attempts = 0
  /\ rows[d].state # "absent" => claims[d] = rows[d].attempts
  /\ rows[d].state \in {"done", "dead"} =>
       rows[d].ended <= now /\ rows[d].lease <= rows[d].ended + Lease
  /\ rows[d].state = "done" => d \in routed
  /\ rows[d].state = "dead" => rows[d].attempts = MaxAttempts

\* A dispatcher: its lease has run out or is the row's, and while it passes the fence the attempt
\* it remembers is the row's last and what it has routed is routed since the row was accepted.
HoldOk(h) ==
  /\ pc[h] # "idle" => held[h].id \in Deliveries
  /\ ~Claimed(h) => held[h].lease = 0
  /\ Claimed(h) =>
       /\ held[h].attempts >= 1 /\ held[h].lease > 0 /\ held[h].lease <= now + Lease
       /\ held[h].lease <= now \/ rows[held[h].id].lease = held[h].lease
  /\ Claimed(h) /\ Fenced(h) =>
       /\ held[h].attempts = rows[held[h].id].attempts
       /\ pc[h] = "ok" => held[h].id \in routed

\* Two dispatchers on one delivery remember different leases.
TokenInv ==
  \A h1, h2 \in Dispatchers :
    h1 # h2 /\ Claimed(h1) /\ Claimed(h2) /\ held[h1].id = held[h2].id
      => held[h1].lease # held[h2].lease

\* Every reachable state of the inbox, however its dispatchers race, stall and die: the rows'
\* endings and the dispatchers' leases agree with what happened to each delivery.  Inductive.
InboxInv ==
  /\ TypeOK
  /\ \A d \in Deliveries : RowOk(d)
  /\ \A h \in Dispatchers : HoldOk(h)
  /\ TokenInv

\* A delivery marked done was routed by somebody since it was accepted: no crash, retry or stale
\* dispatcher closes one whose work never happened.
DoneWasRouted == \A d \in Deliveries : rows[d].state = "done" => d \in routed

\* A delivery is dead-lettered only with every attempt used, and is claimed no more often than
\* that, however its dispatchers race, die or fail (a claim is an attempt).
DeadUsedAttempts ==
  \A d \in Deliveries :
    /\ claims[d] <= MaxAttempts
    /\ rows[d].state = "dead" => claims[d] = MaxAttempts

\* The organisation's cap may be passed by the requests that counted together, and by no more.
PendingBounded == Cardinality(Pending) <= OrgLimit + Cardinality(Receivers) - 1

\* A receipt is not taken back while it is kept: done stays done and dead stays dead, so a
\* redelivery in that time starts nothing.
ReceiptKept ==
  [][\A d \in Deliveries :
       rows[d].state \in {"done", "dead"} /\ rows[d].ended + Keep >= now
         => rows'[d].state = rows[d].state]_vars

\* Every delivery accepted is done or dead in the end, and frees its slot, even when the process
\* on its last attempt dies.
SlotsFreed == \A d \in Deliveries : rows[d].state = "pending" ~> rows[d].state \in {"done", "dead"}
=============================================================================
