----------------------------- MODULE LeaseFence -----------------------------
(***************************************************************************)
(* The promise behind every leased row of the store: a review_prs row, a   *)
(* github_deliveries row.  A row carries lease_until; a worker claims it   *)
(* when that time has passed, writes now + TTL there and remembers the     *)
(* value it wrote.  That value is the fence: every later write of the      *)
(* worker names it in its WHERE clause, so a worker that lost the row      *)
(* matches nothing.                                                        *)
(*                                                                         *)
(* This is the abstract specification; ReviewLane and GitHubInbox          *)
(* implement it, each through its own refinement mapping.                  *)
(***************************************************************************)
EXTENDS Naturals

CONSTANTS
  Keys,     \* the leased rows
  Holders,  \* the workers
  TTL,      \* how long a claim or a renewal lasts
  Delays,   \* the back-offs a row may be handed back with
  NoKey     \* what a worker that holds nothing holds

\* What the constants have to be; whoever implements this specification assumes it of its own.
FenceAssumption ==
  TTL \in Nat \ {0} /\ Delays \subseteq Nat \ {0} /\ NoKey \notin Keys

VARIABLES
  now,    \* the clock every instance reads
  lease,  \* lease[k]: the row's lease_until, 0 for a row nobody has claimed
  key,    \* key[h]: the row worker h believes it holds
  token   \* token[h]: the lease value it remembers

fenceVars == <<now, lease, key, token>>

TypeOK ==
  /\ now \in Nat
  /\ lease \in [Keys -> Nat]
  /\ key \in [Holders -> Keys \cup {NoKey}]
  /\ token \in [Holders -> Nat]

Init ==
  /\ now = 0
  /\ lease = [k \in Keys |-> 0]
  /\ key = [h \in Holders |-> NoKey]
  /\ token = [h \in Holders |-> 0]

\* The fence: the write a worker makes matches the row only while this holds.
Passes(h) == key[h] # NoKey /\ lease[key[h]] = token[h]

Tick == now' = now + 1 /\ UNCHANGED <<lease, key, token>>

\* A claim: only a row whose lease has run out.
Take(h, k) ==
  /\ key[h] = NoKey
  /\ lease[k] <= now
  /\ lease' = [lease EXCEPT ![k] = now + TTL]
  /\ key' = [key EXCEPT ![h] = k]
  /\ token' = [token EXCEPT ![h] = now + TTL]
  /\ UNCHANGED now

\* A renewal, fenced.  A lease that lapsed and that nobody took is renewed too.
Renew(h) ==
  /\ Passes(h)
  /\ lease' = [lease EXCEPT ![key[h]] = now + TTL]
  /\ token' = [token EXCEPT ![h] = now + TTL]
  /\ UNCHANGED <<now, key>>

\* The row is handed back, fenced: free at once (v = 0), or only after a back-off.
Release(h, v) ==
  /\ Passes(h)
  /\ lease' = [lease EXCEPT ![key[h]] = v]
  /\ key' = [key EXCEPT ![h] = NoKey]
  /\ token' = [token EXCEPT ![h] = 0]
  /\ UNCHANGED now

\* The worker stops believing it holds anything: it crashed, or found the lease gone, or
\* finished a row whose lease value is left to run out.
Drop(h) ==
  /\ key[h] # NoKey
  /\ key' = [key EXCEPT ![h] = NoKey]
  /\ token' = [token EXCEPT ![h] = 0]
  /\ UNCHANGED <<now, lease>>

\* Rows go, receipts past their keeping; one that comes back starts unclaimed.
Forget(K) ==
  /\ \A k \in K : lease[k] <= now
  /\ lease' = [k \in Keys |-> IF k \in K THEN 0 ELSE lease[k]]
  /\ UNCHANGED <<now, key, token>>

Next ==
  \/ Tick
  \/ \E K \in SUBSET Keys : Forget(K)
  \/ \E h \in Holders :
       \/ \E k \in Keys : Take(h, k)
       \/ Renew(h)
       \/ \E v \in {0} \cup {now + d : d \in Delays} : Release(h, v)
       \/ Drop(h)

Spec == Init /\ [][Next]_fenceVars
-----------------------------------------------------------------------------
\* A worker whose remembered lease has not run out is the one the row names.
LiveHoldIsCurrent ==
  \A h \in Holders :
    key[h] # NoKey => token[h] <= now \/ lease[key[h]] = token[h]

\* Two workers that believe they hold one row remember different values, so at most one of
\* them can get a write past the fence, lapsed or not.
DistinctTokens ==
  \A h1, h2 \in Holders :
    h1 # h2 /\ key[h1] # NoKey /\ key[h1] = key[h2] => token[h1] # token[h2]

FenceInv == TypeOK /\ LiveHoldIsCurrent /\ DistinctTokens

\* What the store promises its workers: of all the workers that ever claimed a row and have
\* not let go of it, at most one passes the fence, and a worker whose lease is live does.
OneWriterPerKey ==
  \A h1, h2 \in Holders :
    /\ Passes(h1) /\ Passes(h2) /\ key[h1] = key[h2] => h1 = h2
    /\ key[h1] # NoKey /\ token[h1] > now => Passes(h1)
=============================================================================
