------------------------------- MODULE Credit -------------------------------
(* An account's prepaid credit and its monthly allowance                    *)
(* (internal/app/store_billing.go, and the money part of billing.go).       *)
(*                                                                          *)
(* The balance moves in two ways.  A movement - a payment, a refund, a      *)
(* dispute, an operator's grant - writes one row of credit_ledger under a   *)
(* key that is unique, and moves the balance with it.  A turn moves the     *)
(* balance and writes no row: lifetime_debit grows, and once an hour a      *)
(* roll-up writes one row for what was spent since debit_rolled.  A plan's  *)
(* allowance is spent before the balance and is on no ledger.               *)
(*                                                                          *)
(* Stripe delivers an event at least once and in no order, to any instance; *)
(* a handler reads the ledger, moves the balance and only then puts the     *)
(* event on record.  The database is Postgres as the code opens it: a pool, *)
(* READ COMMITTED, so that statements of two transactions interleave and an *)
(* UPDATE holds the account's row until its transaction ends.  What one     *)
(* transaction does from its first UPDATE of the account is one step here,  *)
(* and a SELECT before it a step of its own.                                *)
(*                                                                          *)
(* The account is one that has bought credit before (credit_enforced, which *)
(* never goes back off).  Amounts are in units of what a turn may cost.     *)
EXTENDS Integers, FiniteSets, FiniteSetsExt

CONSTANTS
  Paid,        \* what the payment of this model put in
  Refunds,     \* the running totals of the refunds made of it
  Disputed,    \* the amount disputed; 0 when nobody disputes it
  Grants,      \* the amounts an operator may give, or take back
  Handlers,    \* webhook deliveries handled at once
  Rollers,     \* instances that run the hourly roll-up
  Overdraft,   \* maxOverdraftMicros
  MaxCost,     \* the most a turn may cost
  InFlight,    \* turns of the account that run at once
  MaxTurns,    \* bound: turns in a behaviour
  Sizes,       \* what the plan's sizes include a month
  MaxPeriods,  \* bound: billing periods in a behaviour
  MaxFaults    \* bound: failed statements and killed processes

ASSUME CreditAssumption ==
  /\ Paid \in Nat /\ Refunds \subseteq 1..Paid /\ Disputed \in 0..Paid
  /\ Grants \subseteq Int
  /\ Overdraft \in Nat /\ MaxCost \in Nat \ {0} /\ InFlight \in Nat \ {0}
  /\ MaxTurns \in Nat /\ MaxPeriods \in Nat \ {0} /\ MaxFaults \in Nat
  /\ Sizes \subseteq Nat \ {0}

VARIABLES
  acct,      \* the row of billing_accounts
  ledger,    \* credit_ledger: external_id to amount
  seen,      \* billing_events
  handler,   \* the webhook deliveries being handled
  roll,      \* the roll-ups under way
  sync,      \* the SyncAllowance under way
  sub,       \* what the subscription half of the row says
  running,   \* turns under way
  started,   \* turns so far
  hour,      \* the hour of the roll-up's key
  period,    \* the billing period that today is in
  faults,    \* faults so far
  out,       \* history: what left the account other than by a turn
  covered,   \* history: turns charged to this allowance
  early,     \* history: the events taken up before what they follow from
  raced      \* history: whether two refunds were ever read before either moved

history == <<early, raced>>
vars == <<acct, ledger, seen, handler, roll, sync, sub, running, started,
          hour, period, faults, out, covered, early, raced>>

-----------------------------------------------------------------------------
(* The events of the payment, and the keys of the ledger.  A checkout's     *)
(* session and its payment intent name the same payment; the console's      *)
(* return from Stripe does what the session's event does.                   *)
Ev(type, n) == [type |-> type, n |-> n]

Payments == {Ev("checkout", 0), Ev("intent", 0)}

Events == Payments \cup {Ev("refund", t) : t \in Refunds}
            \cup (IF Disputed = 0 THEN {} ELSE {Ev("dispute", 0), Ev("won", 0)})

Keys == {Ev("payment", 0), Ev("dispute", 0), Ev("won", 0), Ev("grant", 0)}
          \cup {Ev("refund", t) : t \in Refunds}
          \cup [type : {"debit"}, n : Nat]

Allowance == [allow : Nat, granted : Nat, until : 0..MaxPeriods]
Account == [balance : Int, debit : Nat, rolled : Nat,
            allow : Nat, granted : Nat, until : 0..MaxPeriods]

Delivery == [ev : Events, pc : {"move", "record"}, key : Keys, amount : Int]
NoEvent == [ev |-> Ev("none", 0), pc |-> "idle", key |-> Ev("none", 0), amount |-> 0]
NoRoll == [pc |-> "idle", hour |-> 0, debit |-> 0, rolled |-> 0]
NoSync == [pc |-> "idle", want |-> 0, until |-> 0, row |-> [allow |-> 0, granted |-> 0, until |-> 0]]

TypeOK ==
  /\ acct \in Account
  /\ DOMAIN ledger \subseteq Keys /\ IsFiniteSet(DOMAIN ledger)
  /\ \A k \in DOMAIN ledger : ledger[k] \in Int
  /\ seen \subseteq Events
  /\ handler \in [Handlers -> Delivery \cup {NoEvent}]
  /\ roll \in [Rollers -> [pc : {"idle", "write"}, hour : Nat, debit : Nat, rolled : Nat]]
  /\ sync \in [pc : {"idle", "select", "write"}, want : Sizes \cup {0},
               until : 0..MaxPeriods, row : Allowance]
  /\ sub \in [want : Sizes \cup {0}, until : 0..MaxPeriods]
  /\ running \in 0..InFlight /\ started \in 0..MaxTurns
  /\ hour \in Nat /\ period \in 1..MaxPeriods /\ faults \in 0..MaxFaults
  /\ out \in Nat /\ covered \in Nat
  /\ early \subseteq Events /\ raced \in BOOLEAN

Init ==
  /\ acct = [balance |-> 0, debit |-> 0, rolled |-> 0,
             allow |-> 0, granted |-> 0, until |-> 0]
  /\ ledger = [k \in {} |-> 0]
  /\ seen = {}
  /\ handler = [h \in Handlers |-> NoEvent]
  /\ roll = [r \in Rollers |-> NoRoll]
  /\ sync = NoSync
  /\ sub \in [want : Sizes \cup {0}, until : {1}]
  /\ running = 0 /\ started = 0 /\ hour = 0 /\ period = 1 /\ faults = 0
  /\ out = 0 /\ covered = 0 /\ early = {} /\ raced = FALSE

Fault == faults < MaxFaults /\ faults' = faults + 1

-----------------------------------------------------------------------------
(* Reads.                                                                   *)

\* AllowanceLive: the period it is pinned to has not passed; expiry is this
\* comparison and nothing else.
Live(a) == a.until # 0 /\ a.until >= period

\* SpendableCredit: this month's allowance and the balance.
Spendable(a) == (IF Live(a) THEN a.allow ELSE 0) + a.balance

\* (mutant: no floor)
BudgetUnlimited == TRUE

\* budgetOK, as far as credit goes: the account is metered.
BudgetOK == Spendable(acct) > -Overdraft

Least(a, b) == IF a < b THEN a ELSE b

\* What a function's values over a set add up to.
Total(v, S) == MapThenSumSet(LAMBDA k : v[k], S)

\* LedgerSum, the authority the balance is checked against.
LedgerSum == Total(ledger, DOMAIN ledger)

\* CreditedPayment, and what applyChargeEvent counts as refunded of it.
Credited == IF Ev("payment", 0) \in DOMAIN ledger THEN ledger[Ev("payment", 0)] ELSE 0
RefundKeys == {k \in DOMAIN ledger : k.type = "refund"}
Refunded == -Total(ledger, RefundKeys)

-----------------------------------------------------------------------------
(* Movements.                                                               *)

\* MoveCredit: the balance moves and the row is written, or neither if the
\* key is on the ledger.
MoveCredit(key, amount) ==
  IF key \in DOMAIN ledger
    THEN UNCHANGED <<acct, ledger, out>>
    ELSE /\ acct' = [acct EXCEPT !.balance = @ + amount]
         /\ ledger' = [k \in DOMAIN ledger \cup {key} |->
                         IF k = key THEN amount ELSE ledger[k]]
         /\ out' = IF amount < 0 THEN out - amount ELSE out

\* (mutant: the running total is taken each time)
RefundDueTotal(t) == Least(t, Credited)

\* What an event moves: the key and the amount, 0 for an event that is only put
\* on record.  A refund event carries the charge's running total, of which only
\* what is new is taken; a won dispute gives back what the dispute took.
RefundDue(t) == Least(t, Credited) - Refunded

Movement(e) ==
  IF e \in Payments THEN [key |-> Ev("payment", 0), amount |-> Paid]
  ELSE [key |-> e,
        amount |-> IF Credited = 0 THEN 0
                   ELSE IF e.type = "refund" THEN -RefundDue(e.n)
                   ELSE IF e.type = "dispute" THEN -Least(Disputed, Credited - Refunded)
                   ELSE IF Ev("dispute", 0) \in DOMAIN ledger THEN -ledger[Ev("dispute", 0)]
                   ELSE 0]

\* Whether the movement is one the event's handler makes: refunds and disputes
\* only take, a payment and a won dispute only give.
Moves(e, m) == IF e.type \in {"refund", "dispute"} THEN m.amount < 0 ELSE m.amount > 0

\* Whether an event comes after what it follows from: a refund or a dispute when
\* the payment is credited, the end of a dispute when its beginning is on record
\* and no longer handled.  Stripe promises neither, and no handler asks.
InTurn(e) ==
  \/ e \in Payments
  \/ e.type = "won" /\ Ev("dispute", 0) \in seen
       /\ \A h \in Handlers : handler[h].ev # Ev("dispute", 0)
  \/ e.type \in {"refund", "dispute"} /\ Ev("payment", 0) \in DOMAIN ledger

\* Another refund is about to be taken of what this one reads.
RefundUnderWay(e) ==
  e.type = "refund" /\ \E h \in Handlers :
    handler[h].pc = "move" /\ handler[h].ev.type = "refund" /\ handler[h].ev # e

\* A delivery is taken up, in whichever order: applyStripeEvent answers one on
\* record, and applyChargeEvent reads what the payment credited and what was
\* taken of it.
ApplyStripeEvent(h, e) ==
  /\ handler[h].pc = "idle"
  /\ e \notin seen
  /\ LET m == Movement(e) IN
       handler' = [handler EXCEPT ![h] =
         [ev |-> e, pc |-> IF Moves(e, m) THEN "move" ELSE "record",
          key |-> m.key, amount |-> m.amount]]
  /\ early' = IF InTurn(e) THEN early ELSE early \cup {e}
  /\ raced' = (raced \/ RefundUnderWay(e))
  /\ UNCHANGED <<acct, ledger, seen, roll, sync, sub, running, started, hour,
                 period, faults, out, covered>>

\* creditTopUp and creditRefund: the movement.
Move(h) ==
  /\ handler[h].pc = "move"
  /\ MoveCredit(handler[h].key, handler[h].amount)
  /\ handler' = [handler EXCEPT ![h].pc = "record"]
  /\ UNCHANGED <<seen, roll, sync, sub, running, started, hour, period, faults, covered, history>>

\* (mutant: the event is put on record before its movement)
RecordEarly(h) ==
  /\ handler[h].pc # "idle"
  /\ seen' = seen \cup {handler[h].ev}
  /\ handler' = [handler EXCEPT ![h] = IF @.pc = "move" THEN @ ELSE NoEvent]
  /\ UNCHANGED <<acct, ledger, roll, sync, sub, running, started, hour, period,
                 faults, out, covered, history>>

\* SeenBillingEvent, last: the event is on record and answered.
Record(h) ==
  /\ handler[h].pc = "record"
  /\ seen' = seen \cup {handler[h].ev}
  /\ handler' = [handler EXCEPT ![h] = NoEvent]
  /\ UNCHANGED <<acct, ledger, roll, sync, sub, running, started, hour, period,
                 faults, out, covered, history>>

\* The handler fails or is killed; Stripe sends the event again.
HandlerFails(h) ==
  /\ handler[h].pc # "idle"
  /\ Fault
  /\ handler' = [handler EXCEPT ![h] = NoEvent]
  /\ UNCHANGED <<acct, ledger, seen, roll, sync, sub, running, started, hour,
                 period, out, covered, history>>

\* grantCredit: an operator gives credit or takes it back.
GrantCredit(amount) ==
  /\ Ev("grant", 0) \notin DOMAIN ledger
  /\ MoveCredit(Ev("grant", 0), amount)
  /\ UNCHANGED <<seen, handler, roll, sync, sub, running, started, hour, period,
                 faults, covered, history>>

-----------------------------------------------------------------------------
(* Turns.                                                                   *)

\* A turn starts past the gate, which reads the account afresh.
StartTurn ==
  /\ started < MaxTurns /\ running < InFlight
  /\ BudgetOK
  /\ running' = running + 1 /\ started' = started + 1
  /\ UNCHANGED <<acct, ledger, seen, handler, roll, sync, sub, hour, period,
                 faults, out, covered, history>>

\* chargeCredit, one statement: the allowance while it is live, the balance and
\* lifetime_debit for the rest.
FromAllowance(a, cost) == IF Live(a) THEN Least(a.allow, cost) ELSE 0

Charged(a, cost) ==
  LET rest == cost - FromAllowance(a, cost) IN
    [a EXCEPT !.allow   = IF Live(a) /\ @ > cost THEN @ - cost ELSE 0,
              !.balance = @ - rest,
              !.debit   = @ + rest]

\* LogUsageBy: the turn ends and is charged, in the transaction of its usage
\* row.  A lapsed allowance is gone with it.
ChargeTurn ==
  /\ running > 0
  /\ \E cost \in 0..MaxCost :
       /\ acct' = IF cost = 0 THEN acct ELSE Charged(acct, cost)
       /\ covered' = covered + FromAllowance(acct, cost)
  /\ running' = running - 1
  /\ UNCHANGED <<ledger, seen, handler, roll, sync, sub, started, hour, period,
                 faults, out, history>>

\* The usage transaction fails: neither the row nor the charge is written.
UsageLost ==
  /\ running > 0
  /\ Fault
  /\ running' = running - 1
  /\ UNCHANGED <<acct, ledger, seen, handler, roll, sync, sub, started, hour,
                 period, out, covered, history>>

-----------------------------------------------------------------------------
(* The hourly roll-up.                                                      *)

\* (mutant: every roll-up makes the same key)
RollReadSameKey(r) ==
  /\ roll[r].pc = "idle"
  /\ acct.debit > acct.rolled
  /\ roll' = [roll EXCEPT ![r] = [pc |-> "write", hour |-> 0,
                                  debit |-> acct.debit, rolled |-> acct.rolled]]
  /\ UNCHANGED <<acct, ledger, seen, handler, sync, sub, running, started, hour,
                 period, faults, out, covered, history>>

\* rollUpCredit finds the account in OrgsWithUnrolledDebit and RollUpDebit reads
\* its counters; the time the key is made from was taken before.
RollRead(r) ==
  /\ roll[r].pc = "idle"
  /\ acct.debit > acct.rolled
  /\ roll' = [roll EXCEPT ![r] = [pc |-> "write", hour |-> hour,
                                  debit |-> acct.debit, rolled |-> acct.rolled]]
  /\ UNCHANGED <<acct, ledger, seen, handler, sync, sub, running, started, hour,
                 period, faults, out, covered, history>>

\* (mutant: the update does not compare the watermark)
WatermarkUnchecked(r) == TRUE

\* The rest of RollUpDebit: a row keyed by the hour, unless the hour is written
\* up, and the watermark, unless it moved since it was read.
Watermark(r) == acct.rolled = roll[r].rolled

RollWrite(r) ==
  /\ roll[r].pc = "write"
  /\ LET key == Ev("debit", roll[r].hour) IN
       IF key \notin DOMAIN ledger /\ Watermark(r)
         THEN /\ acct' = [acct EXCEPT !.rolled = roll[r].debit]
              /\ ledger' = [k \in DOMAIN ledger \cup {key} |->
                              IF k = key THEN roll[r].rolled - roll[r].debit ELSE ledger[k]]
         ELSE UNCHANGED <<acct, ledger>>
  /\ roll' = [roll EXCEPT ![r] = NoRoll]
  /\ UNCHANGED <<seen, handler, sync, sub, running, started, hour, period,
                 faults, out, covered, history>>

RollFails(r) ==
  /\ roll[r].pc = "write"
  /\ Fault
  /\ roll' = [roll EXCEPT ![r] = NoRoll]
  /\ UNCHANGED <<acct, ledger, seen, handler, sync, sub, running, started, hour,
                 period, out, covered, history>>

\* An hour goes by; hours in which no roll-up was begun and none was written are
\* one to the model.
HourPasses ==
  /\ \/ Ev("debit", hour) \in DOMAIN ledger
     \/ \E r \in Rollers : roll[r].pc = "write" /\ roll[r].hour = hour
  /\ hour' = hour + 1
  /\ UNCHANGED <<acct, ledger, seen, handler, roll, sync, sub, running, started,
                 period, faults, out, covered, history>>

-----------------------------------------------------------------------------
(* The allowance.                                                           *)

\* external: the subscription moves - another size, the next period once the
\* present one is over, or its end - and its half of the row with it.
SubscriptionMoves ==
  /\ \/ \E want \in Sizes \ {sub.want} : sub.want # 0 /\ sub' = [sub EXCEPT !.want = want]
     \/ sub.want # 0 /\ sub.until < period /\ sub' = [sub EXCEPT !.until = period]
     \/ sub.want # 0 /\ sub' = [want |-> 0, until |-> sub.until]
  /\ UNCHANGED <<acct, ledger, seen, handler, roll, sync, running, started, hour,
                 period, faults, out, covered, history>>

\* The period ends, and with it the allowance that is pinned to it.
PeriodEnds ==
  /\ period < MaxPeriods
  /\ period' = period + 1
  /\ out' = out + (IF acct.until = period THEN acct.allow ELSE 0)
  /\ UNCHANGED <<acct, ledger, seen, handler, roll, sync, sub, running, started,
                 hour, faults, covered, history>>

\* syncAllowance, from an event or from the hourly catch-all, reads what the
\* subscription is; without one, and with no allowance left of one, there is
\* nothing to sync (OrgsWithAllowanceDrift).  A past_due subscription is not
\* synced, which is a sync that does not start; the month that a comped size or
\* a deal is given is a period of the subscription's like any other.
SyncStart ==
  /\ sync.pc = "idle"
  /\ sub.want # 0 \/ acct.until # 0
  /\ sync' = [sync EXCEPT !.pc = "select", !.want = sub.want, !.until = sub.until]
  /\ UNCHANGED <<acct, ledger, seen, handler, roll, sub, running, started, hour,
                 period, faults, out, covered, history>>

\* SyncAllowance opens its transaction and reads the allowance.
SyncSelect ==
  /\ sync.pc = "select"
  /\ sync' = [sync EXCEPT !.pc = "write",
       !.row = [allow |-> acct.allow, granted |-> acct.granted, until |-> acct.until]]
  /\ UNCHANGED <<acct, ledger, seen, handler, roll, sub, running, started, hour,
                 period, faults, out, covered, history>>

\* What SyncAllowance makes of the row it read: nothing without a subscription,
\* the size's figure in a new period, the share of a bigger size's difference
\* that is left of the period, and otherwise what was there.
Synced ==
  IF sync.want = 0 THEN {[allow |-> 0, granted |-> 0, until |-> 0]}
  ELSE IF sync.row.until # sync.until
    THEN {[allow |-> sync.want, granted |-> sync.want, until |-> sync.until]}
  ELSE IF sync.want > sync.row.granted
    THEN {[allow |-> sync.row.allow + add, granted |-> sync.want, until |-> sync.until] :
            add \in 0..(sync.want - sync.row.granted)}
  ELSE {sync.row}

\* The write, which sets the columns to those values whatever they hold by now.
SyncWrite ==
  /\ sync.pc = "write"
  /\ \E new \in Synced :
       /\ acct' = [acct EXCEPT !.allow = new.allow, !.granted = new.granted, !.until = new.until]
       /\ out' = out + (IF Live(acct) /\ acct.allow > new.allow THEN acct.allow - new.allow ELSE 0)
                     + (IF Live(acct) /\ ~Live(new) THEN Least(acct.allow, new.allow) ELSE 0)
       /\ covered' = IF new.until # acct.until THEN 0 ELSE covered
  /\ sync' = NoSync
  /\ UNCHANGED <<ledger, seen, handler, roll, sub, running, started, hour, period,
                 faults, history>>

\* ExpireAllowances: lapsed allowances are cleared.
ExpireAllowances ==
  /\ acct.until # 0 /\ acct.until < period
  /\ acct' = [acct EXCEPT !.allow = 0, !.granted = 0, !.until = 0]
  /\ covered' = 0
  /\ UNCHANGED <<ledger, seen, handler, roll, sync, sub, running, started, hour,
                 period, faults, out, history>>

-----------------------------------------------------------------------------
Next ==
  \/ \E h \in Handlers : \/ \E e \in Events : ApplyStripeEvent(h, e)
                         \/ Move(h) \/ Record(h) \/ HandlerFails(h)
  \/ \E amount \in Grants : GrantCredit(amount)
  \/ StartTurn \/ ChargeTurn \/ UsageLost
  \/ \E r \in Rollers : RollRead(r) \/ RollWrite(r) \/ RollFails(r)
  \/ HourPasses
  \/ SubscriptionMoves \/ PeriodEnds \/ SyncStart \/ SyncSelect \/ SyncWrite
  \/ ExpireAllowances

(* The roll-up is started every hour and runs on, hours go by, a turn ends. *)
Fairness ==
  /\ \A r \in Rollers : WF_vars(RollRead(r)) /\ WF_vars(RollWrite(r))
  /\ WF_vars(HourPasses)
  /\ WF_vars(ChargeTurn)

Spec == Init /\ [][Next]_vars /\ Fairness

-----------------------------------------------------------------------------
(* Properties.                                                              *)

(* The invariant of migrations/sqlite/0009_billing.sql: the balance is what *)
(* the ledger adds up to, less the spending not yet written up, at every    *)
(* instant - whatever redeliveries, roll-ups of two instances in two hours, *)
(* and turns interleave.                                                    *)
LedgerExact == acct.balance = LedgerSum - (acct.debit - acct.rolled)

(* The account and all that act on it are well typed, and its ledger and    *)
(* balance add up (LedgerExact).                                            *)
CreditInv == TypeOK /\ LedgerExact

(* Turns take the account past the overdraft floor by no more than those in *)
(* flight may cost: what was spendable, with what left the account by other *)
(* ways (a refund, a dispute, an allowance that lapsed or was taken back)   *)
(* put back, stays above it.                                                *)
OverdraftBounded ==
  Spendable(acct) + out >= 1 - Overdraft - (InFlight - running) * MaxCost

(* The whole effect of an event (applyStripeEvent): the payment is on the   *)
(* ledger, a refund's running total was taken up to what the payment        *)
(* credited, what a dispute took is on the ledger or the refunds had taken  *)
(* it all, and a dispute won was given back.                                *)
HadEffect(e) ==
  CASE e \in Payments -> Credited = Paid
    [] e.type = "refund" -> Refunded >= Least(e.n, Paid)
    [] e.type = "dispute" -> Ev("dispute", 0) \in DOMAIN ledger \/ Refunded >= Paid
    [] e.type = "won" -> \/ Ev("dispute", 0) \notin DOMAIN ledger
                         \/ /\ Ev("won", 0) \in DOMAIN ledger
                            /\ ledger[Ev("won", 0)] = -ledger[Ev("dispute", 0)]

(* An event on record has had its whole effect, unless it was taken up      *)
(* before what it follows from: applyChargeEvent then finds no payment, or  *)
(* no dispute, and puts the event on record without one.                    *)
RecordedHadEffect == \A e \in seen \ early : HadEffect(e)

(* The refunds of a payment together take the largest running total that    *)
(* was taken and not a cent more - so never more than the payment credited, *)
(* whichever came first and however often - unless two of them were read    *)
(* before either had moved: each of those takes its total less what it      *)
(* read, and no key stops the second.                                       *)
RefundsExact ==
  \/ raced
  \/ RefundKeys = {} /\ Refunded = 0
  \/ \E k \in RefundKeys : Refunded = k.n /\ \A j \in RefundKeys : j.n <= k.n

(* What the rows of the ledger are: the payment's is what was paid, refunds *)
(* and disputes take of one that was credited, and a dispute won gives back *)
(* what the dispute took.                                                   *)
LedgerRows ==
  /\ Ev("payment", 0) \in DOMAIN ledger => ledger[Ev("payment", 0)] = Paid
  /\ Ev("dispute", 0) \in DOMAIN ledger =>
       Ev("payment", 0) \in DOMAIN ledger /\ ledger[Ev("dispute", 0)] < 0
  /\ \A k \in RefundKeys : ledger[k] < 0 /\ Refunded >= Least(k.n, Paid)
  /\ Ev("won", 0) \in DOMAIN ledger =>
       /\ Ev("dispute", 0) \in DOMAIN ledger
       /\ ledger[Ev("won", 0)] = -ledger[Ev("dispute", 0)]

(* A handler moves under its event's key what, with what was moved since it *)
(* read the ledger, is the event's effect; one with nothing to move finds   *)
(* the effect there.                                                        *)
HandlerOk(h) ==
  LET e == handler[h].ev
      amount == handler[h].amount
  IN handler[h].pc # "idle" =>
       /\ handler[h].key = IF e \in Payments THEN Ev("payment", 0) ELSE e
       /\ handler[h].pc = "record" /\ e \notin early => HadEffect(e)
       /\ handler[h].pc = "move" =>
            CASE e \in Payments -> amount = Paid
              [] e.type = "refund" -> amount < 0 /\ Refunded - amount >= Least(e.n, Paid)
              [] e.type = "dispute" -> amount < 0 /\ Ev("payment", 0) \in DOMAIN ledger
              [] e.type = "won" -> /\ Ev("dispute", 0) \in DOMAIN ledger
                                   /\ amount = -ledger[Ev("dispute", 0)]

(* Until two refunds are read at once, all that are about to be taken are   *)
(* of one event, and the first of them takes what is new in its total.      *)
RefundsApart ==
  \/ raced
  \/ \A h \in Handlers : handler[h].pc = "move" /\ handler[h].ev.type = "refund" =>
       /\ handler[h].key \in DOMAIN ledger \/ Refunded - handler[h].amount = handler[h].ev.n
       /\ \A g \in Handlers : handler[g].pc = "move" /\ handler[g].ev.type = "refund" =>
            handler[g].ev = handler[h].ev

(* Nothing is left of a dispute's beginning when its end is handled in turn. *)
WonComesLast ==
  (Ev("won", 0) \notin early /\
   (Ev("won", 0) \in seen \/ \E h \in Handlers : handler[h].ev = Ev("won", 0))) =>
    /\ Ev("dispute", 0) \in seen
    /\ \A h \in Handlers : handler[h].ev # Ev("dispute", 0)

EventsInv ==
  /\ TypeOK /\ LedgerRows /\ WonComesLast /\ RecordedHadEffect
  /\ \A h \in Handlers : HandlerOk(h)

RefundsInv == RefundsExact /\ RefundsApart

(* What an account's turns were charged to its allowance, with what is left *)
(* of it, is no more than the size includes: a sync of the same size and    *)
(* period changes nothing.                                                  *)
AllowanceSpentOnce == covered + acct.allow <= acct.granted

(* What was spent is written up in the end.                                 *)
DebitWrittenUp == (acct.debit > acct.rolled) ~> (acct.debit = acct.rolled)
=============================================================================
