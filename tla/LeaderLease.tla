---------------------------- MODULE LeaderLease ----------------------------
(***************************************************************************)
(* The leader lease of one role: the loops that must run once across the   *)
(* deployment each run behind a row of leader_leases.  An instance polls   *)
(* for the row, runs its loop while it holds it and renews underneath; the *)
(* expiry it last wrote is the token every later write has to name.        *)
(*                                                                         *)
(* Time is kept as what is left of the lease and of each instance's wait;  *)
(* of a token the only thing that matters is whose the row carries.  An    *)
(* instance may be late with anything it does: nothing in the code bounds  *)
(* how long a process is kept from running.                                *)
(***************************************************************************)
EXTENDS Naturals

CONSTANTS
  Instances,
  Name,       \* instanceID: what each instance calls itself in the row
  None,
  TTL,        \* leaderTTL
  Renew,      \* leaderRenew
  Poll,       \* leaderPoll
  MaxFaults   \* bound: statements that fail or whose answer is lost

ASSUME LeaderAssumption ==
  /\ None \notin Instances /\ \A i \in Instances : Name[i] # None
  /\ TTL \in Nat \ {0} /\ Renew \in Nat \ {0} /\ Poll \in Nat \ {0} /\ MaxFaults \in Nat

VARIABLES
  row,     \* the row: its holder, the time left to expires_at, and the instance whose token that is
  pc,      \* idle, running the loop, stopping it, or gone
  wait,    \* time left to the next poll or renewal
  faults,
  age      \* history: time since an instance that runs the loop last heard of a write, up to TTL

vars == <<row, pc, wait, faults, age>>

TypeOK ==
  /\ row \in [holder : {Name[i] : i \in Instances} \cup {None}, left : 0..TTL,
              writer : Instances \cup {None}]
  /\ pc \in [Instances -> {"idle", "running", "stopping", "gone"}]
  /\ wait \in [Instances -> 0..(Renew + Poll)]
  /\ faults \in 0..MaxFaults
  /\ age \in [Instances -> 0..TTL]

Init ==
  /\ row = [holder |-> None, left |-> 0, writer |-> None]
  /\ pc = [i \in Instances |-> "idle"]
  /\ wait = [i \in Instances |-> 0]
  /\ faults = 0
  /\ age = [i \in Instances |-> TTL]

\* Where an instance goes on, and when it is due there; what it heard is of no more use to one that
\* does not run the loop.
Runs(i, heard) ==
  /\ pc' = [pc EXCEPT ![i] = "running"]
  /\ wait' = [wait EXCEPT ![i] = Renew]
  /\ age' = [age EXCEPT ![i] = heard]

Goto(i, where, time) ==
  /\ pc' = [pc EXCEPT ![i] = where]
  /\ age' = [age EXCEPT ![i] = TTL]
  /\ wait' = [wait EXCEPT ![i] = time]

Written(i) == [holder |-> Name[i], left |-> TTL, writer |-> i]

\* A write that took effect unheard carries a token nobody knows.
Unheard(i) == [Written(i) EXCEPT !.writer = None]

Fault == faults < MaxFaults /\ faults' = faults + 1
-----------------------------------------------------------------------------
(* leaderLoop.                                                             *)

\* (mutants: a lease about to run out is taken; a lapsed one is left to its holder)
TakeableEarly(i) == row.holder = Name[i] \/ row.left <= Renew
TakeableFree(i) == row.holder \in {Name[i], None}

\* TakeLeaderLease: the row is free, has run out, or has this instance's name on it.
Takeable(i) == row.holder = Name[i] \/ row.left = 0

Take(i) ==
  /\ pc[i] = "idle" /\ wait[i] = 0 /\ Takeable(i)
  /\ row' = Written(i)
  /\ Runs(i, 0)
  /\ UNCHANGED faults

TakeMiss(i) ==
  /\ pc[i] = "idle" /\ wait[i] = 0
  /\ \/ ~Takeable(i) /\ UNCHANGED <<row, faults>>
     \/ Fault /\ UNCHANGED row
     \/ Fault /\ Takeable(i) /\ row' = Unheard(i)
  /\ Goto(i, "idle", Poll)
-----------------------------------------------------------------------------
(* holdLease: the loop, and the renewals underneath it.                    *)

RenewDue(i) == pc[i] = "running" /\ wait[i] = 0

RenewLease(i) ==
  /\ RenewDue(i) /\ row.writer = i
  /\ row' = Written(i)
  /\ Runs(i, 0)
  /\ UNCHANGED faults

\* Somebody else's token is in the row: the loop's context is cancelled.
RenewLost(i) ==
  /\ RenewDue(i) /\ row.writer # i
  /\ Goto(i, "stopping", 0)
  /\ UNCHANGED <<row, faults>>

\* A renewal that failed is left to the next one.
RenewFailed(i) ==
  /\ RenewDue(i) /\ Fault
  /\ UNCHANGED row \/ (row.writer = i /\ row' = Unheard(i))
  /\ Runs(i, age[i])

\* ReleaseLeaderLease, keyed on the token; best effort.
Release(i) ==
  \/ /\ row' = IF row.writer = i THEN [row EXCEPT !.left = 0, !.writer = None] ELSE row
     /\ UNCHANGED faults
  \/ UNCHANGED row /\ Fault

\* The loop returned on its own.
LoopDone(i) == pc[i] = "running" /\ Release(i) /\ Goto(i, "idle", Poll)

\* The instance shuts down: the lease goes back first, then the loop is waited for.
ShutDown(i) == pc[i] = "running" /\ Release(i) /\ Goto(i, "stopping", 0)

Stopped(i) ==
  /\ pc[i] = "stopping"
  /\ Goto(i, "idle", Poll)
  /\ UNCHANGED <<row, faults>>

\* The instance dies: for good, or while it holds the role or stops, with another started in its
\* place that knows no token.
Crash(i) ==
  /\ \/ pc[i] # "gone" /\ Goto(i, "gone", 0)
     \/ pc[i] \in {"running", "stopping"} /\ Goto(i, "idle", 0)
  /\ row' = IF row.writer = i THEN [row EXCEPT !.writer = None] ELSE row
  /\ UNCHANGED faults

\* Time passes, whatever is due.
Tick ==
  /\ row' = [row EXCEPT !.left = IF @ > 0 THEN @ - 1 ELSE 0]
  /\ wait' = [i \in Instances |-> IF wait[i] > 0 THEN wait[i] - 1 ELSE 0]
  /\ age' = [i \in Instances |-> IF age[i] < TTL THEN age[i] + 1 ELSE TTL]
  /\ UNCHANGED <<pc, faults>>

Step(i) == Take(i) \/ TakeMiss(i) \/ RenewLease(i) \/ RenewLost(i) \/ RenewFailed(i) \/ Stopped(i)

Next == Tick \/ \E i \in Instances : Step(i) \/ LoopDone(i) \/ ShutDown(i) \/ Crash(i)

Spec == Init /\ [][Next]_vars

\* Timers fire and instances run on; nothing obliges a loop to return or an instance to die.
FairSpec == Spec /\ WF_vars(Tick) /\ \A i \in Instances : WF_vars(Step(i))
-----------------------------------------------------------------------------
\* Of all the instances, at most one runs the role's loop and has not been told to stop
\* (singleton.go, "The loops that must run once across the deployment").
OneLeader == \A i, j \in Instances : pc[i] = "running" /\ pc[j] = "running" => i = j

\* An instance that leads by right: nobody else has its name, and the write it last heard of is
\* younger than leaderTTL - which one whose timers are on time is until its second renewal in a row
\* has failed, leaderTTL being three times leaderRenew.
Alone(i) == \A j \in Instances : Name[j] = Name[i] => j = i
InForce(i) == pc[i] = "running" /\ Alone(i) /\ age[i] < TTL

\* Such an instance holds the row, for as long as it thinks it does.
LeaseKept(i) == InForce(i) => row.holder = Name[i] /\ row.left >= TTL - age[i]

\* Two instances run the role's loop at once only when they share a name or one of them has not
\* heard of a write of its own for leaderTTL: late, cut off, or twice failed.  No take, renewal,
\* release or restart of one instance takes the role from under another that leads by right.
OneInForce == \A i, j \in Instances : InForce(i) /\ InForce(j) => i = j

\* A token in the row goes with its owner's name.
TokenNamed == row.writer # None => row.holder = Name[row.writer]

\* The invariant of the proofs: the row and the instances are well typed, of the instances that lead
\* by right there is one (OneInForce), and it holds the row.
LeaderInv == TypeOK /\ TokenNamed /\ OneInForce /\ \A i \in Instances : LeaseKept(i)

\* Whoever dies, stops or loses a renewal, the role is taken up again while an instance is left:
\* no stale row, lost answer or forgotten token leaves it to nobody for good (leaderLoop).
RoleFilled ==
  []<>((\E i \in Instances : pc[i] = "running") \/ (\A i \in Instances : pc[i] = "gone"))
=============================================================================
