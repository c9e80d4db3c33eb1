---------------------------- MODULE LeaseProofs -----------------------------
(***************************************************************************)
(* Proofs about the two kinds of lease of the store: the leader lease of a *)
(* role, for any number of instances, any names, faults and timings; and   *)
(* the fence of a leased row, for every number of rows and workers and     *)
(* every TTL.                                                              *)
(***************************************************************************)
EXTENDS LeaderLease, TLAPS

-----------------------------------------------------------------------------
(* The leader lease. *)

\* At first nobody runs the loop.
LEMMA InitLeader == Init => LeaderInv
BY LeaderAssumption DEF Init, LeaderInv, TypeOK, TokenNamed, OneInForce, LeaseKept, InForce

\* Every step keeps to the types.
LEMMA NextType == ASSUME TypeOK, [Next]_vars PROVE TypeOK'
<1> USE LeaderAssumption DEF TypeOK, Goto, Runs, Written, Unheard, Fault
<1>1. ASSUME NEW i \in Instances, Take(i) PROVE TypeOK'
  BY <1>1 DEF Take
<1>2. ASSUME NEW i \in Instances, TakeMiss(i) PROVE TypeOK'
  BY <1>2 DEF TakeMiss
<1>3. ASSUME NEW i \in Instances, RenewLease(i) PROVE TypeOK'
  BY <1>3 DEF RenewLease
<1>4. ASSUME NEW i \in Instances, RenewLost(i) \/ Stopped(i) PROVE TypeOK'
  BY <1>4 DEF RenewLost, Stopped
<1>5. ASSUME NEW i \in Instances, RenewFailed(i) PROVE TypeOK'
  BY <1>5 DEF RenewFailed
<1>6. ASSUME NEW i \in Instances, LoopDone(i) \/ ShutDown(i) PROVE TypeOK'
  <2>1. row' = row \/ row' = [row EXCEPT !.left = 0, !.writer = None]
    BY <1>6 DEF LoopDone, ShutDown, Release
  <2>2. [row EXCEPT !.left = 0] \in [holder : {Name[j] : j \in Instances} \cup {None},
                                     left : 0..TTL, writer : Instances \cup {None}]
    OBVIOUS
  <2>3. row' \in [holder : {Name[j] : j \in Instances} \cup {None}, left : 0..TTL,
                  writer : Instances \cup {None}]
    BY <2>1, <2>2
  <2>4. QED
    BY <1>6, <2>3 DEF LoopDone, ShutDown, Release
<1>7. ASSUME NEW i \in Instances, Crash(i) PROVE TypeOK'
  BY <1>7 DEF Crash
<1>8. CASE Tick
  BY <1>8 DEF Tick
<1>9. CASE UNCHANGED vars
  BY <1>9 DEF vars
<1>10. QED
  BY <1>1, <1>2, <1>3, <1>4, <1>5, <1>6, <1>7, <1>8, <1>9 DEF Next, Step

\* An instance that leads by right leaves the row to no other: its lease has not run out, and
\* neither name nor token in the row is another's.
LEMMA NotTaken ==
  ASSUME LeaderInv, NEW i \in Instances, InForce(i), NEW j \in Instances, j # i
  PROVE  ~Takeable(j) /\ row.writer # j
<1>1. row.holder = Name[i] /\ row.left >= TTL - age[i] /\ age[i] < TTL /\ Name[j] # Name[i]
  BY DEF LeaderInv, LeaseKept, InForce, Alone
<1>2. TTL \in Nat /\ age[i] \in Nat /\ row.left \in Nat /\ j # None
  BY LeaderAssumption DEF LeaderInv, TypeOK
<1>3. row.left # 0
  BY <1>1, <1>2
<1>4. QED
  BY <1>1, <1>2, <1>3 DEF Takeable, LeaderInv, TokenNamed

\* After every step whoever leads by right holds the row.  An instance takes the row only when none
\* does, and renews or releases only what carries its own token.
LEMMA NextLeader == ASSUME LeaderInv, TypeOK', [Next]_vars PROVE LeaderInv'
<1>0. TypeOK /\ TokenNamed /\ OneInForce /\ (\A i \in Instances : LeaseKept(i))
  BY DEF LeaderInv
<1>t. TTL \in Nat \ {0} /\ Renew \in Nat /\ None \notin Instances
  BY LeaderAssumption
<1>1. SUFFICES TokenNamed' /\ \A i \in Instances : LeaseKept(i)'
  <2>1. ASSUME \A i \in Instances : LeaseKept(i)' PROVE OneInForce'
    BY <2>1 DEF OneInForce, LeaseKept, InForce, Alone
  <2>2. QED
    BY <2>1 DEF LeaderInv
<1> USE DEF Goto, Runs, Written, Unheard
<1>2. ASSUME NEW i \in Instances, Take(i) \/ RenewLease(i)
      PROVE  TokenNamed' /\ \A j \in Instances : LeaseKept(j)'
  <2>1. /\ row' = [holder |-> Name[i], left |-> TTL, writer |-> i]
        /\ \A j \in Instances : j # i => pc'[j] = pc[j] /\ age'[j] = age[j]
        /\ age'[i] = 0
    BY <1>0, <1>2 DEF TypeOK, Take, RenewLease
  <2>2. \A j \in Instances : j # i => ~InForce(j)
    BY <1>2, NotTaken DEF Take, RenewLease
  <2>3. ASSUME NEW j \in Instances PROVE LeaseKept(j)'
    <3>1. CASE j = i
      BY <1>t, <2>1, <3>1 DEF LeaseKept
    <3>2. CASE j # i
      BY <2>1, <2>2, <3>2 DEF LeaseKept, InForce, Alone
    <3>3. QED
      BY <3>1, <3>2
  <2>4. QED
    BY <2>1, <2>3 DEF TokenNamed
<1>3. ASSUME NEW i \in Instances, TakeMiss(i) PROVE TokenNamed' /\ \A j \in Instances : LeaseKept(j)'
  <2>1. /\ \A j \in Instances : j # i => pc'[j] = pc[j] /\ age'[j] = age[j]
        /\ pc'[i] = "idle"
        /\ row' = row \/ (Takeable(i) /\ row'.writer = None)
    BY <1>0, <1>3 DEF TypeOK, TakeMiss
  <2>2. row' = row \/ \A j \in Instances : j # i => ~InForce(j)
    BY <2>1, NotTaken
  <2>3. ASSUME NEW j \in Instances PROVE LeaseKept(j)'
    <3>1. CASE j = i
      BY <2>1, <3>1 DEF LeaseKept, InForce
    <3>2. CASE j # i
      BY <1>0, <2>1, <2>2, <3>2 DEF LeaseKept, InForce, Alone
    <3>3. QED
      BY <3>1, <3>2
  <2>4. QED
    BY <1>0, <2>1, <2>3 DEF TokenNamed
<1>4. ASSUME NEW i \in Instances, RenewFailed(i)
      PROVE  TokenNamed' /\ \A j \in Instances : LeaseKept(j)'
  <2>1. /\ pc' = pc /\ age' = age
        /\ row' = row \/ (row.writer = i /\ row' = [holder |-> Name[i], left |-> TTL, writer |-> None])
    BY <1>0, <1>4 DEF TypeOK, RenewFailed, RenewDue
  <2>2. row' = row \/ \A j \in Instances : j # i => ~InForce(j)
    BY <2>1, NotTaken
  <2>3. age[i] \in Nat
    BY <1>0 DEF TypeOK
  <2>4. ASSUME NEW j \in Instances PROVE LeaseKept(j)'
    <3>1. CASE row' = row
      BY <1>0, <2>1, <3>1 DEF LeaseKept, InForce, Alone
    <3>2. CASE row' # row /\ j = i
      BY <1>t, <2>1, <2>3, <3>2 DEF LeaseKept, InForce, Alone
    <3>3. CASE row' # row /\ j # i
      BY <2>1, <2>2, <3>3 DEF LeaseKept, InForce, Alone
    <3>4. QED
      BY <3>1, <3>2, <3>3
  <2>5. QED
    BY <1>0, <2>1, <2>4 DEF TokenNamed
<1>5. ASSUME NEW i \in Instances, RenewLost(i) \/ Stopped(i) \/ LoopDone(i) \/ ShutDown(i) \/ Crash(i)
      PROVE  TokenNamed' /\ \A j \in Instances : LeaseKept(j)'
  <2>1. /\ \A j \in Instances : j # i => pc'[j] = pc[j] /\ age'[j] = age[j]
        /\ pc'[i] # "running"
    BY <1>0, <1>5 DEF TypeOK, RenewLost, Stopped, LoopDone, ShutDown, Crash
  <2>2. \/ row' = row
        \/ row.writer = i /\ row'.writer = None
        \/ row.writer = i /\ row' = [row EXCEPT !.writer = None]
    BY <1>0, <1>5 DEF TypeOK, RenewLost, Stopped, LoopDone, ShutDown, Crash, Release
  <2>3. row' = row \/ \A j \in Instances : j # i => ~InForce(j)
    BY <2>2, NotTaken
  <2>4. ASSUME NEW j \in Instances PROVE LeaseKept(j)'
    <3>1. CASE j = i
      BY <2>1, <3>1 DEF LeaseKept, InForce
    <3>2. CASE j # i
      BY <1>0, <2>1, <2>3, <3>2 DEF LeaseKept, InForce, Alone
    <3>3. QED
      BY <3>1, <3>2
  <2>5. TokenNamed'
    BY <1>0, <2>2 DEF TokenNamed, TypeOK
  <2>6. QED
    BY <2>4, <2>5
<1>6. CASE Tick
  <2>1. TokenNamed'
    BY <1>0, <1>6 DEF Tick, TokenNamed, TypeOK
  <2>2. ASSUME NEW j \in Instances, InForce(j)' PROVE row'.holder = Name[j] /\ row'.left >= TTL - age'[j]
    <3>1. /\ pc' = pc /\ row'.holder = row.holder
          /\ row'.left = IF row.left > 0 THEN row.left - 1 ELSE 0
          /\ age'[j] = IF age[j] < TTL THEN age[j] + 1 ELSE TTL
      BY <1>0, <1>6 DEF Tick, TypeOK
    <3>2. age[j] \in Nat /\ row.left \in Nat
      BY <1>0 DEF TypeOK
    <3>3. pc[j] = "running" /\ Alone(j) /\ age'[j] < TTL
      BY <2>2, <3>1 DEF InForce, Alone
    <3>4. InForce(j)
      BY <1>t, <3>1, <3>2, <3>3 DEF InForce
    <3>5. row.holder = Name[j] /\ row.left >= TTL - age[j]
      BY <1>0, <3>4 DEF LeaseKept
    <3>6. QED
      BY <1>t, <3>1, <3>2, <3>3, <3>5
  <2>3. QED
    BY <2>1, <2>2 DEF LeaseKept
<1>7. CASE UNCHANGED vars
  BY <1>0, <1>7 DEF vars, TokenNamed, LeaseKept, InForce, Alone
<1>8. QED
  BY <1>2, <1>3, <1>4, <1>5, <1>6, <1>7 DEF Next, Step

\* Whoever dies, stops, restarts, comes late, shares a name or hears nothing, an instance that leads
\* by right holds the row, and one does.
THEOREM LeaderInvariant == Spec => []LeaderInv
<1>1. LeaderInv /\ [Next]_vars => LeaderInv'
  BY NextType, NextLeader DEF LeaderInv
<1>2. QED
  BY <1>1, InitLeader, PTL DEF Spec

\* Two instances that run a role's loop at once (singleton.go) share a name, or one of them has not
\* heard of a write of its own for leaderTTL.
THEOREM OneInForceAlways == Spec => []OneInForce
<1>1. LeaderInv => OneInForce
  BY DEF LeaderInv
<1>2. QED
  BY <1>1, LeaderInvariant, PTL

-----------------------------------------------------------------------------
(* The fence of a leased row: the abstract specification, of any rows.     *)

CONSTANTS Rows, NoRow, Workers, LeaseTime, BackOffs

VARIABLES now, lease, key, token

F == INSTANCE LeaseFence WITH Keys <- Rows, NoKey <- NoRow, Holders <- Workers,
                              TTL <- LeaseTime, Delays <- BackOffs

\* The first state has nobody holding anything.
LEMMA InitFence == ASSUME F!FenceAssumption PROVE F!Init => F!FenceInv
BY DEF F!FenceAssumption, F!Init, F!FenceInv, F!TypeOK, F!LiveHoldIsCurrent, F!DistinctTokens

\* One step keeps the invariant: one case per action.
LEMMA NextFence ==
  ASSUME F!FenceAssumption
  PROVE  F!FenceInv /\ [F!Next]_(F!fenceVars) => F!FenceInv'
<1> SUFFICES ASSUME F!FenceInv, [F!Next]_(F!fenceVars) PROVE F!FenceInv'
  OBVIOUS
<1> USE DEF F!FenceAssumption, F!FenceInv, F!TypeOK, F!LiveHoldIsCurrent, F!DistinctTokens, F!Passes
<1>1. CASE F!Tick
  BY <1>1 DEF F!Tick
<1>2. ASSUME NEW h \in Workers, NEW k \in Rows, F!Take(h, k) PROVE F!FenceInv'
  BY <1>2 DEF F!Take
<1>3. ASSUME NEW h \in Workers, F!Renew(h) PROVE F!FenceInv'
  BY <1>3 DEF F!Renew
<1>4. ASSUME NEW h \in Workers, NEW v \in {0} \cup {now + d : d \in BackOffs}, F!Release(h, v)
      PROVE  F!FenceInv'
  BY <1>4 DEF F!Release
<1>5. ASSUME NEW h \in Workers, F!Drop(h) PROVE F!FenceInv'
  BY <1>5 DEF F!Drop
<1>6. ASSUME NEW K \in SUBSET Rows, F!Forget(K) PROVE F!FenceInv'
  BY <1>6 DEF F!Forget
<1>7. CASE UNCHANGED F!fenceVars
  BY <1>7 DEF F!fenceVars
<1>8. QED
  BY <1>1, <1>2, <1>3, <1>4, <1>5, <1>6, <1>7 DEF F!Next

\* The theorem of the abstract specification: of the workers that claimed a row, at most one
\* gets a write past the fence, and one whose lease is live always does.
THEOREM FenceSafe == ASSUME F!FenceAssumption PROVE F!Spec => []F!OneWriterPerKey
<1>1. F!FenceInv => F!OneWriterPerKey
  BY DEF F!FenceInv, F!TypeOK, F!LiveHoldIsCurrent, F!DistinctTokens, F!OneWriterPerKey, F!Passes
<1>2. QED
  BY <1>1, InitFence, NextFence, PTL DEF F!Spec
=============================================================================
