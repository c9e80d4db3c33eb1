------------------------- MODULE WriteLeaseProofs -------------------------
(* One writer, for every number of processes and all timings that keep the margin. *)
EXTENDS WriteLease, TLAPS

LEMMA InitLease == Init => LeaseInv
BY LeaseTimes DEF Init, LeaseInv, TypeOK, GenInv, OpInv, TakeInv, HolderInv, LateInv, TimeInv, NoObj, NoOp, Unseen, Touching,
   Renewing, Matches

\* The lock object after a write that met its precondition.
LEMMA LandsObj ==
  ASSUME TypeOK, NEW p \in Procs, Lands(p)
  PROVE  /\ obj.gen = op[p].gen /\ lastGen' = lastGen + 1
         /\ obj'.gen = lastGen + 1 /\ obj'.modified = now /\ obj'.holder = p
         /\ obj' \in [gen : Nat, modified : Nat, expires : Nat, holder : Procs \cup {NoProc}]
<1>1. PICK skew \in 0..Skew : obj' = Landed(p, skew)
  BY DEF Lands
<1>2. skew \in Nat /\ op[p].began \in Nat
  BY LeaseTimes DEF TypeOK
<1>3. QED
  BY <1>1, <1>2, LeaseTimes DEF Lands, Landed, Matches, TypeOK

LEMMA NextType ==
  ASSUME TypeOK, [Next]_vars
  PROVE  TypeOK'
<1> USE LeaseTimes, LandsObj DEF TypeOK, NoObj, NoOp, Unseen, Touching
<1>1. ASSUME NEW p \in Procs, ProcStep(p) PROVE TypeOK'
  <2>1. CASE Boot(p)
    BY <2>1 DEF Boot
  <2>2. CASE TryTake(p)
    BY <2>2 DEF TryTake, StartTake
  <2>3. CASE TryWait(p)
    <3>1. UNCHANGED <<now, boots, obj, lastGen, faults>>
      BY <2>3 DEF TryWait
    <3>2. CASE now > until[p]
      <4>1. Exit(p)
        BY <2>3, <3>2 DEF TryWait, TryAgain
      <4>2. QED
        BY <3>1, <4>1 DEF Exit
    <3>3. CASE ~(now > until[p])
      <4>1. TryAgain(p, seen[p]) \/ TryAgain(p, [gen |-> obj.gen, at |-> now])
        BY <2>3 DEF TryWait
      <4>2. \/ seen' = [seen EXCEPT ![p] = seen[p]]
            \/ seen' = [seen EXCEPT ![p] = [gen |-> obj.gen, at |-> now]]
        BY <3>3, <4>1 DEF TryAgain
      <4>3. /\ due' = [due EXCEPT ![p] = now + Poll] /\ op' = [op EXCEPT ![p] = NoOp]
            /\ UNCHANGED <<pc, gen, lastOK, until, lost, late>>
        BY <3>3, <4>1 DEF TryAgain
      <4>4. [gen |-> obj.gen, at |-> now] \in [gen : Nat, at : Nat]
        OBVIOUS
      <4>5. seen' \in [Procs -> [gen : Nat, at : Nat]]
        <5>1. seen \in [Procs -> [gen : Nat, at : Nat]] /\ seen[p] \in [gen : Nat, at : Nat]
          OBVIOUS
        <5>2. CASE seen' = [seen EXCEPT ![p] = seen[p]]
          BY <5>1, <5>2
        <5>3. CASE seen' = [seen EXCEPT ![p] = [gen |-> obj.gen, at |-> now]]
          BY <5>1, <5>3, <4>4
        <5>4. QED
          BY <4>2, <5>2, <5>3
      <4>6. op' \in [Procs -> [kind : {"none", "take", "renew"}, gen : Nat, began : Nat]]
        BY <4>3
      <4>7. due' \in [Procs -> Nat]
        BY <4>3
      <4>8. QED
        BY <3>1, <4>3, <4>5, <4>6, <4>7
    <3>4. QED
      BY <3>2, <3>3
  <2>4. CASE TakeDone(p)
    BY <2>4 DEF TakeDone
  <2>5. CASE TakeFailed(p)
    <3>1. obj' \in [gen : Nat, modified : Nat, expires : Nat, holder : Procs \cup {NoProc}] /\ lastGen' \in Nat
      BY <2>5 DEF TakeFailed, Unanswered, NotLands
    <3>2. faults' \in Nat /\ UNCHANGED <<now, boots>>
      BY <2>5 DEF TakeFailed, Unanswered
    <3>3. TryAgain(p, seen[p])
      BY <2>5 DEF TakeFailed
    <3>4. CASE now > until[p]
      <4>1. Exit(p)
        BY <3>3, <3>4 DEF TryAgain
      <4>2. QED
        BY <3>1, <3>2, <4>1 DEF Exit
    <3>5. CASE ~(now > until[p])
      <4>1. /\ seen' = [seen EXCEPT ![p] = seen[p]]
            /\ due' = [due EXCEPT ![p] = now + Poll] /\ op' = [op EXCEPT ![p] = NoOp]
            /\ UNCHANGED <<pc, gen, lastOK, until, lost, late>>
        BY <3>3, <3>5 DEF TryAgain
      <4>2. QED
        BY <3>1, <3>2, <4>1
    <3>6. QED
      BY <3>4, <3>5
  <2>6. CASE RenewStart(p)
    BY <2>6 DEF RenewStart
  <2>7. CASE RenewDone(p)
    BY <2>7 DEF RenewDone
  <2>8. CASE RenewTaken(p)
    BY <2>8 DEF RenewTaken, NotLands, Stand
  <2>9. CASE RenewFailed(p)
    <3>1. obj' \in [gen : Nat, modified : Nat, expires : Nat, holder : Procs \cup {NoProc}] /\ lastGen' \in Nat
      BY <2>9 DEF RenewFailed, Unanswered, NotLands
    <3>2. faults' \in Nat
      BY <2>9 DEF RenewFailed, Unanswered
    <3>3. CASE Overdue(p)
      <4>1. Stand(p)
        BY <2>9, <3>3 DEF RenewFailed
      <4>2. QED
        BY <3>1, <3>2, <4>1 DEF Stand
    <3>4. CASE ~Overdue(p)
      <4>1. /\ due' = [due EXCEPT ![p] = op[p].began + Renew] /\ op' = [op EXCEPT ![p] = NoOp]
            /\ UNCHANGED <<now, boots, pc, gen, lastOK, seen, until, lost, late>>
        BY <2>9, <3>4 DEF RenewFailed
      <4>2. QED
        BY <3>1, <3>2, <4>1
    <3>5. QED
      BY <3>3, <3>4
  <2>10. CASE Serve(p)
    BY <2>10 DEF Serve, leaseVars
  <2>11. CASE StandDown(p)
    BY <2>11 DEF StandDown, Stopping, NotLands
  <2>12. CASE Stop(p)
    BY <2>12 DEF Stop, Stopping, NotLands
  <2>13. CASE Stopped(p)
    BY <2>13 DEF Stopped, Release, Exit
  <2>14. CASE Crash(p)
    BY <2>14 DEF Crash, NotLands, Exit
  <2>15. QED
    BY <1>1, <2>1, <2>2, <2>3, <2>4, <2>5, <2>6, <2>7, <2>8, <2>9, <2>10, <2>11, <2>12, <2>13, <2>14 DEF ProcStep
<1>2. CASE Tick
  BY <1>2 DEF Tick, leaseVars
<1>3. CASE UNCHANGED vars
  BY <1>3 DEF vars
<1>4. QED
  BY <1>1, <1>2, <1>3 DEF Next

\* Nobody can take the lock object while a process that kept the lease through its start-up touches
\* the database.
LEMMA Margined ==
  ASSUME LeaseInv, Margin, NEW p \in Procs \ late, pc[p] \in Touching
  PROVE  obj.modified + TTL > now + Skew
<1>1. now <= lastOK[p] + Window + Shutdown
  BY LeaseTimes DEF LeaseInv, TypeOK, OpInv, TimeInv, Margin, Window, Touching, Renewing
<1>2. lastOK[p] <= obj.modified
  BY DEF LeaseInv, HolderInv
<1> QED
  BY <1>1, <1>2, LeaseTimes DEF LeaseInv, TypeOK, Margin, Window

\* Every step of every process, and the clock, keep the invariant.
LEMMA NextLease ==
  ASSUME LeaseInv, Margin, [Next]_vars
  PROVE  LeaseInv'
<1>0. TypeOK'
  BY NextType DEF LeaseInv
<1> USE <1>0, LeaseTimes, LandsObj, Margined DEF LeaseInv, TypeOK, GenInv, OpInv, TakeInv, HolderInv, LateInv, TimeInv, Margin, Window,
      NoObj, NoOp, Unseen, Touching, Renewing, Matches
<1>1. ASSUME NEW p \in Procs, ProcStep(p) PROVE LeaseInv'
  <2>1. CASE Boot(p)
    BY <2>1 DEF Boot
  <2>2. CASE TryTake(p)
    BY <2>2 DEF TryTake, Ready, Confirmed, Expired, StartTake
  <2>3. CASE TryWait(p)
    <3>1. op[p].kind = "none" /\ pc[p] = "waiting" /\ UNCHANGED <<now, obj, lastGen>>
      BY <2>3 DEF TryWait, Ready
    <3>2. CASE now > until[p]
      <4>1. Exit(p)
        BY <2>3, <3>2 DEF TryWait, TryAgain
      <4>2. GenInv'
        BY <3>1, <4>1 DEF Exit
      <4>3. OpInv'
        BY <3>1, <4>1 DEF Exit
      <4>4. TakeInv'
        BY <3>1, <4>1 DEF Exit
      <4>5. HolderInv'
        BY <3>1, <4>1 DEF Exit
      <4>6. TimeInv'
        BY <3>1, <4>1 DEF Exit
      <4>7. LateInv'
        BY <3>1, <4>1 DEF Exit
      <4>8. QED
        BY <4>2, <4>3, <4>4, <4>5, <4>6, <4>7
    <3>3. CASE ~(now > until[p])
      <4>1. UNCHANGED <<pc, gen, lastOK, until, lost, late>> /\ op' = [op EXCEPT ![p] = NoOp]
            /\ due' = [due EXCEPT ![p] = now + Poll]
        BY <2>3, <3>3 DEF TryWait, TryAgain
      <4>2. GenInv'
        BY <3>1, <4>1
      <4>3. OpInv'
        BY <3>1, <4>1
      <4>4. TakeInv'
        BY <3>1, <4>1
      <4>5. HolderInv'
        BY <3>1, <4>1
      <4>6. TimeInv'
        BY <3>1, <4>1
      <4>7. LateInv'
        BY <3>1, <4>1
      <4>8. QED
        BY <4>2, <4>3, <4>4, <4>5, <4>6, <4>7
    <3>4. QED
      BY <3>2, <3>3
  <2>4. CASE TakeDone(p)
    <3>1. Lands(p) /\ op[p].kind = "take" /\ pc[p] = "waiting"
      BY <2>4 DEF TakeDone
    <3>2. \A q \in Procs \ late : pc[q] \notin Touching
      BY <3>1
    <3>3. GenInv'
      BY <2>4, <3>1, <3>2 DEF TakeDone
    <3>4. OpInv'
      BY <2>4, <3>1, <3>2 DEF TakeDone
    <3>5. TakeInv'
      BY <2>4, <3>1, <3>2 DEF TakeDone
    <3>6. HolderInv'
      BY <2>4, <3>1, <3>2 DEF TakeDone
    <3>7. TimeInv'
      BY <2>4, <3>1, <3>2 DEF TakeDone
    <3>8. LateInv'
      BY <2>4, <3>1, <3>2 DEF TakeDone
    <3>9. QED
      BY <3>3, <3>4, <3>5, <3>6, <3>7, <3>8
  <2>5. CASE TakeFailed(p)
    <3>1. op[p].kind = "take" /\ pc[p] = "waiting" /\ UNCHANGED now /\ TryAgain(p, seen[p])
      BY <2>5 DEF TakeFailed
    <3>2. UNCHANGED <<obj, lastGen>> \/ Lands(p)
      BY <2>5 DEF TakeFailed, Unanswered, NotLands
    <3>3. CASE now > until[p]
      <4>1. Exit(p)
        BY <3>1, <3>3 DEF TryAgain
      <4>2. GenInv'
        BY <3>1, <3>2, <4>1 DEF Exit
      <4>3. OpInv'
        BY <3>1, <3>2, <4>1 DEF Exit
      <4>4. TakeInv'
        BY <3>1, <3>2, <4>1 DEF Exit
      <4>5. HolderInv'
        BY <3>1, <3>2, <4>1 DEF Exit
      <4>6. TimeInv'
        BY <3>1, <3>2, <4>1 DEF Exit
      <4>7. LateInv'
        BY <3>1, <3>2, <4>1 DEF Exit
      <4>8. QED
        BY <4>2, <4>3, <4>4, <4>5, <4>6, <4>7
    <3>4. CASE ~(now > until[p])
      <4>1. UNCHANGED <<pc, gen, lastOK, until, lost, late>> /\ op' = [op EXCEPT ![p] = NoOp]
            /\ due' = [due EXCEPT ![p] = now + Poll]
        BY <3>1, <3>4 DEF TryAgain
      <4>2. GenInv'
        BY <3>1, <3>2, <4>1
      <4>3. OpInv'
        BY <3>1, <3>2, <4>1
      <4>4. TakeInv'
        BY <3>1, <3>2, <4>1
      <4>5. HolderInv'
        BY <3>1, <3>2, <4>1
      <4>6. TimeInv'
        BY <3>1, <3>2, <4>1
      <4>7. LateInv'
        BY <3>1, <3>2, <4>1
      <4>8. QED
        BY <4>2, <4>3, <4>4, <4>5, <4>6, <4>7
    <3>5. QED
      BY <3>3, <3>4
  <2>6. CASE RenewStart(p)
    <3>1. GenInv'
      BY <2>6 DEF RenewStart
    <3>2. OpInv'
      BY <2>6 DEF RenewStart
    <3>3. TakeInv'
      BY <2>6 DEF RenewStart
    <3>4. HolderInv'
      BY <2>6 DEF RenewStart
    <3>5. TimeInv'
      BY <2>6 DEF RenewStart
    <3>6. LateInv'
      BY <2>6 DEF RenewStart
    <3>7. QED
      BY <3>1, <3>2, <3>3, <3>4, <3>5, <3>6
  <2>7. CASE RenewDone(p)
    BY <2>7 DEF RenewDone
  <2>8. CASE RenewTaken(p)
    BY <2>8 DEF RenewTaken, NotLands, Stand
  <2>9. CASE RenewFailed(p)
    <3>1. op[p].kind = "renew"
      BY <2>9 DEF RenewFailed
    <3>2. UNCHANGED <<obj, lastGen>> \/ Lands(p)
      BY <2>9 DEF RenewFailed, Unanswered, NotLands
    <3>3. CASE Overdue(p)
      <4>1. Stand(p)
        BY <2>9, <3>3 DEF RenewFailed
      <4>2. GenInv'
        BY <3>1, <3>2, <4>1 DEF Stand
      <4>3. OpInv'
        BY <3>1, <3>2, <4>1 DEF Stand
      <4>4. TakeInv'
        BY <3>1, <3>2, <4>1 DEF Stand
      <4>5. HolderInv'
        BY <3>1, <3>2, <4>1 DEF Stand
      <4>6. TimeInv'
        BY <3>1, <3>2, <4>1 DEF Stand
      <4>7. LateInv'
        BY <3>1, <3>2, <4>1 DEF Stand
      <4>8. QED
        BY <4>2, <4>3, <4>4, <4>5, <4>6, <4>7
    <3>4. CASE ~Overdue(p)
      <4>1. UNCHANGED <<now, pc, gen, lastOK, until, lost, late>> /\ op' = [op EXCEPT ![p] = NoOp]
            /\ due' = [due EXCEPT ![p] = op[p].began + Renew]
        BY <2>9, <3>4 DEF RenewFailed
      <4>2. GenInv'
        BY <3>1, <3>2, <3>4, <4>1 DEF Overdue
      <4>3. OpInv'
        BY <3>1, <3>2, <3>4, <4>1 DEF Overdue
      <4>4. TakeInv'
        BY <3>1, <3>2, <3>4, <4>1 DEF Overdue
      <4>5. HolderInv'
        BY <3>1, <3>2, <3>4, <4>1 DEF Overdue
      <4>6. TimeInv'
        BY <3>1, <3>2, <3>4, <4>1 DEF Overdue
      <4>7. LateInv'
        BY <3>1, <3>2, <3>4, <4>1 DEF Overdue
      <4>8. QED
        BY <4>2, <4>3, <4>4, <4>5, <4>6, <4>7
    <3>5. QED
      BY <3>3, <3>4
  <2>10. CASE Serve(p)
    BY <2>10 DEF Serve, leaseVars
  <2>11. CASE StandDown(p)
    BY <2>11 DEF StandDown, Stopping, NotLands
  <2>12. CASE Stop(p)
    BY <2>12 DEF Stop, Stopping, NotLands
  <2>13. CASE Stopped(p)
    BY <2>13 DEF Stopped, Release, Exit
  <2>14. CASE Crash(p)
    BY <2>14 DEF Crash, NotLands, Exit
  <2>15. QED
    BY <1>1, <2>1, <2>2, <2>3, <2>4, <2>5, <2>6, <2>7, <2>8, <2>9, <2>10, <2>11, <2>12, <2>13, <2>14 DEF ProcStep
<1>2. CASE Tick
  BY <1>2 DEF Tick, OnTime, leaseVars
<1>3. CASE UNCHANGED vars
  BY <1>3 DEF vars
<1>4. QED
  BY <1>1, <1>2, <1>3 DEF Next

LEMMA LeaseInvariant ==
  ASSUME Margin
  PROVE  Spec => []LeaseInv
<1>1. LeaseInv /\ [Next]_vars => LeaseInv'
  BY NextLease
<1>2. QED
  BY <1>1, InitLease, PTL DEF Spec

\* One writer (lease.go): with timings that keep the margin, as the code's do, no two processes touch
\* the database - whatever calls fail, whoever dies and however long a restore takes - save those
\* that lost the lease before they were through starting up.
THEOREM WriteLeaseSafe ==
  ASSUME Margin
  PROVE  Spec => []OneWriter
<1>1. LeaseInv => OneWriter
  BY DEF LeaseInv, HolderInv, OneWriter
<1>2. QED
  BY <1>1, LeaseInvariant, PTL

\* While a process that kept the lease through its start-up touches the database, the lock object is
\* its own and has not run out, so no waiter can take it for abandoned (Lease.try).
THEOREM WriterHoldsAlways ==
  ASSUME Margin
  PROVE  Spec => []WriterHolds
<1>1. LeaseInv => WriterHolds
  BY Margined DEF LeaseInv, HolderInv, WriterHolds
<1>2. QED
  BY <1>1, LeaseInvariant, PTL
=============================================================================
