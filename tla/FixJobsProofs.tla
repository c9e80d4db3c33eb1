--------------------------- MODULE FixJobsProofs ----------------------------
(***************************************************************************)
(* Proofs about fix jobs.  JobsInv is inductive.  The handlers are shown   *)
(* to do no more than Quiet to what finish relies on, and the rest of the  *)
(* argument about them needs nothing else; the steps of finish are taken   *)
(* one by one.                                                             *)
(***************************************************************************)
EXTENDS FixJobs, FiniteSetTheorems, TLAPS

USE DEF Past

\* No job yet: the invariant holds.
LEMMA InitJobs == Init => JobsInv
<1> SUFFICES ASSUME Init PROVE JobsInv
  OBVIOUS
<1> USE FixJobsAssumption DEF Init
<1>1. job \in Row
  BY DEF Row, Statuses
<1>2. ev \in Batch /\ worker \in Worker
  BY DEF Batch, Worker, NoBatch, Resting, Terminal
<1>3. fin \in [Finishers -> Call]
  BY DEF Call, NoFinish, Terminal
<1>4. TypeOK
  BY <1>1, <1>2, <1>3 DEF TypeOK
<1>5. CostLogged
  BY DEF CostLogged, NoBatch, NoFinish, InFlight, Finishers
<1>6. ReportedOnce
  BY DEF ReportedOnce
<1>7. RowOk
  BY DEF RowOk, NoFinish, NoBatch, Resting, Readers, Finishers
<1>8. ASSUME NEW f \in Finishers PROVE FinishOk(f)
  BY DEF FinishOk, NoFinish
<1>9. CallersOk
  BY DEF CallersOk, NoFinish, NoBatch, Finishers
<1>10. QED
  BY <1>4, <1>5, <1>6, <1>7, <1>8, <1>9 DEF JobsInv

\* The resting values are of their types.
LEMMA Answers ==
  /\ NoBatch \in Batch /\ NoFinish \in Call /\ Gone \in Worker
  /\ Terminal \subseteq Statuses /\ Active \subseteq Statuses
BY DEF NoBatch, Batch, NoFinish, Call, Gone, Resting, Worker, Terminal, Statuses

\* A call of finish that begins is one.
LEMMA CallType ==
  ASSUME TypeOK, NEW f \in Finishers, NEW to \in Terminal, NEW total \in Nat, Finish(f, to, total)
  PROVE  fin' \in [Finishers -> Call]
<1>1. [at |-> "write", to |-> to, total |-> total, cost |-> job.cost, delta |-> 0] \in Call
  BY DEF TypeOK, Row, Call
<1>2. QED
  BY <1>1, Answers DEF Finish, TypeOK

\* What RequestJobCancel makes of a row: nothing of one that has ended or was asked before, and
\* otherwise a flagged row that is cancelling, or queued still.
LEMMA CancelledRow ==
  ASSUME NEW j \in Row
  PROVE  /\ Cancelled(j) \in Row
         /\ Cancelled(j).cost = j.cost /\ Cancelled(j).key = j.key
         /\ Cancelled(j).cancel => Cancelled(j) = j \/ Cancelled(j).status \in {"cancelling", "queued"}
         /\ Cancelled(j) # j =>
              /\ j.status \in Active /\ ~j.cancel
              /\ Cancelled(j).status
                   = IF j.status \in {"starting", "running", "stale"} THEN "cancelling" ELSE j.status
<1>1. CASE j.cancel \/ j.status \notin Active
  BY <1>1 DEF Cancelled
<1>2. CASE ~j.cancel /\ j.status \in {"starting", "running", "stale"}
  <2>1. Cancelled(j) = [j EXCEPT !.cancel = TRUE, !.status = "cancelling"]
    BY <1>2 DEF Cancelled, Active
  <2>2. QED
    BY <1>2, <2>1 DEF Row, Statuses, Active
<1>3. CASE ~j.cancel /\ j.status \in {"queued", "cancelling"}
  <2>1. Cancelled(j) = [j EXCEPT !.cancel = TRUE]
    BY <1>3 DEF Cancelled, Active, Row
  <2>2. QED
    BY <1>3, <2>1 DEF Row, Statuses, Active
<1>4. QED
  BY <1>1, <1>2, <1>3 DEF Row, Active

\* A batch holds finitely many units, so that those that are new can be counted.
LEMMA FreshCounted ==
  ASSUME TypeOK, NEW u \in SUBSET Units
  PROVE  Cardinality(Fresh(u)) \in Nat
<1>1. IsFiniteSet(Units)
  BY FS_Interval, FixJobsAssumption DEF Units
<1>2. Fresh(u) \subseteq Units
  BY DEF Fresh
<1>3. IsFiniteSet(Fresh(u))
  BY <1>1, <1>2, FS_Subset
<1>4. QED
  BY <1>3, FS_CardinalityType

\* The steps other than those of finish.
Handlers ==
  \/ InsertJob \/ Start \/ StartFails \/ StoreStarting \/ DispatchDies
  \/ ClaimJob \/ AnswerClaim \/ ClaimRefused \/ ClaimCut
  \/ Spend \/ Push \/ Pipeline \/ PostResult \/ ResultAnswered \/ WorkerDies
  \/ SendEvents \/ AddJobEvents \/ AnswerEvents \/ EventsCut
  \/ CancelRead \/ Cancel \/ ReconcileRead
  \/ \E verdict \in {"fail", "timeout", "stale", "cancel", "stop"} : Reconcile(verdict)

\* The handlers keep to the types: one case per action, one step per variable it writes.
LEMMA HandlersType ==
  ASSUME TypeOK, Handlers
  PROVE  TypeOK'
<1> USE FixJobsAssumption
<1>1. CASE InsertJob
  <2>1. job' \in Row
    BY <1>1 DEF InsertJob, Row, Statuses, Active, TypeOK
  <2>2. QED
    BY <1>1, <2>1 DEF InsertJob, TypeOK, money, limits
<1>2. CASE Start
  <2>1. worker' \in Worker
    BY <1>2 DEF Start, Worker, TypeOK
  <2>2. QED
    BY <1>2, <2>1 DEF Start, TypeOK, money, limits
<1>3. CASE StartFails
  <2>1. worker' \in Worker
    BY <1>3 DEF StartFails, Worker, TypeOK
  <2>2. fin' \in [Finishers -> Call]
    BY <1>3, CallType DEF StartFails, Terminal, Finishers, TypeOK
  <2>3. QED
    BY <1>3, <2>1, <2>2 DEF StartFails, TypeOK, money, limits
<1>4. CASE StoreStarting
  <2>1. job' \in Row
    BY <1>4 DEF StoreStarting, Row, Statuses, Active, TypeOK
  <2>2. QED
    BY <1>4, <2>1 DEF StoreStarting, TypeOK, money, limits
<1>5. CASE DispatchDies
  <2>1. QED
    BY <1>5 DEF DispatchDies, TypeOK, money, limits
<1>6. CASE ClaimJob
  <2>1. Claimable => job.claims + 1 \in 0..MaxClaims /\ job \in Row
    BY <1>6 DEF Claimable, Row, TypeOK
  <2>2. job' \in Row
    BY <1>6, <2>1 DEF ClaimJob, Row, Statuses, Active, TypeOK
  <2>3. worker' \in Worker
    BY <1>6, Answers DEF ClaimJob, TypeOK
  <2>4. claim' \in {"idle", "granted"}
    BY <1>6 DEF ClaimJob, TypeOK
  <2>5. QED
    BY <1>6, <2>1, <2>2, <2>3, <2>4 DEF ClaimJob, TypeOK, money, limits
<1>7. CASE AnswerClaim
  <2>1. job' \in Row
    BY <1>7 DEF AnswerClaim, KeyOfJob, Row, TypeOK
  <2>2. worker' \in Worker
    BY <1>7 DEF AnswerClaim, Worker, TypeOK
  <2>3. QED
    BY <1>7, <2>1, <2>2 DEF AnswerClaim, TypeOK, money, limits
<1>8. CASE ClaimRefused
  <2>1. worker' \in Worker
    BY <1>8, Answers DEF ClaimRefused, TypeOK
  <2>2. fin' \in [Finishers -> Call]
    BY <1>8, CallType DEF ClaimRefused, Terminal, Finishers, TypeOK
  <2>3. QED
    BY <1>8, <2>1, <2>2 DEF ClaimRefused, TypeOK, money, limits
<1>9. CASE ClaimCut
  <2>1. job' \in Row
    BY <1>9 DEF ClaimCut, KeyOfJob, Row, TypeOK
  <2>2. QED
    BY <1>9, <2>1 DEF ClaimCut, TypeOK, money, limits
<1>10. CASE Spend
  <2>1. spent' \in 0..MaxSpend
    BY <1>10 DEF Spend, TypeOK
  <2>2. worker' \in Worker
    BY <1>10 DEF Spend, Worker, Units, TypeOK
  <2>3. QED
    BY <1>10, <2>1, <2>2 DEF Spend, TypeOK, money, limits
<1>11. CASE Push
  <2>1. worker' \in Worker
    BY <1>11 DEF Push, Worker, TypeOK
  <2>2. QED
    BY <1>11, <2>1 DEF Push, TypeOK, money, limits
<1>12. CASE Pipeline
  <2>1. worker' \in Worker
    BY <1>12 DEF Pipeline, Worker, Terminal, TypeOK
  <2>2. QED
    BY <1>12, <2>1 DEF Pipeline, TypeOK, money, limits
<1>13. CASE PostResult
  <2>1. worker' \in Worker
    BY <1>13, Answers DEF PostResult, Worker, TypeOK
  <2>2. worker.result \in Terminal /\ spent \in Nat
    BY <1>13 DEF Worker, TypeOK
  <2>3. fin' \in [Finishers -> Call]
    BY <1>13, CallType, <2>2 DEF PostResult, Finishers, TypeOK
  <2>4. QED
    BY <1>13, <2>1, <2>2, <2>3 DEF PostResult, TypeOK, money, limits
<1>14. CASE ResultAnswered
  <2>1. worker' \in Worker
    BY <1>14, Answers DEF ResultAnswered, Worker, TypeOK
  <2>2. QED
    BY <1>14, <2>1 DEF ResultAnswered, TypeOK, money, limits
<1>15. CASE WorkerDies
  <2>1. worker' \in Worker
    BY <1>15, Answers DEF WorkerDies, TypeOK
  <2>2. QED
    BY <1>15, <2>1 DEF WorkerDies, TypeOK, money, limits
<1>16. CASE SendEvents
  <2>1. worker' \in Worker
    BY <1>16 DEF SendEvents, Worker, TypeOK
  <2>2. ev' \in Batch
    BY <1>16 DEF SendEvents, Batch, Worker, TypeOK
  <2>3. QED
    BY <1>16, <2>1, <2>2 DEF SendEvents, TypeOK, money, limits
<1>17. CASE AddJobEvents
  <2>1. Cardinality(Fresh(ev.units)) \in Nat /\ ev.units \subseteq Units
    BY <1>17, FreshCounted DEF Batch, TypeOK
  <2>2. ev' \in Batch
    BY <1>17, <2>1 DEF AddJobEvents, Batch, TypeOK
  <2>3. job \in Row /\ job.cost + Cardinality(Fresh(ev.units)) \in Nat /\ SpokeAgain \in Statuses
    BY <1>17, <2>1 DEF SpokeAgain, Row, Statuses, Active, TypeOK
  <2>4. [job EXCEPT !.status = SpokeAgain, !.cost = @ + Cardinality(Fresh(ev.units))] \in Row
    BY <1>17, <2>3 DEF Row, TypeOK
  <2>5. job' \in Row
    BY <1>17, <2>4 DEF AddJobEvents, TypeOK
  <2>6. QED
    BY <1>17, <2>1, <2>2, <2>3, <2>4, <2>5 DEF AddJobEvents, TypeOK, money, limits
<1>18. CASE AnswerEvents
  <2>1. logged' \in Nat
    BY <1>18 DEF AnswerEvents, Batch, TypeOK
  <2>2. job' \in Row
    BY <1>18, CancelledRow DEF AnswerEvents, TypeOK
  <2>3. job'.cancel \in BOOLEAN
    BY <1>18, <2>2 DEF Row, TypeOK
  <2>4. worker' \in Worker
    BY <1>18, <2>3 DEF AnswerEvents, Worker, TypeOK
  <2>5. QED
    BY <1>18, <2>1, <2>2, <2>3, <2>4, Answers DEF AnswerEvents, TypeOK, money, limits
<1>19. CASE EventsCut
  <2>1. worker' \in Worker
    BY <1>19 DEF EventsCut, Worker, Batch, TypeOK
  <2>2. logged' \in Nat /\ unlogged' \in Nat
    BY <1>19 DEF EventsCut, Batch, TypeOK
  <2>3. faults' \in 0..MaxFaults /\ cancels' \in 0..MaxCancels
    BY <1>19 DEF EventsCut, Fault, TypeOK
  <2>4. QED
    BY <1>19, <2>1, <2>2, <2>3, Answers DEF EventsCut, TypeOK, money, limits
<1>20. CASE CancelRead
  <2>1. snap' \in [Readers -> Active \cup {"none"}]
    BY <1>20 DEF CancelRead, Read, Row, Readers, TypeOK
  <2>2. cancels' \in 0..MaxCancels
    BY <1>20 DEF CancelRead, TypeOK
  <2>3. QED
    BY <1>20, <2>1, <2>2 DEF CancelRead, TypeOK, money, limits
<1>21. CASE Cancel
  <2>1. snap' \in [Readers -> Active \cup {"none"}]
    BY <1>21 DEF Cancel, Forget, TypeOK
  <2>2. job' \in Row
    BY <1>21, CancelledRow DEF Cancel, TypeOK
  <2>3. worker' \in Worker
    BY <1>21 DEF Cancel, StopExecution, Worker, TypeOK
  <2>4. fin' \in [Finishers -> Call]
    BY <1>21, CallType DEF Cancel, Terminal, Finishers, TypeOK
  <2>5. faults' \in 0..MaxFaults /\ cancels' \in 0..MaxCancels
    BY <1>21 DEF Cancel, StopExecution, Fault, limits, TypeOK
  <2>6. QED
    BY <1>21, <2>1, <2>2, <2>3, <2>4, <2>5 DEF Cancel, TypeOK, money, limits
<1>22. CASE ReconcileRead
  <2>1. snap' \in [Readers -> Active \cup {"none"}]
    BY <1>22 DEF ReconcileRead, Read, Row, Readers, TypeOK
  <2>2. QED
    BY <1>22, <2>1 DEF ReconcileRead, TypeOK, money, limits
<1>23. ASSUME NEW verdict \in {"fail", "timeout", "stale", "cancel", "stop"}, Reconcile(verdict)
       PROVE TypeOK'
  <2>1. snap' \in [Readers -> Active \cup {"none"}]
    BY <1>23 DEF Reconcile, Forget, TypeOK
  <2>2. job' \in Row
    BY <1>23 DEF Reconcile, Row, Statuses, Active, TypeOK
  <2>3. worker' \in Worker
    BY <1>23 DEF Reconcile, StopExecution, Worker, TypeOK
  <2>4. Outcome(verdict) \in Terminal
    BY <1>23 DEF Outcome, Terminal, TypeOK
  <2>5. fin' \in [Finishers -> Call]
    BY <1>23, CallType, <2>4 DEF Reconcile, Terminal, Finishers, TypeOK
  <2>6. faults' \in 0..MaxFaults /\ cancels' \in 0..MaxCancels
    BY <1>23 DEF Reconcile, StopExecution, Fault, limits, TypeOK
  <2>7. QED
    BY <1>23, <2>1, <2>2, <2>3, <2>4, <2>5, <2>6 DEF Reconcile, TypeOK, money, limits
<1>24. QED
  BY <1>1, <1>2, <1>3, <1>4, <1>5, <1>6, <1>7, <1>8, <1>9, <1>10, <1>11, <1>12, <1>13, <1>14,
     <1>15, <1>16, <1>17, <1>18, <1>19, <1>20, <1>21, <1>22, <1>23 DEF Handlers

\* So do the steps of finish.
LEMMA FinishType ==
  ASSUME TypeOK, NEW f \in Finishers, FinishStep(f) \/ FinishCut(f)
  PROVE  TypeOK'
<1> USE FixJobsAssumption
<1>0. /\ fin[f] \in Call /\ fin[f].at \in {"idle", "write"} \cup Past /\ fin[f].to \in Terminal
      /\ fin[f].total \in Nat /\ fin[f].cost \in Nat /\ fin[f].delta \in Nat
  BY DEF TypeOK, Call
<1>1. CASE FinishWrite(f)
  <2>1. CASE MayEnd
    <3> DEFINE delta == IF fin[f].total > fin[f].cost THEN fin[f].total - fin[f].cost ELSE 0
               cost == fin[f].cost + delta
    <3>1. delta \in Nat /\ cost \in Nat
      BY <1>0
    <3>2. /\ job' = [job EXCEPT !.status = fin[f].to, !.cost = cost]
          /\ fin' = [fin EXCEPT ![f].at = "read", ![f].total = 0, ![f].cost = 0, ![f].delta = delta]
      BY <1>1, <2>1 DEF FinishWrite
    <3> HIDE DEF delta, cost
    <3>3. job' \in Row
      BY <1>0, <3>1, <3>2, Answers DEF TypeOK, Row
    <3>4. [fin[f] EXCEPT !.at = "read", !.total = 0, !.cost = 0, !.delta = delta] \in Call
      BY <1>0, <3>1 DEF Call
    <3>5. fin' \in [Finishers -> Call]
      BY <3>2, <3>4 DEF TypeOK
    <3>6. QED
      BY <1>1, <3>3, <3>5 DEF FinishWrite, TypeOK, money, limits
  <2>2. CASE ~MayEnd
    BY <1>1, <2>2, Answers DEF FinishWrite, TypeOK, money, limits
  <2>3. QED
    BY <2>1, <2>2
<1>2. CASE Settle(f)
  <2>0. spent \in Nat
    BY DEF TypeOK
  <2>1. PICK charged \in {fin[f].cost, IF spent > fin[f].cost THEN spent ELSE fin[f].cost},
             key \in {"deleted", job.key} :
          /\ job' = [job EXCEPT !.key = key, !.cost = IF charged > fin[f].cost THEN charged ELSE @]
          /\ fin' = [fin EXCEPT ![f].at = "log", ![f].cost = 0, ![f].delta = @ + (charged - fin[f].cost)]
    BY <1>2 DEF Settle
  <2>2. charged \in Nat /\ fin[f].delta + (charged - fin[f].cost) \in Nat
    BY <1>0, <2>0
  <2>3. job' \in Row
    BY <2>1, <2>2 DEF TypeOK, Row
  <2>4. [fin[f] EXCEPT !.at = "log", !.cost = 0, !.delta = @ + (charged - fin[f].cost)] \in Call
    BY <1>0, <2>2 DEF Call
  <2>5. fin' \in [Finishers -> Call]
    BY <2>1, <2>4 DEF TypeOK
  <2>6. QED
    BY <1>2, <2>3, <2>5 DEF Settle, TypeOK, money, limits
<1>3. CASE LogAndReport(f)
  <2>1. reports' \in Seq(Terminal) /\ logged' \in Nat
    BY <1>0, <1>3 DEF LogAndReport, ToLog, TypeOK
  <2>2. QED
    BY <1>3, <2>1, Answers DEF LogAndReport, TypeOK, limits
<1>4. CASE FinishCut(f)
  <2>1. unlogged' \in Nat /\ faults' \in 0..MaxFaults
    BY <1>0, <1>4 DEF FinishCut, Fault, TypeOK
  <2>2. QED
    BY <1>4, <2>1, Answers DEF FinishCut, Fault, TypeOK
<1>5. CASE ReadEnded(f)
  <2>1. job.cost \in Nat
    BY DEF TypeOK, Row
  <2>2. fin' = [fin EXCEPT ![f] = [fin[f] EXCEPT !.at = IF job.key = "live" THEN "settle" ELSE "log", !.cost = job.cost]]
    BY <1>5 DEF ReadEnded, TypeOK
  <2>3. [fin[f] EXCEPT !.at = IF job.key = "live" THEN "settle" ELSE "log", !.cost = job.cost] \in Call
    BY <1>0, <2>1 DEF Call
  <2>4. fin' \in [Finishers -> Call]
    BY <2>2, <2>3 DEF TypeOK
  <2>5. QED
    BY <1>5, <2>4 DEF ReadEnded, TypeOK, money, limits
<1>6. QED
  BY <1>1, <1>2, <1>3, <1>4, <1>5 DEF FinishStep

\* What a handler may do to the parts that finish reads: a job that ended stays as it is, its cost
\* does not fall and is raised by no more than what is logged or about to be, and at most one call
\* of finish begins, where none was under way.
Calling ==
  \E f \in Finishers : \E to \in Terminal : \E total \in Nat :
     fin[f].at = "idle" /\ Finish(f, to, total)

Quiet ==
  /\ reports' = reports
  /\ job.status \in Terminal => job'.status = job.status
  /\ job.cost <= job'.cost
  /\ job'.cost + logged + unlogged + ev.used <= job.cost + logged' + unlogged' + ev'.used
  /\ fin' = fin \/ Calling

\* No handler does more than that.
LEMMA HandlersQuiet ==
  ASSUME TypeOK, RowOk, CallersOk, Handlers
  PROVE  Quiet
<1>0. job \in Row /\ job.cost \in Nat /\ ev.used \in Nat /\ logged \in Nat /\ unlogged \in Nat
  BY DEF TypeOK, Row, Batch
<1>1. CASE UNCHANGED <<job, ev, fin, logged, unlogged, reports>>
  BY <1>0, <1>1 DEF Quiet
<1>2. CASE Start
  BY <1>2, <1>1 DEF Start, money
<1>3. CASE DispatchDies
  BY <1>3, <1>1 DEF DispatchDies, money
<1>4. CASE Spend
  BY <1>4, <1>1 DEF Spend, money
<1>5. CASE Push
  BY <1>5, <1>1 DEF Push, money
<1>6. CASE Pipeline
  BY <1>6, <1>1 DEF Pipeline, money
<1>7. CASE ResultAnswered
  BY <1>7, <1>1 DEF ResultAnswered, money
<1>8. CASE WorkerDies
  BY <1>8, <1>1 DEF WorkerDies, money
<1>9. CASE CancelRead
  BY <1>9, <1>1 DEF CancelRead, money
<1>10. CASE ReconcileRead
  BY <1>10, <1>1 DEF ReconcileRead, money
<1>11. CASE InsertJob
  <2>1. job.status = "none"
    BY <1>11 DEF InsertJob, RowOk
  <2>2. job'.cost = job.cost /\ job'.status = "queued"
    BY <1>11, <1>0 DEF InsertJob, Row
  <2>3. QED
    BY <1>11, <1>0, <2>1, <2>2 DEF InsertJob, Quiet, money, Terminal
<1>12. CASE StoreStarting
  <2>1. job'.cost = job.cost /\ (job.status \in Terminal => job'.status = job.status)
    BY <1>12, <1>0 DEF StoreStarting, ToStarting, Row, Terminal
  <2>2. QED
    BY <1>12, <1>0, <2>1 DEF StoreStarting, Quiet, money
<1>13. CASE ClaimJob
  <2>1. job'.cost = job.cost /\ (job.status \in Terminal => job'.status = job.status)
    BY <1>13, <1>0 DEF ClaimJob, Claimable, Row, Terminal
  <2>2. QED
    BY <1>13, <1>0, <2>1 DEF ClaimJob, Quiet, money
<1>14. CASE AnswerClaim
  <2>1. job'.cost = job.cost /\ job'.status = job.status
    BY <1>14, <1>0 DEF AnswerClaim, Row
  <2>2. QED
    BY <1>14, <1>0, <2>1 DEF AnswerClaim, Quiet, money
<1>15. CASE ClaimCut
  <2>1. job'.cost = job.cost /\ job'.status = job.status
    BY <1>15, <1>0 DEF ClaimCut, Row
  <2>2. QED
    BY <1>15, <1>0, <2>1 DEF ClaimCut, Quiet, money
<1>16. CASE StartFails
  <2>1. fin["dispatch"].at = "idle" /\ Finish("dispatch", "failed", 0)
    BY <1>16 DEF StartFails, CallersOk
  <2>2. Calling
    BY <2>1 DEF Calling, Finishers, Terminal
  <2>3. QED
    BY <1>16, <1>0, <2>2 DEF StartFails, Quiet, money
<1>17. CASE ClaimRefused
  <2>1. fin["claim"].at = "idle" /\ Finish("claim", "failed", 0)
    BY <1>17 DEF ClaimRefused
  <2>2. Calling
    BY <2>1 DEF Calling, Finishers, Terminal
  <2>3. QED
    BY <1>17, <1>0, <2>2 DEF ClaimRefused, Quiet, money
<1>18. CASE PostResult
  <2>1. CASE Ended
    BY <1>18, <1>1, <2>1 DEF PostResult, money
  <2>2. CASE ~Ended
    <3>1. fin["result"].at = "idle" /\ Finish("result", worker.result, spent)
      BY <1>18, <2>2 DEF PostResult
    <3>2. worker.result \in Terminal /\ spent \in Nat
      BY FixJobsAssumption DEF TypeOK, Worker
    <3>3. Calling
      BY <3>1, <3>2 DEF Calling, Finishers
    <3>4. QED
      BY <1>18, <1>0, <3>3 DEF PostResult, Quiet, money
  <2>3. QED
    BY <2>1, <2>2
<1>19. CASE SendEvents
  <2>1. ev.used = 0 /\ ev'.used = 0
    BY <1>19 DEF SendEvents, CallersOk
  <2>2. QED
    BY <1>19, <1>0, <2>1 DEF SendEvents, Quiet, money
<1>20. CASE AddJobEvents
  <2> DEFINE used == Cardinality(Fresh(ev.units))
  <2>1. used \in Nat
    BY FreshCounted DEF TypeOK, Batch
  <2>2. /\ ev.used = 0
        /\ ev' = [ev EXCEPT !.at = "stored", !.used = used]
        /\ job' = IF ev.units = {} \/ used > 0
                  THEN [job EXCEPT !.status = SpokeAgain, !.cost = @ + used] ELSE job
    BY <1>20 DEF AddJobEvents, CallersOk
  <2> HIDE DEF used
  <2>3. ev'.used = used
    BY <2>2 DEF TypeOK, Batch
  <2>4. job'.cost <= job.cost + used /\ job.cost <= job'.cost
    BY <1>0, <2>1, <2>2 DEF Row
  <2>5. job.status \in Terminal => job'.status = job.status
    BY <1>0, <2>2 DEF Row, SpokeAgain, Terminal
  <2>6. QED
    BY <1>20, <1>0, <2>1, <2>2, <2>3, <2>4, <2>5 DEF AddJobEvents, Quiet, money
<1>21. CASE AnswerEvents
  <2>1. job' = job \/ job' = Cancelled(job)
    BY <1>21 DEF AnswerEvents
  <2>2. job'.cost = job.cost /\ (job.status \in Terminal => job'.status = job.status)
    BY <1>0, <2>1, CancelledRow DEF Active, Terminal
  <2>3. ev'.used = 0
    BY <1>21 DEF AnswerEvents, NoBatch
  <2>4. QED
    BY <1>21, <1>0, <2>2, <2>3 DEF AnswerEvents, Quiet
<1>22. CASE EventsCut
  <2>1. ev'.used = 0
    BY <1>22 DEF EventsCut, NoBatch
  <2>2. logged' + unlogged' = logged + unlogged + ev.used
    BY <1>22, <1>0 DEF EventsCut
  <2>3. QED
    BY <1>22, <1>0, <2>1, <2>2 DEF EventsCut, Quiet
<1>23. CASE Cancel
  <2>0. fin["cancel"].at = "idle"
    BY <1>23 DEF Cancel, CallersOk, Readers
  <2>1. job' = job \/ job' = Cancelled(job)
    BY <1>23 DEF Cancel
  <2>2. job'.cost = job.cost /\ (job.status \in Terminal => job'.status = job.status)
    BY <1>0, <2>1, CancelledRow DEF Active, Terminal
  <2>3. fin' = fin \/ Finish("cancel", "cancelled", 0)
    BY <1>23 DEF Cancel
  <2>4. fin' = fin \/ Calling
    BY <2>0, <2>3 DEF Calling, Finishers, Terminal
  <2>5. UNCHANGED <<ev, money>>
    BY <1>23 DEF Cancel
  <2>6. QED
    BY <1>0, <2>2, <2>4, <2>5 DEF Quiet, money
<1>24. ASSUME NEW verdict \in {"fail", "timeout", "stale", "cancel", "stop"}, Reconcile(verdict)
       PROVE Quiet
  <2>0. fin["reconcile"].at = "idle"
    BY <1>24 DEF Reconcile, CallersOk, Readers
  <2>1. job' = job \/ job' = IF ToStale THEN [job EXCEPT !.status = "stale"] ELSE job
    BY <1>24 DEF Reconcile
  <2>2. job'.cost = job.cost /\ (job.status \in Terminal => job'.status = job.status)
    BY <1>0, <2>1 DEF ToStale, Row, Terminal
  <2>3. fin' = fin \/ Finish("reconcile", Outcome(verdict), 0) \/ Finish("reconcile", "failed", 0)
    BY <1>24 DEF Reconcile
  <2>4. Outcome(verdict) \in Terminal /\ "failed" \in Terminal
    BY DEF Outcome, Terminal
  <2>5. fin' = fin \/ Calling
    BY <2>0, <2>3, <2>4 DEF Calling, Finishers
  <2>6. UNCHANGED <<ev, money>>
    BY <1>24 DEF Reconcile
  <2>7. QED
    BY <1>0, <2>2, <2>5, <2>6 DEF Quiet, money
<1>25. QED
  BY <1>2, <1>3, <1>4, <1>5, <1>6, <1>7, <1>8, <1>9, <1>10, <1>11, <1>12, <1>13, <1>14, <1>15,
     <1>16, <1>17, <1>18, <1>19, <1>20, <1>21, <1>22, <1>23, <1>24 DEF Handlers

\* The call that begins, as a record: over at once when the job has ended, and otherwise about to
\* write with the cost the row shows.
LEMMA CallShape ==
  ASSUME TypeOK, Calling
  PROVE  \E f \in Finishers : \E c \in Call :
           /\ fin[f].at = "idle" /\ fin' = [fin EXCEPT ![f] = c] /\ c.delta = 0
           /\ c.at = "idle" \/ (c.at = "write" /\ c.cost = job.cost)
<1>1. PICK f \in Finishers, to \in Terminal, total \in Nat : fin[f].at = "idle" /\ Finish(f, to, total)
  BY DEF Calling
<1>2. [at |-> "write", to |-> to, total |-> total, cost |-> job.cost, delta |-> 0] \in Call
  BY DEF TypeOK, Row, Call
<1>3. CASE Ended
  <2> DEFINE c == NoFinish
  <2>1. fin' = [fin EXCEPT ![f] = c] /\ c.at = "idle" /\ c.delta = 0
    BY <1>1, <1>3 DEF Finish, NoFinish
  <2>2. c \in Call
    BY Answers
  <2> HIDE DEF c
  <2>3. QED
    BY <1>1, <2>1, <2>2
<1>4. CASE ~Ended
  <2> DEFINE c == [at |-> "write", to |-> to, total |-> total, cost |-> job.cost, delta |-> 0]
  <2>1. fin' = [fin EXCEPT ![f] = c] /\ c.at = "write" /\ c.delta = 0 /\ c.cost = job.cost
    BY <1>1, <1>4 DEF Finish
  <2>2. c \in Call
    BY <1>2
  <2> HIDE DEF c
  <2>3. QED
    BY <1>1, <2>1, <2>2
<1>5. QED
  BY <1>3, <1>4

\* Handlers keep what the calls of finish rely on: the cost they read is still no more than the
\* row's, and the call past its update still stands for the job's end.
LEMMA QuietFinish ==
  ASSUME TypeOK, TypeOK', \A g \in Finishers : FinishOk(g), Quiet
  PROVE  (\A g \in Finishers : FinishOk(g))'
<1>1. /\ job.cost \in Nat /\ job'.cost \in Nat /\ job.cost <= job'.cost /\ reports' = reports
      /\ Ended => Ended' /\ job'.status = job.status
  BY DEF TypeOK, Row, Quiet, Ended
<1>2. ASSUME NEW g \in Finishers PROVE fin[g].cost \in Nat /\ fin[g].to \in Terminal
  BY DEF TypeOK, Call
<1>3. CASE fin' = fin
  BY <1>1, <1>2, <1>3 DEF FinishOk, Ended
<1>4. CASE Calling
  <2>1. PICK f \in Finishers, c \in Call :
           /\ fin[f].at = "idle" /\ fin' = [fin EXCEPT ![f] = c]
           /\ c.at = "idle" \/ (c.at = "write" /\ c.cost = job.cost)
    BY <1>4, CallShape
  <2>2. fin'[f] = c /\ \A g \in Finishers : g # f => fin'[g] = fin[g]
    BY <2>1 DEF TypeOK
  <2>3. ASSUME NEW g \in Finishers PROVE FinishOk(g)'
    <3>1. CASE g = f
      BY <1>1, <2>1, <2>2, <3>1 DEF FinishOk
    <3>2. CASE g # f
      BY <1>1, <1>2, <2>1, <2>2, <3>2 DEF FinishOk, Ended
    <3>3. QED
      BY <3>1, <3>2
  <2>4. QED
    BY <2>3
<1>5. QED
  BY <1>3, <1>4 DEF Quiet

\* A call owes the log a number.
LEMMA CallMoney ==
  ASSUME TypeOK
  PROVE  \A f \in Finishers : InFlight(f) \in Nat
BY DEF TypeOK, InFlight, Call

\* Handlers keep the cost logged.
LEMMA QuietCost ==
  ASSUME TypeOK, TypeOK', CostLogged, Quiet
  PROVE  CostLogged'
<1>1. \A f \in Finishers : InFlight(f)' = InFlight(f)
  <2>1. CASE fin' = fin
    BY <2>1 DEF InFlight
  <2>2. CASE Calling
    <3>1. PICK f \in Finishers, c \in Call :
             /\ fin[f].at = "idle" /\ fin' = [fin EXCEPT ![f] = c] /\ c.delta = 0
             /\ c.at = "idle" \/ (c.at = "write" /\ c.cost = job.cost)
      BY <2>2, CallShape
    <3>2. fin'[f] = c /\ \A g \in Finishers : g # f => fin'[g] = fin[g]
      BY <3>1 DEF TypeOK
    <3>3. QED
      BY <3>1, <3>2 DEF InFlight
  <2>3. QED
    BY <2>1, <2>2 DEF Quiet
<1>2. /\ job.cost \in Nat /\ ev.used \in Nat /\ logged \in Nat /\ unlogged \in Nat
      /\ job'.cost \in Nat /\ ev'.used \in Nat /\ logged' \in Nat /\ unlogged' \in Nat
  BY DEF TypeOK, Row, Batch
<1>3. QED
  BY <1>1, <1>2, CallMoney DEF CostLogged, Quiet, Finishers

\* Handlers do not change the end that was reported.
LEMMA QuietReported ==
  ASSUME TypeOK, ReportedOnce, Quiet
  PROVE  ReportedOnce'
<1>1. \A i \in DOMAIN reports : job.status \in Terminal
  BY DEF TypeOK, ReportedOnce
<1>2. QED
  BY <1>1 DEF ReportedOnce, Quiet

\* A step of one call keeps the cost logged when it does so for that call.
LEMMA OneFlight ==
  ASSUME TypeOK, TypeOK', CostLogged, NEW f \in Finishers,
         \A g \in Finishers : g # f => fin'[g] = fin[g],
         ev' = ev,
         job'.cost + logged + unlogged + InFlight(f) <= job.cost + logged' + unlogged' + InFlight(f)'
  PROVE  CostLogged'
<1>1. \A g \in Finishers : g # f => InFlight(g)' = InFlight(g)
  BY DEF InFlight
<1>2. /\ job.cost \in Nat /\ ev.used \in Nat /\ logged \in Nat /\ unlogged \in Nat
      /\ job'.cost \in Nat /\ logged' \in Nat /\ unlogged' \in Nat
  BY DEF TypeOK, Row, Batch
<1>3. \A g \in Finishers : InFlight(g) \in Nat
  BY CallMoney
<1>4. InFlight(f)' \in Nat
  BY DEF TypeOK, InFlight, Call
<1>5. QED
  BY <1>1, <1>2, <1>3, <1>4 DEF CostLogged, Finishers

\* Nothing is reported of a job that has not ended.
LEMMA NothingReported ==
  ASSUME TypeOK, ReportedOnce, ~Ended
  PROVE  reports = <<>>
<1>1. Len(reports) # 1
  BY DEF TypeOK, ReportedOnce, Ended
<1>2. reports \in Seq(Terminal) /\ Len(reports) \in Nat /\ Len(reports) <= 1
  BY DEF TypeOK, ReportedOnce
<1>3. QED
  BY <1>1, <1>2

\* The steps of finish keep the cost logged and the job reported once: the first update of the row
\* ends the job, every other finds it ended, and the one that ended it alone settles, logs and reports.
LEMMA FinishSound ==
  ASSUME TypeOK, TypeOK', CostLogged, ReportedOnce, \A g \in Finishers : FinishOk(g),
         NEW f \in Finishers, FinishStep(f) \/ FinishCut(f)
  PROVE  CostLogged' /\ ReportedOnce' /\ (\A g \in Finishers : FinishOk(g))'
<1> DEFINE past(g) == fin[g].at \in Past
<1>0. /\ fin[f] \in Call /\ fin[f].at \in {"idle", "write"} \cup Past /\ fin[f].to \in Terminal
      /\ fin[f].total \in Nat /\ fin[f].cost \in Nat /\ fin[f].delta \in Nat
      /\ job \in Row /\ job.cost \in Nat /\ logged \in Nat /\ unlogged \in Nat /\ spent \in Nat
  <2>1. fin[f] \in Call
    BY DEF TypeOK
  <2>2. job \in Row /\ logged \in Nat /\ unlogged \in Nat /\ spent \in Nat
    BY FixJobsAssumption DEF TypeOK
  <2>3. QED
    BY <2>1, <2>2 DEF Call, Row
<1>a. FinishOk(f)
  OBVIOUS
<1>b. ASSUME NEW g \in Finishers, past(g) PROVE Ended /\ reports = <<>> /\ fin[g].to = job.status
  <2>1. FinishOk(g) /\ fin[g].to \in Terminal
    BY DEF TypeOK, Call
  <2>2. QED
    BY <1>b, <2>1 DEF FinishOk, Ended
<1>c. ASSUME NEW g \in Finishers, g # f, past(f) PROVE ~past(g)
  BY <1>a, <1>c DEF FinishOk
<1>1. CASE FinishWrite(f) /\ MayEnd
  <2> DEFINE delta == IF fin[f].total > fin[f].cost THEN fin[f].total - fin[f].cost ELSE 0
             cost == fin[f].cost + delta
  <2>1. /\ job' = [job EXCEPT !.status = fin[f].to, !.cost = cost]
        /\ fin' = [fin EXCEPT ![f].at = "read", ![f].total = 0, ![f].cost = 0, ![f].delta = delta]
        /\ fin[f].at = "write" /\ ev' = ev /\ UNCHANGED <<logged, unlogged, reports>>
    BY <1>1 DEF FinishWrite, money
  <2>2. delta \in Nat /\ cost \in Nat /\ cost = fin[f].cost + delta
    BY <1>0
  <2> HIDE DEF delta, cost
  <2>3. job'.status = fin[f].to /\ job'.cost = cost
    BY <1>0, <2>1 DEF Row
  <2>4. fin'[f].at = "read" /\ fin'[f].to = fin[f].to /\ fin'[f].delta = delta
    BY <2>1 DEF TypeOK, Call
  <2>5. \A g \in Finishers : g # f => fin'[g] = fin[g]
    BY <2>1 DEF TypeOK
  <2>6. ~Ended /\ Ended'
    BY <1>0, <1>1, <2>3 DEF MayEnd, Ended
  <2>7. reports' = <<>>
    BY <2>1, <2>6, NothingReported
  <2>8. CostLogged'
    <3>1. fin[f].cost <= job.cost /\ InFlight(f) = 0 /\ InFlight(f)' = delta
      BY <1>a, <2>1, <2>4, <2>6 DEF FinishOk, InFlight
    <3>2. job'.cost + logged + unlogged + InFlight(f) <= job.cost + logged' + unlogged' + InFlight(f)'
      BY <1>0, <2>1, <2>2, <2>3, <3>1
    <3>3. QED
      BY <2>1, <2>5, <3>2, OneFlight
  <2>9. ASSUME NEW g \in Finishers PROVE FinishOk(g)'
    <3>1. CASE g = f
      <4>1. ASSUME NEW h \in Finishers, h # f PROVE fin'[h].at \notin Past
        BY <1>b, <2>5, <2>6, <4>1
      <4>2. QED
        BY <2>2, <2>3, <2>4, <2>6, <2>7, <3>1, <4>1 DEF FinishOk
    <3>2. CASE g # f
      BY <1>b, <2>5, <2>6, <3>2 DEF FinishOk
    <3>3. QED
      BY <3>1, <3>2
  <2>10. QED
    BY <2>7, <2>8, <2>9 DEF ReportedOnce
<1>2. CASE Settle(f)
  <2>1. PICK charged \in {fin[f].cost, IF spent > fin[f].cost THEN spent ELSE fin[f].cost},
             key \in {"deleted", job.key} :
          /\ job' = [job EXCEPT !.key = key, !.cost = IF charged > fin[f].cost THEN charged ELSE @]
          /\ fin' = [fin EXCEPT ![f].at = "log", ![f].cost = 0, ![f].delta = @ + (charged - fin[f].cost)]
    BY <1>2 DEF Settle
  <2>2. charged \in Nat /\ charged >= fin[f].cost
    BY <1>0
  <2>3. /\ job'.status = job.status
        /\ job'.cost = IF charged > fin[f].cost THEN charged ELSE job.cost
    BY <1>0, <2>1 DEF Row
  <2>4. /\ fin'[f].at = "log" /\ fin'[f].to = fin[f].to
        /\ fin'[f].delta = fin[f].delta + (charged - fin[f].cost)
    BY <2>1 DEF TypeOK, Call
  <2>5. \A g \in Finishers : g # f => fin'[g] = fin[g]
    BY <2>1 DEF TypeOK
  <2>6. fin[f].at = "settle" /\ ev' = ev /\ UNCHANGED <<logged, unlogged, reports>>
    BY <1>2 DEF Settle, money
  <2>7. Ended /\ Ended' /\ reports = <<>> /\ fin[f].to = job.status
    BY <1>b, <2>3, <2>6 DEF Ended
  <2>8. CostLogged'
    <3>1. fin[f].cost <= job.cost /\ InFlight(f) = fin[f].delta
      BY <1>a, <2>6 DEF FinishOk, InFlight
    <3>2. InFlight(f)' = fin[f].delta + (charged - fin[f].cost)
      BY <2>4 DEF InFlight
    <3>3. job'.cost + logged + unlogged + InFlight(f) <= job.cost + logged' + unlogged' + InFlight(f)'
      BY <1>0, <2>2, <2>3, <2>6, <3>1, <3>2
    <3>4. QED
      BY <2>5, <2>6, <3>3, OneFlight
  <2>9. ASSUME NEW g \in Finishers PROVE FinishOk(g)'
    <3>1. \A h \in Finishers : h # f => fin'[h].at \notin Past
      BY <1>c, <2>5, <2>6
    <3>2. QED
      BY <2>3, <2>4, <2>6, <2>7, <3>1 DEF FinishOk
  <2>10. QED
    BY <2>6, <2>7, <2>8, <2>9 DEF ReportedOnce
<1>3. CASE LogAndReport(f) \/ FinishCut(f) \/ (FinishWrite(f) /\ ~MayEnd)
  <2>1. fin' = [fin EXCEPT ![f] = NoFinish] /\ UNCHANGED <<job, ev>>
    BY <1>3 DEF LogAndReport, FinishCut, FinishWrite
  <2>2. fin'[f].at = "idle" /\ \A g \in Finishers : g # f => fin'[g] = fin[g]
    BY <2>1 DEF TypeOK, NoFinish
  <2>3. logged' + unlogged' = logged + unlogged + InFlight(f)
    BY <1>0, <1>3 DEF LogAndReport, FinishCut, FinishWrite, ToLog, InFlight, money
  <2>4. InFlight(f)' = 0
    BY <2>2 DEF InFlight
  <2>5. CostLogged'
    <3>1. logged' \in Nat /\ unlogged' \in Nat /\ InFlight(f) \in Nat
      BY CallMoney DEF TypeOK
    <3>2. job'.cost + logged + unlogged + InFlight(f) <= job.cost + logged' + unlogged' + InFlight(f)'
      BY <1>0, <2>1, <2>3, <2>4, <3>1
    <3>3. QED
      BY <2>1, <2>2, <3>2, OneFlight
  <2>6. reports' = reports \/ (past(f) /\ reports' = Append(reports, fin[f].to))
    <3>1. LogAndReport(f) => past(f) /\ reports' = Append(reports, fin[f].to)
      BY DEF LogAndReport
    <3>2. FinishCut(f) => reports' = reports
      BY DEF FinishCut
    <3>3. FinishWrite(f) => reports' = reports
      BY DEF FinishWrite, money
    <3> HIDE DEF past
    <3>4. QED
      BY <1>3, <3>1, <3>2, <3>3
  <2>7. CASE reports' = reports
    <3>1. ASSUME NEW g \in Finishers PROVE FinishOk(g)'
      <4>1. FinishOk(g)
        OBVIOUS
      <4>2. QED
        BY <2>1, <2>2, <2>7, <4>1 DEF FinishOk, Ended
    <3>2. QED
      BY <2>1, <2>5, <2>7, <3>1 DEF ReportedOnce
  <2>8. CASE past(f) /\ reports' = Append(reports, fin[f].to)
    <3>0. reports = <<>> /\ Ended /\ fin[f].to = job.status
      BY <1>b, <2>8
    <3>1. reports' = <<job.status>> /\ Ended /\ Ended'
      BY <2>1, <2>8, <3>0 DEF Ended
    <3>2. ASSUME NEW g \in Finishers PROVE FinishOk(g)' /\ fin'[g].at \notin Past
      <4>1. \A h \in Finishers : fin'[h].at \notin Past
        BY <1>c, <2>2, <2>8
      <4>2. QED
        BY <3>1, <4>1 DEF FinishOk
    <3>3. ReportedOnce'
      BY <2>1, <3>1 DEF ReportedOnce
    <3>4. QED
      BY <2>5, <3>2, <3>3
  <2>9. QED
    BY <2>6, <2>7, <2>8
<1>4. CASE ReadEnded(f)
  <2>1. /\ fin[f].at = "read" /\ fin'[f].at \in {"settle", "log"} /\ fin'[f].to = fin[f].to
        /\ fin'[f].cost = job.cost /\ fin'[f].delta = fin[f].delta
        /\ \A g \in Finishers : g # f => fin'[g] = fin[g]
    BY <1>4 DEF ReadEnded, TypeOK, Call
  <2>2. UNCHANGED <<job, ev, logged, unlogged, reports>>
    BY <1>4 DEF ReadEnded, money
  <2>3. InFlight(f) = fin[f].delta /\ InFlight(f)' = fin[f].delta
    BY <2>1 DEF InFlight
  <2>4. CostLogged'
    <3>1. job'.cost + logged + unlogged + InFlight(f) <= job.cost + logged' + unlogged' + InFlight(f)'
      BY <1>0, <2>2, <2>3
    <3>2. QED
      BY <2>1, <2>2, <3>1, OneFlight
  <2>5. Ended /\ Ended' /\ reports = <<>> /\ fin[f].to = job.status
    BY <1>b, <2>1, <2>2 DEF Ended
  <2>6. ASSUME NEW g \in Finishers PROVE FinishOk(g)'
    <3>1. \A h \in Finishers : h # f => fin'[h].at \notin Past
      BY <1>c, <2>1
    <3>2. QED
      BY <1>0, <2>1, <2>2, <2>5, <3>1 DEF FinishOk
  <2>7. QED
    BY <2>2, <2>4, <2>6 DEF ReportedOnce
<1>5. FinishWrite(f) \/ ReadEnded(f) \/ Settle(f) \/ LogAndReport(f) \/ FinishCut(f)
  BY DEF FinishStep
<1>6. MayEnd \/ ~MayEnd
  OBVIOUS
<1> HIDE DEF past
<1>7. QED
  BY <1>1, <1>2, <1>3, <1>4, <1>5, <1>6

\* Handlers keep what is known of how far the row has come.
LEMMA HandlersRow ==
  ASSUME TypeOK, TypeOK', RowOk, CallersOk, Handlers
  PROVE  RowOk'
<1>0. /\ job \in Row /\ job' \in Row /\ worker \in Worker /\ ev \in Batch /\ fin \in [Finishers -> Call]
      /\ snap \in [Readers -> Active \cup {"none"}]
  BY DEF TypeOK
<1> HIDE DEF TypeOK
<1>1. CASE InsertJob
  BY <1>1, <1>0
  DEF InsertJob, RowOk, Row, Worker, Batch, Finishers, Readers, Active, Terminal, NoFinish, NoBatch
<1>2. CASE Start
  BY <1>2, <1>0
  DEF Start, RowOk, Row, Worker, Batch, Finishers, Readers, Active, Terminal, NoFinish, NoBatch
<1>3. CASE StartFails
  BY <1>3, <1>0
  DEF StartFails, Finish, RowOk, Row, Worker, Batch, Finishers, Readers, Active, Terminal,
      NoFinish, NoBatch
<1>4. CASE StoreStarting
  BY <1>4, <1>0
  DEF StoreStarting, ToStarting, RowOk, Row, Worker, Batch, Finishers, Readers, Active, Terminal,
      NoFinish, NoBatch
<1>5. CASE DispatchDies
  BY <1>5, <1>0
  DEF DispatchDies, RowOk, Row, Worker, Batch, Finishers, Readers, Active, Terminal, NoFinish,
      NoBatch
<1>6. CASE ClaimJob
  <2>1. CASE Claimable
    <3>1. job'.status = "running" /\ job'.cancel = job.cancel /\ ~job.cancel
      BY <1>6, <1>0, <2>1 DEF ClaimJob, Claimable, Row
    <3>2. job.status # "none" /\ UNCHANGED <<disp, ev, worker, snap, fin>>
      BY <1>6, <2>1 DEF ClaimJob, Claimable
    <3>3. QED
      BY <1>0, <3>1, <3>2 DEF RowOk
  <2>2. CASE ~Claimable
    BY <1>6, <2>2, <1>0 DEF ClaimJob, Gone, Resting, RowOk
  <2>3. QED
    BY <2>1, <2>2
<1>7. CASE AnswerClaim
  BY <1>7, <1>0
  DEF AnswerClaim, KeyOfJob, RowOk, Row, Worker, Batch, Finishers, Readers, Active, Terminal,
      NoFinish, NoBatch
<1>8. CASE ClaimRefused
  BY <1>8, <1>0
  DEF ClaimRefused, Finish, Gone, Resting, RowOk, Row, Worker, Batch, Finishers, Readers, Active,
      Terminal, NoFinish, NoBatch
<1>9. CASE ClaimCut
  BY <1>9, <1>0
  DEF ClaimCut, KeyOfJob, RowOk, Row, Worker, Batch, Finishers, Readers, Active, Terminal,
      NoFinish, NoBatch
<1>10. CASE Spend
  BY <1>10, <1>0
  DEF Spend, RowOk, Row, Worker, Batch, Finishers, Readers, Active, Terminal, NoFinish, NoBatch
<1>11. CASE Push
  BY <1>11, <1>0
  DEF Push, RowOk, Row, Worker, Batch, Finishers, Readers, Active, Terminal, NoFinish, NoBatch
<1>12. CASE Pipeline
  BY <1>12, <1>0
  DEF Pipeline, RowOk, Row, Worker, Batch, Finishers, Readers, Active, Terminal, NoFinish, NoBatch
<1>13. CASE PostResult
  BY <1>13, <1>0
  DEF PostResult, Finish, Gone, Resting, RowOk, Row, Worker, Batch, Finishers, Readers, Active,
      Terminal, NoFinish, NoBatch
<1>14. CASE ResultAnswered
  BY <1>14, <1>0
  DEF ResultAnswered, Gone, Resting, RowOk, Row, Worker, Batch, Finishers, Readers, Active,
      Terminal, NoFinish, NoBatch
<1>15. CASE WorkerDies
  BY <1>15, <1>0
  DEF WorkerDies, Gone, Resting, RowOk, Row, Worker, Batch, Finishers, Readers, Active, Terminal,
      NoFinish, NoBatch
<1>16. CASE SendEvents
  BY <1>16, <1>0
  DEF SendEvents, RowOk, Row, Worker, Batch, Finishers, Readers, Active, Terminal, NoFinish, NoBatch
<1>17. CASE AddJobEvents
  BY <1>17, <1>0
  DEF AddJobEvents, SpokeAgain, Fresh, RowOk, Row, Worker, Batch, Finishers, Readers, Active,
      Terminal, NoFinish, NoBatch
<1>18. CASE AnswerEvents
  <2>1. job' = job \/ job' = Cancelled(job)
    BY <1>18 DEF AnswerEvents
  <2>2. /\ job'.status = job.status \/ job'.status = "cancelling"
        /\ job.status \notin {"none", "queued"} /\ job'.status \notin {"none", "queued"}
        /\ job'.cancel => job'.status \in Terminal \cup {"cancelling"}
    BY <1>18, <1>0, <2>1, CancelledRow DEF AnswerEvents, RowOk, Active
  <2>3. worker'.at = worker.at /\ ev'.at = "idle" /\ UNCHANGED <<disp, claim, snap, fin>>
    BY <1>18, <1>0 DEF AnswerEvents, Worker, NoBatch
  <2>4. QED
    BY <2>2, <2>3 DEF RowOk
<1>19. CASE EventsCut
  BY <1>19, <1>0
  DEF EventsCut, Fault, RowOk, Row, Worker, Batch, Finishers, Readers, Active, Terminal, NoFinish,
      NoBatch
<1>20. CASE CancelRead
  BY <1>20, <1>0
  DEF CancelRead, Read, RowOk, Row, Worker, Batch, Finishers, Readers, Active, Terminal, NoFinish,
      NoBatch
<1>21. CASE Cancel
  <2>1. job.status # "none"
    BY <1>21 DEF Cancel, RowOk, Readers
  <2>2. snap'["cancel"] = "none" /\ snap'["reconcile"] = snap["reconcile"]
    BY <1>21, <1>0 DEF Cancel, Forget, Readers
  <2>3. worker'.at = worker.at /\ UNCHANGED <<disp, claim, ev>>
    BY <1>21, <1>0 DEF Cancel, StopExecution, Worker
  <2>4. /\ job'.status # "none" /\ (job.status # "queued" => job'.status # "queued")
        /\ job'.cancel => job'.status \in Terminal \cup {"cancelling"}
    <3>1. CASE snap["cancel"] = "queued"
      BY <1>21, <2>1, <3>1 DEF Cancel, RowOk
    <3>2. CASE snap["cancel"] # "queued"
      <4>1. job' = Cancelled(job) /\ job.status # "queued"
        BY <1>21, <3>2 DEF Cancel, RowOk
      <4>2. QED
        BY <1>0, <2>1, <4>1, CancelledRow DEF RowOk, Active
    <3>3. QED
      BY <3>1, <3>2
  <2>5. QED
    BY <2>1, <2>2, <2>3, <2>4 DEF RowOk
<1>22. CASE ReconcileRead
  BY <1>22, <1>0
  DEF ReconcileRead, Read, RowOk, Row, Worker, Batch, Finishers, Readers, Active, Terminal,
      NoFinish, NoBatch
<1>23. ASSUME NEW verdict \in {"fail", "timeout", "stale", "cancel", "stop"}, Reconcile(verdict)
       PROVE RowOk'
  BY <1>23, <1>0
  DEF Reconcile, Forget, Finish, ToStale, StopExecution, RowOk, Row, Worker, Batch, Finishers,
      Readers, Active, Terminal, NoFinish, NoBatch
<1>24. QED
  BY <1>1, <1>2, <1>3, <1>4, <1>5, <1>6, <1>7, <1>8, <1>9, <1>10, <1>11, <1>12, <1>13, <1>14,
     <1>15, <1>16, <1>17, <1>18, <1>19, <1>20, <1>21, <1>22, <1>23 DEF Handlers

\* A handler begins a call of finish only where none of its own is under way.
LEMMA HandlersCallers ==
  ASSUME TypeOK, CallersOk, Handlers
  PROVE  CallersOk'
<1>0. /\ ev \in Batch /\ fin \in [Finishers -> Call] /\ snap \in [Readers -> Active \cup {"none"}]
  BY DEF TypeOK
<1> HIDE DEF TypeOK
<1>1. CASE InsertJob
  BY <1>1, <1>0 DEF InsertJob, CallersOk, Batch, Finishers, Readers, NoFinish, NoBatch
<1>2. CASE Start
  BY <1>2, <1>0 DEF Start, CallersOk, Batch, Finishers, Readers, NoFinish, NoBatch
<1>3. CASE StartFails
  BY <1>3, <1>0 DEF StartFails, Finish, CallersOk, Batch, Finishers, Readers, NoFinish, NoBatch
<1>4. CASE StoreStarting
  BY <1>4, <1>0
  DEF StoreStarting, ToStarting, CallersOk, Batch, Finishers, Readers, NoFinish, NoBatch
<1>5. CASE DispatchDies
  BY <1>5, <1>0 DEF DispatchDies, CallersOk, Batch, Finishers, Readers, NoFinish, NoBatch
<1>6. CASE ClaimJob
  BY <1>6, <1>0
  DEF ClaimJob, Claimable, Gone, Resting, CallersOk, Batch, Finishers, Readers, NoFinish, NoBatch
<1>7. CASE AnswerClaim
  BY <1>7, <1>0 DEF AnswerClaim, KeyOfJob, CallersOk, Batch, Finishers, Readers, NoFinish, NoBatch
<1>8. CASE ClaimRefused
  BY <1>8, <1>0
  DEF ClaimRefused, Finish, Gone, Resting, CallersOk, Batch, Finishers, Readers, NoFinish, NoBatch
<1>9. CASE ClaimCut
  BY <1>9, <1>0 DEF ClaimCut, KeyOfJob, CallersOk, Batch, Finishers, Readers, NoFinish, NoBatch
<1>10. CASE Spend
  BY <1>10, <1>0 DEF Spend, CallersOk, Batch, Finishers, Readers, NoFinish, NoBatch
<1>11. CASE Push
  BY <1>11, <1>0 DEF Push, CallersOk, Batch, Finishers, Readers, NoFinish, NoBatch
<1>12. CASE Pipeline
  BY <1>12, <1>0 DEF Pipeline, CallersOk, Batch, Finishers, Readers, NoFinish, NoBatch
<1>13. CASE PostResult
  BY <1>13, <1>0
  DEF PostResult, Finish, Gone, Resting, CallersOk, Batch, Finishers, Readers, NoFinish, NoBatch
<1>14. CASE ResultAnswered
  BY <1>14, <1>0
  DEF ResultAnswered, Gone, Resting, CallersOk, Batch, Finishers, Readers, NoFinish, NoBatch
<1>15. CASE WorkerDies
  BY <1>15, <1>0
  DEF WorkerDies, Gone, Resting, CallersOk, Batch, Finishers, Readers, NoFinish, NoBatch
<1>16. CASE SendEvents
  BY <1>16, <1>0 DEF SendEvents, CallersOk, Batch, Finishers, Readers, NoFinish, NoBatch
<1>17. CASE AddJobEvents
  BY <1>17, <1>0
  DEF AddJobEvents, SpokeAgain, Fresh, CallersOk, Batch, Finishers, Readers, NoFinish, NoBatch
<1>18. CASE AnswerEvents
  BY <1>18, <1>0 DEF AnswerEvents, Running, CallersOk, Batch, Finishers, Readers, NoFinish, NoBatch
<1>19. CASE EventsCut
  BY <1>19, <1>0 DEF EventsCut, Fault, CallersOk, Batch, Finishers, Readers, NoFinish, NoBatch
<1>20. CASE CancelRead
  BY <1>20, <1>0 DEF CancelRead, Read, CallersOk, Batch, Finishers, Readers, NoFinish, NoBatch
<1>21. CASE Cancel
  BY <1>21, <1>0
  DEF Cancel, Forget, Finish, StopExecution, CallersOk, Batch, Finishers, Readers, NoFinish, NoBatch
<1>22. CASE ReconcileRead
  BY <1>22, <1>0 DEF ReconcileRead, Read, CallersOk, Batch, Finishers, Readers, NoFinish, NoBatch
<1>23. ASSUME NEW verdict \in {"fail", "timeout", "stale", "cancel", "stop"}, Reconcile(verdict)
       PROVE CallersOk'
  BY <1>23, <1>0
  DEF Reconcile, Forget, Finish, ToStale, StopExecution, CallersOk, Batch, Finishers, Readers,
      NoFinish, NoBatch
<1>24. QED
  BY <1>1, <1>2, <1>3, <1>4, <1>5, <1>6, <1>7, <1>8, <1>9, <1>10, <1>11, <1>12, <1>13, <1>14,
     <1>15, <1>16, <1>17, <1>18, <1>19, <1>20, <1>21, <1>22, <1>23 DEF Handlers

\* The steps of finish keep both: they end a job that is there.
LEMMA FinishRow ==
  ASSUME TypeOK, TypeOK', RowOk, CallersOk, NEW f \in Finishers, FinishStep(f) \/ FinishCut(f)
  PROVE  RowOk' /\ CallersOk'
<1>0. job \in Row /\ fin \in [Finishers -> Call] /\ fin[f].to \in Terminal
  BY DEF TypeOK, Call
<1>1. UNCHANGED <<disp, claim, ev, worker, snap>>
  BY DEF FinishStep, FinishWrite, ReadEnded, Settle, LogAndReport, FinishCut
<1>2. fin[f].at # "idle"
  BY DEF FinishStep, FinishWrite, ReadEnded, Settle, LogAndReport, FinishCut
<1>3. \A g \in Finishers : g # f => fin'[g] = fin[g]
  BY <1>0 DEF FinishStep, FinishWrite, ReadEnded, Settle, LogAndReport, FinishCut
<1>4. job'.cancel = job.cancel /\ (job'.status = job.status \/ job'.status \in Terminal)
  BY <1>0 DEF FinishStep, FinishWrite, ReadEnded, Settle, LogAndReport, FinishCut, Row
<1>5. job.status # "none" /\ job'.status # "none"
  BY <1>2, <1>4 DEF RowOk, Terminal
<1>6. RowOk'
  BY <1>1, <1>4, <1>5 DEF RowOk, Terminal
<1>7. CallersOk'
  BY <1>0, <1>1, <1>2, <1>3 DEF CallersOk, Finishers, Readers
<1>8. QED
  BY <1>6, <1>7

\* JobsInv is inductive.
LEMMA NextJobs ==
  ASSUME JobsInv, [Next]_vars
  PROVE  JobsInv'
<1>1. /\ TypeOK /\ CostLogged /\ ReportedOnce /\ RowOk /\ CallersOk
      /\ \A f \in Finishers : FinishOk(f)
  BY DEF JobsInv
<1>2. CASE Handlers
  <2>1. TypeOK' /\ Quiet
    BY <1>1, <1>2, HandlersType, HandlersQuiet
  <2>2. CostLogged' /\ ReportedOnce' /\ (\A f \in Finishers : FinishOk(f))'
    BY <1>1, <2>1, QuietCost, QuietReported, QuietFinish
  <2>3. RowOk' /\ CallersOk'
    BY <1>1, <1>2, <2>1, HandlersRow, HandlersCallers
  <2>4. QED
    BY <2>1, <2>2, <2>3 DEF JobsInv
<1>3. ASSUME NEW f \in Finishers, FinishStep(f) \/ FinishCut(f) PROVE JobsInv'
  <2>1. TypeOK'
    BY <1>1, <1>3, FinishType
  <2>2. CostLogged' /\ ReportedOnce' /\ (\A g \in Finishers : FinishOk(g))'
    BY <1>1, <1>3, <2>1, FinishSound
  <2>3. RowOk' /\ CallersOk'
    BY <1>1, <1>3, <2>1, FinishRow
  <2>4. QED
    BY <2>1, <2>2, <2>3 DEF JobsInv
<1>4. CASE UNCHANGED vars
  BY <1>1, <1>4 DEF JobsInv, TypeOK, CostLogged, InFlight, ReportedOnce, RowOk, FinishOk, CallersOk,
                    Ended, vars, money, limits
<1>5. QED
  BY <1>2, <1>3, <1>4 DEF Next, Handlers

\* JobsInv always holds: the state is well typed, and every unit by which the row's cost was raised
\* is logged, is owed by a writer under way or was lost with one that was cut (AddJobEvents,
\* FinishJob, settleKey), for every budget and every bound.
THEOREM JobsInvariant == Spec => []JobsInv
<1>1. Init => JobsInv
  BY InitJobs
<1>2. JobsInv /\ [Next]_vars => JobsInv'
  BY NextJobs
<1>3. QED
  BY <1>1, <1>2, PTL DEF Spec

\* A job is reported once, and as what its row says, whoever of the dispatch, the claim, the worker,
\* a canceller and the reconciler ends it first (finish, FinishJob).
THEOREM ReportedOnceAlways == Spec => []ReportedOnce
<1>1. JobsInv => ReportedOnce
  BY DEF JobsInv
<1>2. QED
  BY <1>1, JobsInvariant, PTL

\* A step takes a job that was asked to stop nowhere but to its end.
LEMMA CancelStays ==
  ASSUME JobsInv, JobsInv', [Next]_vars
  PROVE  job.cancel => job'.cancel /\ (job'.status = job.status \/ job'.status \in Terminal)
<1> SUFFICES ASSUME job.cancel
             PROVE  job'.cancel /\ (job'.status = job.status \/ job'.status \in Terminal)
  OBVIOUS
<1>1. TypeOK /\ RowOk /\ CallersOk /\ job \in Row /\ job.status \in Terminal \cup {"cancelling"}
  BY DEF JobsInv, RowOk, TypeOK
<1>2. job'.cancel => job'.status \in Terminal \cup {"cancelling"}
  BY DEF JobsInv, RowOk
<1>3. CASE Handlers
  <2>1. Quiet
    BY <1>1, <1>3, HandlersQuiet
  <2>2. job' = job \/ job' = Cancelled(job) \/ job'.cancel = job.cancel
    <3>1. CASE AnswerEvents \/ Cancel
      BY <3>1 DEF AnswerEvents, Cancel
    <3>2. CASE \/ InsertJob \/ StoreStarting \/ ClaimJob \/ AnswerClaim \/ ClaimCut \/ AddJobEvents
               \/ \E verdict \in {"fail", "timeout", "stale", "cancel", "stop"} : Reconcile(verdict)
      BY <1>1, <3>2
      DEF InsertJob, StoreStarting, ClaimJob, AnswerClaim, ClaimCut, AddJobEvents, Reconcile, Row
    <3>3. CASE \/ Start \/ StartFails \/ DispatchDies \/ ClaimRefused \/ Spend \/ Push \/ Pipeline
               \/ PostResult \/ ResultAnswered \/ WorkerDies \/ SendEvents \/ EventsCut \/ CancelRead
               \/ ReconcileRead
      BY <3>3 DEF Start, StartFails, DispatchDies, ClaimRefused, Spend, Push, Pipeline, PostResult,
                  ResultAnswered, WorkerDies, SendEvents, EventsCut, CancelRead, ReconcileRead
    <3>4. QED
      BY <1>3, <3>1, <3>2, <3>3 DEF Handlers
  <2>3. Cancelled(job) = job
    BY DEF Cancelled
  <2>4. job'.cancel
    BY <2>2, <2>3
  <2>5. QED
    BY <1>1, <1>2, <2>1, <2>4 DEF Quiet
<1>4. ASSUME NEW f \in Finishers, FinishStep(f) \/ FinishCut(f)
      PROVE  job'.cancel /\ (job'.status = job.status \/ job'.status \in Terminal)
  <2>1. fin[f].to \in Terminal
    BY DEF JobsInv, TypeOK, Call
  <2>2. job'.cancel = job.cancel /\ (job'.status = job.status \/ job'.status \in Terminal)
    BY <1>1, <1>4, <2>1 DEF FinishStep, FinishWrite, ReadEnded, Settle, LogAndReport, FinishCut, Row
  <2>3. QED
    BY <2>2
<1>5. CASE UNCHANGED vars
  BY <1>5 DEF vars
<1>6. QED
  BY <1>3, <1>4, <1>5 DEF Next, Handlers

\* A job asked to stop does not run again (RequestJobCancel, the claim, SetJobStatus, AddJobEvents).
THEOREM CancelSticksAlways == Spec => CancelSticks
<1>1. JobsInv /\ JobsInv' /\ [Next]_vars
      => [job.cancel => job'.cancel /\ (job'.status = job.status \/ job'.status \in Terminal)]_vars
  BY CancelStays
<1>2. QED
  BY <1>1, JobsInvariant, PTL DEF Spec, CancelSticks
=============================================================================
