------------------------------ MODULE FixJobs -------------------------------
(***************************************************************************)
(* The life of one fix job: the bot that dispatches it, the worker that    *)
(* claims it, reports what it spends and posts a result, whoever cancels   *)
(* it, and the reconciler that ends it when its worker does not.  All meet *)
(* in the job's row.  Money is in units of which the worker spends one at  *)
(* a time.  Time is left out: a grace, or the deadline, may have run out    *)
(* whenever a pass of the reconciler looks.                                *)
(***************************************************************************)
EXTENDS Naturals, Sequences, FiniteSets

CONSTANTS
  PerJobKey,   \* whether a model key is minted for the job (OPENROUTER_PROVISIONING_KEY)
  Budget,      \* units over which the bot cancels the job (a quarter over its budget)
  MaxSpend,    \* bound: units the worker spends
  MaxClaims,   \* claims of one job; three in the code
  MaxCancels,  \* bound: cancels asked for
  MaxFaults    \* bound: batches cut, stops that do nothing, finishes that fail

ASSUME FixJobsAssumption ==
  /\ PerJobKey \in BOOLEAN
  /\ Budget \in Nat /\ MaxSpend \in Nat /\ MaxClaims \in Nat \ {0}
  /\ MaxCancels \in Nat /\ MaxFaults \in Nat

Terminal == {"succeeded", "failed", "cancelled", "timeout"}
Active == {"queued", "starting", "running", "stale", "cancelling"}
Statuses == Terminal \cup Active \cup {"none"}
Finishers == {"dispatch", "claim", "cancel", "reconcile", "result"}  \* who calls finish
Readers == {"cancel", "reconcile"}                                   \* who acts on a row read before
Units == 1..MaxSpend

VARIABLES
  job,       \* the row of jobs
  stored,    \* the units whose events are in job_events
  disp,      \* where Dispatch is
  claim,     \* the claim being answered
  ev,        \* the batch of events being stored
  worker,    \* the worker and its reporter
  spent,     \* units the worker has spent
  snap,      \* the row as a canceller or the reconciler read it
  fin,       \* the calls of finish under way
  logged,    \* units in the usage log
  unlogged,  \* units whose writer was cut between the row and the log
  reports,   \* the outcome of each report posted
  cancels,
  faults

money == <<logged, unlogged, reports>>
limits == <<cancels, faults>>
vars == <<job, stored, disp, claim, ev, worker, spent, snap, fin, money, limits>>

Past == {"read", "settle", "log"}  \* where a call of finish is once it has ended the job
Row == [status : Statuses, cancel : BOOLEAN, key : {"none", "live", "deleted"}, claims : 0..MaxClaims, cost : Nat]
Batch == [at : {"idle", "got", "stored"}, units : SUBSET Units, used : Nat]
Worker == [at : {"none", "up", "work", "pushed", "report", "posted", "gone"}, told : BOOLEAN,
           queue : SUBSET Units, result : Terminal]
Call == [at : {"idle", "write"} \cup Past, to : Terminal, total : Nat, cost : Nat, delta : Nat]
NoFinish == [at |-> "idle", to |-> "failed", total |-> 0, cost |-> 0, delta |-> 0]
NoBatch == [at |-> "idle", units |-> {}, used |-> 0]
Resting(at) == [at |-> at, told |-> FALSE, queue |-> {}, result |-> "failed"]
Gone == Resting("gone")

TypeOK ==
  /\ job \in Row /\ stored \subseteq Units /\ disp \in {"ready", "inserted", "started", "done"}
  /\ claim \in {"idle", "granted"}
  /\ ev \in Batch /\ worker \in Worker
  /\ spent \in 0..MaxSpend
  /\ snap \in [Readers -> Active \cup {"none"}]
  /\ fin \in [Finishers -> Call]
  /\ logged \in Nat /\ unlogged \in Nat
  /\ reports \in Seq(Terminal)
  /\ cancels \in 0..MaxCancels /\ faults \in 0..MaxFaults

Init ==
  /\ job = [status |-> "none", cancel |-> FALSE, key |-> "none", claims |-> 0, cost |-> 0]
  /\ stored = {} /\ disp = "ready" /\ claim = "idle" /\ ev = NoBatch
  /\ worker = Resting("none")
  /\ spent = 0
  /\ snap = [r \in Readers |-> "none"] /\ fin = [f \in Finishers |-> NoFinish]
  /\ logged = 0 /\ unlogged = 0 /\ reports = <<>>
  /\ cancels = 0 /\ faults = 0

Fault == faults < MaxFaults /\ faults' = faults + 1 /\ UNCHANGED cancels
Ended == job.status \in Terminal
Running == worker.at \in {"up", "work", "pushed", "report", "posted"}
-----------------------------------------------------------------------------
(* finish and FinishJob: read the row, write the end unless somebody has,  *)
(* settle the key, log what the events had not, report.                    *)

\* The select that finish begins with belongs to the step of its caller.
Finish(f, to, total) ==
  fin' = [fin EXCEPT ![f] = IF Ended THEN NoFinish
                            ELSE [at |-> "write", to |-> to, total |-> total, cost |-> job.cost, delta |-> 0]]

\* (mutant: the update trusts the status that was read)
MayEndUnchecked == TRUE

MayEnd == ~Ended

\* The row's cost becomes the total the result carries, or what was read when that is more.
FinishWrite(f) ==
  /\ fin[f].at = "write"
  /\ IF MayEnd
     THEN LET delta == IF fin[f].total > fin[f].cost THEN fin[f].total - fin[f].cost ELSE 0
              cost  == fin[f].cost + delta
          IN /\ job' = [job EXCEPT !.status = fin[f].to, !.cost = cost]
             /\ fin' = [fin EXCEPT ![f].at = "read", ![f].total = 0, ![f].cost = 0, ![f].delta = delta]
     ELSE fin' = [fin EXCEPT ![f] = NoFinish] /\ UNCHANGED job
  /\ UNCHANGED <<stored, disp, claim, ev, worker, spent, snap, money, limits>>

\* The row is read again, and may show events stored since the job ended.
ReadEnded(f) ==
  /\ fin[f].at = "read"
  /\ fin' = [fin EXCEPT ![f].at = IF job.key = "live" THEN "settle" ELSE "log", ![f].cost = job.cost]
  /\ UNCHANGED <<job, stored, disp, claim, ev, worker, spent, snap, money, limits>>

\* settleKey: what the key was charged and the row, as it was read, does not show is the job's too;
\* the provider may not answer.  The key is deleted, or that fails and it stays good.
Settle(f) ==
  /\ fin[f].at = "settle"
  /\ \E charged \in {fin[f].cost, IF spent > fin[f].cost THEN spent ELSE fin[f].cost}, key \in {"deleted", job.key} :
       /\ job' = [job EXCEPT !.key = key, !.cost = IF charged > fin[f].cost THEN charged ELSE @]
       /\ fin' = [fin EXCEPT ![f].at = "log", ![f].cost = 0, ![f].delta = @ + (charged - fin[f].cost)]
  /\ UNCHANGED <<stored, disp, claim, ev, worker, spent, snap, money, limits>>

\* (mutant: what the events had not counted is not logged)
ToLogNothing(f) == 0

ToLog(f) == fin[f].delta

LogAndReport(f) ==
  /\ fin[f].at = "log"
  /\ logged' = logged + ToLog(f)
  /\ reports' = Append(reports, fin[f].to)
  /\ fin' = [fin EXCEPT ![f] = NoFinish]
  /\ UNCHANGED <<job, stored, disp, claim, ev, worker, spent, snap, unlogged, limits>>

\* The statement fails, the process dies, or the request finish runs under is given up.
FinishCut(f) ==
  /\ fin[f].at # "idle" /\ Fault
  /\ unlogged' = unlogged + (IF fin[f].at \in Past THEN fin[f].delta ELSE 0)
  /\ fin' = [fin EXCEPT ![f] = NoFinish]
  /\ UNCHANGED <<job, stored, disp, claim, ev, worker, spent, snap, logged, reports>>
-----------------------------------------------------------------------------
(* Dispatch: the row, the execution, and the row again.                    *)

InsertJob ==
  /\ disp = "ready"
  /\ disp' = "inserted" /\ job' = [job EXCEPT !.status = "queued"]
  /\ UNCHANGED <<stored, claim, ev, worker, spent, snap, fin, money, limits>>

Start ==
  /\ disp = "inserted"
  /\ disp' = "started" /\ worker' = [worker EXCEPT !.at = "up"]
  /\ UNCHANGED <<job, stored, claim, ev, spent, snap, fin, money, limits>>

\* An error from the platform, which may have started the execution all the same.
StartFails ==
  /\ disp = "inserted"
  /\ disp' = "done" /\ Finish("dispatch", "failed", 0)
  /\ \E at \in {"none", "up"} : worker' = [worker EXCEPT !.at = at]
  /\ UNCHANGED <<job, stored, claim, ev, spent, snap, money, limits>>

ToStarting == job.status = "queued"

StoreStarting ==
  /\ disp = "started"
  /\ disp' = "done"
  /\ job' = IF ToStarting THEN [job EXCEPT !.status = "starting"] ELSE job
  /\ UNCHANGED <<stored, claim, ev, worker, spent, snap, fin, money, limits>>

\* The bot stops here, or gives up on a row it cannot write or a workspace it cannot reach.
DispatchDies ==
  /\ disp \in {"inserted", "started"}
  /\ disp' = "done"
  /\ UNCHANGED <<job, stored, claim, ev, worker, spent, snap, fin, money, limits>>
-----------------------------------------------------------------------------
(* handleJobClaim, for a worker that tries again when it hears nothing.    *)

Claimable ==
  /\ job.status \in {"starting", "running", "stale"}
  /\ job.claims < MaxClaims /\ ~job.cancel

ClaimJob ==
  /\ worker.at = "up" /\ ~worker.told /\ claim = "idle"
  /\ IF Claimable
     THEN /\ job' = [job EXCEPT !.status = "running", !.claims = @ + 1]
          /\ claim' = "granted"
          /\ UNCHANGED worker
     ELSE worker' = Gone /\ UNCHANGED <<job, claim>>
  /\ UNCHANGED <<stored, disp, ev, spent, snap, fin, money, limits>>

KeyOfJob == IF PerJobKey /\ job.key = "none" THEN "live" ELSE job.key

\* llmSecret and the answer: a key made for the job, or the one an earlier claim put on the row.
\* The job may have ended since the claim was granted.
AnswerClaim ==
  /\ claim = "granted"
  /\ claim' = "idle" /\ job' = [job EXCEPT !.key = KeyOfJob]
  /\ worker' = IF worker.at = "up" THEN [worker EXCEPT !.at = "work"] ELSE worker
  /\ UNCHANGED <<stored, disp, ev, spent, snap, fin, money, limits>>

\* No connection, no repository token or no model key: the job ends, and its worker with it.
ClaimRefused ==
  /\ claim = "granted" /\ fin["claim"].at = "idle"
  /\ claim' = "idle" /\ Finish("claim", "failed", 0)
  /\ worker' = IF worker.at = "up" THEN Gone ELSE worker
  /\ UNCHANGED <<job, stored, disp, ev, spent, snap, money, limits>>

\* The worker gives up waiting, which ends the request where it is: a key just made may be on the
\* row or not.
ClaimCut ==
  /\ claim # "idle"
  /\ claim' = "idle"
  /\ job' \in {job, [job EXCEPT !.key = KeyOfJob]}
  /\ UNCHANGED <<stored, disp, ev, worker, spent, snap, fin, money, limits>>
-----------------------------------------------------------------------------
(* The worker and its reporter.                                            *)

\* A unit is spent while the key is good, and its event queued.
Spend ==
  /\ worker.at = "work" /\ ~worker.told /\ spent < MaxSpend
  /\ job.key # "deleted"
  /\ spent' = spent + 1
  /\ worker' = [worker EXCEPT !.queue = @ \cup {spent'}]
  /\ UNCHANGED <<job, stored, disp, claim, ev, snap, fin, money, limits>>

\* The branch is pushed and the pull request opened, unless the worker has been stopped.
Push ==
  /\ worker.at = "work" /\ ~worker.told
  /\ worker' = [worker EXCEPT !.at = "pushed"]
  /\ UNCHANGED <<job, stored, disp, claim, ev, spent, snap, fin, money, limits>>

\* The pipeline is over: pushed and done or failed at the pull request, stopped, or failed.
Pipeline ==
  /\ worker.at \in {"work", "pushed"}
  /\ \E to \in IF worker.at = "pushed" THEN {"succeeded", "failed"}
               ELSE IF worker.told THEN {"cancelled"} ELSE {"failed", "timeout"} :
       worker' = [worker EXCEPT !.at = "report", !.result = to]
  /\ UNCHANGED <<job, stored, disp, claim, ev, spent, snap, fin, money, limits>>

\* handleJobResult: the result carries the total spent.  The worker waits ten seconds for its
\* last events and no longer, so they may be under way.
PostResult ==
  /\ worker.at = "report" /\ fin["result"].at = "idle"
  /\ IF Ended
     THEN worker' = Gone /\ UNCHANGED fin
     ELSE worker' = [worker EXCEPT !.at = "posted"] /\ Finish("result", worker.result, spent)
  /\ UNCHANGED <<job, stored, disp, claim, ev, spent, snap, money, limits>>

\* The answer comes, whatever finish made of it, or does not and the result is posted again.
ResultAnswered ==
  /\ worker.at = "posted" /\ fin["result"].at = "idle"
  /\ worker' \in {Gone, [worker EXCEPT !.at = "report"]}
  /\ UNCHANGED <<job, stored, disp, claim, ev, spent, snap, fin, money, limits>>

WorkerDies ==
  /\ Running
  /\ worker' = Gone
  /\ UNCHANGED <<job, stored, disp, claim, ev, spent, snap, fin, money, limits>>
-----------------------------------------------------------------------------
(* handleJobEvents.                                                        *)

\* A finished job wants no events, and none are sent again; the pipeline goes on.  An empty batch
\* is a heartbeat.
SendEvents ==
  /\ worker.at \in {"work", "pushed", "report"} /\ ev.at = "idle" /\ ~Ended
  /\ worker' = [worker EXCEPT !.queue = {}]
  /\ ev' = [at |-> "got", units |-> worker.queue, used |-> 0]
  /\ UNCHANGED <<job, stored, disp, claim, spent, snap, fin, money, limits>>

Fresh(units) == units \ stored

\* (mutant: whatever speaks is running)
SpokeAgainAny == IF Ended THEN job.status ELSE "running"

SpokeAgain == IF job.status = "stale" THEN "running" ELSE job.status

\* AddJobEvents does not ask whether the job has ended since the token was checked.
AddJobEvents ==
  /\ ev.at = "got"
  /\ LET used == Cardinality(Fresh(ev.units)) IN
       /\ stored' = stored \cup ev.units
       /\ ev' = [ev EXCEPT !.at = "stored", !.used = used]
       /\ job' = IF ev.units = {} \/ used > 0
                 THEN [job EXCEPT !.status = SpokeAgain, !.cost = @ + used] ELSE job
  /\ UNCHANGED <<disp, claim, worker, spent, snap, fin, money, limits>>

\* RequestJobCancel
Cancelled(j) ==
  IF j.cancel \/ j.status \notin Active THEN j
  ELSE [j EXCEPT !.cancel = TRUE,
                 !.status = IF @ \in {"starting", "running", "stale"} THEN "cancelling" ELSE @]

\* The usage is logged, a job over its budget is cancelled, and the worker told to stop if it is.
AnswerEvents ==
  /\ ev.at = "stored"
  /\ logged' = logged + ev.used /\ ev' = NoBatch
  /\ job' = IF job.cost > Budget THEN Cancelled(job) ELSE job
  /\ worker' = IF Running THEN [worker EXCEPT !.told = @ \/ job'.cancel] ELSE worker
  /\ UNCHANGED <<stored, disp, claim, spent, snap, fin, unlogged, reports, limits>>

\* The request is cut: before the batch is stored, before its usage is logged, or with the answer
\* unheard.  The reporter sends the same events again, or has tried three times.
EventsCut ==
  /\ ev.at # "idle" /\ Fault
  /\ \E heard \in BOOLEAN :
       /\ heard => ev.at = "stored"
       /\ logged' = logged + (IF heard THEN ev.used ELSE 0)
       /\ unlogged' = unlogged + (IF heard THEN 0 ELSE ev.used)
  /\ \/ UNCHANGED worker
     \/ Running /\ worker' = [worker EXCEPT !.queue = @ \cup ev.units]
  /\ ev' = NoBatch
  /\ UNCHANGED <<job, stored, disp, claim, spent, snap, fin, reports>>
-----------------------------------------------------------------------------
(* Cancelling, and the reconciler: each acts on the row it has read.       *)

Read(r) == snap' = [snap EXCEPT ![r] = job.status]
Forget(r) == snap' = [snap EXCEPT ![r] = "none"]

\* stopExecution: the worker is told to stop, and is killed if it does not in time (WorkerDies);
\* or it was started by a process that is gone, and is not reached.  A job that has left queued
\* has the name of its execution on its row.
StopExecution ==
  \/ worker' = (IF Running THEN [worker EXCEPT !.told = TRUE] ELSE worker) /\ UNCHANGED limits
  \/ Running /\ Fault /\ UNCHANGED worker

CancelRead ==
  /\ snap["cancel"] = "none" /\ fin["cancel"].at = "idle" /\ cancels < MaxCancels
  /\ job.status \in Active
  /\ Read("cancel") /\ cancels' = cancels + 1
  /\ UNCHANGED <<job, stored, disp, claim, ev, worker, spent, fin, money, faults>>

\* A job that was queued ends at once; one that was starting is flagged, stopped and ended; a
\* running one is flagged, and its worker hears of it with its next events.
Cancel ==
  LET was == snap["cancel"] IN
  /\ was # "none" /\ Forget("cancel")
  /\ CASE was = "queued" -> Finish("cancel", "cancelled", 0) /\ UNCHANGED <<job, worker, limits>>
       [] was = "starting" /\ Cancelled(job) # job ->
            /\ job' = Cancelled(job)
            /\ StopExecution /\ Finish("cancel", "cancelled", 0)
       [] OTHER -> job' = Cancelled(job) /\ UNCHANGED <<fin, worker, limits>>
  /\ UNCHANGED <<stored, disp, claim, ev, spent, money>>

\* A pass finds a grace run out, or the job past its deadline.
ReconcileRead ==
  /\ snap["reconcile"] = "none" /\ fin["reconcile"].at = "idle"
  /\ job.status \in Active
  /\ Read("reconcile")
  /\ UNCHANGED <<job, stored, disp, claim, ev, worker, spent, fin, money, limits>>

ToStale == job.status = "running"

\* (mutant: a job past its deadline is only called stale)
VerdictsPatient(was) ==
  CASE was = "queued" -> {"fail"}
    [] was \in {"running", "stale"} -> IF worker.at = "gone" THEN {"fail"} ELSE {"stale"}
    [] was = "cancelling" -> {"cancel"}
    [] OTHER -> {"stop"}

\* What reconcile may do with a job that was in this state when a grace ran out: a running one is
\* past its deadline or has been silent, and then it matters whether its execution is known to be
\* over; of one that is the platform may not say.
Verdicts(was) ==
  CASE was = "queued" -> {"fail"}
    [] was = "running" -> {"timeout", "stale"} \cup (IF worker.at = "gone" THEN {"fail"} ELSE {})
    [] was = "stale" -> {"stop"} \cup (IF worker.at = "gone" THEN {"fail"} ELSE {})
    [] was = "cancelling" -> {"cancel"}
    [] OTHER -> {"stop"}

Outcome(verdict) == CASE verdict = "timeout" -> "timeout"
                      [] verdict = "cancel" -> "cancelled"
                      [] OTHER -> "failed"

Reconcile(verdict) ==
  LET was == snap["reconcile"] IN
  /\ was # "none" /\ verdict \in Verdicts(was)
  /\ Forget("reconcile")
  /\ CASE verdict = "stale" ->
            /\ job' = IF ToStale THEN [job EXCEPT !.status = "stale"] ELSE job
            /\ UNCHANGED <<fin, worker, limits>>
       [] verdict = "fail" -> Finish("reconcile", "failed", 0) /\ UNCHANGED <<job, worker, limits>>
       [] OTHER -> /\ StopExecution /\ Finish("reconcile", Outcome(verdict), 0)
                   /\ UNCHANGED job
  /\ UNCHANGED <<stored, disp, claim, ev, spent, money>>
-----------------------------------------------------------------------------
FinishStep(f) == FinishWrite(f) \/ ReadEnded(f) \/ Settle(f) \/ LogAndReport(f)

Next ==
  \/ \E f \in Finishers : FinishStep(f) \/ FinishCut(f)
  \/ InsertJob \/ Start \/ StartFails \/ StoreStarting \/ DispatchDies
  \/ ClaimJob \/ AnswerClaim \/ ClaimRefused \/ ClaimCut
  \/ Spend \/ Push \/ Pipeline \/ PostResult \/ ResultAnswered \/ WorkerDies
  \/ SendEvents \/ AddJobEvents \/ AnswerEvents \/ EventsCut
  \/ CancelRead \/ Cancel \/ ReconcileRead
  \/ \E verdict \in {"fail", "timeout", "stale", "cancel", "stop"} : Reconcile(verdict)

\* The reconciler's loop runs and its passes end.  The deadline is a time: passes that find a
\* running job are not all before it.  Nothing is asked of the worker, of its requests or of who
\* cancels.
Spec ==
  /\ Init /\ [][Next]_vars
  /\ WF_vars(ReconcileRead) /\ WF_vars(FinishStep("reconcile"))
  /\ WF_vars(\E verdict \in {"fail", "timeout", "stale", "cancel", "stop"} : Reconcile(verdict))
  /\ SF_vars(Reconcile("timeout"))
-----------------------------------------------------------------------------
InFlight(f) == IF fin[f].at \in Past THEN fin[f].delta ELSE 0

\* Whatever a row's cost was raised by is in the usage log, or its writer is about to put it
\* there, or was cut at that point: no order of events, results, settlements and reconciler
\* verdicts leaves cost on the row that nobody logs (AddJobEvents, FinishJob, settleKey).
CostLogged ==
  job.cost <= logged + unlogged + ev.used + InFlight("dispatch") + InFlight("claim")
                + InFlight("cancel") + InFlight("reconcile") + InFlight("result")

\* A job is reported once, and as what its row says: of all that end it, one does, and nothing
\* that writes the row afterwards changes how (finish, FinishJob, SetJobStatus).
ReportedOnce == Len(reports) <= 1 /\ \A i \in DOMAIN reports : reports[i] = job.status

\* The invariant of the proofs, with its parts.  How far the row has come: nothing happens to a job
\* before it is there, nobody but its dispatch knows of one still queued, and a job asked to stop
\* is stopping or has ended.
RowOk ==
  /\ disp = "ready" <=> job.status = "none"
  /\ job.status = "none" =>
       (\A f \in Finishers : fin[f].at = "idle") /\ (\A r \in Readers : snap[r] = "none")
  /\ (\/ claim = "granted" \/ worker.at \in {"work", "pushed", "report", "posted"}
      \/ ev.at # "idle" \/ snap["cancel"] \notin {"none", "queued"})
     => job.status \notin {"none", "queued"}
  /\ job.cancel => job.status \in Terminal \cup {"cancelling"}

\* The calls of finish: what each has read of a row that others write, and the one past the update
\* being the job's own end.
FinishOk(f) ==
  /\ fin[f].at = "write" /\ ~Ended => fin[f].cost <= job.cost
  /\ fin[f].at \in Past => fin[f].to = job.status /\ reports = <<>>
  /\ fin[f].at = "settle" => fin[f].cost <= job.cost
  /\ \A g \in Finishers : g # f => ~{fin[f].at, fin[g].at} \subseteq Past

\* A caller starts one call of finish at a time, and a batch counts once it is stored.
CallersOk ==
  /\ fin["dispatch"].at # "idle" => disp = "done"
  /\ \A r \in Readers : snap[r] # "none" => fin[r].at = "idle"
  /\ ev.at # "stored" => ev.used = 0

\* The job and all that act on it are well typed, its cost is logged (CostLogged) and it is
\* reported once.  Inductive.
JobsInv ==
  TypeOK /\ CostLogged /\ ReportedOnce /\ RowOk /\ (\A f \in Finishers : FinishOk(f)) /\ CallersOk

\* A job asked to stop does not run again: neither a late claim, nor events from its worker, nor
\* the reconciler or the dispatch storing a status, take it out of cancelling but to end it.
CancelSticks ==
  [][job.cancel => job'.cancel /\ (job'.status = job.status \/ job'.status \in Terminal)]_vars

\* A job that was created ends, whatever its worker, its dispatch and its platform do, and though
\* a worker that is heard from again takes it out of stale each time (reconcile).
JobEnds == job.status = "queued" ~> Ended

\* What a job spent is logged once: the log never shows more than was spent.
LoggedOnce == logged <= spent
=============================================================================
