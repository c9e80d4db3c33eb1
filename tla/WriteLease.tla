----------------------------- MODULE WriteLease -----------------------------
(***************************************************************************)
(* The single-writer lease: on SQLite the database is a local file that    *)
(* Litestream streams to a bucket, and a process may touch it only while   *)
(* the lock object in that bucket names it.  A process boots, waits for    *)
(* the lease, restores the database, serves, and shuts down; beside that   *)
(* it renews the lease, and stands down when it cannot.                    *)
(*                                                                         *)
(* The lock object is read and written over the network: a write may be    *)
(* refused, may fail, or may land without its answer.  Nothing fences the  *)
(* database itself, so what keeps two writers apart is time.               *)
(***************************************************************************)
EXTENDS Naturals, FiniteSets

CONSTANTS
  Procs,       \* the containers
  NoProc,      \* the holder of a lock object that is not there
  TTL,         \* leaseTTL
  Renew,       \* leaseRenew
  SelfFence,   \* leaseSelfFence
  Shutdown,    \* leaseShutdown
  OpTimeout,   \* leaseOpTimeout
  Poll,        \* leasePoll, the random part of the wait included
  StealAfter,  \* leaseStealAfter
  GiveUpAfter, \* leaseGiveUp
  MaxRestore,  \* restoreTimeout, and what else start-up takes before the lease is watched
  Skew,        \* how far a container's clock runs ahead of the bucket's
  Horizon,     \* bound: the clock
  MaxBoots,    \* bound: containers started
  MaxFaults    \* bound: calls to the bucket that fail or whose answer is lost

ASSUME LeaseTimes ==
  /\ NoProc \notin Procs
  /\ TTL \in Nat \ {0} /\ Renew \in Nat \ {0} /\ SelfFence \in Nat /\ Shutdown \in Nat
  /\ OpTimeout \in Nat /\ Poll \in Nat \ {0} /\ StealAfter \in Nat /\ GiveUpAfter \in Nat
  /\ MaxRestore \in Nat /\ Skew \in Nat /\ Horizon \in Nat /\ MaxBoots \in Nat
  /\ MaxFaults \in Nat

VARIABLES
  now,
  obj,     \* the lock object: its generation (0 when it is not there), when it was modified, the
           \* expiry its payload claims, and who wrote it
  lastGen, \* the last generation the bucket gave out
  pc,      \* off, waiting (Acquire), restoring, serving or stopping (shutdown)
  gen,     \* the generation each process believes it owns
  lastOK,  \* when its last successful write began
  seen,    \* its steal bookkeeping: the generation last seen, and since when (seenGen, seenAt)
  due,     \* when it next polls, or renews
  until,   \* when Acquire gives up, or the restore or the shutdown ends
  op,      \* its write under way: the generation it is conditional on, and when it began
  lost,    \* Lost() is closed
  boots,   \* containers started so far
  faults,  \* failed calls so far
  late     \* history: the processes that lost the lease while they were still starting up

leaseVars == <<gen, lastOK, seen, due, until, op, lost, late>>
vars == <<now, obj, lastGen, pc, gen, lastOK, seen, due, until, op, lost, boots, faults, late>>

NoOp == [kind |-> "none", gen |-> 0, began |-> 0]
NoObj == [gen |-> 0, modified |-> 0, expires |-> 0, holder |-> NoProc]
Unseen == [gen |-> 0, at |-> 0]

\* A process that restores, writes or flushes the database.
Touching == {"restoring", "serving", "stopping"}

TypeOK ==
  /\ now \in Nat /\ lastGen \in Nat
  /\ obj \in [gen : Nat, modified : Nat, expires : Nat, holder : Procs \cup {NoProc}]
  /\ pc \in [Procs -> {"off", "waiting"} \cup Touching]
  /\ gen \in [Procs -> Nat] /\ lastOK \in [Procs -> Nat]
  /\ seen \in [Procs -> [gen : Nat, at : Nat]]
  /\ due \in [Procs -> Nat] /\ until \in [Procs -> Nat]
  /\ op \in [Procs -> [kind : {"none", "take", "renew"}, gen : Nat, began : Nat]]
  /\ lost \in [Procs -> BOOLEAN]
  /\ boots \in Nat /\ faults \in Nat /\ late \subseteq Procs

Init ==
  /\ now = 0 /\ obj = NoObj /\ lastGen = 0
  /\ pc = [p \in Procs |-> "off"]
  /\ gen = [p \in Procs |-> 0] /\ lastOK = [p \in Procs |-> 0]
  /\ seen = [p \in Procs |-> Unseen]
  /\ due = [p \in Procs |-> 0] /\ until = [p \in Procs |-> 0]
  /\ op = [p \in Procs |-> NoOp]
  /\ lost = [p \in Procs |-> FALSE]
  /\ boots = 0 /\ faults = 0 /\ late = {}

\* (mutant: the bucket ignores the precondition)
MatchesAny(p) == op[p].kind # "none"

\* The bucket: a write whose precondition holds makes a new generation (leaseObject).
Matches(p) == obj.gen = op[p].gen
Landed(p, skew) == [gen |-> lastGen + 1, modified |-> now,
                    expires |-> op[p].began + skew + TTL, holder |-> p]
Lands(p) ==
  Matches(p) /\ lastGen' = lastGen + 1 /\ \E skew \in 0..Skew : obj' = Landed(p, skew)
NotLands == UNCHANGED <<obj, lastGen>>

\* A call that failed, or whose answer did not come back: it may have taken effect.
Unanswered(p) == faults < MaxFaults /\ faults' = faults + 1 /\ (Lands(p) \/ NotLands)
-----------------------------------------------------------------------------
(* Acquire: try, and wait for the next poll.                               *)

Boot(p) ==
  /\ pc[p] = "off" /\ boots < MaxBoots
  /\ boots' = boots + 1
  /\ pc' = [pc EXCEPT ![p] = "waiting"]
  /\ due' = [due EXCEPT ![p] = now]
  /\ until' = [until EXCEPT ![p] = now + GiveUpAfter]
  /\ UNCHANGED <<now, obj, lastGen, gen, lastOK, seen, op, lost, faults, late>>

\* The process is over, and with it everything it kept.
Exit(p) ==
  /\ pc' = [pc EXCEPT ![p] = "off"]
  /\ gen' = [gen EXCEPT ![p] = 0] /\ lastOK' = [lastOK EXCEPT ![p] = 0]
  /\ seen' = [seen EXCEPT ![p] = Unseen]
  /\ due' = [due EXCEPT ![p] = 0] /\ until' = [until EXCEPT ![p] = 0]
  /\ op' = [op EXCEPT ![p] = NoOp]
  /\ lost' = [lost EXCEPT ![p] = FALSE]
  /\ late' = late \ {p}

\* A try that did not get the lease: the next poll, or past the deadline the process exits.
TryAgain(p, saw) ==
  IF now > until[p]
  THEN Exit(p)
  ELSE /\ seen' = [seen EXCEPT ![p] = saw]
       /\ due' = [due EXCEPT ![p] = now + Poll]
       /\ op' = [op EXCEPT ![p] = NoOp]
       /\ UNCHANGED <<pc, gen, lastOK, until, lost, late>>

Ready(p) == pc[p] = "waiting" /\ op[p] = NoOp /\ due[p] <= now

\* (mutant: an object is taken for lapsed after the confirmation time alone)
ExpiredSoon(skew) == obj.modified + StealAfter <= now + skew

\* The lease has run out by the waiter's own clock: counted from when the bucket says it was written,
\* and the payload's claim when that is later.
Expired(skew) == obj.modified + TTL <= now + skew /\ obj.expires <= now + skew

\* The object has been at this generation for long enough, lapsed or not when it was first seen.
Confirmed(p) == seen[p].gen = obj.gen /\ seen[p].at + StealAfter <= now

StartTake(p) ==
  /\ op' = [op EXCEPT ![p] = [kind |-> "take", gen |-> obj.gen, began |-> now]]
  /\ UNCHANGED <<now, boots, obj, lastGen, pc, gen, lastOK, seen, due, until, lost, faults, late>>

\* try, reading no object, or one that lapsed and is not moving.
TryTake(p) ==
  /\ Ready(p)
  /\ obj.gen = 0 \/ (Confirmed(p) /\ \E skew \in 0..Skew : Expired(skew))
  /\ StartTake(p)

\* (mutant: every poll starts the confirmation over)
TryWaitRestless(p) ==
  /\ Ready(p) /\ obj.gen # 0
  /\ ~Confirmed(p) \/ \E skew \in 0..Skew : ~Expired(skew)
  /\ TryAgain(p, [gen |-> obj.gen, at |-> now])
  /\ UNCHANGED <<now, boots, obj, lastGen, faults>>

\* try, reading an object that is live or has to be confirmed.
TryWait(p) ==
  /\ Ready(p) /\ obj.gen # 0
  /\ ~Confirmed(p) \/ \E skew \in 0..Skew : ~Expired(skew)
  /\ TryAgain(p, IF seen[p].gen = obj.gen THEN seen[p] ELSE [gen |-> obj.gen, at |-> now])
  /\ UNCHANGED <<now, boots, obj, lastGen, faults>>

\* take: the conditional write lands, and the process restores the database.
TakeDone(p) ==
  /\ op[p].kind = "take" /\ Lands(p)
  /\ gen' = [gen EXCEPT ![p] = lastGen + 1]
  /\ lastOK' = [lastOK EXCEPT ![p] = op[p].began]
  /\ pc' = [pc EXCEPT ![p] = "restoring"]
  /\ due' = [due EXCEPT ![p] = now + Renew]
  /\ until' = [until EXCEPT ![p] = now + MaxRestore]
  /\ op' = [op EXCEPT ![p] = NoOp]
  /\ UNCHANGED <<now, boots, seen, lost, faults, late>>

TakeFailed(p) ==
  /\ op[p].kind = "take"
  /\ (~Matches(p) /\ NotLands /\ UNCHANGED faults) \/ Unanswered(p)
  /\ TryAgain(p, seen[p])
  /\ UNCHANGED <<now, boots>>
-----------------------------------------------------------------------------
(* Run: the renewal beside everything else, until the lease is lost.       *)

Renewing(p) == pc[p] \in {"restoring", "serving"} /\ ~lost[p]

RenewStart(p) ==
  /\ Renewing(p) /\ op[p] = NoOp /\ due[p] <= now
  /\ op' = [op EXCEPT ![p] = [kind |-> "renew", gen |-> gen[p], began |-> now]]
  /\ UNCHANGED <<now, boots, obj, lastGen, pc, gen, lastOK, seen, due, until, lost, faults, late>>

RenewDone(p) ==
  /\ op[p].kind = "renew" /\ Lands(p)
  /\ gen' = [gen EXCEPT ![p] = lastGen + 1]
  /\ lastOK' = [lastOK EXCEPT ![p] = op[p].began]
  /\ due' = [due EXCEPT ![p] = op[p].began + Renew]
  /\ op' = [op EXCEPT ![p] = NoOp]
  /\ UNCHANGED <<now, boots, pc, seen, until, lost, faults, late>>

\* markLost.  A process that has still to restore or to open the database goes on with it.
Stand(p) ==
  /\ lost' = [lost EXCEPT ![p] = TRUE]
  /\ late' = IF pc[p] = "restoring" THEN late \cup {p} ELSE late
  /\ op' = [op EXCEPT ![p] = NoOp]
  /\ UNCHANGED <<now, boots, pc, gen, lastOK, seen, due, until>>

\* The object is at another generation: another container's, or one this process wrote and never
\* heard back about.
RenewTaken(p) ==
  /\ op[p].kind = "renew" /\ ~Matches(p)
  /\ NotLands /\ Stand(p)
  /\ UNCHANGED faults

\* Too long since the last renewal that succeeded.
Overdue(p) == now - lastOK[p] > SelfFence

\* A renewal that failed: the next one decides, unless the process has to stand down.
RenewFailed(p) ==
  /\ op[p].kind = "renew" /\ Unanswered(p)
  /\ IF Overdue(p)
     THEN Stand(p)
     ELSE /\ due' = [due EXCEPT ![p] = op[p].began + Renew]
          /\ op' = [op EXCEPT ![p] = NoOp]
          /\ UNCHANGED <<now, boots, pc, gen, lastOK, seen, until, lost, late>>
-----------------------------------------------------------------------------
(* The process around the lease (bot.go, Run and shutdown).                *)

\* The database is restored and opened; only from here is Lost() looked at.
Serve(p) ==
  /\ pc[p] = "restoring"
  /\ pc' = [pc EXCEPT ![p] = "serving"]
  /\ UNCHANGED <<now, boots, obj, lastGen, leaseVars, faults>>

\* The renewals stop with the context, and one under way is cancelled.
Stopping(p) ==
  /\ pc' = [pc EXCEPT ![p] = "stopping"]
  /\ until' = [until EXCEPT ![p] = now + Shutdown]
  /\ op' = [op EXCEPT ![p] = NoOp]
  /\ UNCHANGED <<now, boots, gen, lastOK, seen, due, faults, late>>

StandDown(p) ==
  /\ pc[p] = "serving" /\ lost[p]
  /\ Stopping(p) /\ NotLands /\ UNCHANGED lost

\* A signal stops it cleanly; a server or a replicator that failed stops it with code 1, which
\* like a lost lease releases nothing.
Stop(p) ==
  /\ pc[p] = "serving" /\ ~lost[p]
  /\ (op[p].kind = "renew" /\ Lands(p)) \/ NotLands
  /\ \E code \in {0, 1} : lost' = [lost EXCEPT ![p] = code = 1]
  /\ Stopping(p)

\* Release, after the database is closed: conditional on the generation, and best effort.
Release(p) ==
  \/ ~lost[p] /\ obj.gen = gen[p] /\ obj' = NoObj
  \/ UNCHANGED obj

Stopped(p) ==
  /\ pc[p] = "stopping"
  /\ Release(p) /\ Exit(p)
  /\ UNCHANGED <<now, boots, lastGen, faults>>

\* The container is killed, or a restore fails.
Crash(p) ==
  /\ pc[p] \in Touching
  /\ (op[p].kind = "renew" /\ Lands(p)) \/ NotLands
  /\ Exit(p)
  /\ UNCHANGED <<now, boots, faults>>

\* Nobody is paused: a poll, a renewal, a call, a restore and a shutdown are done in their time.
OnTime(p) ==
  /\ ~Ready(p)
  /\ op[p] # NoOp => now < op[p].began + OpTimeout
  /\ Renewing(p) /\ op[p] = NoOp => now < due[p]
  /\ pc[p] \in {"restoring", "stopping"} => now < until[p]
  /\ ~(pc[p] = "serving" /\ lost[p])

Tick ==
  /\ now < Horizon /\ \A p \in Procs : OnTime(p)
  /\ now' = now + 1
  /\ UNCHANGED <<boots, obj, lastGen, pc, leaseVars, faults>>

ProcStep(p) ==
  \/ Boot(p) \/ TryTake(p) \/ TryWait(p) \/ TakeDone(p) \/ TakeFailed(p)
  \/ RenewStart(p) \/ RenewDone(p) \/ RenewTaken(p) \/ RenewFailed(p)
  \/ Serve(p) \/ StandDown(p) \/ Stop(p) \/ Stopped(p) \/ Crash(p)

Next == Tick \/ \E p \in Procs : ProcStep(p)

Spec == Init /\ [][Next]_vars
-----------------------------------------------------------------------------
\* The time a process may go on without a renewal before it starts to shut down.
Window == SelfFence + Renew + OpTimeout

\* The timing that keeps two writers apart, as the code's constants have it: 30, 10, 5 and 9 seconds
\* and the skew, against 60.
Margin == Window + Shutdown + Skew < TTL /\ OpTimeout <= Renew /\ OpTimeout <= SelfFence

\* Nobody names a generation the bucket has not given out.
GenInv == obj.gen <= lastGen /\ \A p \in Procs : gen[p] <= lastGen

\* A write under way is one its process waits for, begun no longer ago than the timeout.
OpInv ==
  \A p \in Procs :
    /\ op[p].gen <= lastGen /\ op[p].began <= now
    /\ op[p].kind = "none" => op[p] = NoOp
    /\ op[p].kind # "none" => now <= op[p].began + OpTimeout
    /\ op[p].kind = "take" => pc[p] = "waiting"
    /\ op[p].kind = "renew" => Renewing(p) /\ lastOK[p] <= op[p].began

\* A take that can still land was decided on a lock object nobody can be holding.
TakeInv ==
  \A p \in Procs :
    op[p].kind = "take" /\ Matches(p) => obj.gen = 0 \/ obj.modified + TTL <= now + Skew

\* A process that touches the database wrote the lock object, since its last renewal.
HolderInv ==
  \A p \in Procs :
    pc[p] \in Touching /\ p \notin late
      => obj.gen # 0 /\ obj.holder = p /\ lastOK[p] <= now /\ lastOK[p] <= obj.modified

\* One that lost the lease while it started up has nothing more to say to the bucket.
LateInv == \A p \in late : pc[p] \in Touching /\ lost[p] /\ op[p] = NoOp

\* Any other is never longer without a renewal than the self-fence, the shutdown and the calls allow.
TimeInv ==
  \A p \in Procs \ late :
    /\ pc[p] \in {"off", "waiting", "restoring"} => ~lost[p]
    /\ pc[p] = "serving" /\ lost[p] => now <= lastOK[p] + Window
    /\ pc[p] = "stopping" => now <= until[p] /\ until[p] <= lastOK[p] + Window + Shutdown
    /\ Renewing(p) /\ op[p] = NoOp => now <= due[p] /\ due[p] <= lastOK[p] + SelfFence + Renew
    /\ op[p].kind = "renew" => op[p].began <= lastOK[p] + SelfFence + Renew

\* Why the margin is enough: the process that touches the database wrote the lock object, and is
\* off it before that object can be taken for abandoned (Lease.Run, Lease.try, shutdown).
LeaseInv == TypeOK /\ GenInv /\ OpInv /\ TakeInv /\ HolderInv /\ LateInv /\ TimeInv

\* One writer (lease.go, "This lease is what makes one writer actually true"): however calls fail,
\* answers get lost and processes die, and however long a restore takes, of the processes between
\* taking the lease and having shut down all but one lost it while they were starting up - when
\* Lost() is closed and nothing looks at it.
OneWriter ==
  \A p, q \in Procs \ late : pc[p] \in Touching /\ pc[q] \in Touching => p = q

\* While any other process touches the database the lock object is one it wrote, and has not run
\* out, by anybody's clock.
WriterHolds ==
  \A p \in Procs \ late :
    pc[p] \in Touching => obj.holder = p /\ obj.modified + TTL > now + Skew

\* A waiter whose calls were all answered gives up only when somebody wrote or removed the lock
\* object after it booted, so a predecessor killed before that never makes it crash-loop
\* (leaseGiveUp, "must exceed leaseTTL+leaseStealAfter").
GivesUpOnLiveLease ==
  [][\A p \in Procs :
       pc[p] = "waiting" /\ pc'[p] = "off" /\ faults' = 0 /\ obj.gen # 0
         => obj.modified + GiveUpAfter >= until[p]]_vars

\* An expired lease is taken only leaseStealAfter past its expiry (lease.go, "Nobody may take its
\* lease until leaseStealAfter past expiry").
StealsLate ==
  [][\A p \in Procs :
       op[p] = NoOp /\ op'[p].kind = "take" /\ op'[p].gen # 0
         => obj.modified + TTL + StealAfter <= now]_vars
=============================================================================
