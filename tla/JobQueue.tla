------------------------------ MODULE JobQueue ------------------------------
(***************************************************************************)
(* The durable job queue (src/memory/repos/job_queue_repo_sqlite.c) under  *)
(* every caller its contract (include/human/memory/job_queue_repo.h)       *)
(* admits: several workers that claim, mark, send and finish in any order  *)
(* and hold on to claims that have gone stale, producers, start recovery,  *)
(* process crashes, a wall clock, and the other subsystems that open       *)
(* transactions on the shared memory.db connection.                        *)
(*                                                                         *)
(* `jobs' is the table as the connection sees it and `disk' the committed  *)
(* one: they differ only while a foreign transaction is open, which the    *)
(* statements that do not BEGIN join.                                      *)
(*                                                                         *)
(* A statement that matches no row (HU_ERR_NOT_FOUND), a refused BEGIN     *)
(* (HU_ERR_IO_BUSY) and a failed COMMIT change nothing: they are           *)
(* stuttering steps.                                                       *)
(***************************************************************************)
EXTENDS JobTable

CONSTANTS Workers,      \* callers of claim_due
          LeaseS,       \* lease_s
          Caps,         \* the batch sizes callers pass to claim_due
          JobKinds,     \* the kinds producers enqueue
          Times,        \* the times callers pass: due_at, new_due_at, cutoff
          MaxClock      \* bound on the wall clock

ASSUME LeaseAssumption == LeaseS \in Nat \ {0}
ASSUME CapsAssumption  == Caps \subseteq Nat \ {0}
ASSUME InputAssumption == JobKinds \subseteq Kinds /\ Times \subseteq Nat
ASSUME ClockAssumption == MaxClock \in Nat

VARIABLES
  jobs,      \* the table as seen on the connection
  disk,      \* the committed table
  foreign,   \* is another subsystem's transaction open on the connection?
  running,   \* has the queue been started in this process?
  clock,     \* wall clock, seconds
  setBack,   \* has the wall clock ever been set back? (history)
  token,     \* token[w][k]: lease_until of w's copy of job k
  stage,     \* stage[w][k]: how far w is with its copy of job k
  sent       \* sent[k]: how often job k was handed to the channel (history)

vars == <<jobs, disk, foreign, running, clock, setBack, token, stage, sent>>

Stages == {"idle", "claimed", "granted", "sent", "finished"}

\* mark_sending has returned HU_OK and the send has not been called yet.
\* (The inbound hold finishes the row `done' before it hands it over.)
Authorised(w, k) == stage[w][k] \in {"granted", "finished"}

TypeOK ==
  /\ jobs \in [Keys -> Row]
  /\ disk \in [Keys -> Row]
  /\ foreign \in BOOLEAN
  /\ running \in BOOLEAN
  /\ clock \in 0..MaxClock
  /\ setBack \in BOOLEAN
  /\ token \in [Workers -> [Keys -> Nat]]
  /\ stage \in [Workers -> [Keys -> Stages]]
  /\ sent \in [Keys -> Nat]

NoTokens == [w \in Workers |-> [k \in Keys |-> NoLease]]
AllIdle  == [w \in Workers |-> [k \in Keys |-> "idle"]]

Init ==
  /\ jobs = EmptyTable
  /\ disk = EmptyTable
  /\ foreign = FALSE
  /\ running = FALSE
  /\ clock = 0
  /\ setBack = FALSE
  /\ token = NoTokens
  /\ stage = AllIdle
  /\ sent = [k \in Keys |-> 0]

----------------------------------------------------------------------------
\* Slip: no BEGIN, so an open foreign transaction is joined.
JoinTransaction(t) ==
  /\ jobs' = t
  /\ disk' = IF foreign THEN disk ELSE t

\* claim_due, mark_sending and recover_on_start: BEGIN IMMEDIATE ... COMMIT,
\* refused while a foreign transaction is open.
OwnTransaction(t) ==
  /\ ~foreign
  /\ jobs' = t
  /\ disk' = t

\* enqueue, release, finish and expire_older_than do not BEGIN: they commit
\* by themselves, or become part of the foreign transaction.
Statement(t) ==
  /\ jobs' = t
  /\ disk' = IF foreign THEN disk ELSE t

Enqueue(k, kind, due, shadow) ==
  /\ running
  /\ Statement(Insert(jobs, k, kind, due, clock, shadow))
  /\ UNCHANGED <<foreign, running, clock, setBack, token, stage, sent>>

ClaimDue(w, kinds, cap) ==
  /\ running
  /\ LET t     == Requeue(jobs, clock)
         S     == SelectDue(t, kinds, clock, cap)
         lease == clock + LeaseS
     IN  /\ OwnTransaction(Claim(t, S, lease))
         /\ token' = [token EXCEPT ![w] =
                       [k \in Keys |-> IF k \in S THEN lease ELSE @[k]]]
         /\ stage' = [stage EXCEPT ![w] =
                       [k \in Keys |-> IF k \in S THEN "claimed" ELSE @[k]]]
  /\ UNCHANGED <<foreign, running, clock, setBack, sent>>

MarkSending(w, k) ==
  /\ stage[w][k] = "claimed"
  /\ MaySend(jobs[k], token[w][k], clock)
  /\ OwnTransaction(ToSending(jobs, k))
  /\ stage' = [stage EXCEPT ![w][k] = "granted"]
  /\ UNCHANGED <<foreign, running, clock, setBack, token, sent>>

\* The caller's send on the channel, after mark_sending returned HU_OK.
Send(w, k) ==
  /\ Authorised(w, k)
  /\ sent' = [sent EXCEPT ![k] = @ + 1]
  /\ stage' = [stage EXCEPT ![w][k] = IF @ = "granted" THEN "sent" ELSE "idle"]
  /\ UNCHANGED <<jobs, disk, foreign, running, clock, setBack, token>>

Release(w, k, newdue) ==
  /\ stage[w][k] = "claimed"
  /\ MayRelease(jobs[k], token[w][k])
  /\ Statement(ToPending(jobs, k, newdue))
  /\ stage' = [stage EXCEPT ![w][k] = "idle"]
  /\ UNCHANGED <<foreign, running, clock, setBack, token, sent>>

\* finish with the token of w's claim.  A job reported `failed' is not sent;
\* one finished `done' ahead of its send still is.
Finish(w, k, st) ==
  /\ stage[w][k] \in {"claimed", "granted", "sent"}
  /\ MayFinish(jobs[k], st, token[w][k])
  /\ Statement(ToFinished(jobs, k, st))
  /\ stage' = [stage EXCEPT ![w][k] =
                IF @ = "granted" /\ st = "done" THEN "finished" ELSE "idle"]
  /\ UNCHANGED <<foreign, running, clock, setBack, token, sent>>

\* finish by a caller that holds no claim and passes lease_until = 0: it
\* withdraws a job.
Withdraw(k, st) ==
  /\ running
  /\ st \in {"canceled", "expired"}
  /\ MayFinish(jobs[k], st, NoLease)
  /\ Statement(ToFinished(jobs, k, st))
  /\ UNCHANGED <<foreign, running, clock, setBack, token, stage, sent>>

ExpireOlderThan(kind, cutoff) ==
  /\ running
  /\ Statement(Expire(jobs, kind, cutoff))
  /\ UNCHANGED <<foreign, running, clock, setBack, token, stage, sent>>

\* hu_daemon_job_queue_start: schema, recovery.  If it fails the queue is
\* unavailable in this process, so `running' stays FALSE.
RecoverOnStart ==
  /\ ~running
  /\ OwnTransaction(Recover(jobs, clock))
  /\ running' = TRUE
  /\ UNCHANGED <<foreign, clock, setBack, token, stage, sent>>

----------------------------------------------------------------------------
\* Other users of the connection (hu_sql_txn_begin / commit / rollback).
ForeignBegin ==
  /\ ~foreign
  /\ foreign' = TRUE
  /\ UNCHANGED <<jobs, disk, running, clock, setBack, token, stage, sent>>

ForeignCommit ==
  /\ foreign
  /\ foreign' = FALSE
  /\ disk' = jobs
  /\ UNCHANGED <<jobs, running, clock, setBack, token, stage, sent>>

ForeignRollback ==
  /\ foreign
  /\ foreign' = FALSE
  /\ jobs' = disk
  /\ UNCHANGED <<disk, running, clock, setBack, token, stage, sent>>

\* The process dies: the open transaction and every worker's copy are gone.
Crash ==
  /\ running' = FALSE
  /\ foreign' = FALSE
  /\ jobs' = disk
  /\ token' = NoTokens
  /\ stage' = AllIdle
  /\ UNCHANGED <<disk, clock, setBack, sent>>

\* hu_time_wall_ms: the wall clock moves on, or is set back.
ClockStep ==
  /\ clock' \in 0..MaxClock
  /\ setBack' = (setBack \/ clock' < clock)
  /\ UNCHANGED <<jobs, disk, foreign, running, token, stage, sent>>

WorkerStep(w) ==
  \/ \E kinds \in {Kinds} \cup {{kind} : kind \in Kinds}, cap \in Caps :
        ClaimDue(w, kinds, cap)
  \/ \E k \in Keys :
        \/ MarkSending(w, k)
        \/ Send(w, k)
        \/ \E newdue \in {0} \cup Times : Release(w, k, newdue)
        \/ \E st \in FinishStates : Finish(w, k, st)

Next ==
  \/ \E w \in Workers : WorkerStep(w)
  \/ \E k \in Keys, kind \in JobKinds, due \in Times, shadow \in BOOLEAN :
        Enqueue(k, kind, due, shadow)
  \/ \E k \in Keys, st \in FinishStates : Withdraw(k, st)
  \/ \E kind \in Kinds, cutoff \in Times : ExpireOlderThan(kind, cutoff)
  \/ RecoverOnStart
  \/ ForeignBegin
  \/ ForeignCommit
  \/ ForeignRollback
  \/ Crash
  \/ ClockStep

Spec == Init /\ [][Next]_vars
----------------------------------------------------------------------------
\* Delivery is at most once: whatever crashes, stale claims, clock steps and
\* foreign rollbacks happen, no job is handed to the channel twice
\* (job_queue_repo.h: "a missed message beats a duplicate").
AtMostOnce == \A k \in Keys : sent[k] <= 1

\* States a row never returns to the workers from.
Fenced(r) == r.state \in {"sending", "done", "failed", "unknown"}

\* The at-most-once fence is on disk before anybody may send: a job that was
\* sent, or that a worker is authorised to send, is fenced in the committed
\* table and in the connection's view, so that neither a crash nor a foreign
\* ROLLBACK can hand it out again.
FenceDurable ==
  \A k \in Keys :
    (sent[k] > 0 \/ \E w \in Workers : Authorised(w, k)) =>
       Fenced(jobs[k]) /\ Fenced(disk[k]) /\ disk[k].attempts >= 1

\* Only one worker can be past mark_sending with a job.
OneSender ==
  \A k \in Keys : \A v, w \in Workers :
    Authorised(v, k) /\ Authorised(w, k) => v = w

\* What a worker may still do, it has not done: authority to send is never
\* left over from a send that happened.
AuthorityUnused ==
  \A k \in Keys, w \in Workers : Authorised(w, k) => sent[k] = 0

\* How the repository may change a table: a fenced row stays fenced and
\* keeps its attempts, a terminal row stays as it is.
Evolves(t, u) ==
  \A k \in Keys :
    /\ Fenced(t[k]) => Fenced(u[k]) /\ u[k].attempts >= t[k].attempts
    /\ t[k].state \in Terminal => u[k] = t[k]

\* The connection's view is the committed table, or an evolution of it while a
\* foreign transaction is open (part of the inductive invariant).
ViewExtendsDisk ==
  /\ ~foreign => jobs = disk
  /\ Evolves(disk, jobs)

\* The inductive invariant behind AtMostOnce.
SafetyInv ==
  /\ TypeOK
  /\ ViewExtendsDisk
  /\ FenceDurable
  /\ OneSender
  /\ AuthorityUnused
  /\ AtMostOnce

\* A committed terminal row is final: no operation, recovery, rollback or
\* crash ever changes it again.
TerminalIsFinal ==
  [][\A k \in Keys : disk[k].state \in Terminal => disk'[k] = disk[k]]_vars

\* Lease fencing: until the wall clock is set back for the first time, at most
\* one worker's copy of a claimed job is the one mark_sending, release and
\* finish accept.  (After that two claims can carry the same lease_until.)
OneCurrentClaim ==
  ~setBack => \A k \in Keys : \A v, w \in Workers :
    /\ jobs[k].state = "claimed"
    /\ stage[v][k] = "claimed" /\ token[v][k] = jobs[k].lease
    /\ stage[w][k] = "claimed" /\ token[w][k] = jobs[k].lease
    => v = w
----------------------------------------------------------------------------
Delivery == INSTANCE AtMostOnceDelivery
  WITH Jobs      <- Keys,
       status    <- [k \in Keys |-> AbstractStatus(jobs[k])],
       permitted <- [k \in Keys |-> \E w \in Workers : Authorised(w, k)],
       delivered <- sent

\* The queue implements at-most-once delivery: leases, workers, recovery,
\* crashes and foreign transactions show on the outside only as the steps
\* AtMostOnceDelivery allows.
ImplementsDelivery == Delivery!Spec
=============================================================================
