--------------------------- MODULE JobQueueProofs ---------------------------
(***************************************************************************)
(* At-most-once delivery of the durable job queue, for every set of keys   *)
(* and workers, every lease, every clock and every input.                  *)
(***************************************************************************)
EXTENDS JobQueue, JobTableProofs

----------------------------------------------------------------------------
\* Each SQL statement maps tables to tables and evolves them.

\* INSERT OR IGNORE (hu_job_queue_repo_enqueue).
LEMMA InsertEvolves ==
  ASSUME NEW t \in Table, NEW k \in Keys, NEW kind \in Kinds, NEW due \in Nat,
         NEW now \in Nat, NEW shadow \in BOOLEAN
  PROVE  /\ Insert(t, k, kind, due, now, shadow) \in Table
         /\ Evolves(t, Insert(t, k, kind, due, now, shadow))
<1> DEFINE u == Insert(t, k, kind, due, now, shadow)
<1>1. /\ u \in Table /\ \A j \in Keys \ {k} : u[j] = t[j]
      /\ t[k].state # "absent" => u = t
  BY InsertRow
<1> HIDE DEF u
<1>2. Evolves(t, u)
  BY <1>1, RowFields DEF Table, Evolves, Fenced, Terminal
<1> QED
  BY <1>1, <1>2 DEF u

\* The lease sweep of hu_job_queue_repo_claim_due and recovery.
LEMMA RequeueEvolves ==
  ASSUME NEW t \in Table, NEW now \in Nat
  PROVE  Requeue(t, now) \in Table /\ Evolves(t, Requeue(t, now))
<1>1. ASSUME NEW k \in Keys
      PROVE  SetState(t[k], "pending", NoLease) \in Row
  BY SetStateRow DEF Table, RowStates, NoLease
<1> QED
  BY <1>1, RowFields DEF Requeue, LeaseExpired, Table, Evolves, Fenced, Terminal

\* The claiming UPDATE of hu_job_queue_repo_claim_due.
LEMMA ClaimEvolves ==
  ASSUME NEW t \in Table, NEW S, NEW lease \in Nat
  PROVE  Claim(t, S, lease) \in Table /\ Evolves(t, Claim(t, S, lease))
<1>1. ASSUME NEW k \in Keys
      PROVE  SetState(t[k], "claimed", lease) \in Row
  BY SetStateRow DEF Table, RowStates
<1> QED
  BY <1>1, RowFields DEF Claim, Table, Evolves, Fenced, Terminal

\* hu_job_queue_repo_mark_sending on a row that passes its fence.
LEMMA ToSendingEvolves ==
  ASSUME NEW t \in Table, NEW k \in Keys, t[k].state = "claimed"
  PROVE  /\ ToSending(t, k) \in Table
         /\ Evolves(t, ToSending(t, k))
         /\ Fenced(ToSending(t, k)[k])
         /\ ToSending(t, k)[k].attempts >= 1
<1> DEFINE s == SetState(t[k], "sending", NoLease)
<1>1. s \in Row /\ s.state = "sending" /\ s.attempts = t[k].attempts
  BY SetStateRow DEF Table, RowStates, NoLease
<1>2. /\ CountAttempt(s) \in Row
      /\ CountAttempt(s).state = "sending"
      /\ CountAttempt(s).attempts = t[k].attempts + 1
  BY <1>1, CountAttemptRow
<1> QED
  BY <1>2, RowFields DEF ToSending, Table, Evolves, Fenced, Terminal

\* hu_job_queue_repo_release on a row that passes its fence.
LEMMA ToPendingEvolves ==
  ASSUME NEW t \in Table, NEW k \in Keys, NEW newdue \in Nat,
         t[k].state = "claimed"
  PROVE  ToPending(t, k, newdue) \in Table /\ Evolves(t, ToPending(t, k, newdue))
<1>1. Reschedule(SetState(t[k], "pending", NoLease), newdue) \in Row
  BY SetStateRow, RescheduleRow DEF Table, RowStates, NoLease
<1> QED
  BY <1>1, RowFields DEF ToPending, Table, Evolves, Fenced, Terminal

\* hu_job_queue_repo_finish on a row in an allowed source state: from
\* `sending' only `done' and `failed', which are fenced, can be reached.
LEMMA ToFinishedEvolves ==
  ASSUME NEW t \in Table, NEW k \in Keys, NEW st \in FinishStates, NEW lease,
         MayFinish(t[k], st, lease)
  PROVE  ToFinished(t, k, st) \in Table /\ Evolves(t, ToFinished(t, k, st))
<1> DEFINE s == SetState(t[k], st, NoLease)
<1>0. st \in RowStates /\ t[k] \in Row /\ NoLease \in Nat
  BY DEF Table, RowStates, NoLease, FinishStates
<1>1. s \in Row /\ s.state = st /\ s.attempts = t[k].attempts
  BY <1>0, SetStateRow
<1>2. /\ t[k].state \in {"pending", "claimed", "sending"}
      /\ t[k].state = "sending" => st \in {"done", "failed"}
  BY DEF MayFinish, FinishSources, FinishStates
<1> QED
  BY <1>1, <1>2, RowFields DEF ToFinished, Table, Evolves, Fenced, Terminal

\* hu_job_queue_repo_expire_older_than.
LEMMA ExpireEvolves ==
  ASSUME NEW t \in Table, NEW kind, NEW cutoff
  PROVE  Expire(t, kind, cutoff) \in Table /\ Evolves(t, Expire(t, kind, cutoff))
<1>1. ASSUME NEW k \in Keys
      PROVE  SetState(t[k], "expired", t[k].lease) \in Row
  BY SetStateRow, RowFields DEF Table, RowStates
<1> QED
  BY <1>1, RowFields DEF Expire, Expirable, Table, Evolves, Fenced, Terminal

\* Doing nothing is an evolution.
LEMMA EvolvesReflexive ==
  ASSUME NEW t \in Table
  PROVE  Evolves(t, t)
BY RowFields DEF Evolves, Table

\* Evolution composes (claim_due runs two statements in one transaction).
LEMMA EvolvesTransitive ==
  ASSUME NEW t \in Table, NEW u \in Table, NEW v \in Table,
         Evolves(t, u), Evolves(u, v)
  PROVE  Evolves(t, v)
<1> SUFFICES ASSUME NEW k \in Keys
             PROVE  /\ Fenced(t[k]) => Fenced(v[k]) /\ v[k].attempts >= t[k].attempts
                    /\ t[k].state \in Terminal => v[k] = t[k]
  BY DEF Evolves
<1>1. /\ t[k].attempts \in Nat
      /\ u[k].attempts \in Nat
      /\ v[k].attempts \in Nat
  BY RowFields DEF Table
<1> QED
  BY <1>1 DEF Evolves

\* hu_job_queue_repo_recover_on_start.
LEMMA RecoverEvolves ==
  ASSUME NEW t \in Table, NEW now \in Nat
  PROVE  Recover(t, now) \in Table /\ Evolves(t, Recover(t, now))
<1> DEFINE u == [k \in Keys |-> IF t[k].state = "sending"
                                THEN SetState(t[k], "unknown", t[k].lease)
                                ELSE t[k]]
<1>1. ASSUME NEW k \in Keys
      PROVE  /\ SetState(t[k], "unknown", t[k].lease) \in Row
             /\ SetState(t[k], "unknown", t[k].lease).state = "unknown"
             /\ SetState(t[k], "unknown", t[k].lease).attempts = t[k].attempts
  <2>1. t[k] \in Row /\ t[k].lease \in Nat /\ "unknown" \in RowStates
    BY RowFields DEF Table, RowStates
  <2> QED
    BY <2>1, SetStateRow
<1>2. u \in Table /\ Evolves(t, u)
  BY <1>1, RowFields DEF Table, Evolves, Fenced, Terminal
<1>3. Requeue(u, now) \in Table /\ Evolves(u, Requeue(u, now))
  BY <1>2, RequeueEvolves
<1>4. Recover(t, now) = Requeue(u, now)
  BY DEF Recover
<1> QED
  BY <1>2, <1>3, <1>4, EvolvesTransitive
----------------------------------------------------------------------------
\* The fence is up for job k, in the connection's view and on disk.
FenceUp(k) == Fenced(jobs[k]) /\ Fenced(disk[k]) /\ disk[k].attempts >= 1

\* A step that sends nothing and authorises nobody keeps the invariant if it
\* keeps the fence wherever it is up.
LEMMA QuietStep ==
  ASSUME SafetyInv, TypeOK', ViewExtendsDisk',
         sent' = sent,
         \A w \in Workers, k \in Keys : Authorised(w, k)' => Authorised(w, k),
         \A k \in Keys : FenceUp(k) => FenceUp(k)'
  PROVE  SafetyInv'
<1>1. FenceDurable'
  BY DEF SafetyInv, FenceDurable, FenceUp
<1>2. OneSender'
  BY DEF SafetyInv, OneSender
<1>3. AuthorityUnused'
  BY DEF SafetyInv, AuthorityUnused
<1>4. AtMostOnce'
  BY DEF SafetyInv, AtMostOnce
<1> QED
  BY <1>1, <1>2, <1>3, <1>4 DEF SafetyInv

\* The two ways a statement reaches the tables keep the fence up.
LEMMA WriteKeepsFence ==
  ASSUME TypeOK, ViewExtendsDisk, NEW t \in Table, Evolves(jobs, t),
         OwnTransaction(t) \/ Statement(t), foreign' = foreign
  PROVE  /\ jobs' \in Table /\ disk' \in Table
         /\ ViewExtendsDisk'
         /\ \A k \in Keys : FenceUp(k) => FenceUp(k)'
         /\ Evolves(disk, disk')
<1>1. jobs \in Table /\ disk \in Table /\ foreign \in BOOLEAN
  BY DEF TypeOK, Table
<1>2. jobs' = t /\ (foreign => disk' = disk) /\ (~foreign => disk' = t)
  BY <1>1 DEF OwnTransaction, Statement
<1>3. Evolves(disk, disk') /\ ViewExtendsDisk'
  <2>1. CASE foreign
    <3>1. Evolves(disk, jobs')
      BY <1>1, <1>2, EvolvesTransitive DEF ViewExtendsDisk
    <3> QED
      BY <1>1, <1>2, <2>1, <3>1, EvolvesReflexive DEF ViewExtendsDisk
  <2>2. CASE ~foreign
    BY <1>1, <1>2, <2>2, EvolvesReflexive DEF ViewExtendsDisk
  <2> QED
    BY <2>1, <2>2
<1>4. ASSUME NEW k \in Keys, FenceUp(k)
      PROVE  FenceUp(k)'
  <2>1. disk[k].attempts \in Nat /\ disk'[k].attempts \in Nat
    BY <1>1, <1>2, RowFields DEF Table
  <2> QED
    BY <1>2, <1>3, <1>4, <2>1 DEF Evolves, FenceUp
<1> QED
  BY <1>1, <1>2, <1>3, <1>4

\* The empty queue of a new database is safe.
LEMMA InitSafe == Init => SafetyInv
<1> SUFFICES ASSUME Init PROVE SafetyInv
  OBVIOUS
<1>1. Absent \in Row
  BY DEF Absent, Row, Kinds, NoLease
<1>2. TypeOK
  <2>1. jobs \in [Keys -> Row] /\ disk \in [Keys -> Row]
    BY <1>1 DEF Init, EmptyTable
  <2>2. clock \in 0..MaxClock
    BY ClockAssumption DEF Init
  <2>3. token \in [Workers -> [Keys -> Nat]] /\ stage \in [Workers -> [Keys -> Stages]]
    BY DEF Init, NoTokens, AllIdle, Stages, NoLease
  <2>4. foreign \in BOOLEAN /\ running \in BOOLEAN /\ setBack \in BOOLEAN /\ sent \in [Keys -> Nat]
    BY DEF Init
  <2> QED
    BY <2>1, <2>2, <2>3, <2>4 DEF TypeOK
<1>3. /\ \A w \in Workers, k \in Keys : ~Authorised(w, k)
      /\ \A k \in Keys : sent[k] = 0
  BY DEF Init, AllIdle, Authorised
<1>4. ViewExtendsDisk
  BY <1>2, EvolvesReflexive DEF Init, ViewExtendsDisk, TypeOK, Table
<1> QED
  BY <1>2, <1>3, <1>4 DEF SafetyInv, FenceDurable, OneSender, AuthorityUnused,
                          AtMostOnce

----------------------------------------------------------------------------
\* enqueue keeps the invariant.
LEMMA EnqueueSafe ==
  ASSUME SafetyInv, NEW k \in Keys, NEW kind \in JobKinds, NEW due \in Times,
         NEW shadow \in BOOLEAN, Enqueue(k, kind, due, shadow)
  PROVE  SafetyInv' /\ Evolves(disk, disk')
<1> DEFINE t == Insert(jobs, k, kind, due, clock, shadow)
<1>1. TypeOK /\ ViewExtendsDisk /\ jobs \in Table /\ clock \in Nat
  BY ClockAssumption DEF SafetyInv, TypeOK, Table
<1>2. t \in Table /\ Evolves(jobs, t)
  BY <1>1, InputAssumption, InsertEvolves
<1>3. Statement(t) /\ UNCHANGED <<foreign, running, clock, setBack, token, stage, sent>>
  BY DEF Enqueue
<1>4. /\ jobs' \in Table /\ disk' \in Table /\ ViewExtendsDisk'
      /\ \A j \in Keys : FenceUp(j) => FenceUp(j)'
      /\ Evolves(disk, disk')
  BY <1>1, <1>2, <1>3, WriteKeepsFence
<1>5. TypeOK'
  BY <1>1, <1>3, <1>4 DEF TypeOK, Table
<1>6. \A w \in Workers, j \in Keys : Authorised(w, j)' => Authorised(w, j)
  BY <1>3 DEF Authorised
<1> QED
  BY <1>3, <1>4, <1>5, <1>6, QuietStep

\* claim_due keeps the invariant: it hands out pending rows only, so nobody
\* is authorised for them.
LEMMA ClaimDueSafe ==
  ASSUME SafetyInv, NEW w \in Workers, NEW kinds, NEW cap,
         ClaimDue(w, kinds, cap)
  PROVE  SafetyInv' /\ Evolves(disk, disk')
<1> DEFINE t == Requeue(jobs, clock)
           S == SelectDue(t, kinds, clock, cap)
           lease == clock + LeaseS
           u == Claim(t, S, lease)
<1>1. /\ TypeOK /\ ViewExtendsDisk /\ jobs \in Table /\ clock \in Nat
      /\ lease \in Nat
  BY ClockAssumption, LeaseAssumption DEF SafetyInv, TypeOK, Table
<1>2. t \in Table /\ Evolves(jobs, t)
  BY <1>1, RequeueEvolves
<1>3. u \in Table /\ Evolves(t, u)
  BY <1>1, <1>2, ClaimEvolves
<1>4. Evolves(jobs, u)
  BY <1>1, <1>2, <1>3, EvolvesTransitive
<1>5. OwnTransaction(u) /\ UNCHANGED <<foreign, running, clock, setBack, sent>>
  BY DEF ClaimDue
<1>6. /\ token' = [token EXCEPT ![w] =
                    [k \in Keys |-> IF k \in S THEN lease ELSE @[k]]]
      /\ stage' = [stage EXCEPT ![w] =
                    [k \in Keys |-> IF k \in S THEN "claimed" ELSE @[k]]]
  BY DEF ClaimDue
<1>7. /\ jobs' \in Table /\ disk' \in Table /\ ViewExtendsDisk'
      /\ \A j \in Keys : FenceUp(j) => FenceUp(j)'
      /\ Evolves(disk, disk')
  BY <1>1, <1>3, <1>4, <1>5, WriteKeepsFence
<1>8. TypeOK'
  <2>1. token' \in [Workers -> [Keys -> Nat]]
    BY <1>1, <1>6 DEF TypeOK
  <2>2. stage' \in [Workers -> [Keys -> Stages]]
    BY <1>1, <1>6 DEF TypeOK, Stages
  <2> QED
    BY <1>1, <1>5, <1>7, <2>1, <2>2 DEF TypeOK, Table
<1>9. \A v \in Workers, j \in Keys : Authorised(v, j)' => Authorised(v, j)
  BY <1>1, <1>6 DEF Authorised, TypeOK
<1> QED
  BY <1>5, <1>7, <1>8, <1>9, QuietStep

\* mark_sending keeps the invariant: the row it moves to `sending' was
\* claimed, hence not fenced, hence never sent and nobody else's; and no
\* transaction is open, so the move is committed.
LEMMA MarkSendingSafe ==
  ASSUME SafetyInv, NEW w \in Workers, NEW k \in Keys, MarkSending(w, k)
  PROVE  SafetyInv' /\ Evolves(disk, disk')
<1> DEFINE t == ToSending(jobs, k)
<1>1. TypeOK /\ ViewExtendsDisk /\ jobs \in Table
  BY DEF SafetyInv, TypeOK, Table
<1>2. jobs[k].state = "claimed"
  BY DEF MarkSending, MaySend
<1>3. /\ t \in Table /\ Evolves(jobs, t)
      /\ Fenced(t[k]) /\ t[k].attempts >= 1
  BY <1>1, <1>2, ToSendingEvolves
<1>4. /\ OwnTransaction(t)
      /\ UNCHANGED <<foreign, running, clock, setBack, token, sent>>
      /\ stage' = [stage EXCEPT ![w][k] = "granted"]
  BY DEF MarkSending
<1>5. /\ jobs' \in Table /\ disk' \in Table /\ ViewExtendsDisk'
      /\ \A j \in Keys : FenceUp(j) => FenceUp(j)'
      /\ Evolves(disk, disk')
  BY <1>1, <1>3, <1>4, WriteKeepsFence
<1>6. TypeOK'
  <2>1. stage' \in [Workers -> [Keys -> Stages]]
    BY <1>1, <1>4 DEF TypeOK, Stages
  <2> QED
    BY <1>1, <1>4, <1>5, <2>1 DEF TypeOK, Table
<1>7. sent[k] = 0 /\ \A v \in Workers : ~Authorised(v, k)
  <2>1. ~Fenced(jobs[k])
    BY <1>2 DEF Fenced
  <2>2. sent[k] \in Nat
    BY <1>1 DEF TypeOK
  <2> QED
    BY <2>1, <2>2 DEF SafetyInv, FenceDurable
<1>8. \A v \in Workers, j \in Keys :
         Authorised(v, j)' => Authorised(v, j) \/ (v = w /\ j = k)
  BY <1>1, <1>4 DEF Authorised, TypeOK
<1>9. FenceUp(k)'
  BY <1>3, <1>4 DEF FenceUp, OwnTransaction
<1>10. FenceDurable'
  BY <1>4, <1>5, <1>8, <1>9 DEF SafetyInv, FenceDurable, FenceUp
<1>11. OneSender'
  BY <1>7, <1>8 DEF SafetyInv, OneSender
<1>12. AuthorityUnused'
  BY <1>4, <1>7, <1>8 DEF SafetyInv, AuthorityUnused
<1>13. AtMostOnce'
  BY <1>4 DEF SafetyInv, AtMostOnce
<1> QED
  BY <1>5, <1>6, <1>10, <1>11, <1>12, <1>13 DEF SafetyInv

\* The send itself keeps the invariant: authority is spent on it.
LEMMA SendSafe ==
  ASSUME SafetyInv, NEW w \in Workers, NEW k \in Keys, Send(w, k)
  PROVE  SafetyInv' /\ disk' = disk
<1>1. TypeOK /\ sent[k] = 0 /\ Authorised(w, k) /\ FenceUp(k)
  BY DEF SafetyInv, Send, AuthorityUnused, FenceDurable, FenceUp
<1>2. /\ UNCHANGED <<jobs, disk, foreign, running, clock, setBack, token>>
      /\ sent' = [sent EXCEPT ![k] = @ + 1]
      /\ stage' = [stage EXCEPT ![w][k] = IF @ = "granted" THEN "sent" ELSE "idle"]
  BY DEF Send
<1>3. TypeOK'
  <2>1. stage' \in [Workers -> [Keys -> Stages]]
    BY <1>1, <1>2 DEF TypeOK, Stages
  <2>2. sent' \in [Keys -> Nat]
    BY <1>1, <1>2 DEF TypeOK
  <2> QED
    BY <1>1, <1>2, <2>1, <2>2 DEF TypeOK
<1>4. \A v \in Workers, j \in Keys :
         Authorised(v, j)' => Authorised(v, j) /\ ~(v = w /\ j = k)
  BY <1>1, <1>2 DEF Authorised, TypeOK
<1>5. sent'[k] = 1 /\ \A j \in Keys \ {k} : sent'[j] = sent[j]
  BY <1>1, <1>2 DEF TypeOK
<1>6. ViewExtendsDisk'
  BY <1>2 DEF SafetyInv, ViewExtendsDisk
<1>7. FenceDurable'
  BY <1>1, <1>2, <1>4, <1>5 DEF SafetyInv, FenceDurable, FenceUp
<1>8. OneSender'
  BY <1>4 DEF SafetyInv, OneSender
<1>9. AuthorityUnused'
  <2> SUFFICES ASSUME NEW j \in Keys, NEW v \in Workers, Authorised(v, j)'
               PROVE  sent'[j] = 0
    BY DEF AuthorityUnused
  <2>1. Authorised(v, j) /\ ~(v = w /\ j = k)
    BY <1>4
  <2>2. j # k
    BY <1>1, <2>1 DEF SafetyInv, OneSender
  <2> QED
    BY <1>5, <2>1, <2>2 DEF SafetyInv, AuthorityUnused
<1>10. AtMostOnce'
  BY <1>5 DEF SafetyInv, AtMostOnce
<1> QED
  BY <1>2, <1>3, <1>6, <1>7, <1>8, <1>9, <1>10 DEF SafetyInv

\* release keeps the invariant.
LEMMA ReleaseSafe ==
  ASSUME SafetyInv, NEW w \in Workers, NEW k \in Keys,
         NEW newdue \in {0} \cup Times, Release(w, k, newdue)
  PROVE  SafetyInv' /\ Evolves(disk, disk')
<1> DEFINE t == ToPending(jobs, k, newdue)
<1>1. TypeOK /\ ViewExtendsDisk /\ jobs \in Table
  BY DEF SafetyInv, TypeOK, Table
<1>2. jobs[k].state = "claimed" /\ newdue \in Nat
  BY InputAssumption DEF Release, MayRelease
<1>3. t \in Table /\ Evolves(jobs, t)
  BY <1>1, <1>2, ToPendingEvolves
<1>4. /\ Statement(t)
      /\ UNCHANGED <<foreign, running, clock, setBack, token, sent>>
      /\ stage' = [stage EXCEPT ![w][k] = "idle"]
  BY DEF Release
<1>5. /\ jobs' \in Table /\ disk' \in Table /\ ViewExtendsDisk'
      /\ \A j \in Keys : FenceUp(j) => FenceUp(j)'
      /\ Evolves(disk, disk')
  BY <1>1, <1>3, <1>4, WriteKeepsFence
<1>6. TypeOK'
  <2>1. stage' \in [Workers -> [Keys -> Stages]]
    BY <1>1, <1>4 DEF TypeOK, Stages
  <2> QED
    BY <1>1, <1>4, <1>5, <2>1 DEF TypeOK, Table
<1>7. \A v \in Workers, j \in Keys : Authorised(v, j)' => Authorised(v, j)
  BY <1>1, <1>4 DEF Authorised, TypeOK
<1> QED
  BY <1>4, <1>5, <1>6, <1>7, QuietStep

\* finish keeps the invariant: `finished' keeps an authority that `granted'
\* already was.
LEMMA FinishSafe ==
  ASSUME SafetyInv, NEW w \in Workers, NEW k \in Keys,
         NEW st \in FinishStates, Finish(w, k, st)
  PROVE  SafetyInv' /\ Evolves(disk, disk')
<1> DEFINE t == ToFinished(jobs, k, st)
<1>1. TypeOK /\ ViewExtendsDisk /\ jobs \in Table
  BY DEF SafetyInv, TypeOK, Table
<1>2. MayFinish(jobs[k], st, token[w][k])
  BY DEF Finish
<1>3. t \in Table /\ Evolves(jobs, t)
  BY <1>1, <1>2, ToFinishedEvolves
<1>4. /\ Statement(t)
      /\ UNCHANGED <<foreign, running, clock, setBack, token, sent>>
      /\ stage' = [stage EXCEPT ![w][k] =
                    IF @ = "granted" /\ st = "done" THEN "finished" ELSE "idle"]
  BY DEF Finish
<1>5. /\ jobs' \in Table /\ disk' \in Table /\ ViewExtendsDisk'
      /\ \A j \in Keys : FenceUp(j) => FenceUp(j)'
      /\ Evolves(disk, disk')
  BY <1>1, <1>3, <1>4, WriteKeepsFence
<1>6. TypeOK'
  <2>1. stage' \in [Workers -> [Keys -> Stages]]
    BY <1>1, <1>4 DEF TypeOK, Stages
  <2> QED
    BY <1>1, <1>4, <1>5, <2>1 DEF TypeOK, Table
<1>7. \A v \in Workers, j \in Keys : Authorised(v, j)' => Authorised(v, j)
  BY <1>1, <1>4 DEF Authorised, TypeOK
<1> QED
  BY <1>4, <1>5, <1>6, <1>7, QuietStep

\* The steps that write the table and leave the workers alone: withdrawal,
\* expiry and start recovery.
LEMMA TableWriteSafe ==
  ASSUME SafetyInv, NEW t \in Table, Evolves(jobs, t),
         OwnTransaction(t) \/ Statement(t),
         running' \in BOOLEAN, UNCHANGED <<foreign, clock, setBack, token, stage, sent>>
  PROVE  SafetyInv' /\ Evolves(disk, disk')
<1>1. TypeOK /\ ViewExtendsDisk
  BY DEF SafetyInv
<1>2. /\ jobs' \in Table /\ disk' \in Table /\ ViewExtendsDisk'
      /\ \A j \in Keys : FenceUp(j) => FenceUp(j)'
      /\ Evolves(disk, disk')
  BY <1>1, WriteKeepsFence
<1>3. TypeOK'
  BY <1>1, <1>2 DEF TypeOK, Table
<1>4. \A w \in Workers, j \in Keys : Authorised(w, j)' => Authorised(w, j)
  BY DEF Authorised
<1> QED
  BY <1>2, <1>3, <1>4, QuietStep

\* Withdrawal, expiry and start recovery keep the invariant.
LEMMA HousekeepingSafe ==
  ASSUME SafetyInv,
         \/ \E k \in Keys, st \in FinishStates : Withdraw(k, st)
         \/ \E kind \in Kinds, cutoff \in Times : ExpireOlderThan(kind, cutoff)
         \/ RecoverOnStart
  PROVE  SafetyInv' /\ Evolves(disk, disk')
<1>1. jobs \in Table /\ clock \in Nat /\ running \in BOOLEAN
  BY ClockAssumption DEF SafetyInv, TypeOK, Table
<1>2. ASSUME NEW k \in Keys, NEW st \in FinishStates, Withdraw(k, st)
      PROVE  SafetyInv' /\ Evolves(disk, disk')
  <2>1. ToFinished(jobs, k, st) \in Table /\ Evolves(jobs, ToFinished(jobs, k, st))
    BY <1>1, <1>2, ToFinishedEvolves DEF Withdraw
  <2> QED
    BY <1>1, <1>2, <2>1, TableWriteSafe DEF Withdraw
<1>3. ASSUME NEW kind \in Kinds, NEW cutoff \in Times, ExpireOlderThan(kind, cutoff)
      PROVE  SafetyInv' /\ Evolves(disk, disk')
  <2>1. Expire(jobs, kind, cutoff) \in Table /\ Evolves(jobs, Expire(jobs, kind, cutoff))
    BY <1>1, ExpireEvolves
  <2> QED
    BY <1>1, <1>3, <2>1, TableWriteSafe DEF ExpireOlderThan
<1>4. ASSUME RecoverOnStart
      PROVE  SafetyInv' /\ Evolves(disk, disk')
  <2>1. Recover(jobs, clock) \in Table /\ Evolves(jobs, Recover(jobs, clock))
    BY <1>1, RecoverEvolves
  <2> QED
    BY <1>1, <1>4, <2>1, TableWriteSafe DEF RecoverOnStart
<1> QED
  BY <1>2, <1>3, <1>4

\* What surrounds the queue keeps the invariant: foreign transactions, the
\* clock, and the crash, after which nobody is authorised any more.
LEMMA EnvironmentSafe ==
  ASSUME SafetyInv,
         \/ ForeignBegin \/ ForeignCommit \/ ForeignRollback \/ Crash \/ ClockStep
  PROVE  SafetyInv' /\ Evolves(disk, disk')
<1>1. /\ TypeOK /\ ViewExtendsDisk
      /\ jobs \in Table /\ disk \in Table
  BY DEF SafetyInv, TypeOK, Table
<1>2. TypeOK'
  <2>1. CASE ForeignBegin
    BY <1>1, <2>1 DEF ForeignBegin, TypeOK
  <2>2. CASE ForeignCommit
    BY <1>1, <2>2 DEF ForeignCommit, TypeOK
  <2>3. CASE ForeignRollback
    BY <1>1, <2>3 DEF ForeignRollback, TypeOK
  <2>4. CASE Crash
    BY <1>1, <2>4 DEF Crash, TypeOK, NoTokens, AllIdle, Stages, NoLease
  <2>5. CASE ClockStep
    BY <1>1, <2>5 DEF ClockStep, TypeOK
  <2> QED
    BY <2>1, <2>2, <2>3, <2>4, <2>5
<1>3. Evolves(disk, disk')
  BY <1>1, EvolvesReflexive
     DEF ViewExtendsDisk, ForeignBegin, ForeignCommit, ForeignRollback, Crash, ClockStep
<1>4. ViewExtendsDisk'
  <2>1. CASE ForeignBegin \/ ClockStep
    BY <1>1, <2>1 DEF ViewExtendsDisk, ForeignBegin, ClockStep
  <2>2. CASE ForeignCommit \/ ForeignRollback \/ Crash
    <3>1. jobs' = disk' /\ disk' \in Table
      BY <1>1, <2>2 DEF ForeignCommit, ForeignRollback, Crash
    <3> QED
      BY <3>1, EvolvesReflexive DEF ViewExtendsDisk
  <2> QED
    BY <2>1, <2>2
<1>5. sent' = sent
  BY DEF ForeignBegin, ForeignCommit, ForeignRollback, Crash, ClockStep
<1>6. \A w \in Workers, k \in Keys : Authorised(w, k)' => Authorised(w, k)
  <2>1. stage' = stage \/ stage' = AllIdle
    BY DEF ForeignBegin, ForeignCommit, ForeignRollback, Crash, ClockStep
  <2> QED
    BY <2>1 DEF Authorised, AllIdle
<1>7. \A k \in Keys : FenceUp(k) => FenceUp(k)'
  <2> SUFFICES ASSUME NEW k \in Keys, FenceUp(k) PROVE FenceUp(k)'
    OBVIOUS
  <2>1. disk[k].attempts \in Nat /\ jobs[k].attempts \in Nat
    BY <1>1, RowFields DEF Table
  <2>2. jobs[k].attempts >= 1
    BY <1>1, <2>1 DEF ViewExtendsDisk, Evolves, FenceUp
  <2> QED
    BY <2>2 DEF FenceUp, ForeignBegin, ForeignCommit, ForeignRollback, Crash, ClockStep
<1> QED
  BY <1>2, <1>3, <1>4, <1>5, <1>6, <1>7, QuietStep

----------------------------------------------------------------------------
\* Every step of the queue and its surroundings keeps the invariant and
\* evolves the committed table.
LEMMA StepSafe == SafetyInv /\ [Next]_vars => SafetyInv' /\ Evolves(disk, disk')
<1> SUFFICES ASSUME SafetyInv, [Next]_vars
             PROVE  SafetyInv' /\ Evolves(disk, disk')
  OBVIOUS
<1>0. disk \in Table
  BY DEF SafetyInv, TypeOK, Table
<1>1. ASSUME NEW w \in Workers, WorkerStep(w)
      PROVE  SafetyInv' /\ Evolves(disk, disk')
  <2>1. CASE \E kinds \in {Kinds} \cup {{kind} : kind \in Kinds}, cap \in Caps :
                ClaimDue(w, kinds, cap)
    BY <2>1, ClaimDueSafe
  <2>2. ASSUME NEW k \in Keys, MarkSending(w, k)
        PROVE  SafetyInv' /\ Evolves(disk, disk')
    BY <2>2, MarkSendingSafe
  <2>3. ASSUME NEW k \in Keys, Send(w, k)
        PROVE  SafetyInv' /\ Evolves(disk, disk')
    BY <1>0, <2>3, SendSafe, EvolvesReflexive
  <2>4. ASSUME NEW k \in Keys, NEW newdue \in {0} \cup Times, Release(w, k, newdue)
        PROVE  SafetyInv' /\ Evolves(disk, disk')
    BY <2>4, ReleaseSafe
  <2>5. ASSUME NEW k \in Keys, NEW st \in FinishStates, Finish(w, k, st)
        PROVE  SafetyInv' /\ Evolves(disk, disk')
    BY <2>5, FinishSafe
  <2> QED
    BY <1>1, <2>1, <2>2, <2>3, <2>4, <2>5 DEF WorkerStep
<1>2. ASSUME NEW k \in Keys, NEW kind \in JobKinds, NEW due \in Times,
             NEW shadow \in BOOLEAN, Enqueue(k, kind, due, shadow)
      PROVE  SafetyInv' /\ Evolves(disk, disk')
  BY <1>2, EnqueueSafe
<1>3. CASE \/ \E k \in Keys, st \in FinishStates : Withdraw(k, st)
           \/ \E kind \in Kinds, cutoff \in Times : ExpireOlderThan(kind, cutoff)
           \/ RecoverOnStart
  BY <1>3, HousekeepingSafe
<1>4. CASE \/ ForeignBegin \/ ForeignCommit \/ ForeignRollback \/ Crash \/ ClockStep
  BY <1>4, EnvironmentSafe
<1>5. CASE UNCHANGED vars
  <2>1. TypeOK'
    BY <1>5 DEF SafetyInv, TypeOK, vars
  <2>2. ViewExtendsDisk'
    BY <1>5 DEF SafetyInv, ViewExtendsDisk, Evolves, Fenced, vars
  <2>3. \A w \in Workers, k \in Keys : Authorised(w, k)' => Authorised(w, k)
    BY <1>5 DEF Authorised, vars
  <2>4. \A k \in Keys : FenceUp(k) => FenceUp(k)'
    BY <1>5 DEF FenceUp, vars
  <2>5. sent' = sent /\ disk' = disk
    BY <1>5 DEF vars
  <2> QED
    BY <1>0, <2>1, <2>2, <2>3, <2>4, <2>5, QuietStep, EvolvesReflexive
<1> QED
  BY <1>1, <1>2, <1>3, <1>4, <1>5 DEF Next

\* The inductive invariant holds in every reachable state of the queue.
THEOREM SafetyInvariant == Spec => []SafetyInv
<1>1. Init => SafetyInv
  BY InitSafe
<1>2. SafetyInv /\ [Next]_vars => SafetyInv'
  BY StepSafe
<1> QED
  BY <1>1, <1>2, PTL DEF Spec

\* The variables of the queue keep their types.
THEOREM TypeCorrect == Spec => []TypeOK
<1>1. SafetyInv => TypeOK
  BY DEF SafetyInv
<1> QED
  BY <1>1, SafetyInvariant, PTL

\* No job is ever handed to the channel twice: the delivery guarantee of
\* job_queue_repo.h, for any number of jobs and workers, any lease, any wall
\* clock, crashes and foreign rollbacks at any moment.
THEOREM DeliveredAtMostOnce == Spec => []AtMostOnce
<1>1. SafetyInv => AtMostOnce
  BY DEF SafetyInv
<1> QED
  BY <1>1, SafetyInvariant, PTL

\* The fence is durable before anybody may send.
THEOREM FenceBeforeSend == Spec => []FenceDurable
<1>1. SafetyInv => FenceDurable
  BY DEF SafetyInv
<1> QED
  BY <1>1, SafetyInvariant, PTL

\* At most one worker is past mark_sending with a job, whatever tokens the
\* wall clock hands out: a second mark_sending finds no claimed row.
THEOREM OneWorkerSends == Spec => []OneSender
<1>1. SafetyInv => OneSender
  BY DEF SafetyInv
<1> QED
  BY <1>1, SafetyInvariant, PTL

\* A committed terminal row never changes again.
THEOREM TerminalRowsAreFinal == Spec => TerminalIsFinal
<1>1. SafetyInv /\ [Next]_vars =>
        [\A k \in Keys : disk[k].state \in Terminal => disk'[k] = disk[k]]_vars
  BY StepSafe DEF Evolves
<1> QED
  BY <1>1, SafetyInvariant, PTL DEF Spec, TerminalIsFinal
----------------------------------------------------------------------------
(* Lease fencing.  While the clock is not set back, two copies of a job never carry the same lease:*)
(* whoever holds a lease that still runs finds its row claimed under it, on disk as well, so nobody*)
(* else claims the row before the clock has moved on.                                              *)

\* Row r is claimed under worker v's lease of job k.
Under(r, v, k) == r.state = "claimed" /\ r.lease = token[v][k]

\* v's lease of job k still runs, and it is the row's.
Holds(v, k) == token[v][k] > clock => Under(jobs[k], v, k) /\ Under(disk[k], v, k)

LeaseInv ==
  /\ \A v \in Workers, k \in Keys :
       /\ stage[v][k] = "claimed" => running /\ Holds(v, k)
       /\ stage[v][k] = "sent" => sent[k] > 0
  /\ \A v, w \in Workers, k \in Keys :
       stage[v][k] = "claimed" /\ stage[w][k] = "claimed" /\ token[v][k] = token[w][k] => v = w

\* A step that claims nothing keeps this if it leaves the rows alone that are claimed under a lease
\* of somebody who keeps it.
LEMMA NoNewClaim ==
  ASSUME SafetyInv, LeaseInv, TypeOK', clock' >= clock,
         \A v \in Workers, k \in Keys :
           stage'[v][k] = "claimed" =>
             /\ stage[v][k] = "claimed" /\ token'[v][k] = token[v][k] /\ running'
             /\ Holds(v, k) /\ token[v][k] > clock => jobs'[k] = jobs[k] /\ disk'[k] = disk[k],
         \A v \in Workers, k \in Keys : stage'[v][k] = "sent" => sent'[k] > 0
  PROVE  LeaseInv'
<1>1. clock \in Nat /\ clock' \in Nat /\ \A v \in Workers, k \in Keys : token[v][k] \in Nat
  BY ClockAssumption DEF SafetyInv, TypeOK
<1>2. ASSUME NEW v \in Workers, NEW k \in Keys, stage'[v][k] = "claimed"
      PROVE  running' /\ Holds(v, k)'
  <2>1. stage[v][k] = "claimed" /\ token'[v][k] = token[v][k] /\ running' /\ Holds(v, k)
    BY <1>2 DEF LeaseInv
  <2>2. token'[v][k] > clock' => token[v][k] > clock
    BY <1>1, <2>1
  <2>3. token[v][k] > clock => jobs'[k] = jobs[k] /\ disk'[k] = disk[k]
    BY <1>2, <2>1
  <2> QED
    BY <2>1, <2>2, <2>3 DEF Holds, Under
<1>3. ASSUME NEW v \in Workers, NEW w \in Workers, NEW k \in Keys,
             stage'[v][k] = "claimed", stage'[w][k] = "claimed", token'[v][k] = token'[w][k]
      PROVE  v = w
  BY <1>3 DEF LeaseInv
<1> QED
  BY <1>2, <1>3 DEF LeaseInv

\* A statement leaves the rows alone that are claimed under a running lease.
Spares(t, u, now) == \A k \in Keys : t[k].state = "claimed" /\ t[k].lease > now => u[k] = t[k]

\* Enqueueing, the lease sweep, expiring and withdrawing do.
LEMMA StatementsSpare ==
  ASSUME NEW t \in Table, NEW now \in Nat
  PROVE  /\ \A k \in Keys : \A kind, due, at, shadow : Spares(t, Insert(t, k, kind, due, at, shadow), now)
         /\ Spares(t, Requeue(t, now), now)
         /\ \A kind, cutoff : Spares(t, Expire(t, kind, cutoff), now)
         /\ \A k \in Keys : \A st : MayFinish(t[k], st, NoLease) => Spares(t, ToFinished(t, k, st), now)
<1>1. ASSUME NEW k \in Keys, NEW kind, NEW due, NEW at, NEW shadow
      PROVE  Spares(t, Insert(t, k, kind, due, at, shadow), now)
  BY DEF Spares, Insert, Table
<1>2. Spares(t, Requeue(t, now), now)
  <2>1. \A k \in Keys : t[k].lease \in Nat
    BY RowFields DEF Table
  <2>2. \A k \in Keys : t[k].lease > now => ~(t[k].lease < now)
    BY <2>1
  <2> QED
    BY <2>2 DEF Spares, Requeue, LeaseExpired
<1>3. ASSUME NEW kind, NEW cutoff PROVE Spares(t, Expire(t, kind, cutoff), now)
  BY DEF Spares, Expire, Expirable
<1>4. ASSUME NEW k \in Keys, NEW st, MayFinish(t[k], st, NoLease)
      PROVE  Spares(t, ToFinished(t, k, st), now)
  <2>1. ~(t[k].state = "claimed" /\ t[k].lease > now)
    <3>1. t[k].lease \in Nat
      BY RowFields DEF Table
    <3> QED
      BY <1>4, <3>1 DEF MayFinish, NoLease
  <2> QED
    BY <2>1 DEF Spares, ToFinished, Table
<1> QED
  BY <1>1, <1>2, <1>3, <1>4

\* So nobody's lease is touched by a step that only runs such a statement.
LEMMA SparingStep ==
  ASSUME SafetyInv, LeaseInv, TypeOK', NEW t, Statement(t), Spares(jobs, t, clock),
         UNCHANGED <<running, clock, setBack, token, stage, sent>>
  PROVE  LeaseInv'
<1>1. ASSUME NEW v \in Workers, NEW k \in Keys, Holds(v, k), token[v][k] > clock
      PROVE  jobs'[k] = jobs[k] /\ disk'[k] = disk[k]
  <2>1. t[k] = jobs[k]
    BY <1>1 DEF Holds, Under, Spares
  <2>2. ~foreign => jobs = disk
    BY DEF SafetyInv, ViewExtendsDisk
  <2> QED
    BY <2>1, <2>2 DEF Statement
<1>2. clock' >= clock
  BY ClockAssumption DEF SafetyInv, TypeOK
<1> QED
  BY <1>1, <1>2, NoNewClaim DEF LeaseInv

\* A step of worker w with its own copy of job k touches no other lease: the row is claimed under
\* w's lease, or not claimed at all.
LEMMA OwnCopyStep ==
  ASSUME SafetyInv, LeaseInv, TypeOK', NEW w \in Workers, NEW k \in Keys, NEW to \in Stages, to # "claimed",
         jobs[k].state = "claimed" => stage[w][k] = "claimed" /\ jobs[k].lease = token[w][k],
         stage' = [stage EXCEPT ![w][k] = to], UNCHANGED <<running, clock, setBack, token>>,
         \A j \in Keys \ {k} : jobs'[j] = jobs[j] /\ disk'[j] = disk[j],
         \A j \in Keys : sent[j] > 0 => sent'[j] > 0, to = "sent" => sent'[k] > 0
  PROVE  LeaseInv'
<1>0. stage \in [Workers -> [Keys -> Stages]]
  BY DEF SafetyInv, TypeOK
<1>1. /\ \A v \in Workers, j \in Keys : ~(v = w /\ j = k) => stage'[v][j] = stage[v][j]
      /\ stage'[w][k] = to
  BY <1>0
<1>2. ASSUME NEW v \in Workers, NEW j \in Keys, stage'[v][j] = "claimed", Holds(v, j), token[v][j] > clock
      PROVE  jobs'[j] = jobs[j] /\ disk'[j] = disk[j]
  <2>1. CASE j = k
    <3>1. v # w /\ stage[v][k] = "claimed"
      BY <1>1, <1>2, <2>1
    <3>2. jobs[k].state = "claimed" /\ jobs[k].lease = token[v][k]
      BY <1>2, <2>1 DEF Holds, Under
    <3> QED
      BY <3>1, <3>2 DEF LeaseInv
  <2>2. CASE j # k
    BY <2>2
  <2> QED
    BY <2>1, <2>2
<1>3. clock' >= clock
  BY ClockAssumption DEF SafetyInv, TypeOK
<1>4. \A v \in Workers, j \in Keys : stage'[v][j] = "sent" => sent'[j] > 0
  BY <1>1 DEF LeaseInv
<1>5. \A v \in Workers, j \in Keys :
        stage'[v][j] = "claimed" => stage[v][j] = "claimed" /\ token'[v][j] = token[v][j] /\ running'
  BY <1>1 DEF LeaseInv
<1> QED
  BY <1>2, <1>3, <1>4, <1>5, NoNewClaim

\* claim_due hands out a lease nobody has: a row whose lease runs is not claimed again.
LEMMA ClaimDueLease ==
  ASSUME SafetyInv, LeaseInv, TypeOK', NEW w \in Workers, NEW kinds, NEW cap, ClaimDue(w, kinds, cap)
  PROVE  LeaseInv'
<1> DEFINE t == Requeue(jobs, clock)
           S == SelectDue(t, kinds, clock, cap)
           lease == clock + LeaseS
           u == Claim(t, S, lease)
<1>0. /\ jobs \in Table /\ clock \in Nat /\ lease \in Nat /\ lease > clock
      /\ token \in [Workers -> [Keys -> Nat]] /\ stage \in [Workers -> [Keys -> Stages]]
  BY ClockAssumption, LeaseAssumption DEF SafetyInv, TypeOK, Table
<1>1. running /\ jobs' = u /\ disk' = u /\ UNCHANGED <<running, clock, setBack, sent>>
  BY DEF ClaimDue, OwnTransaction
<1>2. /\ token' = [token EXCEPT ![w] = [k \in Keys |-> IF k \in S THEN lease ELSE @[k]]]
      /\ stage' = [stage EXCEPT ![w] = [k \in Keys |-> IF k \in S THEN "claimed" ELSE @[k]]]
  BY DEF ClaimDue
<1>3. \A k \in S : k \in Keys /\ t[k].state = "pending"
  BY DEF SelectDue, Due
<1>4. t \in Table /\ Spares(jobs, t, clock)
  BY <1>0, StatementsSpare, RequeueEvolves
<1>5. \A k \in S : u[k].state = "claimed" /\ u[k].lease = lease
  <2> SUFFICES ASSUME NEW k \in S PROVE u[k].state = "claimed" /\ u[k].lease = lease
    OBVIOUS
  <2>1. u[k] = SetState(t[k], "claimed", lease) /\ t[k] \in Row /\ "claimed" \in RowStates
    BY <1>3, <1>4 DEF Claim, Table, RowStates
  <2> QED
    BY <1>0, <2>1, SetStateRow
<1>6. \A k \in Keys \ S : u[k] = t[k]
  BY DEF Claim
<1> HIDE DEF t, S, lease, u
<1>7. ASSUME NEW v \in Workers, NEW k \in Keys, stage[v][k] = "claimed", token[v][k] > clock
      PROVE  k \notin S /\ jobs'[k] = jobs[k] /\ disk'[k] = jobs[k] /\ Under(jobs[k], v, k)
  <2>1. Under(jobs[k], v, k)
    BY <1>7 DEF LeaseInv, Holds
  <2>2. t[k] = jobs[k]
    BY <1>4, <1>7, <2>1 DEF Spares, Under
  <2>3. k \notin S
    BY <1>3, <2>1, <2>2 DEF Under
  <2> QED
    BY <1>1, <1>6, <2>1, <2>2, <2>3
<1>8. \A v \in Workers, k \in Keys :
        IF v = w /\ k \in S THEN stage'[v][k] = "claimed" /\ token'[v][k] = lease
                            ELSE stage'[v][k] = stage[v][k] /\ token'[v][k] = token[v][k]
  BY <1>0, <1>2
<1>9. ASSUME NEW v \in Workers, NEW k \in Keys, stage'[v][k] = "claimed" PROVE Holds(v, k)'
  <2>1. CASE v = w /\ k \in S
    <3>1. jobs'[k].state = "claimed" /\ jobs'[k].lease = lease /\ disk'[k] = jobs'[k] /\ token'[v][k] = lease
      BY <1>1, <1>5, <1>8, <2>1
    <3> QED
      BY <3>1 DEF Holds, Under
  <2>2. CASE ~(v = w /\ k \in S)
    <3>1. stage[v][k] = "claimed" /\ token'[v][k] = token[v][k] /\ clock' = clock
      BY <1>1, <1>8, <1>9, <2>2
    <3> QED
      BY <1>7, <3>1 DEF Holds, Under
  <2> QED
    BY <2>1, <2>2
<1>10. ASSUME NEW v1 \in Workers, NEW v2 \in Workers, NEW k \in Keys,
              stage'[v1][k] = "claimed", stage'[v2][k] = "claimed", token'[v1][k] = token'[v2][k]
       PROVE  v1 = v2
  <2>1. \A v \in Workers : v # w /\ k \in S => ~(stage[v][k] = "claimed" /\ token[v][k] = lease)
    BY <1>0, <1>7
  <2>2. CASE k \in S
    <3>1. \A v \in Workers : v # w => stage'[v][k] = stage[v][k] /\ token'[v][k] = token[v][k]
      BY <1>8
    <3>2. token'[w][k] = lease
      BY <1>8, <2>2
    <3>3. CASE v1 # w /\ v2 # w
      BY <1>10, <3>1, <3>3 DEF LeaseInv
    <3> QED
      BY <1>10, <2>1, <2>2, <3>1, <3>2, <3>3
  <2>3. CASE k \notin S
    BY <1>8, <1>10, <2>3 DEF LeaseInv
  <2> QED
    BY <2>2, <2>3
<1>11. \A v \in Workers, k \in Keys : stage'[v][k] = "sent" => sent'[k] > 0
  BY <1>1, <1>8 DEF LeaseInv
<1> QED
  BY <1>1, <1>9, <1>10, <1>11 DEF LeaseInv

\* A worker that has sent or may send a job finds its row past the claim.
LEMMA SenderNotClaimed ==
  ASSUME SafetyInv, LeaseInv, NEW w \in Workers, NEW k \in Keys, stage[w][k] \in {"granted", "finished", "sent"}
  PROVE  jobs[k].state # "claimed"
BY DEF SafetyInv, LeaseInv, FenceDurable, Authorised, Fenced

\* The steps of a worker that has a copy of the job.
LEMMA CopyStepLease ==
  ASSUME SafetyInv, LeaseInv, TypeOK', NEW w \in Workers, NEW k \in Keys,
         \/ MarkSending(w, k) \/ Send(w, k)
         \/ \E newdue \in {0} \cup Times : Release(w, k, newdue)
         \/ \E st \in FinishStates : Finish(w, k, st)
  PROVE  LeaseInv'
<1>0. /\ jobs \in Table /\ disk \in Table /\ sent \in [Keys -> Nat] /\ stage[w][k] \in Stages
  BY DEF SafetyInv, TypeOK, Table
<1>1. CASE MarkSending(w, k)
  <2>1. \A j \in Keys \ {k} : jobs'[j] = jobs[j] /\ disk'[j] = disk[j]
    BY <1>0, <1>1 DEF MarkSending, OwnTransaction, ToSending, SafetyInv, ViewExtendsDisk, Table
  <2> QED
    BY <1>1, <2>1, OwnCopyStep DEF MarkSending, MaySend, Stages
<1>2. CASE Send(w, k)
  <2>1. sent'[k] > 0 /\ \A j \in Keys : sent[j] > 0 => sent'[j] > 0
    BY <1>0, <1>2 DEF Send
  <2>2. jobs[k].state # "claimed"
    BY <1>2, SenderNotClaimed DEF Send, Authorised
  <2> DEFINE to == IF stage[w][k] = "granted" THEN "sent" ELSE "idle"
  <2>3. to \in Stages /\ to # "claimed" /\ stage' = [stage EXCEPT ![w][k] = to]
    BY <1>2 DEF Send, Stages
  <2> QED
    BY <1>2, <2>1, <2>2, <2>3, OwnCopyStep DEF Send
<1>3. ASSUME NEW newdue \in {0} \cup Times, Release(w, k, newdue) PROVE LeaseInv'
  <2>1. \A j \in Keys \ {k} : jobs'[j] = jobs[j] /\ disk'[j] = disk[j]
    BY <1>0, <1>3 DEF Release, Statement, ToPending, SafetyInv, ViewExtendsDisk, Table
  <2> QED
    BY <1>3, <2>1, OwnCopyStep DEF Release, MayRelease, Stages
<1>4. ASSUME NEW st \in FinishStates, Finish(w, k, st) PROVE LeaseInv'
  <2>1. \A j \in Keys \ {k} : jobs'[j] = jobs[j] /\ disk'[j] = disk[j]
    BY <1>0, <1>4 DEF Finish, Statement, ToFinished, SafetyInv, ViewExtendsDisk, Table
  <2>2. jobs[k].state = "claimed" => stage[w][k] = "claimed" /\ jobs[k].lease = token[w][k]
    BY <1>4, SenderNotClaimed DEF Finish, MayFinish
  <2> DEFINE to == IF stage[w][k] = "granted" /\ st = "done" THEN "finished" ELSE "idle"
  <2>3. to \in Stages /\ to \notin {"claimed", "sent"} /\ stage' = [stage EXCEPT ![w][k] = to]
    BY <1>4 DEF Finish, Stages
  <2>4. UNCHANGED <<running, clock, setBack, token, sent>>
    BY <1>4 DEF Finish
  <2> HIDE DEF to
  <2> QED
    BY <2>1, <2>2, <2>3, <2>4, OwnCopyStep
<1> QED
  BY <1>1, <1>2, <1>3, <1>4

\* Transactions of others, a crash, and a clock that does not go back.
LEMMA EnvironmentLease ==
  ASSUME SafetyInv, LeaseInv, TypeOK', ~setBack',
         ForeignBegin \/ ForeignCommit \/ ForeignRollback \/ Crash \/ ClockStep \/ RecoverOnStart
  PROVE  LeaseInv'
<1>0. clock \in Nat
  BY ClockAssumption DEF SafetyInv, TypeOK
<1>1. CASE ForeignBegin \/ ForeignCommit \/ ForeignRollback
  <2>1. UNCHANGED <<running, clock, setBack, token, stage, sent>>
        /\ jobs' \in {jobs, disk} /\ disk' \in {jobs, disk}
    BY <1>1 DEF ForeignBegin, ForeignCommit, ForeignRollback
  <2>2. \A v \in Workers, k \in Keys : Holds(v, k) => Holds(v, k)'
    BY <2>1 DEF Holds, Under
  <2> QED
    BY <2>1, <2>2 DEF LeaseInv
<1>2. CASE Crash
  <2>1. \A v \in Workers, k \in Keys : stage'[v][k] = "idle"
    BY <1>2 DEF Crash, AllIdle
  <2> QED
    BY <2>1 DEF LeaseInv
<1>3. CASE ClockStep
  <2>1. clock' \in Nat
    BY <1>3, ClockAssumption DEF ClockStep
  <2>2. ~(clock' < clock)
    BY <1>3, Zenon DEF ClockStep
  <2>3. clock' >= clock
    BY <1>0, <2>1, <2>2
  <2> QED
    BY <1>3, <2>3, NoNewClaim DEF ClockStep, LeaseInv
<1>4. CASE RecoverOnStart
  <2>1. \A v \in Workers, k \in Keys : stage[v][k] # "claimed"
    BY <1>4 DEF RecoverOnStart, LeaseInv
  <2> QED
    BY <1>4, <2>1 DEF RecoverOnStart, LeaseInv
<1> QED
  BY <1>1, <1>2, <1>3, <1>4

\* Every step keeps leases apart while the clock is not set back.
LEMMA StepLease ==
  ASSUME SafetyInv, LeaseInv, [Next]_vars, ~setBack'
  PROVE  LeaseInv'
<1>0. TypeOK' /\ jobs \in Table /\ clock \in Nat
  BY StepSafe, ClockAssumption DEF SafetyInv, TypeOK, Table
<1>1. ASSUME NEW w \in Workers, WorkerStep(w) PROVE LeaseInv'
  <2>1. CASE \E kinds \in {Kinds} \cup {{kind} : kind \in Kinds}, cap \in Caps : ClaimDue(w, kinds, cap)
    BY <1>0, <2>1, ClaimDueLease
  <2> QED
    BY <1>0, <1>1, <2>1, CopyStepLease DEF WorkerStep
<1>2. ASSUME NEW k \in Keys, NEW kind \in JobKinds, NEW due \in Times, NEW shadow \in BOOLEAN,
             Enqueue(k, kind, due, shadow)
      PROVE  LeaseInv'
  BY <1>0, <1>2, StatementsSpare, SparingStep DEF Enqueue
<1>3. ASSUME NEW k \in Keys, NEW st \in FinishStates, Withdraw(k, st) PROVE LeaseInv'
  BY <1>0, <1>3, StatementsSpare, SparingStep DEF Withdraw
<1>4. ASSUME NEW kind \in Kinds, NEW cutoff \in Times, ExpireOlderThan(kind, cutoff) PROVE LeaseInv'
  BY <1>0, <1>4, StatementsSpare, SparingStep DEF ExpireOlderThan
<1>5. CASE UNCHANGED vars
  <2>1. \A v \in Workers, k \in Keys : Holds(v, k) => Holds(v, k)'
    BY <1>5 DEF vars, Holds, Under
  <2> QED
    BY <1>5, <2>1 DEF vars, LeaseInv
<1> QED
  BY <1>0, <1>1, <1>2, <1>3, <1>4, <1>5, EnvironmentLease DEF Next

\* That the clock was set back is not forgotten.
LEMMA SetBackStays == SafetyInv /\ [Next]_vars /\ setBack => setBack'
BY DEF Next, WorkerStep, ClaimDue, MarkSending, Send, Release, Finish, Enqueue, Withdraw, ExpireOlderThan,
       RecoverOnStart, ForeignBegin, ForeignCommit, ForeignRollback, Crash, ClockStep, vars

\* Lease fencing, for any lease, any number of workers and jobs and any interleaving with crashes
\* and foreign transactions: until the wall clock is set back for the first time, at most one worker's
\* copy of a claimed job is the one mark_sending, release and finish accept.
THEOREM LeaseFencing == Spec => []OneCurrentClaim
<1> DEFINE Fencing == setBack \/ LeaseInv
<1>1. Init => Fencing
  BY DEF Init, LeaseInv, AllIdle
<1>2. SafetyInv /\ Fencing /\ [Next]_vars => Fencing'
  <2> SUFFICES ASSUME SafetyInv, Fencing, [Next]_vars, ~setBack' PROVE LeaseInv'
    OBVIOUS
  <2>1. ~setBack
    BY SetBackStays
  <2> QED
    BY <2>1, StepLease
<1>3. Fencing => OneCurrentClaim
  BY DEF LeaseInv, OneCurrentClaim
<1> QED
  BY <1>1, <1>2, <1>3, SafetyInvariant, PTL DEF Spec
=============================================================================
