------------------------------ MODULE JobTable ------------------------------
(***************************************************************************)
(* The `jobs' table of memory.db and the SQL statements the repository     *)
(* runs on it (src/memory/repos/job_queue_repo_sqlite.c), as operators     *)
(* from tables to tables.  A table is a function on the idempotency keys:  *)
(* the UNIQUE index idx_jobs_key allows one row per key, and no statement  *)
(* deletes a row.  Payload, contact, channel, last_error and updated_at    *)
(* decide nothing and are left out.                                        *)
(***************************************************************************)
EXTENDS Integers, FiniteSets

CONSTANT Keys       \* idempotency keys

ASSUME KeysFinite == IsFiniteSet(Keys)

Kinds == {"inbound_hold", "sched_send"}

RowStates == {"pending", "claimed", "sending", "done", "failed", "unknown",
              "expired", "canceled", "shadow"}

\* States no statement of the repository takes a row out of.
Terminal == {"done", "failed", "unknown", "expired", "canceled", "shadow"}

\* lease_until is NULL; a real lease is now + lease_s, which is positive.
NoLease == 0

Row == [state: RowStates \cup {"absent"}, kind: Kinds, due: Nat, created: Nat,
        attempts: Nat, lease: Nat, id: Nat]

Absent == [state |-> "absent", kind |-> "inbound_hold", due |-> 0,
           created |-> 0, attempts |-> 0, lease |-> NoLease, id |-> 0]

EmptyTable == [k \in Keys |-> Absent]

Present(t) == {k \in Keys : t[k].state # "absent"}

----------------------------------------------------------------------------
\* Slip: INSERT OR REPLACE.
InsertReplaces(t, k, kind, due, now, shadow) ==
  [t EXCEPT ![k] =
     [state |-> IF shadow THEN "shadow" ELSE "pending", kind |-> kind, due |-> due,
      created |-> now, attempts |-> 0, lease |-> NoLease, id |-> 1]]

\* INSERT OR IGNORE on idempotency_key: an existing row, whatever its state,
\* wins.  AUTOINCREMENT numbers the rows in the order they were inserted.
Insert(t, k, kind, due, now, shadow) ==
  IF t[k].state # "absent"
  THEN t
  ELSE [t EXCEPT ![k] =
         [state |-> IF shadow THEN "shadow" ELSE "pending", kind |-> kind,
          due |-> due, created |-> now, attempts |-> 0, lease |-> NoLease,
          id |-> Cardinality(Present(t)) + 1]]

\* A row's three ways of changing: its state and lease (most statements),
\* the same with an attempt counted, the same with a new due time.
SetState(r, st, lease) == [r EXCEPT !.state = st, !.lease = lease]

CountAttempt(r) == [r EXCEPT !.attempts = @ + 1]

\* Slip: a new due time is always taken, and one short.
RescheduleShort(r, due) == [r EXCEPT !.due = due - 1]

Reschedule(r, due) == [r EXCEPT !.due = IF due > 0 THEN due ELSE @]

\* Slip: any claim counts as run out.
LeaseNeverRuns(r, now) == r.state = "claimed"

LeaseExpired(r, now) == r.state = "claimed" /\ r.lease < now

\* A claim whose lease ran out goes back to pending.
Requeue(t, now) ==
  [k \in Keys |-> IF LeaseExpired(t[k], now)
                  THEN SetState(t[k], "pending", NoLease)
                  ELSE t[k]]

\* The rows jq_select_due matches; kinds is one kind, or all of them for NULL.
Due(t, kinds, now) ==
  {k \in Keys : t[k].state = "pending" /\ t[k].due <= now /\ t[k].kind \in kinds}

\* ORDER BY due_at, id
Before(t, j, k) ==
  \/ t[j].due < t[k].due
  \/ t[j].due = t[k].due /\ t[j].id < t[k].id

\* ... LIMIT cap: the due rows with fewer than cap due rows before them.
SelectDue(t, kinds, now, cap) ==
  LET D == Due(t, kinds, now)
  IN  {k \in D : Cardinality({j \in D : Before(t, j, k)}) < cap}

\* The claim itself: `claimed' with a lease, for the selected rows.
Claim(t, S, lease) ==
  [k \in Keys |-> IF k \in S /\ t[k].state = "pending"
                  THEN SetState(t[k], "claimed", lease)
                  ELSE t[k]]

\* Slip: a claim that was once good stays good.
MaySendAgain(r, lease, now) == r.state \in {"claimed", "sending"}

\* The fence of mark_sending: the same claim, and its lease still runs.
MaySend(r, lease, now) ==
  r.state = "claimed" /\ r.lease = lease /\ r.lease >= now

ToSending(t, k) ==
  [t EXCEPT ![k] = CountAttempt(SetState(@, "sending", NoLease))]

\* Slip: a row in flight may be given back, too.
MayReleaseInFlight(r, lease) == r.state \in {"claimed", "sending"}

MayRelease(r, lease) == r.state = "claimed" /\ r.lease = lease

\* A deferred claim goes back to pending; newdue = 0 keeps due_at.
ToPending(t, k, newdue) ==
  [t EXCEPT ![k] = Reschedule(SetState(@, "pending", NoLease), newdue)]

FinishStates == {"done", "failed", "canceled", "expired"}

\* jq_finish_sources: the states each terminal state may be entered from.
FinishSources(st) ==
  CASE st = "done"   -> {"sending"}
    [] st = "failed" -> {"claimed", "sending"}
    [] OTHER         -> {"pending", "claimed"}

\* The lease is compared only when the row is still claimed.
MayFinish(r, st, lease) ==
  /\ r.state \in FinishSources(st)
  /\ r.state = "claimed" => r.lease = lease

ToFinished(t, k, st) == [t EXCEPT ![k] = SetState(@, st, NoLease)]

\* Slip: what was in flight is retried.
RecoverRetries(t, now) ==
  Requeue([k \in Keys |-> IF t[k].state = "sending"
                          THEN SetState(t[k], "pending", NoLease) ELSE t[k]],
          now)

\* Start recovery: what was in flight is unknown for good, what was claimed
\* under a lease that has run out is pending again.
Recover(t, now) ==
  Requeue([k \in Keys |-> IF t[k].state = "sending"
                          THEN SetState(t[k], "unknown", t[k].lease)
                          ELSE t[k]],
          now)

\* A held message ages from when it was held, a scheduled send from its due
\* time.
AgeFrom(r) == IF r.kind = "sched_send" THEN r.due ELSE r.created

Expirable(t, kind, cutoff) ==
  {k \in Keys : t[k].state = "pending" /\ t[k].kind = kind /\ AgeFrom(t[k]) < cutoff}

Expire(t, kind, cutoff) ==
  [k \in Keys |-> IF k \in Expirable(t, kind, cutoff)
                  THEN SetState(t[k], "expired", t[k].lease)
                  ELSE t[k]]

CountDue(t, kind, now) == Cardinality(Due(t, {kind}, now))

\* The abstract view of a row: pending and claimed rows are open, every
\* other row is closed.
AbstractStatus(r) ==
  IF r.state = "absent" THEN "absent"
  ELSE IF r.state \in {"pending", "claimed"} THEN "open" ELSE "closed"
=============================================================================
