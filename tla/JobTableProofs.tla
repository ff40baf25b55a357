--------------------------- MODULE JobTableProofs ---------------------------
(***************************************************************************)
(* What the SQL statements of the repository do to the rows of the jobs    *)
(* table, for every table: the facts the proofs about the queue and about  *)
(* the hold share.                                                         *)
(***************************************************************************)
EXTENDS JobTable, FiniteSetTheorems, TLAPS

Table == [Keys -> Row]

----------------------------------------------------------------------------
\* What the statements do to one row.

\* The types of a row's columns.
LEMMA RowFields ==
  ASSUME NEW r \in Row
  PROVE  /\ r.state \in RowStates \cup {"absent"} /\ r.kind \in Kinds
         /\ r.due \in Nat /\ r.created \in Nat /\ r.id \in Nat
         /\ r.attempts \in Nat /\ r.lease \in Nat
BY DEF Row

\* state and lease_until are set, nothing else.
LEMMA SetStateRow ==
  ASSUME NEW r \in Row, NEW st \in RowStates, NEW lease \in Nat
  PROVE  /\ SetState(r, st, lease) \in Row
         /\ SetState(r, st, lease).state = st
         /\ SetState(r, st, lease).attempts = r.attempts
         /\ SetState(r, st, lease).lease = lease
         /\ SetState(r, st, lease).due = r.due
         /\ SetState(r, st, lease).id = r.id
         /\ SetState(r, st, lease).kind = r.kind
         /\ SetState(r, st, lease).created = r.created
<1> DEFINE s == [r EXCEPT !.state = st]
<1>1. /\ s \in Row /\ s.state = st /\ s.attempts = r.attempts
      /\ s.due = r.due /\ s.id = r.id /\ s.kind = r.kind /\ s.created = r.created
  BY DEF Row
<1>2. SetState(r, st, lease) = [s EXCEPT !.lease = lease]
  BY DEF SetState, Row
<1> QED
  BY <1>1, <1>2 DEF Row

\* attempts = attempts + 1, nothing else.
LEMMA CountAttemptRow ==
  ASSUME NEW r \in Row
  PROVE  /\ CountAttempt(r) \in Row
         /\ CountAttempt(r).state = r.state
         /\ CountAttempt(r).attempts = r.attempts + 1
         /\ CountAttempt(r).due = r.due
         /\ CountAttempt(r).id = r.id
         /\ CountAttempt(r).kind = r.kind
         /\ CountAttempt(r).created = r.created
BY DEF CountAttempt, Row

\* due_at is kept or replaced, nothing else.
LEMMA RescheduleRow ==
  ASSUME NEW r \in Row, NEW due \in Nat
  PROVE  /\ Reschedule(r, due) \in Row
         /\ Reschedule(r, due).state = r.state
         /\ Reschedule(r, due).attempts = r.attempts
         /\ Reschedule(r, due).id = r.id
         /\ Reschedule(r, due).kind = r.kind
         /\ Reschedule(r, due).created = r.created
BY DEF Reschedule, Row

----------------------------------------------------------------------------
\* What is seen of a table: which rows are absent, open or closed.
StatusOf(t) == [k \in Keys |-> AbstractStatus(t[k])]

\* A statement that only withdraws: open rows may become closed.
OnlyWithdraws(t, u) ==
  \A k \in Keys :
    AbstractStatus(u[k]) # AbstractStatus(t[k]) =>
       AbstractStatus(t[k]) = "open" /\ AbstractStatus(u[k]) = "closed"

\* No row gets in flight, and what is done was in flight.
NoneSent(t, u) ==
  \A k \in Keys :
    /\ u[k].state = "sending" => t[k].state = "sending"
    /\ u[k].state = "done" => t[k].state \in {"sending", "done"}

\* Number, kind and creation time of a row are for ever.
SameOrigin(t, u) ==
  \A k \in Keys : u[k].id = t[k].id /\ u[k].kind = t[k].kind /\ u[k].created = t[k].created

\* All of this: what every statement but the INSERT and mark_sending's does.
Steady(t, u) == u \in Table /\ OnlyWithdraws(t, u) /\ NoneSent(t, u) /\ SameOrigin(t, u)

\* The same of one row.
SteadyRow(r, s) ==
  /\ s \in Row
  /\ AbstractStatus(s) # AbstractStatus(r) => AbstractStatus(r) = "open" /\ AbstractStatus(s) = "closed"
  /\ s.state = "sending" => r.state = "sending"
  /\ s.state = "done" => r.state \in {"sending", "done"}
  /\ s.id = r.id /\ s.kind = r.kind /\ s.created = r.created

\* The changes of state the statements make: claim, give back, withdraw, end, recover.
SteadyMove(from, to) ==
  \/ from \in {"pending", "claimed"} /\ to \in {"pending", "claimed", "failed", "canceled", "expired"}
  \/ from = "sending" /\ to \in {"done", "failed", "unknown"}

\* Every table maps to an abstract status function.
LEMMA StatusType ==
  ASSUME NEW t \in Table
  PROVE  StatusOf(t) \in [Keys -> {"absent", "open", "closed"}]
BY DEF StatusOf, AbstractStatus

\* A row left alone is steady.
LEMMA SameRowSteady ==
  ASSUME NEW r \in Row
  PROVE  SteadyRow(r, r)
BY DEF SteadyRow

\* So is one whose state makes one of these moves.
LEMMA MoveSteady ==
  ASSUME NEW r \in Row, NEW st \in RowStates, NEW lease \in Nat, SteadyMove(r.state, st)
  PROVE  SteadyRow(r, SetState(r, st, lease))
<1> DEFINE s == SetState(r, st, lease)
<1>1. s \in Row /\ s.state = st /\ s.id = r.id /\ s.kind = r.kind /\ s.created = r.created
  BY SetStateRow
<1> HIDE DEF s
<1>2. AbstractStatus(s) # AbstractStatus(r) => AbstractStatus(r) = "open" /\ AbstractStatus(s) = "closed"
  BY <1>1 DEF SteadyMove, AbstractStatus
<1>3. s.state \notin {"sending"} /\ (s.state = "done" => r.state = "sending")
  BY <1>1 DEF SteadyMove
<1>4. SteadyRow(r, s)
  BY <1>1, <1>2, <1>3 DEF SteadyRow
<1> QED
  BY <1>4 DEF s

\* A table all of whose rows are steady is steady.
LEMMA RowsSteady ==
  ASSUME NEW t \in Table, NEW u, u = [k \in Keys |-> u[k]],
         \A k \in Keys : SteadyRow(t[k], u[k])
  PROVE  Steady(t, u)
<1>1. \A k \in Keys : u[k] \in Row
  BY DEF SteadyRow
<1>2. u \in Table
  BY <1>1 DEF Table
<1>3. OnlyWithdraws(t, u) /\ NoneSent(t, u) /\ SameOrigin(t, u)
  BY DEF SteadyRow, OnlyWithdraws, NoneSent, SameOrigin
<1> QED
  BY <1>2, <1>3 DEF Steady

\* A statement on one row.
LEMMA OneRowSteady ==
  ASSUME NEW t \in Table, NEW k \in Keys, NEW r, SteadyRow(t[k], r)
  PROVE  Steady(t, [t EXCEPT ![k] = r])
<1> DEFINE u == [t EXCEPT ![k] = r]
<1>1. u = [j \in Keys |-> u[j]] /\ \A j \in Keys : u[j] = IF j = k THEN r ELSE t[j]
  BY DEF Table
<1>2. \A j \in Keys : SteadyRow(t[j], u[j])
  BY <1>1, SameRowSteady DEF Table
<1> HIDE DEF u
<1>3. Steady(t, u)
  BY <1>1, <1>2, RowsSteady
<1> QED
  BY <1>3 DEF u

\* Doing nothing is steady.
LEMMA SteadyReflexive ==
  ASSUME NEW t \in Table
  PROVE  Steady(t, t)
BY DEF Steady, OnlyWithdraws, NoneSent, SameOrigin

\* One statement after another in one transaction.
LEMMA SteadyTransitive ==
  ASSUME NEW t \in Table, NEW u, NEW v, Steady(t, u), Steady(u, v)
  PROVE  Steady(t, v)
<1>1. OnlyWithdraws(t, v)
  <2> SUFFICES ASSUME NEW k \in Keys, AbstractStatus(v[k]) # AbstractStatus(t[k])
               PROVE  AbstractStatus(t[k]) = "open" /\ AbstractStatus(v[k]) = "closed"
    BY DEF OnlyWithdraws
  <2> QED
    BY DEF Steady, OnlyWithdraws
<1>2. NoneSent(t, v)
  BY DEF Steady, NoneSent
<1>3. SameOrigin(t, v)
  BY DEF Steady, SameOrigin
<1> QED
  BY <1>1, <1>2, <1>3 DEF Steady

\* A statement that only withdraws neither adds nor removes rows and reopens none.
LEMMA WithdrawsStatus ==
  ASSUME NEW t, NEW u, OnlyWithdraws(t, u)
  PROVE  /\ \A k \in Keys : u[k].state = "absent" <=> t[k].state = "absent"
         /\ \A k \in Keys : AbstractStatus(u[k]) = "open" => AbstractStatus(t[k]) = "open"
         /\ \A k \in Keys : AbstractStatus(t[k]) = "closed" => AbstractStatus(u[k]) = "closed"
<1>1. \A k \in Keys : AbstractStatus(u[k]) = AbstractStatus(t[k])
                      \/ (AbstractStatus(t[k]) = "open" /\ AbstractStatus(u[k]) = "closed")
  BY DEF OnlyWithdraws
<1>2. \A k \in Keys : (u[k].state = "absent" <=> AbstractStatus(u[k]) = "absent")
                      /\ (t[k].state = "absent" <=> AbstractStatus(t[k]) = "absent")
  BY DEF AbstractStatus
<1> QED
  BY <1>1, <1>2

----------------------------------------------------------------------------
\* The lease sweep of hu_job_queue_repo_claim_due and recovery is steady, ...
LEMMA RequeueSteady ==
  ASSUME NEW t \in Table, NEW now
  PROVE  Steady(t, Requeue(t, now))
<1> DEFINE u == Requeue(t, now)
<1>1. ASSUME NEW k \in Keys
      PROVE  SteadyRow(t[k], u[k])
  <2>1. t[k] \in Row /\ "pending" \in RowStates /\ NoLease \in Nat
    BY DEF Table, RowStates, NoLease
  <2>2. LeaseExpired(t[k], now) => SteadyRow(t[k], SetState(t[k], "pending", NoLease))
    BY <2>1, MoveSteady DEF LeaseExpired, SteadyMove
  <2>3. u[k] = IF LeaseExpired(t[k], now) THEN SetState(t[k], "pending", NoLease) ELSE t[k]
    BY DEF Requeue
  <2> HIDE DEF u
  <2> QED
    BY <2>1, <2>2, <2>3, SameRowSteady
<1>2. u = [k \in Keys |-> u[k]]
  BY DEF Requeue
<1> HIDE DEF u
<1>3. Steady(t, u)
  BY <1>1, <1>2, RowsSteady
<1> QED
  BY <1>3 DEF u

\* ... the claiming UPDATE, ...
LEMMA ClaimSteady ==
  ASSUME NEW t \in Table, NEW S, NEW lease \in Nat
  PROVE  Steady(t, Claim(t, S, lease))
<1> DEFINE u == Claim(t, S, lease)
<1>1. ASSUME NEW k \in Keys
      PROVE  SteadyRow(t[k], u[k])
  <2>1. t[k] \in Row /\ "claimed" \in RowStates
    BY DEF Table, RowStates
  <2>2. t[k].state = "pending" => SteadyRow(t[k], SetState(t[k], "claimed", lease))
    BY <2>1, MoveSteady DEF SteadyMove
  <2>3. u[k] = IF k \in S /\ t[k].state = "pending" THEN SetState(t[k], "claimed", lease) ELSE t[k]
    BY DEF Claim
  <2> HIDE DEF u
  <2> QED
    BY <2>1, <2>2, <2>3, SameRowSteady
<1>2. u = [k \in Keys |-> u[k]]
  BY DEF Claim
<1> HIDE DEF u
<1>3. Steady(t, u)
  BY <1>1, <1>2, RowsSteady
<1> QED
  BY <1>3 DEF u

\* ... hu_job_queue_repo_expire_older_than, ...
LEMMA ExpireSteady ==
  ASSUME NEW t \in Table, NEW kind, NEW cutoff
  PROVE  Steady(t, Expire(t, kind, cutoff))
<1> DEFINE u == Expire(t, kind, cutoff)
<1>1. ASSUME NEW k \in Keys
      PROVE  SteadyRow(t[k], u[k])
  <2>1. t[k] \in Row /\ t[k].lease \in Nat /\ "expired" \in RowStates
    BY RowFields DEF Table, RowStates
  <2>2. t[k].state = "pending" => SteadyRow(t[k], SetState(t[k], "expired", t[k].lease))
    BY <2>1, MoveSteady DEF SteadyMove
  <2>3. u[k] = t[k] \/ (t[k].state = "pending" /\ u[k] = SetState(t[k], "expired", t[k].lease))
    BY DEF Expire, Expirable
  <2> HIDE DEF u
  <2> QED
    BY <2>1, <2>2, <2>3, SameRowSteady
<1>2. u = [k \in Keys |-> u[k]]
  BY DEF Expire
<1> HIDE DEF u
<1>3. Steady(t, u)
  BY <1>1, <1>2, RowsSteady
<1> QED
  BY <1>3 DEF u

\* ... hu_job_queue_repo_release, ...
LEMMA ToPendingSteady ==
  ASSUME NEW t \in Table, NEW k \in Keys, NEW newdue \in Nat, t[k].state = "claimed"
  PROVE  Steady(t, ToPending(t, k, newdue))
<1> DEFINE s == SetState(t[k], "pending", NoLease)
           r == Reschedule(s, newdue)
<1>1. t[k] \in Row /\ "pending" \in RowStates /\ NoLease \in Nat
  BY DEF Table, RowStates, NoLease
<1>2. /\ s \in Row /\ s.state = "pending"
      /\ s.id = t[k].id /\ s.kind = t[k].kind /\ s.created = t[k].created
  BY <1>1, SetStateRow
<1> HIDE DEF s
<1>3. /\ r \in Row /\ r.state = "pending"
      /\ r.id = t[k].id /\ r.kind = t[k].kind /\ r.created = t[k].created
  BY <1>2, RescheduleRow
<1> HIDE DEF r
<1>4. SteadyRow(t[k], r)
  BY <1>3 DEF SteadyRow, AbstractStatus
<1>5. Steady(t, [t EXCEPT ![k] = r])
  BY <1>4, OneRowSteady
<1> QED
  BY <1>5 DEF ToPending, r, s, Table

\* ... hu_job_queue_repo_finish where it is allowed ...
LEMMA ToFinishedSteady ==
  ASSUME NEW t \in Table, NEW k \in Keys, NEW st \in FinishStates, NEW lease,
         MayFinish(t[k], st, lease)
  PROVE  Steady(t, ToFinished(t, k, st))
<1>1. st \in RowStates /\ t[k] \in Row /\ NoLease \in Nat
  BY DEF Table, RowStates, NoLease, FinishStates
<1>2. SteadyMove(t[k].state, st)
  BY DEF MayFinish, FinishSources, FinishStates, SteadyMove
<1>3. Steady(t, [t EXCEPT ![k] = SetState(t[k], st, NoLease)])
  BY <1>1, <1>2, MoveSteady, OneRowSteady
<1> QED
  BY <1>3 DEF ToFinished, Table

\* ... and hu_job_queue_repo_recover_on_start.
LEMMA RecoverSteady ==
  ASSUME NEW t \in Table, NEW now
  PROVE  Steady(t, Recover(t, now))
<1> DEFINE u == [k \in Keys |-> IF t[k].state = "sending"
                                THEN SetState(t[k], "unknown", t[k].lease)
                                ELSE t[k]]
<1>1. ASSUME NEW k \in Keys
      PROVE  SteadyRow(t[k], u[k])
  <2>1. t[k] \in Row /\ t[k].lease \in Nat /\ "unknown" \in RowStates
    BY RowFields DEF Table, RowStates
  <2>2. t[k].state = "sending" => SteadyRow(t[k], SetState(t[k], "unknown", t[k].lease))
    BY <2>1, MoveSteady DEF SteadyMove
  <2>3. u[k] = IF t[k].state = "sending" THEN SetState(t[k], "unknown", t[k].lease) ELSE t[k]
    OBVIOUS
  <2> HIDE DEF u
  <2> QED
    BY <2>1, <2>2, <2>3, SameRowSteady
<1>2. u = [k \in Keys |-> u[k]] /\ Recover(t, now) = Requeue(u, now)
  BY DEF Recover
<1> HIDE DEF u
<1>3. Steady(t, u)
  BY <1>1, <1>2, RowsSteady
<1>4. Steady(u, Requeue(u, now))
  BY <1>3, RequeueSteady DEF Steady
<1> QED
  BY <1>2, <1>3, <1>4, SteadyTransitive

----------------------------------------------------------------------------
\* Moving leases about does not show: the sweep of expired claims, ...
LEMMA RequeueInvisible ==
  ASSUME NEW t \in Table, NEW now
  PROVE  StatusOf(Requeue(t, now)) = StatusOf(t)
<1>1. ASSUME NEW k \in Keys
      PROVE  AbstractStatus(Requeue(t, now)[k]) = AbstractStatus(t[k])
  <2>1. t[k] \in Row /\ "pending" \in RowStates /\ NoLease \in Nat
    BY DEF Table, RowStates, NoLease
  <2>2. SetState(t[k], "pending", NoLease).state = "pending"
    BY <2>1, SetStateRow
  <2> QED
    BY <2>2 DEF Requeue, LeaseExpired, AbstractStatus
<1> QED
  BY <1>1 DEF StatusOf

\* ... and the claim itself stay among the open rows.
LEMMA ClaimInvisible ==
  ASSUME NEW t \in Table, NEW now, NEW S, NEW lease \in Nat
  PROVE  StatusOf(Claim(Requeue(t, now), S, lease)) = StatusOf(t)
<1> DEFINE q == Requeue(t, now)
           u == Claim(q, S, lease)
<1>1. q \in Table
  BY RequeueSteady DEF Steady
<1>2. ASSUME NEW k \in Keys
      PROVE  AbstractStatus(u[k]) = AbstractStatus(q[k])
  <2>1. q[k] \in Row /\ "claimed" \in RowStates
    BY <1>1 DEF Table, RowStates
  <2>2. SetState(q[k], "claimed", lease).state = "claimed"
    BY <2>1, SetStateRow
  <2> QED
    BY <2>2 DEF Claim, AbstractStatus
<1>3. StatusOf(u) = StatusOf(q)
  BY <1>2 DEF StatusOf
<1> QED
  BY <1>3, RequeueInvisible

\* Start recovery does not show: `sending' and `unknown' are both closed.
LEMMA RecoverInvisible ==
  ASSUME NEW t \in Table, NEW now
  PROVE  StatusOf(Recover(t, now)) = StatusOf(t)
<1> DEFINE u == [k \in Keys |-> IF t[k].state = "sending"
                                THEN SetState(t[k], "unknown", t[k].lease)
                                ELSE t[k]]
<1>1. ASSUME NEW k \in Keys
      PROVE  /\ u[k] \in Row
             /\ AbstractStatus(u[k]) = AbstractStatus(t[k])
  <2>1. t[k] \in Row /\ t[k].lease \in Nat /\ "unknown" \in RowStates
    BY RowFields DEF Table, RowStates
  <2>2. /\ SetState(t[k], "unknown", t[k].lease) \in Row
        /\ SetState(t[k], "unknown", t[k].lease).state = "unknown"
    BY <2>1, SetStateRow
  <2> QED
    BY <2>1, <2>2 DEF AbstractStatus
<1>2. u \in Table /\ StatusOf(u) = StatusOf(t)
  BY <1>1 DEF Table, StatusOf
<1>3. Recover(t, now) = Requeue(u, now)
  BY DEF Recover
<1> HIDE DEF u
<1> QED
  BY <1>2, <1>3, RequeueInvisible

\* A deferred claim stays open.
LEMMA ToPendingInvisible ==
  ASSUME NEW t \in Table, NEW k \in Keys, NEW newdue \in Nat,
         t[k].state = "claimed"
  PROVE  StatusOf(ToPending(t, k, newdue)) = StatusOf(t)
<1> DEFINE s == SetState(t[k], "pending", NoLease)
<1>1. t[k] \in Row /\ "pending" \in RowStates /\ NoLease \in Nat
  BY DEF Table, RowStates, NoLease
<1>2. s \in Row /\ s.state = "pending"
  BY <1>1, SetStateRow
<1>3. Reschedule(s, newdue).state = "pending"
  BY <1>2, RescheduleRow
<1> QED
  BY <1>3 DEF ToPending, StatusOf, AbstractStatus, Table

\* mark_sending takes a claimed row in flight and touches no other.
LEMMA ToSendingRow ==
  ASSUME NEW t \in Table, NEW k \in Keys, t[k].state = "claimed"
  PROVE  /\ ToSending(t, k) \in Table
         /\ ToSending(t, k)[k].state = "sending"
         /\ ToSending(t, k)[k].attempts = t[k].attempts + 1
         /\ \A j \in Keys : ToSending(t, k)[j].due = t[j].due
         /\ SameOrigin(t, ToSending(t, k))
         /\ \A j \in Keys \ {k} : ToSending(t, k)[j] = t[j]
<1> DEFINE s == SetState(t[k], "sending", NoLease)
           u == ToSending(t, k)
<1>1. t[k] \in Row /\ "sending" \in RowStates /\ NoLease \in Nat
  BY DEF Table, RowStates, NoLease
<1>2. /\ s \in Row /\ s.state = "sending" /\ s.attempts = t[k].attempts
      /\ s.due = t[k].due /\ s.id = t[k].id /\ s.kind = t[k].kind /\ s.created = t[k].created
  BY <1>1, SetStateRow
<1>3. u = [t EXCEPT ![k] = CountAttempt(s)]
  BY DEF ToSending, Table
<1> HIDE DEF s, u
<1>4. /\ CountAttempt(s) \in Row /\ CountAttempt(s).state = "sending"
      /\ CountAttempt(s).attempts = t[k].attempts + 1
      /\ CountAttempt(s).due = t[k].due /\ CountAttempt(s).id = t[k].id
      /\ CountAttempt(s).kind = t[k].kind /\ CountAttempt(s).created = t[k].created
  BY <1>2, CountAttemptRow
<1>5. u \in Table /\ u[k] = CountAttempt(s) /\ \A j \in Keys \ {k} : u[j] = t[j]
  BY <1>3, <1>4 DEF Table
<1>6. SameOrigin(t, u) /\ \A j \in Keys : u[j].due = t[j].due
  BY <1>4, <1>5 DEF SameOrigin
<1> QED
  BY <1>4, <1>5, <1>6 DEF u

\* It closes the row it marks.
LEMMA ToSendingCloses ==
  ASSUME NEW t \in Table, NEW k \in Keys, t[k].state = "claimed"
  PROVE  /\ StatusOf(t)[k] = "open"
         /\ StatusOf(ToSending(t, k)) = [StatusOf(t) EXCEPT ![k] = "closed"]
         /\ OnlyWithdraws(t, ToSending(t, k))
<1> DEFINE u == ToSending(t, k)
<1>1. u[k].state = "sending" /\ \A j \in Keys \ {k} : u[j] = t[j]
  BY ToSendingRow
<1> HIDE DEF u
<1>2. AbstractStatus(t[k]) = "open" /\ AbstractStatus(u[k]) = "closed"
  BY <1>1 DEF AbstractStatus
<1>3. StatusOf(u) = [StatusOf(t) EXCEPT ![k] = "closed"] /\ StatusOf(t)[k] = "open"
  BY <1>1, <1>2 DEF StatusOf
<1>4. OnlyWithdraws(t, u)
  BY <1>1, <1>2 DEF OnlyWithdraws
<1> QED
  BY <1>3, <1>4 DEF u

\* INSERT OR IGNORE adds at most the row it is asked for, in state st and with the next number, ...
LEMMA NewRow ==
  ASSUME NEW t \in Table, NEW k \in Keys, NEW kind \in Kinds, NEW due \in Nat,
         NEW now \in Nat, NEW st \in RowStates, NEW u,
         u = IF t[k].state # "absent" THEN t
             ELSE [t EXCEPT ![k] =
                    [state |-> st, kind |-> kind, due |-> due, created |-> now, attempts |-> 0,
                     lease |-> NoLease, id |-> Cardinality(Present(t)) + 1]]
  PROVE  /\ u \in Table
         /\ \A j \in Keys \ {k} : u[j] = t[j]
         /\ t[k].state # "absent" => u = t
         /\ t[k].state = "absent" =>
              /\ u[k].state = st /\ u[k].kind = kind /\ u[k].created = now
              /\ u[k].id = Cardinality(Present(t)) + 1
<1>1. Cardinality(Present(t)) \in Nat
  <2>1. Present(t) \subseteq Keys
    BY DEF Present
  <2>2. IsFiniteSet(Present(t))
    BY <2>1, KeysFinite, FS_Subset
  <2> QED
    BY <2>2, FS_CardinalityType
<1> DEFINE r == [state |-> st, kind |-> kind, due |-> due, created |-> now, attempts |-> 0,
                 lease |-> NoLease, id |-> Cardinality(Present(t)) + 1]
<1>2. r \in Row
  BY <1>1 DEF Row, NoLease
<1>3. u = IF t[k].state # "absent" THEN t ELSE [t EXCEPT ![k] = r]
  OBVIOUS
<1>4. r.state = st /\ r.kind = kind /\ r.created = now /\ r.id = Cardinality(Present(t)) + 1
  OBVIOUS
<1> HIDE DEF r
<1> QED
  BY <1>2, <1>3, <1>4 DEF Table

\* ... which is what hu_job_queue_repo_enqueue does.
LEMMA InsertRow ==
  ASSUME NEW t \in Table, NEW k \in Keys, NEW kind \in Kinds, NEW due \in Nat,
         NEW now \in Nat, NEW shadow \in BOOLEAN,
         NEW u, u = Insert(t, k, kind, due, now, shadow)
  PROVE  /\ u \in Table
         /\ \A j \in Keys \ {k} : u[j] = t[j]
         /\ t[k].state # "absent" => u = t
<1> DEFINE st == IF shadow THEN "shadow" ELSE "pending"
<1>1. st \in RowStates
  BY DEF RowStates
<1>2. u = IF t[k].state # "absent" THEN t
          ELSE [t EXCEPT ![k] =
                 [state |-> st, kind |-> kind, due |-> due, created |-> now, attempts |-> 0,
                  lease |-> NoLease, id |-> Cardinality(Present(t)) + 1]]
  BY DEF Insert
<1> HIDE DEF st
<1> QED
  BY <1>1, <1>2, NewRow

----------------------------------------------------------------------------
\* Rows have numbers of their own, up to their number.
Numbered(t) ==
  \A k \in Present(t) : /\ t[k].id \in 1..Cardinality(Present(t))
                        /\ \A j \in Present(t) : t[j].id = t[k].id => j = k

\* A statement that keeps the rows and their numbers keeps this, ...
LEMMA SameNumbered ==
  ASSUME NEW t, NEW u, Numbered(t),
         \A k \in Keys : u[k].id = t[k].id /\ (u[k].state = "absent" <=> t[k].state = "absent")
  PROVE  Numbered(u)
<1>1. Present(u) = Present(t) /\ Present(t) \subseteq Keys
  BY DEF Present
<1> QED
  BY <1>1 DEF Numbered

\* ... and so does AUTOINCREMENT.
LEMMA NextNumbered ==
  ASSUME NEW t \in Table, NEW k \in Keys, NEW u, Numbered(t), t[k].state = "absent",
         \A j \in Keys \ {k} : u[j] = t[j], u[k].state # "absent",
         u[k].id = Cardinality(Present(t)) + 1
  PROVE  Numbered(u)
<1>1. Present(t) \subseteq Keys /\ k \notin Present(t) /\ Present(u) = Present(t) \cup {k}
  BY DEF Present
<1>2. IsFiniteSet(Present(t))
  BY <1>1, KeysFinite, FS_Subset
<1> DEFINE n == Cardinality(Present(t))
<1>3. n \in Nat /\ Cardinality(Present(u)) = n + 1
  BY <1>1, <1>2, FS_CardinalityType, FS_AddElement
<1>4. \A j \in Present(t) : u[j] = t[j] /\ t[j].id \in 1..n /\ j # k
  BY <1>1 DEF Numbered
<1> HIDE DEF n
<1>5. u[k].id = n + 1
  BY DEF n
<1>6. \A j \in Present(u) : u[j].id \in 1..Cardinality(Present(u))
  BY <1>1, <1>3, <1>4, <1>5
<1>7. ASSUME NEW i \in Present(u), NEW j \in Present(u), u[i].id = u[j].id
      PROVE  i = j
  <2>1. CASE i \in Present(t) /\ j \in Present(t)
    BY <1>4, <1>7, <2>1 DEF Numbered
  <2>2. CASE i = k \/ j = k
    BY <1>1, <1>3, <1>4, <1>5, <1>7, <2>2
  <2> QED
    BY <1>1, <2>1, <2>2
<1> QED
  BY <1>6, <1>7 DEF Numbered

\* ORDER BY due_at, id is a strict order, total on rows with numbers of their own.
LEMMA BeforeIsOrder ==
  ASSUME NEW t \in Table, Numbered(t)
  PROVE  /\ \A j \in Keys : ~Before(t, j, j)
         /\ \A i, j, k \in Keys : Before(t, i, j) /\ Before(t, j, k) => Before(t, i, k)
         /\ \A j, k \in Present(t) : j = k \/ Before(t, j, k) \/ Before(t, k, j)
<1>1. \A k \in Keys : t[k].due \in Nat /\ t[k].id \in Nat
  BY RowFields DEF Table
<1>2. \A j \in Keys : ~Before(t, j, j)
  BY <1>1 DEF Before
<1>3. \A i, j, k \in Keys : Before(t, i, j) /\ Before(t, j, k) => Before(t, i, k)
  BY <1>1 DEF Before
<1>4. ASSUME NEW j \in Present(t), NEW k \in Present(t), j # k
      PROVE  Before(t, j, k) \/ Before(t, k, j)
  <2>1. j \in Keys /\ k \in Keys /\ t[j].id # t[k].id
    BY <1>4 DEF Present, Numbered
  <2> QED
    BY <1>1, <2>1 DEF Before
<1> QED
  BY <1>2, <1>3, <1>4

\* So LIMIT cap selects no more than cap rows.
LEMMA SelectBound ==
  ASSUME NEW t \in Table, Numbered(t), NEW kinds, NEW now, NEW cap \in Int, NEW N \in Nat, cap <= N
  PROVE  Cardinality(SelectDue(t, kinds, now, cap)) <= N
<1> DEFINE D == Due(t, kinds, now)
           S == SelectDue(t, kinds, now, cap)
           Ahead(k) == {j \in D : Before(t, j, k)}
<1>1. D \subseteq Keys /\ D \subseteq Present(t) /\ S = {k \in D : Cardinality(Ahead(k)) < cap}
  BY DEF Due, Present, SelectDue
<1>2. IsFiniteSet(D)
  BY <1>1, KeysFinite, FS_Subset
<1>3. S \subseteq D /\ IsFiniteSet(S)
  BY <1>1, <1>2, FS_Subset
<1> HIDE DEF D, S
<1>4. \A k \in Keys : IsFiniteSet(Ahead(k)) /\ Cardinality(Ahead(k)) \in Nat
  <2>1. \A k \in Keys : Ahead(k) \subseteq D
    OBVIOUS
  <2> HIDE DEF Ahead
  <2> QED
    BY <1>2, <2>1, FS_Subset, FS_CardinalityType
<1>5. ASSUME NEW j \in D, NEW k \in D, Before(t, j, k)
      PROVE  Cardinality(Ahead(j)) < Cardinality(Ahead(k))
  <2>1. j \in Ahead(k) /\ j \notin Ahead(j) /\ Ahead(j) \subseteq Ahead(k)
    BY <1>1, <1>5, BeforeIsOrder
  <2>2. IsFiniteSet(Ahead(k)) /\ Cardinality(Ahead(k)) \in Nat /\ Cardinality(Ahead(j)) \in Nat
    BY <1>1, <1>4
  <2> HIDE DEF Ahead
  <2>3. Cardinality(Ahead(j)) <= Cardinality(Ahead(k)) /\ Cardinality(Ahead(j)) # Cardinality(Ahead(k))
    BY <2>1, <2>2, FS_Subset
  <2> QED
    BY <2>2, <2>3
<1>6. \A j, k \in S : j # k => Cardinality(Ahead(j)) # Cardinality(Ahead(k))
  <2>1. \A j, k \in D : j = k \/ Before(t, j, k) \/ Before(t, k, j)
    BY <1>1, BeforeIsOrder
  <2>2. \A k \in D : Cardinality(Ahead(k)) \in Nat
    BY <1>1, <1>4
  <2> HIDE DEF Ahead
  <2> QED
    BY <1>3, <1>5, <2>1, <2>2
<1>7. \A k \in S : Cardinality(Ahead(k)) \in 0..N - 1
  <2>1. \A k \in S : Cardinality(Ahead(k)) \in Nat /\ Cardinality(Ahead(k)) < cap
    BY <1>1, <1>3, <1>4
  <2> HIDE DEF Ahead
  <2> QED
    BY <2>1
<1> DEFINE f == [k \in S |-> Cardinality(Ahead(k))]
<1>8. f \in [S -> 0..N - 1] /\ \A j, k \in S : j # k => f[j] # f[k]
  BY <1>6, <1>7
<1> HIDE DEF f, Ahead
<1>9. IsFiniteSet(0..N - 1) /\ Cardinality(0..N - 1) = N
  <2>1. Cardinality(0..N - 1) = IF 0 > N - 1 THEN 0 ELSE N - 1 - 0 + 1
    BY FS_Interval
  <2>2. IsFiniteSet(0..N - 1)
    BY FS_Interval
  <2> QED
    BY <2>1, <2>2
<1>10. Cardinality(S) \in Nat
  BY <1>3, FS_CardinalityType
<1>11. ~(N < Cardinality(S))
  BY <1>3, <1>8, <1>9, FS_PigeonHole
<1>12. Cardinality(S) <= N
  BY <1>10, <1>11
<1> QED
  BY <1>12 DEF S
=============================================================================
