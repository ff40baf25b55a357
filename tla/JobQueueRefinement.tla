------------------------- MODULE JobQueueRefinement -------------------------
(***************************************************************************)
(* The durable job queue implements AtMostOnceDelivery, for every value of *)
(* the constants.                                                          *)
(***************************************************************************)
EXTENDS JobQueueProofs

\* The abstract state is StatusOf(jobs), and who may deliver.
Permitted == [k \in Keys |-> \E w \in Workers : Authorised(w, k)]

----------------------------------------------------------------------------
\* Evolution keeps closed what is fenced (used for steps that take back).
LEMMA FencedIsClosed ==
  ASSUME NEW r \in Row, Fenced(r)
  PROVE  AbstractStatus(r) = "closed"
BY DEF Fenced, AbstractStatus

----------------------------------------------------------------------------
\* A step that shows no change of status, permission or delivery stutters.
LEMMA Stutter ==
  ASSUME StatusOf(jobs)' = StatusOf(jobs), Permitted' = Permitted, sent' = sent
  PROVE  UNCHANGED Delivery!vars
BY DEF StatusOf, Permitted, Delivery!vars

\* A step that only withdraws, or does not show, is a Withdraw step.
LEMMA WithdrawStep ==
  ASSUME jobs \in Table, jobs' \in Table, OnlyWithdraws(jobs, jobs'),
         Permitted' = Permitted, sent' = sent
  PROVE  Delivery!Withdraw
<1>1. StatusOf(jobs') \in [Keys -> {"absent", "open", "closed"}]
  BY StatusType
<1> QED
  BY <1>1 DEF Delivery!Withdraw, OnlyWithdraws, StatusOf, Permitted

\* claim_due, release and recovery do not show.
LEMMA QuietSteps ==
  ASSUME SafetyInv, SafetyInv',
         \/ \E w \in Workers, kinds \in {Kinds} \cup {{kind} : kind \in Kinds}, cap \in Caps :
               ClaimDue(w, kinds, cap)
         \/ \E w \in Workers, k \in Keys, newdue \in {0} \cup Times : Release(w, k, newdue)
         \/ RecoverOnStart
  PROVE  UNCHANGED Delivery!vars
<1>1. TypeOK /\ jobs \in Table /\ clock \in Nat /\ clock + LeaseS \in Nat
  BY ClockAssumption, LeaseAssumption DEF SafetyInv, TypeOK, Table
<1>2. ASSUME NEW w \in Workers, NEW kinds, NEW cap, ClaimDue(w, kinds, cap)
      PROVE  UNCHANGED Delivery!vars
  <2> DEFINE S == SelectDue(Requeue(jobs, clock), kinds, clock, cap)
  <2>1. /\ jobs' = Claim(Requeue(jobs, clock), S, clock + LeaseS)
        /\ sent' = sent
        /\ stage' = [stage EXCEPT ![w] =
                      [k \in Keys |-> IF k \in S THEN "claimed" ELSE @[k]]]
    BY <1>2 DEF ClaimDue, OwnTransaction
  <2>2. StatusOf(jobs)' = StatusOf(jobs)
    <3>1. StatusOf(jobs') = StatusOf(jobs)
      BY <1>1, <2>1, ClaimInvisible
    <3> QED
      BY <3>1 DEF StatusOf
  <2>3. \A k \in S : ~Fenced(jobs[k])
    <3> SUFFICES ASSUME NEW k \in Keys, Fenced(jobs[k]) PROVE k \notin S
      BY DEF SelectDue, Due
    <3> QED
      BY DEF SelectDue, Due, Requeue, LeaseExpired, Fenced
  <2>4. \A v \in Workers, k \in Keys : Authorised(v, k)' <=> Authorised(v, k)
    <3> SUFFICES ASSUME NEW v \in Workers, NEW k \in Keys
                 PROVE  Authorised(v, k)' <=> Authorised(v, k)
      OBVIOUS
    <3>1. CASE k \in S
      <4>1. ~Authorised(v, k)
        BY <2>3, <3>1 DEF SafetyInv, FenceDurable
      <4> QED
        BY <1>1, <2>1, <3>1, <4>1 DEF Authorised, TypeOK
    <3>2. CASE k \notin S
      BY <1>1, <2>1, <3>2 DEF Authorised, TypeOK
    <3> QED
      BY <3>1, <3>2
  <2> QED
    BY <2>1, <2>2, <2>4, Stutter DEF Permitted
<1>3. ASSUME NEW w \in Workers, NEW k \in Keys, NEW newdue \in {0} \cup Times,
             Release(w, k, newdue)
      PROVE  UNCHANGED Delivery!vars
  <2>1. /\ jobs' = ToPending(jobs, k, newdue) /\ sent' = sent
        /\ jobs[k].state = "claimed" /\ newdue \in Nat
        /\ stage[w][k] = "claimed"
        /\ stage' = [stage EXCEPT ![w][k] = "idle"]
    BY <1>3, InputAssumption DEF Release, Statement, MayRelease
  <2>2. StatusOf(jobs') = StatusOf(jobs)
    BY <1>1, <2>1, ToPendingInvisible
  <2>3. \A v \in Workers, j \in Keys : Authorised(v, j)' <=> Authorised(v, j)
    BY <1>1, <2>1 DEF Authorised, TypeOK
  <2> QED
    BY <2>1, <2>2, <2>3, Stutter DEF Permitted, StatusOf
<1>4. ASSUME RecoverOnStart
      PROVE  UNCHANGED Delivery!vars
  <2>1. jobs' = Recover(jobs, clock) /\ sent' = sent /\ stage' = stage
    BY <1>4 DEF RecoverOnStart, OwnTransaction
  <2>2. StatusOf(jobs') = StatusOf(jobs)
    BY <1>1, <2>1, RecoverInvisible
  <2> QED
    BY <2>1, <2>2, Stutter DEF Permitted, StatusOf, Authorised
<1> QED
  BY <1>2, <1>3, <1>4

\* enqueue accepts a new job, or does not show.
LEMMA EnqueueMaps ==
  ASSUME SafetyInv, NEW k \in Keys, NEW kind \in JobKinds, NEW due \in Times,
         NEW shadow \in BOOLEAN, Enqueue(k, kind, due, shadow)
  PROVE  Delivery!Accept(k) \/ UNCHANGED Delivery!vars
<1>1. jobs \in Table
  BY DEF SafetyInv, TypeOK, Table
<1>2. /\ jobs' = Insert(jobs, k, kind, due, clock, shadow)
      /\ sent' = sent /\ stage' = stage
  BY DEF Enqueue, Statement
<1>3. Permitted' = Permitted
  BY <1>2 DEF Permitted, Authorised
<1>4. CASE jobs[k].state # "absent"
  <2>1. jobs' = jobs
    BY <1>2, <1>4 DEF Insert
  <2> QED
    BY <1>2, <1>3, <2>1, Stutter DEF StatusOf
<1>5. CASE jobs[k].state = "absent"
  <2>1. /\ \A j \in Keys \ {k} : jobs'[j] = jobs[j]
        /\ jobs'[k].state \in {"pending", "shadow"}
    BY <1>1, <1>2, <1>5 DEF Insert, Table
  <2>2. AbstractStatus(jobs[k]) = "absent"
    BY <1>5 DEF AbstractStatus
  <2>3. AbstractStatus(jobs'[k]) \in {"open", "closed"}
    BY <2>1 DEF AbstractStatus
  <2>4. StatusOf(jobs') = [StatusOf(jobs) EXCEPT ![k] = AbstractStatus(jobs'[k])]
    BY <2>1 DEF StatusOf
  <2> QED
    BY <1>2, <1>3, <2>2, <2>3, <2>4 DEF Delivery!Accept, StatusOf, Permitted
<1> QED
  BY <1>4, <1>5

\* mark_sending is the commitment.
LEMMA MarkSendingMaps ==
  ASSUME SafetyInv, NEW w \in Workers, NEW k \in Keys, MarkSending(w, k)
  PROVE  Delivery!Commit(k)
<1>1. TypeOK /\ jobs \in Table
  BY DEF SafetyInv, TypeOK, Table
<1>2. /\ jobs[k].state = "claimed"
      /\ jobs' = ToSending(jobs, k)
      /\ stage' = [stage EXCEPT ![w][k] = "granted"]
      /\ sent' = sent
  BY DEF MarkSending, MaySend, OwnTransaction
<1>3. StatusOf(jobs)[k] = "open" /\ StatusOf(jobs') = [StatusOf(jobs) EXCEPT ![k] = "closed"]
  BY <1>1, <1>2, ToSendingCloses
<1>4. /\ Authorised(w, k)'
      /\ \A v \in Workers, j \in Keys \ {k} : Authorised(v, j)' <=> Authorised(v, j)
  BY <1>1, <1>2 DEF Authorised, TypeOK
<1>5. Permitted' = [Permitted EXCEPT ![k] = TRUE]
  BY <1>4 DEF Permitted
<1> QED
  BY <1>2, <1>3, <1>5 DEF Delivery!Commit, StatusOf, Permitted

\* The send is the delivery; the permission is gone because nobody else had it.
LEMMA SendMaps ==
  ASSUME SafetyInv, NEW w \in Workers, NEW k \in Keys, Send(w, k)
  PROVE  Delivery!Deliver(k)
<1>1. TypeOK /\ OneSender
  BY DEF SafetyInv
<1>2. /\ Authorised(w, k)
      /\ jobs' = jobs
      /\ sent' = [sent EXCEPT ![k] = @ + 1]
      /\ stage' = [stage EXCEPT ![w][k] = IF @ = "granted" THEN "sent" ELSE "idle"]
  BY DEF Send
<1>3. /\ \A v \in Workers : ~Authorised(v, k)'
      /\ \A v \in Workers, j \in Keys \ {k} : Authorised(v, j)' <=> Authorised(v, j)
  BY <1>1, <1>2 DEF Authorised, TypeOK, OneSender
<1>4. Permitted' = [Permitted EXCEPT ![k] = FALSE]
  BY <1>3 DEF Permitted
<1> QED
  BY <1>2, <1>4 DEF Delivery!Deliver, Permitted

\* finish withdraws an open job, renounces a permission, or does not show.
LEMMA FinishMaps ==
  ASSUME SafetyInv, SafetyInv', NEW w \in Workers, NEW k \in Keys,
         NEW st \in FinishStates, Finish(w, k, st)
  PROVE  Delivery!Withdraw \/ Delivery!Renounce(k)
<1>1. TypeOK /\ jobs \in Table /\ jobs' \in Table /\ OneSender /\ FenceDurable
  BY DEF SafetyInv, TypeOK, Table
<1>2. /\ MayFinish(jobs[k], st, token[w][k])
      /\ jobs' = ToFinished(jobs, k, st)
      /\ stage[w][k] \in {"claimed", "granted", "sent"}
      /\ stage' = [stage EXCEPT ![w][k] =
                    IF @ = "granted" /\ st = "done" THEN "finished" ELSE "idle"]
      /\ sent' = sent
  BY DEF Finish, Statement
<1>3. OnlyWithdraws(jobs, jobs')
  BY <1>1, <1>2, ToFinishedSteady DEF Steady
<1>4. CASE stage[w][k] = "granted" /\ st # "done"
  <2>1. Authorised(w, k)
    BY <1>4 DEF Authorised
  <2>2. Fenced(jobs[k])
    BY <1>1, <2>1 DEF FenceDurable
  <2>3. StatusOf(jobs') = StatusOf(jobs)
    <3>1. \A j \in Keys \ {k} : jobs'[j] = jobs[j]
      BY <1>1, <1>2 DEF ToFinished, Table
    <3>2. AbstractStatus(jobs'[k]) = AbstractStatus(jobs[k])
      BY <1>3, <2>2 DEF OnlyWithdraws, Fenced, AbstractStatus
    <3> QED
      BY <3>1, <3>2 DEF StatusOf
  <2>4. /\ \A v \in Workers : ~Authorised(v, k)'
        /\ \A v \in Workers, j \in Keys \ {k} : Authorised(v, j)' <=> Authorised(v, j)
    BY <1>1, <1>2, <1>4, <2>1 DEF Authorised, TypeOK, OneSender
  <2>5. Permitted' = [Permitted EXCEPT ![k] = FALSE]
    BY <2>4 DEF Permitted
  <2> QED
    BY <1>2, <2>1, <2>3, <2>5 DEF Delivery!Renounce, Permitted, StatusOf
<1>5. CASE ~(stage[w][k] = "granted" /\ st # "done")
  <2>1. \A v \in Workers, j \in Keys : Authorised(v, j)' <=> Authorised(v, j)
    BY <1>1, <1>2, <1>5 DEF Authorised, TypeOK
  <2>2. Permitted' = Permitted
    BY <2>1 DEF Permitted
  <2> QED
    BY <1>1, <1>2, <1>3, <2>2, WithdrawStep
<1> QED
  BY <1>4, <1>5

\* Withdrawal without a claim, and expiry.
LEMMA HousekeepingMaps ==
  ASSUME SafetyInv, SafetyInv',
         \/ \E k \in Keys, st \in FinishStates : Withdraw(k, st)
         \/ \E kind \in Kinds, cutoff \in Times : ExpireOlderThan(kind, cutoff)
  PROVE  Delivery!Withdraw
<1>1. jobs \in Table /\ jobs' \in Table
  BY DEF SafetyInv, TypeOK, Table
<1>2. sent' = sent /\ stage' = stage
  BY DEF Withdraw, ExpireOlderThan
<1>3. OnlyWithdraws(jobs, jobs')
  <2>1. ASSUME NEW k \in Keys, NEW st \in FinishStates, Withdraw(k, st)
        PROVE  OnlyWithdraws(jobs, jobs')
    BY <1>1, <2>1, ToFinishedSteady DEF Withdraw, Statement, Steady
  <2>2. ASSUME NEW kind \in Kinds, NEW cutoff \in Times, ExpireOlderThan(kind, cutoff)
        PROVE  OnlyWithdraws(jobs, jobs')
    BY <1>1, <2>2, ExpireSteady DEF ExpireOlderThan, Statement, Steady
  <2> QED
    BY <2>1, <2>2
<1>4. Permitted' = Permitted
  BY <1>2 DEF Permitted, Authorised
<1> QED
  BY <1>1, <1>2, <1>3, <1>4, WithdrawStep

\* Going back to the committed table takes back only what nobody may deliver
\* or has delivered, and never closes a job.
LEMMA RollbackTakesBack ==
  ASSUME SafetyInv, jobs' = disk
  PROVE  Delivery!TakeBack
<1>1. /\ TypeOK /\ jobs \in Table /\ disk \in Table
      /\ Evolves(disk, jobs) /\ FenceDurable
  BY DEF SafetyInv, TypeOK, Table, ViewExtendsDisk
<1>2. StatusOf(disk) \in [Keys -> {"absent", "open", "closed"}]
  BY <1>1, StatusType
<1>3. ASSUME NEW k \in Keys, AbstractStatus(disk[k]) # AbstractStatus(jobs[k])
      PROVE  /\ \A w \in Workers : ~Authorised(w, k)
             /\ sent[k] = 0
             /\ AbstractStatus(disk[k]) # "closed"
  <2>1. disk[k] \in Row /\ jobs[k] \in Row /\ sent[k] \in Nat
    BY <1>1 DEF Table, TypeOK
  <2>2. ~(Fenced(jobs[k]) /\ Fenced(disk[k]))
    BY <1>3, <2>1, FencedIsClosed
  <2>3. (\A w \in Workers : ~Authorised(w, k)) /\ sent[k] = 0
    BY <1>1, <2>1, <2>2 DEF FenceDurable
  <2>4. ~Fenced(disk[k]) /\ disk[k].state \notin Terminal
    BY <1>1, <1>3, <2>2 DEF Evolves
  <2>5. disk[k].state \in {"absent", "pending", "claimed"}
    BY <2>1, <2>4, RowFields DEF RowStates, Terminal, Fenced
  <2> QED
    BY <2>3, <2>5 DEF AbstractStatus
<1> QED
  BY <1>2, <1>3 DEF Delivery!TakeBack, Delivery!Revocable, StatusOf

\* What surrounds the queue shows as Revoke, Crash or not at all.
LEMMA EnvironmentMaps ==
  ASSUME SafetyInv,
         \/ ForeignBegin \/ ForeignCommit \/ ForeignRollback \/ Crash \/ ClockStep
  PROVE  Delivery!Revoke \/ Delivery!Crash \/ UNCHANGED Delivery!vars
<1>1. CASE ForeignBegin \/ ForeignCommit \/ ClockStep
  <2>1. jobs' = jobs /\ stage' = stage /\ sent' = sent
    BY <1>1 DEF ForeignBegin, ForeignCommit, ClockStep
  <2> QED
    BY <2>1, Stutter DEF StatusOf, Permitted, Authorised
<1>2. CASE ForeignRollback
  <2>1. jobs' = disk /\ stage' = stage /\ sent' = sent
    BY <1>2 DEF ForeignRollback
  <2> QED
    BY <2>1, RollbackTakesBack DEF Delivery!Revoke, Authorised
<1>3. CASE Crash
  <2>1. jobs' = disk /\ stage' = AllIdle /\ sent' = sent
    BY <1>3 DEF Crash
  <2>2. \A w \in Workers, k \in Keys : ~Authorised(w, k)'
    BY <2>1 DEF Authorised, AllIdle
  <2> QED
    BY <2>1, <2>2, RollbackTakesBack DEF Delivery!Crash
<1> QED
  BY <1>1, <1>2, <1>3

----------------------------------------------------------------------------
\* The empty queue maps to the initial abstract state.
LEMMA InitMaps == Init => Delivery!Init
<1> SUFFICES ASSUME Init PROVE Delivery!Init
  OBVIOUS
<1>1. \A k \in Keys : AbstractStatus(jobs[k]) = "absent"
  BY DEF Init, EmptyTable, Absent, AbstractStatus
<1>2. \A w \in Workers, k \in Keys : ~Authorised(w, k)
  BY DEF Init, AllIdle, Authorised
<1>3. sent = [k \in Keys |-> 0]
  BY DEF Init
<1> QED
  BY <1>1, <1>2, <1>3 DEF Delivery!Init

\* Every step of the queue maps to an abstract step or a stutter.
LEMMA StepMaps ==
  SafetyInv /\ SafetyInv' /\ [Next]_vars => [Delivery!Next]_(Delivery!vars)
<1> SUFFICES ASSUME SafetyInv, SafetyInv', [Next]_vars
             PROVE  Delivery!Next \/ UNCHANGED Delivery!vars
  OBVIOUS
<1>1. ASSUME NEW w \in Workers, WorkerStep(w)
      PROVE  Delivery!Next \/ UNCHANGED Delivery!vars
  <2>1. CASE \E kinds \in {Kinds} \cup {{kind} : kind \in Kinds}, cap \in Caps :
                ClaimDue(w, kinds, cap)
    BY <2>1, QuietSteps
  <2>2. ASSUME NEW k \in Keys, MarkSending(w, k)
        PROVE  Delivery!Next
    BY <2>2, MarkSendingMaps DEF Delivery!Next
  <2>3. ASSUME NEW k \in Keys, Send(w, k)
        PROVE  Delivery!Next
    BY <2>3, SendMaps DEF Delivery!Next
  <2>4. ASSUME NEW k \in Keys, NEW newdue \in {0} \cup Times, Release(w, k, newdue)
        PROVE  UNCHANGED Delivery!vars
    BY <2>4, QuietSteps
  <2>5. ASSUME NEW k \in Keys, NEW st \in FinishStates, Finish(w, k, st)
        PROVE  Delivery!Next
    BY <2>5, FinishMaps DEF Delivery!Next
  <2> QED
    BY <1>1, <2>1, <2>2, <2>3, <2>4, <2>5 DEF WorkerStep
<1>2. ASSUME NEW k \in Keys, NEW kind \in JobKinds, NEW due \in Times,
             NEW shadow \in BOOLEAN, Enqueue(k, kind, due, shadow)
      PROVE  Delivery!Next \/ UNCHANGED Delivery!vars
  BY <1>2, EnqueueMaps DEF Delivery!Next
<1>3. CASE \/ \E k \in Keys, st \in FinishStates : Withdraw(k, st)
           \/ \E kind \in Kinds, cutoff \in Times : ExpireOlderThan(kind, cutoff)
  BY <1>3, HousekeepingMaps DEF Delivery!Next
<1>4. CASE RecoverOnStart
  BY <1>4, QuietSteps
<1>5. CASE \/ ForeignBegin \/ ForeignCommit \/ ForeignRollback \/ Crash \/ ClockStep
  BY <1>5, EnvironmentMaps DEF Delivery!Next
<1>6. CASE UNCHANGED vars
  <2>1. jobs' = jobs /\ stage' = stage /\ sent' = sent
    BY <1>6 DEF vars
  <2> QED
    BY <2>1, Stutter DEF StatusOf, Permitted, Authorised
<1> QED
  BY <1>1, <1>2, <1>3, <1>4, <1>5, <1>6 DEF Next

\* The durable job queue implements at-most-once delivery: every behaviour of
\* claim, mark_sending, release, finish, expiry and recovery, with crashes
\* and foreign transactions, is one AtMostOnceDelivery allows.
THEOREM QueueImplementsDelivery == Spec => ImplementsDelivery
<1>1. Init => Delivery!Init
  BY InitMaps
<1>2. SafetyInv /\ SafetyInv' /\ [Next]_vars => [Delivery!Next]_(Delivery!vars)
  BY StepMaps
<1> QED
  BY <1>1, <1>2, SafetyInvariant, PTL DEF Spec, Delivery!Spec, ImplementsDelivery
=============================================================================
