--------------------------- MODULE ReliableProofs ---------------------------
(***************************************************************************)
(* What calls through the provider wrapper keep, for any number of callers,*)
(* providers, models and retries, and any threshold.                       *)
(***************************************************************************)
EXTENDS ReliableProvider, FiniteSetTheorems, TLAPS

\* The parts of TypeOK the invariants below rest on.
CounterTypes ==
  /\ cb_failures \in 0..Threshold /\ failed \in 0..Threshold
  /\ seen \in [Callers -> 0..Threshold]

Places == {"idle", "ready", "call", "decide", "failed", "count", "gave up"}

CallTypes ==
  /\ pc \in [Callers -> Places]
  /\ err \in [Callers -> Errors]

\* While no two calls have overlapped there is one call at most, ...
AloneInv == ~overlap => \A c, d \in Callers : c # d => pc[c] = "idle" \/ pc[d] = "idle"

\* ... the failure it is about to count is among those the primary had, ...
CountInv ==
  ~overlap =>
    /\ cb_failures <= failed
    /\ \A c \in Callers :
         /\ pc[c] = "failed" /\ ~last_empty => CountUp(cb_failures) <= failed
         /\ pc[c] = "count" => CountUp(seen[c]) <= failed

\* ... and nobody has served it yet.
ServedInv ==
  ~overlap => IF \A c \in Callers : pc[c] = "idle" THEN last_served = served ELSE last_served = Nobody

\* The inductive invariant.
CallInv == CounterTypes /\ CallTypes /\ AloneInv /\ CountInv /\ ServedInv
----------------------------------------------------------------------------
\* The end of a turn at a provider: its locals are reset and the call goes on at the next provider
\* or gives up.
LEMMA NextProviderEffect ==
  ASSUME NEW c \in Callers, NextProvider(c)
  PROVE  TurnOver(c) /\ \E to \in {"ready", "gave up"} : Goes(c, to)
BY DEF NextProvider

\* A failed turn goes on in the same way, the primary's by way of its count.
LEMMA TurnFailedEffect ==
  ASSUME NEW c \in Callers, TurnFailed(c)
  PROVE  TurnOver(c) /\ \E to \in {"ready", "gave up", "failed"} :
           Goes(c, to) /\ (to = "failed" <=> prov[c] = Primary)
<1>1. CASE prov[c] = Primary
  BY <1>1 DEF TurnFailed
<1>2. CASE prov[c] # Primary
  BY <1>2, NextProviderEffect DEF TurnFailed
<1> QED
  BY <1>1, <1>2

\* A step of a call, as far as the invariants can tell: where it goes, and what becomes of its
\* turn.
CallStep(c, to) ==
  /\ Goes(c, to)
  /\ \/ UNCHANGED <<err, seen>> /\ pc[c] # "decide" /\ to # "count"
     \/ TurnOver(c)
     \/ pc[c] = "call" /\ to = "decide" /\ UNCHANGED seen
          /\ \E e \in Errors : err' = [err EXCEPT ![c] = e]
     \/ pc[c] = "decide" /\ to = "call" /\ UNCHANGED seen
          /\ err' = [err EXCEPT ![c] = "other"]
     \/ pc[c] = "failed" /\ to = "count" /\ UNCHANGED err
          /\ seen' = [seen EXCEPT ![c] = cb_failures]

\* Every step of a call is one of these.
LEMMA CallSteps ==
  ASSUME NEW c \in Callers, Begin(c) \/ InCall(c)
  PROVE  \E to \in Places : CallStep(c, to)
<1> USE DEF CallStep, Places, At, turn
<1>1. CASE Begin(c)
  BY <1>1 DEF Begin
<1>2. CASE SkipPrimary(c) \/ CountWrites(c) \/ NotCounted(c)
  BY <1>2, NextProviderEffect DEF SkipPrimary, CountWrites, NotCounted
<1>3. CASE StartTurn(c)
  BY <1>3 DEF StartTurn, TurnBegins
<1>4. CASE TurnRefused(c) \/ EmptyReply(c) \/ GiveUpProvider(c)
  BY <1>4, TurnFailedEffect DEF TurnRefused, EmptyReply, GiveUpProvider
<1>5. CASE Answered(c)
  BY <1>5 DEF Answered, CallOver
<1>6. CASE \E e \in Errors : AttemptFails(c, e)
  BY <1>6 DEF AttemptFails
<1>7. CASE Retry(c)
  BY <1>7 DEF Retry
<1>8. CASE CountReads(c)
  BY <1>8 DEF CountReads
<1>9. CASE ReturnFailure(c)
  BY <1>9 DEF ReturnFailure, CallOver
<1> QED
  BY <1>1, <1>2, <1>3, <1>4, <1>5, <1>6, <1>7, <1>8, <1>9 DEF InCall

\* The other steps leave every call where it is.
LEMMA OtherSteps ==
  Tick \/ PrimaryChanges \/ (\E c \in Callers : BeginFails(c)) => UNCHANGED <<place, turn>>
BY DEF Tick, PrimaryChanges, BeginFails, place, turn

\* The calls keep their types.
LEMMA CallTypesStep ==
  CounterTypes /\ CallTypes /\ Next => CallTypes' /\ seen' \in [Callers -> 0..Threshold]
<1> SUFFICES ASSUME CounterTypes, CallTypes, Next
             PROVE  CallTypes' /\ seen' \in [Callers -> 0..Threshold]
  OBVIOUS
<1>1. CASE UNCHANGED <<place, turn>>
  BY <1>1 DEF CallTypes, CounterTypes, place, turn
<1>2. ASSUME NEW c \in Callers, Begin(c) \/ InCall(c)
      PROVE  CallTypes' /\ seen' \in [Callers -> 0..Threshold]
  <2>1. pc' \in [Callers -> Places]
    BY <1>2, CallSteps DEF CallStep, Goes, CallTypes, Places
  <2>2. err' \in [Callers -> Errors]
    BY <1>2, CallSteps DEF CallStep, CallTypes, TurnOver, Errors
  <2>3. seen' \in [Callers -> 0..Threshold]
    BY <1>2, CallSteps, CircuitAssumption DEF CallStep, CounterTypes, TurnOver
  <2> QED
    BY <2>1, <2>2, <2>3 DEF CallTypes, Places
<1> QED
  BY <1>1, <1>2, OtherSteps DEF Next

\* A call in progress is not idle, and only the beginning of a call makes two of them overlap.
LEMMA InCallKeeps ==
  ASSUME NEW c \in Callers, InCall(c)
  PROVE  pc[c] # "idle" /\ UNCHANGED overlap
BY DEF InCall, At, SkipPrimary, StartTurn, TurnRefused, TurnBegins, Answered, EmptyReply, AttemptFails,
       Retry, GiveUpProvider, CountReads, CountWrites, NotCounted, ReturnFailure

\* Until two calls overlap, the one that takes a step finds every other caller idle.
LEMMA OthersIdle ==
  ASSUME AloneInv, NEW c \in Callers, Begin(c) \/ InCall(c), ~overlap'
  PROVE  ~overlap /\ \A d \in Callers \ {c} : pc[d] = "idle"
<1>1. CASE Begin(c)
  BY <1>1 DEF Begin, At
<1>2. CASE InCall(c)
  BY <1>2, InCallKeeps DEF AloneInv
<1> QED
  BY <1>1, <1>2

\* A step of one call leaves the other callers where they are.
LEMMA OthersStay ==
  ASSUME CallTypes, NEW c \in Callers, Begin(c) \/ InCall(c)
  PROVE  \A d \in Callers \ {c} : pc'[d] = pc[d]
BY CallSteps DEF CallStep, CallTypes, Goes

\* The steps outside every call keep the overlap as it was, or found it in another call.
LEMMA OtherOverlap ==
  Tick \/ PrimaryChanges \/ (\E c \in Callers : BeginFails(c)) => (overlap => overlap')
BY DEF Tick, PrimaryChanges, BeginFails

\* There is one call at most until two overlap.
LEMMA AloneStep == CallTypes /\ AloneInv /\ Next => AloneInv'
<1> SUFFICES ASSUME CallTypes, AloneInv, Next PROVE AloneInv'
  OBVIOUS
<1>1. CASE Tick \/ PrimaryChanges \/ \E c \in Callers : BeginFails(c)
  BY <1>1, OtherSteps, OtherOverlap DEF AloneInv, place
<1>2. ASSUME NEW c \in Callers, Begin(c) \/ InCall(c)
      PROVE  AloneInv'
  BY <1>2, OthersIdle, OthersStay DEF AloneInv
<1> QED
  BY <1>1, <1>2 DEF Next

\* What a step of a call does to the count of failures: nothing, in a turn that did not fail or
\* whose failure does not count, ...
CountUntouched(c) ==
  /\ UNCHANGED <<cb_failures, failed>>
  /\ pc'[c] = "failed" => last_empty'
  /\ pc'[c] # "count"

\* ... or the primary's failure is noted, read, written, or forgotten with its answer.
FailureNoted(c) ==
  /\ failed' = CountUp(failed) /\ pc'[c] = "failed"
  /\ UNCHANGED <<cb_failures, last_empty>>

FailureRead(c) ==
  /\ pc[c] = "failed" /\ pc'[c] = "count" /\ ~last_empty /\ seen'[c] = cb_failures
  /\ UNCHANGED <<cb_failures, failed, last_empty>>

FailureWritten(c) ==
  /\ pc[c] = "count" /\ pc'[c] \notin {"failed", "count"}
  /\ cb_failures' = CountUp(seen[c]) /\ UNCHANGED failed

Forgiven(c) == cb_failures' = 0 /\ failed' = 0 /\ pc'[c] = "idle"

\* Every step of a call is one of these.
LEMMA CountSteps ==
  ASSUME CounterTypes, CallTypes, NEW c \in Callers, Begin(c) \/ InCall(c)
  PROVE  CountUntouched(c) \/ FailureNoted(c) \/ FailureRead(c) \/ FailureWritten(c) \/ Forgiven(c)
<1> USE DEF CallTypes, Goes, At, circuit, errors, Errors
<1>1. CASE Begin(c)
  BY <1>1 DEF Begin, CountUntouched
<1>2. CASE SkipPrimary(c)
  BY <1>2, NextProviderEffect DEF SkipPrimary, CountUntouched
<1>3. CASE StartTurn(c)
  BY <1>3 DEF StartTurn, CountUntouched
<1>4. CASE TurnRefused(c)
  <2>1. CASE prov[c] = Primary
    BY <1>4, <2>1, TurnFailedEffect DEF TurnRefused, FailureNoted
  <2>2. CASE prov[c] # Primary
    BY <1>4, <2>2, TurnFailedEffect DEF TurnRefused, CountUntouched
  <2> QED
    BY <2>1, <2>2
<1>5. CASE Answered(c)
  BY <1>5 DEF Answered, CallOver, CountUntouched, Forgiven
<1>6. CASE EmptyReply(c)
  BY <1>6, TurnFailedEffect DEF EmptyReply, CountUntouched
<1>7. CASE \E e \in Errors : AttemptFails(c, e)
  BY <1>7 DEF AttemptFails, CountUntouched
<1>8. CASE Retry(c)
  BY <1>8 DEF Retry, CountUntouched
<1>9. CASE GiveUpProvider(c)
  BY <1>9, TurnFailedEffect DEF GiveUpProvider, CountUntouched, FailureNoted
<1>10. CASE CountReads(c)
  <2>1. seen'[c] = cb_failures
    BY <1>10 DEF CountReads, CounterTypes
  <2> QED
    BY <1>10, <2>1 DEF CountReads, Counts, FailureRead
<1>11. CASE CountWrites(c)
  BY <1>11, NextProviderEffect DEF CountWrites, FailureWritten
<1>12. CASE NotCounted(c)
  BY <1>12, NextProviderEffect DEF NotCounted, CountUntouched
<1>13. CASE ReturnFailure(c)
  BY <1>13 DEF ReturnFailure, CallOver, CountUntouched
<1> QED
  BY <1>1, <1>2, <1>3, <1>4, <1>5, <1>6, <1>7, <1>8, <1>9, <1>10, <1>11, <1>12, <1>13 DEF InCall

\* The counters keep their types.
LEMMA CounterStep == CounterTypes /\ CallTypes /\ Next => CounterTypes'
<1> SUFFICES ASSUME CounterTypes, CallTypes, Next PROVE CounterTypes'
  OBVIOUS
<1>1. seen' \in [Callers -> 0..Threshold]
  BY CallTypesStep
<1>2. CASE UNCHANGED <<cb_failures, failed>>
  BY <1>1, <1>2 DEF CounterTypes
<1>3. ASSUME NEW c \in Callers, Begin(c) \/ InCall(c)
      PROVE  CounterTypes'
  <2>1. cb_failures' \in {cb_failures, 0, CountUp(seen[c])} /\ failed' \in {failed, 0, CountUp(failed)}
    BY <1>3, CountSteps
       DEF CountUntouched, FailureNoted, FailureRead, FailureWritten, Forgiven, CounterTypes
  <2>2. CountUp(seen[c]) \in 0..Threshold /\ CountUp(failed) \in 0..Threshold /\ 0 \in 0..Threshold
    BY CircuitAssumption DEF CounterTypes, CountUp
  <2> QED
    BY <1>1, <2>1, <2>2 DEF CounterTypes
<1>4. Tick \/ PrimaryChanges \/ (\E c \in Callers : BeginFails(c)) => UNCHANGED <<cb_failures, failed>>
  BY DEF Tick, PrimaryChanges, BeginFails, circuit
<1> QED
  BY <1>2, <1>3, <1>4 DEF Next

\* Every failure that is counted is one the primary had.
LEMMA CountStep == CounterTypes /\ CallTypes /\ AloneInv /\ CountInv /\ Next => CountInv'
<1> SUFFICES ASSUME CounterTypes, CallTypes, AloneInv, CountInv, Next, ~overlap'
             PROVE  /\ cb_failures' <= failed'
                    /\ \A c \in Callers :
                         /\ pc'[c] = "failed" /\ ~last_empty' => CountUp(cb_failures') <= failed'
                         /\ pc'[c] = "count" => CountUp(seen'[c]) <= failed'
  BY DEF CountInv, CountUp
<1>1. CASE Tick \/ PrimaryChanges \/ \E c \in Callers : BeginFails(c)
  <2>1. UNCHANGED <<cb_failures, failed, last_empty, pc, seen>> /\ ~overlap
    BY <1>1, OtherOverlap DEF Tick, PrimaryChanges, BeginFails, circuit, errors, place, turn
  <2> QED
    BY <2>1 DEF CountInv
<1>2. ASSUME NEW c \in Callers, Begin(c) \/ InCall(c)
      PROVE  /\ cb_failures' <= failed'
             /\ \A d \in Callers :
                  /\ pc'[d] = "failed" /\ ~last_empty' => CountUp(cb_failures') <= failed'
                  /\ pc'[d] = "count" => CountUp(seen'[d]) <= failed'
  <2>1. ~overlap /\ \A d \in Callers \ {c} : pc'[d] = "idle"
    BY <1>2, OthersIdle, OthersStay
  <2>2. SUFFICES /\ cb_failures' <= failed'
                 /\ pc'[c] = "failed" /\ ~last_empty' => CountUp(cb_failures') <= failed'
                 /\ pc'[c] = "count" => CountUp(seen'[c]) <= failed'
    BY <2>1
  <2>3. CASE CountUntouched(c)
    BY <2>1, <2>3 DEF CountUntouched, CountInv
  <2>4. CASE FailureNoted(c)
    <3>1. cb_failures <= failed /\ cb_failures \in 0..Threshold /\ failed \in 0..Threshold
      BY <2>1 DEF CountInv, CounterTypes
    <3>2. CountUp(cb_failures) <= CountUp(failed) /\ failed <= CountUp(failed)
      BY <3>1, CircuitAssumption DEF CountUp
    <3>3. cb_failures <= CountUp(failed)
      BY <3>1, CircuitAssumption DEF CountUp
    <3> QED
      BY <2>4, <3>2, <3>3 DEF FailureNoted
  <2>5. CASE FailureRead(c)
    BY <2>1, <2>5 DEF FailureRead, CountInv
  <2>6. CASE FailureWritten(c)
    BY <2>1, <2>6 DEF FailureWritten, CountInv
  <2>7. CASE Forgiven(c)
    BY <2>7 DEF Forgiven
  <2> QED
    BY <1>2, <2>3, <2>4, <2>5, <2>6, <2>7, CountSteps
<1> QED
  BY <1>1, <1>2 DEF Next

\* Who served the last call is forgotten when one begins and written when it returns.
LEMMA ServedStep == CallTypes /\ AloneInv /\ ServedInv /\ Next => ServedInv'
<1> SUFFICES ASSUME CallTypes, AloneInv, ServedInv, Next, ~overlap'
             PROVE  IF \A c \in Callers : pc'[c] = "idle" THEN last_served' = served'
                                                        ELSE last_served' = Nobody
  BY DEF ServedInv, Nobody
<1>1. CASE Tick \/ PrimaryChanges
  BY <1>1, OtherOverlap DEF Tick, PrimaryChanges, outcome, place, ServedInv
<1>2. CASE \E c \in Callers : BeginFails(c)
  BY <1>2 DEF BeginFails, ForgetsServed, place
<1>3. ASSUME NEW c \in Callers, Begin(c) \/ InCall(c)
      PROVE  IF \A d \in Callers : pc'[d] = "idle" THEN last_served' = served'
                                                 ELSE last_served' = Nobody
  <2>1. ~overlap /\ \A d \in Callers \ {c} : pc'[d] = "idle"
    BY <1>3, OthersIdle, OthersStay
  <2>2. CASE Begin(c)
    BY <2>2 DEF Begin, ForgetsServed, Goes, CallTypes
  <2>3. CASE Answered(c)
    BY <2>1, <2>3 DEF Answered, CallOver, Goes, CallTypes
  <2>4. CASE ReturnFailure(c)
    <3>1. last_served = Nobody
      BY <2>1, <2>4 DEF ServedInv, ReturnFailure, At
    <3> QED
      BY <2>1, <2>4, <3>1 DEF ReturnFailure, CallOver, Goes, CallTypes
  <2>5. CASE InCall(c) /\ ~Answered(c) /\ ~ReturnFailure(c)
    <3>1. last_served = Nobody
      BY <2>1, <2>5, InCallKeeps DEF ServedInv
    <3>2. UNCHANGED last_served
      BY <2>5 DEF InCall, SkipPrimary, StartTurn, TurnRefused, EmptyReply, AttemptFails, Retry,
                  GiveUpProvider, CountReads, CountWrites, NotCounted, outcome
    <3>3. pc'[c] # "idle"
      BY <2>5, NextProviderEffect, TurnFailedEffect
         DEF InCall, SkipPrimary, StartTurn, TurnRefused, EmptyReply, AttemptFails, Retry,
             GiveUpProvider, CountReads, CountWrites, NotCounted, Goes, CallTypes
    <3> QED
      BY <3>1, <3>2, <3>3
  <2> QED
    BY <1>3, <2>2, <2>3, <2>4, <2>5
<1> QED
  BY <1>1, <1>2, <1>3 DEF Next

\* The wrapper starts in the invariant.
LEMMA InitCall == Init => CallInv
<1> SUFFICES ASSUME Init PROVE CallInv
  OBVIOUS
<1> USE DEF Init
<1>1. CounterTypes /\ CallTypes
  BY CircuitAssumption DEF CounterTypes, CallTypes, Places, Errors
<1>2. AloneInv /\ ServedInv
  BY DEF AloneInv, ServedInv
<1>3. CountInv
  BY DEF CountInv
<1> QED
  BY <1>1, <1>2, <1>3 DEF CallInv

\* The invariant is kept by every step of every call.
THEOREM CallInvariant == Spec => []CallInv
<1>1. CallInv /\ [Next]_vars => CallInv'
  <2>1. CASE Next
    BY <2>1, CounterStep, CallTypesStep, AloneStep, CountStep, ServedStep DEF CallInv
  <2>2. CASE UNCHANGED vars
    BY <2>2 DEF vars, circuit, errors, place, turn, outcome, CallInv, CounterTypes, CallTypes,
                AloneInv, CountInv, CountUp, ServedInv
  <2> QED
    BY <2>1, <2>2
<1> QED
  BY <1>1, InitCall, PTL DEF Spec

\* For any threshold, calls that do not overlap count at most the primary's consecutive failures
\* (circuit_record_failure): empty replies cannot open the circuit.
THEOREM CircuitCountsFailures == Spec => []CountsOnlyFailures
<1>1. CallInv => CountsOnlyFailures
  BY DEF CallInv, CountInv, CountsOnlyFailures
<1> QED
  BY <1>1, CallInvariant, PTL

\* Between calls that do not overlap, last_served names who answered the last one, whatever the
\* chain of models and providers.
THEOREM LastServedIsServer == Spec => []LastServedRight
<1>1. CallInv => LastServedRight
  BY DEF CallInv, ServedInv, LastServedRight, At
<1> QED
  BY <1>1, CallInvariant, PTL
----------------------------------------------------------------------------
(* The rotation: a call that gives up has offered every fallback provider every model, once.       *)

\* Which extra was offered what in which pass over the chain.
Passes == (1..Extras) \X Models
Pair(p) == <<p[1], ExtrasModel(p[2])>>

\* The sequence q has the pairs of the passes in P, each of them once.
OfferedExactly(q, P) ==
  /\ \A i \in 1..Len(q) : \E p \in P : q[i] = Pair(p)
  /\ \A p \in P : \E i \in 1..Len(q) : q[i] = Pair(p)
  /\ \A i, j \in 1..Len(q) : q[i] = q[j] => i = j

\* The passes before the provider the call is at, and those up to it.
Before(m, e) == {p \in Passes : p[2] < m \/ (p[2] = m /\ p[1] < e)}
UpTo(m, e) == {p \in Passes : p[2] < m \/ (p[2] = m /\ p[1] <= e)}

\* The passes a call has made: its provider's turn has begun, or it has none left.
Passed(c) ==
  IF pc[c] \in {"call", "decide", "gave up"} THEN UpTo(model[c], prov[c]) ELSE Before(model[c], prov[c])

OfferTypes ==
  /\ model \in [Callers -> Models] /\ prov \in [Callers -> Providers]
  /\ offered \in [Callers -> Seq(Passes)]

\* Where a call is in the chain when it is counted, idle or out of providers.
PlaceOK(c) ==
  /\ pc[c] \in {"failed", "count"} => prov[c] = Primary
  /\ pc[c] = "idle" => model[c] = 0 /\ prov[c] = Primary
  /\ pc[c] = "gave up" => prov[c] = Extras /\ model[c] + 1 = ChainLen

OfferInv == OfferTypes /\ \A c \in Callers : PlaceOK(c) /\ OfferedExactly(offered[c], Passed(c))

\* extras_model permutes the chain.
LEMMA RotationType == \A m \in Models : ExtrasModel(m) \in Models
BY ChainAssumption DEF Models, ExtrasModel

\* ... it never offers one model in two passes, ...
LEMMA RotationInjective == \A m, n \in Models : ExtrasModel(m) = ExtrasModel(n) => m = n
<1> SUFFICES ASSUME NEW m \in Models, NEW n \in Models, ExtrasModel(m) = ExtrasModel(n) PROVE m = n
  OBVIOUS
<1>1. \A k \in Models : ExtrasModel(k) = IF k + 1 < ChainLen THEN k + 1 ELSE 0
  BY ChainAssumption DEF Models, ExtrasModel
<1> QED
  BY <1>1, ChainAssumption DEF Models

\* ... and leaves none out.
LEMMA RotationOnto == \A m \in Models : \E n \in Models : m = ExtrasModel(n)
<1> SUFFICES ASSUME NEW m \in Models PROVE \E n \in Models : m = ExtrasModel(n)
  OBVIOUS
<1>1. \A k \in Models : ExtrasModel(k) = IF k + 1 < ChainLen THEN k + 1 ELSE 0
  BY ChainAssumption DEF Models, ExtrasModel
<1>2. CASE m = 0
  <2>1. ChainLen - 1 \in Models /\ ~(ChainLen - 1 + 1 < ChainLen)
    BY ChainAssumption DEF Models
  <2> QED
    BY <1>1, <1>2, <2>1
<1>3. CASE m # 0
  <2>1. m - 1 \in Models /\ m - 1 + 1 < ChainLen /\ m - 1 + 1 = m
    BY <1>3, ChainAssumption DEF Models
  <2> QED
    BY <1>1, <2>1
<1> QED
  BY <1>2, <1>3

\* Different passes offer different pairs.
LEMMA PairInjective == \A p, r \in Passes : /\ Pair(p) \in Passes
                                            /\ Pair(p) = Pair(r) => p = r
BY RotationType, RotationInjective DEF Passes, Pair

\* A turn at an extra adds its pair.
LEMMA OfferOne ==
  ASSUME NEW q \in Seq(Passes), NEW P \in SUBSET Passes, NEW r \in Passes, r \notin P,
         OfferedExactly(q, P)
  PROVE  Append(q, Pair(r)) \in Seq(Passes) /\ OfferedExactly(Append(q, Pair(r)), P \cup {r})
<1> DEFINE n == Len(q)
           a == Append(q, Pair(r))
<1>1. n \in Nat /\ a \in Seq(Passes) /\ Len(a) = n + 1 /\ a[n + 1] = Pair(r)
      /\ \A i \in 1..n : a[i] = q[i]
  BY PairInjective
<1>2. \A i \in 1..n : q[i] # Pair(r)
  BY PairInjective DEF OfferedExactly
<1>3. \A i \in 1..(n + 1) : i \in 1..n \/ i = n + 1
  BY <1>1
<1>4. \A i \in 1..n : i \in 1..(n + 1)
  BY <1>1
<1>5. n + 1 \in 1..(n + 1)
  BY <1>1
<1> HIDE DEF n, a
<1>6. (\A i \in 1..n : \E p \in P : q[i] = Pair(p)) /\ (\A p \in P : \E i \in 1..n : q[i] = Pair(p))
      /\ \A i, j \in 1..n : q[i] = q[j] => i = j
  BY DEF OfferedExactly, n
<1>7. OfferedExactly(a, P \cup {r})
  <2>1. \A i \in 1..Len(a) : \E p \in P \cup {r} : a[i] = Pair(p)
    BY <1>1, <1>3, <1>6
  <2>2. \A p \in P \cup {r} : \E i \in 1..Len(a) : a[i] = Pair(p)
    BY <1>1, <1>4, <1>5, <1>6
  <2>3. \A i, j \in 1..Len(a) : a[i] = a[j] => i = j
    BY <1>1, <1>2, <1>3, <1>6
  <2> QED
    BY <2>1, <2>2, <2>3 DEF OfferedExactly
<1> QED
  BY <1>1, <1>7 DEF a

\* The passes up to a provider are those before it and its own, ...
LEMMA UpToIs ==
  ASSUME NEW m \in Models, NEW e \in Providers
  PROVE  /\ e = Primary => UpTo(m, e) = Before(m, e)
         /\ e # Primary => <<e, m>> \in Passes \ Before(m, e) /\ UpTo(m, e) = Before(m, e) \cup {<<e, m>>}
         /\ Before(m, e) \in SUBSET Passes /\ UpTo(m, e) \in SUBSET Passes
         /\ Before(0, Primary) = {}
<1>0. \A p \in Passes : p[1] \in Nat /\ p[1] >= 1 /\ p[2] \in Int /\ p[2] >= 0 /\ p = <<p[1], p[2]>>
  BY ChainAssumption DEF Passes, Models
<1>1. m \in Int /\ e \in Nat
  BY ChainAssumption DEF Models, Providers
<1>4. Before(0, Primary) = {} /\ Before(m, e) \in SUBSET Passes /\ UpTo(m, e) \in SUBSET Passes
  BY <1>0 DEF Before, UpTo, Primary
<1>2. CASE e = Primary
  <2>1. UpTo(m, e) = Before(m, e)
    BY <1>0, <1>1, <1>2 DEF UpTo, Before, Primary
  <2> QED
    BY <1>2, <1>4, <2>1
<1>3. CASE e # Primary
  <2>1. <<e, m>> \in Passes
    BY <1>1, <1>3, ChainAssumption DEF Passes, Providers, Primary
  <2>2. \A p \in Passes : p[1] <= e <=> p[1] < e \/ p[1] = e
    BY <1>0, <1>1
  <2>3. UpTo(m, e) = Before(m, e) \cup {<<e, m>>}
    BY <1>0, <2>1, <2>2 DEF UpTo, Before
  <2>4. <<e, m>> \notin Before(m, e)
    BY <1>1 DEF Before
  <2> QED
    BY <1>3, <1>4, <2>1, <2>3, <2>4
<1> QED
  BY <1>2, <1>3

\* ... and those before the next one, or all of them.
LEMMA UpToNext ==
  ASSUME NEW m \in Models, NEW e \in Providers
  PROVE  /\ UpTo(m, e) = Before(m, e + 1)
         /\ e = Extras => UpTo(m, e) = Before(m + 1, Primary)
         /\ e = Extras /\ ~(m + 1 < ChainLen) => UpTo(m, e) = Passes
<1>0. \A p \in Passes : p[1] \in Nat /\ p[1] >= 1 /\ p[1] <= Extras /\ p[2] \in Int /\ p[2] >= 0 /\ p[2] < ChainLen
  BY ChainAssumption DEF Passes, Models
<1>1. m \in Int /\ e \in Nat
  BY ChainAssumption DEF Models, Providers
<1>2. UpTo(m, e) = Before(m, e + 1)
  <2>1. \A p \in Passes : p[1] <= e <=> p[1] < e + 1
    BY <1>0, <1>1
  <2> QED
    BY <2>1 DEF UpTo, Before
<1>3. ASSUME e = Extras PROVE UpTo(m, e) = Before(m + 1, Primary)
  <2>1. \A p \in Passes : /\ p[1] <= e /\ ~(p[1] < Primary)
                          /\ p[2] < m + 1 <=> p[2] < m \/ p[2] = m
    BY <1>0, <1>1, <1>3 DEF Primary
  <2> QED
    BY <2>1 DEF UpTo, Before
<1>4. ASSUME e = Extras, ~(m + 1 < ChainLen) PROVE UpTo(m, e) = Passes
  <2>1. \A p \in Passes : p[1] <= e /\ (p[2] < m \/ p[2] = m)
    BY <1>0, <1>1, <1>4, ChainAssumption DEF Models
  <2> QED
    BY <2>1 DEF UpTo
<1> QED
  BY <1>2, <1>3, <1>4

\* A caller's part in the invariant, after a step that left its place in the chain alone.
Stays(d) ==
  /\ pc'[d] = pc[d] /\ model'[d] = model[d] /\ prov'[d] = prov[d] /\ offered'[d] = offered[d]

\* What a step of call c does to its place and to what it has offered: it stays with its provider, ...
Remains(c) ==
  /\ UNCHANGED <<model, prov, offered>>
  /\ \E to \in Places : Goes(c, to) /\ \/ pc[c] = "call" /\ to = "decide"
                                       \/ pc[c] = "decide" /\ to = "call"
                                       \/ pc[c] = "idle" /\ to = "ready"
                                       \/ to \in {"failed", "count"} /\ prov[c] = Primary

\* ... its provider's turn begins, ...
Offers(c) == pc[c] = "ready" /\ TurnBegins(c) /\ UNCHANGED <<model, prov>> /\ Goes(c, "call")

\* ... ends at the primary or after its model was offered, ...
Ends(c) ==
  /\ NextProvider(c) /\ UNCHANGED offered
  /\ pc[c] \in {"call", "decide"} \/ (pc[c] \in {"ready", "failed", "count"} /\ prov[c] = Primary)

\* ... or is refused, ...
Refuses(c) ==
  /\ pc[c] = "ready" /\ TurnBegins(c)
  /\ IF prov[c] = Primary THEN Goes(c, "failed") /\ UNCHANGED <<model, prov>> ELSE NextProvider(c)

\* Every step of a call is one of these, or the call is over.
LEMMA OfferSteps ==
  ASSUME NEW c \in Callers, OfferInv, Begin(c) \/ InCall(c)
  PROVE  Remains(c) \/ Offers(c) \/ Ends(c) \/ Refuses(c) \/ CallOver(c)
<1> USE DEF At, place
<1>1. CASE Begin(c)
  BY <1>1 DEF Begin, Remains, Places
<1>2. CASE SkipPrimary(c)
  BY <1>2 DEF SkipPrimary, Ends
<1>3. CASE StartTurn(c)
  BY <1>3 DEF StartTurn, TurnBegins, Offers
<1>4. CASE TurnRefused(c)
  BY <1>4 DEF TurnRefused, TurnBegins, TurnFailed, Refuses
<1>5. CASE Answered(c) \/ ReturnFailure(c)
  BY <1>5 DEF Answered, ReturnFailure
<1>6. CASE EmptyReply(c) \/ GiveUpProvider(c)
  BY <1>6 DEF EmptyReply, GiveUpProvider, TurnFailed, Remains, Ends, Places
<1>7. CASE \E e \in Errors : AttemptFails(c, e)
  <2>1. pc[c] = "call" /\ Goes(c, "decide") /\ UNCHANGED <<model, prov, offered>>
    BY <1>7 DEF AttemptFails
  <2>2. "decide" \in Places
    BY DEF Places
  <2> QED
    BY <2>1, <2>2 DEF Remains
<1>8. CASE Retry(c)
  BY <1>8 DEF Retry, Remains, Places
<1>9. CASE CountReads(c)
  BY <1>9 DEF CountReads, Remains, Places, OfferInv, PlaceOK
<1>10. CASE CountWrites(c) \/ NotCounted(c)
  BY <1>10 DEF CountWrites, NotCounted, Ends, OfferInv, PlaceOK
<1> QED
  BY <1>1, <1>2, <1>3, <1>4, <1>5, <1>6, <1>7, <1>8, <1>9, <1>10 DEF InCall

\* The next provider's place: all passes up to the last one's have been made.
LEMMA NextPlace ==
  ASSUME NEW c \in Callers, CallTypes, OfferTypes, NextProvider(c)
  PROVE  /\ Passed(c)' = UpTo(model[c], prov[c])
         /\ PlaceOK(c)'
         /\ model' \in [Callers -> Models] /\ prov' \in [Callers -> Providers]
         /\ \A d \in Callers \ {c} : pc'[d] = pc[d] /\ model'[d] = model[d] /\ prov'[d] = prov[d]
<1>0. /\ model[c] \in Models /\ prov[c] \in Providers
      /\ model \in [Callers -> Models] /\ prov \in [Callers -> Providers] /\ pc \in [Callers -> Places]
  BY DEF OfferTypes, CallTypes
<1>1. CASE /\ prov[c] < Extras
           /\ prov' = [prov EXCEPT ![c] = @ + 1] /\ UNCHANGED model /\ Goes(c, "ready")
  <2>1. prov[c] + 1 \in Providers
    BY <1>0, <1>1, ChainAssumption DEF Providers
  <2>2. pc'[c] = "ready" /\ model'[c] = model[c] /\ prov'[c] = prov[c] + 1
    BY <1>0, <1>1 DEF Goes
  <2>3. Passed(c)' = UpTo(model[c], prov[c]) /\ PlaceOK(c)'
    BY <1>0, <2>2, UpToNext DEF Passed, PlaceOK
  <2> QED
    BY <1>0, <1>1, <2>1, <2>3 DEF Goes
<1>2. CASE /\ prov[c] = Extras /\ MoreModels(c)
           /\ prov' = [prov EXCEPT ![c] = Primary] /\ model' = [model EXCEPT ![c] = @ + 1]
           /\ Goes(c, "ready")
  <2>1. model[c] + 1 \in Models /\ Primary \in Providers
    BY <1>0, <1>2, ChainAssumption DEF Models, MoreModels, Primary, Providers
  <2>2. pc'[c] = "ready" /\ model'[c] = model[c] + 1 /\ prov'[c] = Primary
    BY <1>0, <1>2 DEF Goes
  <2>3. Passed(c)' = UpTo(model[c], prov[c]) /\ PlaceOK(c)'
    BY <1>0, <1>2, <2>2, UpToNext DEF Passed, PlaceOK
  <2> QED
    BY <1>0, <1>2, <2>1, <2>3 DEF Goes
<1>3. CASE /\ prov[c] = Extras /\ ~MoreModels(c)
           /\ UNCHANGED <<prov, model>> /\ Goes(c, "gave up")
  <2>1. model[c] + 1 = ChainLen
    <3>1. model[c] \in 0..ChainLen - 1 /\ ~(model[c] + 1 < ChainLen)
      BY <1>0, <1>3 DEF Models, MoreModels
    <3> QED
      BY <3>1, ChainAssumption
  <2>2. pc'[c] = "gave up"
    BY <1>0, <1>3 DEF Goes
  <2>3. Passed(c)' = UpTo(model[c], prov[c]) /\ PlaceOK(c)'
    BY <1>3, <2>1, <2>2 DEF Passed, PlaceOK
  <2> QED
    BY <1>0, <1>3, <2>3 DEF Goes
<1> QED
  BY <1>1, <1>2, <1>3 DEF NextProvider

\* When a turn begins, the pair of an extra is offered: the passes up to the provider are made.
LEMMA BeginsOffers ==
  ASSUME NEW c \in Callers, OfferInv, pc[c] = "ready", TurnBegins(c)
  PROVE  /\ offered' \in [Callers -> Seq(Passes)]
         /\ OfferedExactly(offered'[c], UpTo(model[c], prov[c]))
         /\ \A d \in Callers \ {c} : offered'[d] = offered[d]
<1>0. /\ model[c] \in Models /\ prov[c] \in Providers /\ offered[c] \in Seq(Passes)
      /\ offered \in [Callers -> Seq(Passes)]
      /\ OfferedExactly(offered[c], Before(model[c], prov[c]))
  BY DEF OfferInv, OfferTypes, Passed
<1>1. CASE prov[c] = Primary
  <2>1. offered' = offered
    BY <1>0, <1>1 DEF TurnBegins
  <2> QED
    BY <1>0, <1>1, <2>1, UpToIs
<1>2. CASE prov[c] # Primary
  <2>1. offered' = [offered EXCEPT ![c] = Append(@, Pair(<<prov[c], model[c]>>))]
    BY <1>2 DEF TurnBegins, Pair
  <2>2. /\ <<prov[c], model[c]>> \in Passes \ Before(model[c], prov[c])
        /\ UpTo(model[c], prov[c]) = Before(model[c], prov[c]) \cup {<<prov[c], model[c]>>}
        /\ Before(model[c], prov[c]) \in SUBSET Passes
    BY <1>0, <1>2, UpToIs
  <2>3. /\ Append(offered[c], Pair(<<prov[c], model[c]>>)) \in Seq(Passes)
        /\ OfferedExactly(Append(offered[c], Pair(<<prov[c], model[c]>>)), UpTo(model[c], prov[c]))
    BY <1>0, <2>2, OfferOne
  <2> QED
    BY <1>0, <2>1, <2>3
<1> QED
  BY <1>1, <1>2

\* A caller that stays where it is keeps its part of the invariant.
LEMMA StaysOK ==
  ASSUME NEW d \in Callers, OfferInv, Stays(d)
  PROVE  (PlaceOK(d) /\ OfferedExactly(offered[d], Passed(d)))'
<1>1. Passed(d)' = Passed(d) /\ PlaceOK(d)'
  BY DEF Stays, Passed, PlaceOK, OfferInv
<1> QED
  BY <1>1 DEF Stays, OfferInv, OfferedExactly

\* Calls move on without leaving a pass out or making one twice.
LEMMA OfferStep == CallTypes /\ OfferInv /\ Next => OfferInv'
<1> SUFFICES ASSUME CallTypes, OfferInv, Next PROVE OfferInv'
  OBVIOUS
<1>0. /\ model \in [Callers -> Models] /\ prov \in [Callers -> Providers]
      /\ offered \in [Callers -> Seq(Passes)] /\ pc \in [Callers -> Places]
  BY DEF OfferInv, OfferTypes, CallTypes
<1>1. CASE UNCHANGED <<place, offered>>
  <2>1. OfferTypes' /\ \A d \in Callers : Stays(d)
    BY <1>0, <1>1 DEF OfferTypes, Stays, place
  <2> QED
    BY <2>1, StaysOK DEF OfferInv
<1>2. ASSUME NEW c \in Callers, Begin(c) \/ InCall(c) PROVE OfferInv'
  <2>0. PlaceOK(c) /\ OfferedExactly(offered[c], Passed(c)) /\ model[c] \in Models /\ prov[c] \in Providers
    BY <1>0 DEF OfferInv
  <2>1. ASSUME OfferTypes', PlaceOK(c)', OfferedExactly(offered'[c], Passed(c)'),
               \A d \in Callers \ {c} : Stays(d)
        PROVE  OfferInv'
    <3>1. ASSUME NEW d \in Callers, d # c PROVE (PlaceOK(d) /\ OfferedExactly(offered[d], Passed(d)))'
      BY <2>1, <3>1, StaysOK
    <3>2. OfferedExactly(offered[c], Passed(c))'
      BY <2>1 DEF OfferedExactly
    <3> QED
      BY <2>1, <3>1, <3>2 DEF OfferInv
  <2>2. CASE Remains(c)
    <3>1. PICK to \in Places : Goes(c, to) /\ \/ pc[c] = "call" /\ to = "decide"
                                              \/ pc[c] = "decide" /\ to = "call"
                                              \/ pc[c] = "idle" /\ to = "ready"
                                              \/ to \in {"failed", "count"} /\ prov[c] = Primary
      BY <2>2 DEF Remains
    <3>2. pc'[c] = to /\ UNCHANGED <<model, prov, offered>> /\ \A d \in Callers \ {c} : pc'[d] = pc[d]
      BY <1>0, <2>2, <3>1 DEF Goes, Remains
    <3>3. Passed(c)' = Passed(c)
      BY <2>0, <3>1, <3>2, UpToIs DEF Passed
    <3>4. PlaceOK(c)'
      BY <3>1, <3>2 DEF PlaceOK
    <3> QED
      BY <1>0, <2>0, <2>1, <3>2, <3>3, <3>4 DEF OfferTypes, Stays
  <2>3. CASE Offers(c)
    <3>1. pc'[c] = "call" /\ UNCHANGED <<model, prov>> /\ \A d \in Callers \ {c} : pc'[d] = pc[d]
      BY <1>0, <2>3 DEF Offers, Goes
    <3>2. Passed(c)' = UpTo(model[c], prov[c]) /\ PlaceOK(c)'
      BY <3>1 DEF Passed, PlaceOK
    <3>3. /\ offered' \in [Callers -> Seq(Passes)]
          /\ OfferedExactly(offered'[c], UpTo(model[c], prov[c]))
          /\ \A d \in Callers \ {c} : offered'[d] = offered[d]
      BY <2>3, BeginsOffers DEF Offers
    <3> QED
      BY <1>0, <2>1, <3>1, <3>2, <3>3 DEF OfferTypes, Stays
  <2>4. CASE Ends(c)
    <3>1. /\ Passed(c)' = UpTo(model[c], prov[c]) /\ PlaceOK(c)'
          /\ model' \in [Callers -> Models] /\ prov' \in [Callers -> Providers]
          /\ \A d \in Callers \ {c} : pc'[d] = pc[d] /\ model'[d] = model[d] /\ prov'[d] = prov[d]
      BY <2>4, NextPlace DEF Ends, OfferInv
    <3>2. Passed(c) = UpTo(model[c], prov[c]) /\ UNCHANGED offered
      BY <2>0, <2>4, UpToIs DEF Ends, Passed
    <3> QED
      BY <1>0, <2>0, <2>1, <3>1, <3>2 DEF OfferTypes, Stays
  <2>5. CASE Refuses(c)
    <3>1. /\ offered' \in [Callers -> Seq(Passes)]
          /\ OfferedExactly(offered'[c], UpTo(model[c], prov[c]))
          /\ \A d \in Callers \ {c} : offered'[d] = offered[d]
      BY <2>5, BeginsOffers DEF Refuses
    <3>2. /\ Passed(c)' = UpTo(model[c], prov[c]) /\ PlaceOK(c)'
          /\ model' \in [Callers -> Models] /\ prov' \in [Callers -> Providers]
          /\ \A d \in Callers \ {c} : pc'[d] = pc[d] /\ model'[d] = model[d] /\ prov'[d] = prov[d]
      <4>1. CASE prov[c] = Primary
        <5>1. pc'[c] = "failed" /\ UNCHANGED <<model, prov>> /\ \A d \in Callers \ {c} : pc'[d] = pc[d]
          BY <1>0, <2>5, <4>1 DEF Refuses, Goes
        <5>2. Passed(c)' = UpTo(model[c], prov[c]) /\ PlaceOK(c)'
          BY <2>0, <4>1, <5>1, UpToIs DEF Passed, PlaceOK
        <5> QED
          BY <1>0, <5>1, <5>2
      <4>2. CASE prov[c] # Primary
        BY <2>5, <4>2, NextPlace DEF Refuses, OfferInv
      <4> QED
        BY <4>1, <4>2
    <3> QED
      BY <2>1, <3>1, <3>2 DEF OfferTypes, Stays
  <2>6. CASE CallOver(c)
    <3>1. 0 \in Models /\ Primary \in Providers /\ << >> \in Seq(Passes)
      BY ChainAssumption DEF Models, Providers, Primary
    <3>2. /\ pc'[c] = "idle" /\ model'[c] = 0 /\ prov'[c] = Primary /\ offered'[c] = << >>
          /\ \A d \in Callers \ {c} : Stays(d)
      BY <1>0, <2>6 DEF CallOver, Goes, Stays
    <3>3. OfferTypes'
      BY <1>0, <2>6, <3>1 DEF OfferTypes, CallOver
    <3>4. Passed(c)' = {} /\ PlaceOK(c)'
      BY <2>0, <3>2, UpToIs DEF Passed, PlaceOK
    <3>5. OfferedExactly(<< >>, {})
      BY DEF OfferedExactly
    <3> QED
      BY <2>1, <3>2, <3>3, <3>4, <3>5
  <2> QED
    BY <1>2, <2>2, <2>3, <2>4, <2>5, <2>6, OfferSteps
<1>3. Tick \/ PrimaryChanges \/ (\E c \in Callers : BeginFails(c)) => UNCHANGED <<place, offered>>
  BY DEF Tick, PrimaryChanges, BeginFails
<1> QED
  BY <1>1, <1>2, <1>3 DEF Next

\* No call has offered anything yet.
LEMMA InitOffer == Init => OfferInv
<1> SUFFICES ASSUME Init PROVE OfferInv
  OBVIOUS
<1>1. 0 \in Models /\ Primary \in Providers /\ << >> \in Seq(Passes)
  BY ChainAssumption DEF Models, Providers, Primary
<1>2. OfferTypes
  BY <1>1 DEF Init, OfferTypes
<1>3. ASSUME NEW c \in Callers PROVE PlaceOK(c) /\ OfferedExactly(offered[c], Passed(c))
  <2>1. pc[c] = "idle" /\ model[c] = 0 /\ prov[c] = Primary /\ offered[c] = << >>
    BY DEF Init
  <2>2. Passed(c) = {}
    BY <1>1, <2>1, UpToIs DEF Passed
  <2> QED
    BY <2>1, <2>2 DEF PlaceOK, OfferedExactly
<1> QED
  BY <1>2, <1>3 DEF OfferInv

\* What every call has offered is exactly the passes it has made.
THEOREM OfferInvariant == Spec => []OfferInv
<1>1. CallInv /\ OfferInv /\ [Next]_vars => OfferInv'
  <2>1. CASE UNCHANGED vars
    <3> SUFFICES ASSUME OfferInv PROVE OfferInv'
      OBVIOUS
    <3>1. OfferTypes' /\ \A d \in Callers : Stays(d)
      BY <2>1 DEF OfferInv, OfferTypes, Stays, vars, place
    <3> QED
      BY <3>1, StaysOK DEF OfferInv
  <2> QED
    BY <2>1, OfferStep DEF CallInv
<1> QED
  BY <1>1, InitOffer, CallInvariant, PTL DEF Spec

\* For any number of fallback providers and models, a call fails only after each of the former was
\* offered each of the latter, once: the rotation of extras_model leaves no pair out.
THEOREM FailsOnlyAfterAll == Spec => []FailsAfterAll
<1>0. ~(ChainLen < ChainLen)
  BY ChainAssumption
<1>1. ASSUME OfferInv PROVE FailsAfterAll
  <2>1. \A c \in Callers : DOMAIN offered[c] = 1..Len(offered[c])
    BY <1>1 DEF OfferInv, OfferTypes
  <2> SUFFICES ASSUME NEW c \in Callers, pc[c] = "gave up"
               PROVE  \A e \in 1..Extras : \A m \in Models :
                        Cardinality({i \in DOMAIN offered[c] : offered[c][i] = <<e, m>>}) = 1
    BY DEF FailsAfterAll, At
  <2>3. /\ prov[c] \in Providers /\ prov[c] = Extras /\ model[c] \in Models /\ model[c] + 1 = ChainLen
        /\ OfferedExactly(offered[c], UpTo(model[c], prov[c]))
    BY <1>1 DEF OfferInv, OfferTypes, PlaceOK, Passed
  <2>5. OfferedExactly(offered[c], Passes)
    BY <1>0, <2>3, UpToNext
  <2>6. ASSUME NEW e \in 1..Extras, NEW m \in Models
        PROVE  Cardinality({i \in DOMAIN offered[c] : offered[c][i] = <<e, m>>}) = 1
    <3>1. PICK n \in Models : m = ExtrasModel(n)
      BY RotationOnto
    <3>2. <<e, n>> \in Passes /\ Pair(<<e, n>>) = <<e, m>>
      BY <3>1 DEF Passes, Pair
    <3>3. PICK i \in 1..Len(offered[c]) : offered[c][i] = <<e, m>>
      BY <2>5, <3>2 DEF OfferedExactly
    <3>4. \A j \in 1..Len(offered[c]) : offered[c][j] = <<e, m>> => j = i
      BY <2>5, <3>3 DEF OfferedExactly
    <3>5. {j \in DOMAIN offered[c] : offered[c][j] = <<e, m>>} = {i}
      BY <2>1, <3>3, <3>4
    <3>6. Cardinality({i}) = 1
      BY FS_Singleton
    <3> QED
      BY <3>5, <3>6
  <2> QED
    BY <2>6
<1> QED
  BY <1>1, OfferInvariant, PTL
=============================================================================
