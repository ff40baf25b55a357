-------------------------- MODULE ReliableProvider --------------------------
(***************************************************************************)
(* The provider wrapper (src/providers/reliable.c): retries, a chain of    *)
(* fallback models, fallback providers, and a circuit breaker on the       *)
(* primary provider.  chat and chat_with_system are the same loop.         *)
(*                                                                         *)
(* The daemon's service loop and the gateway's thread call the one agent's *)
(* wrapper at the same time and nothing locks it: what one call reads of   *)
(* last_empty, last_error_msg and the circuit another may have written,    *)
(* and cb_failures++ is a read and a write.                                *)
(*                                                                         *)
(* Time is what is left of cb_open_until, cb_failures is counted up to the *)
(* threshold (only `>=' is asked of it), and a model is its place in the   *)
(* chain [caller's model, fallback 1, ...].  The backoff sleeps take no    *)
(* step.  stream_chat neither reads nor writes any of this state and is    *)
(* left out.                                                               *)
(***************************************************************************)
EXTENDS Integers, Sequences, FiniteSets

CONSTANTS Callers,    \* threads that call chat
          Extras,     \* extras_count
          ChainLen,   \* chain_count: 1 + the declared fallback models
          MaxRetries, \* max_retries
          Threshold,  \* cb_failure_threshold, 0 = no circuit
          Recovery    \* cb_recovery_seconds

ASSUME CallersAssumption == IsFiniteSet(Callers)
ASSUME ChainAssumption   == Extras \in Nat /\ ChainLen \in Nat \ {0} /\ MaxRetries \in Nat
ASSUME CircuitAssumption == Threshold \in Nat /\ Recovery \in Nat \ {0}

Primary   == 0
Providers == 0..Extras
Models    == 0..ChainLen - 1
Nobody    == -1
Errors    == {"timeout", "rate limited", "terminal", "other"}

VARIABLES
  cb_failures, open_left, last_empty, last_served,
  rate_limited, \* does last_error_msg name a rate limit?
  healthy,  \* can the primary be asked, and does it answer?
  pc,       \* pc[c]: where caller c is in its call
  model,    \* model[c]: m, its pass over the chain
  prov,     \* prov[c]: the provider it is at, 0 the primary, e + 1 extras[e]
  attempt,  \* attempt[c]: its retries on that provider
  err,      \* err[c]: the error of its last attempt
  seen,     \* seen[c]: the cb_failures it is about to count up
  offered,  \* offered[c]: which extra was offered which model in its call, in order (history)
  failed,   \* the primary's failures since it last answered (history, up to the threshold)
  served,   \* who answered the last call that returned (history)
  overlap   \* have two calls ever been in progress at once? (history)

circuit == <<cb_failures, open_left>>
errors  == <<last_empty, rate_limited>>
place   == <<pc, model, prov>>
turn    == <<attempt, err, seen>>
outcome == <<last_served, served>>
vars == <<circuit, errors, outcome, healthy, place, turn, offered, failed, overlap>>

TypeOK ==
  /\ cb_failures \in 0..Threshold /\ open_left \in 0..Recovery
  /\ last_empty \in BOOLEAN /\ rate_limited \in BOOLEAN
  /\ last_served \in Providers \cup {Nobody}
  /\ healthy \in BOOLEAN
  /\ pc \in [Callers -> {"idle", "ready", "call", "decide", "failed", "count", "gave up"}]
  /\ model \in [Callers -> Models] /\ prov \in [Callers -> Providers]
  /\ attempt \in [Callers -> 0..MaxRetries] /\ err \in [Callers -> Errors]
  /\ seen \in [Callers -> 0..Threshold]
  /\ offered \in [Callers -> Seq((1..Extras) \X Models)]
  /\ failed \in 0..Threshold
  /\ served \in Providers \cup {Nobody}
  /\ overlap \in BOOLEAN

Init ==
  /\ cb_failures = 0 /\ open_left = 0
  /\ last_empty = FALSE /\ rate_limited = FALSE /\ last_served = Nobody
  /\ healthy = TRUE
  /\ pc = [c \in Callers |-> "idle"]
  /\ model = [c \in Callers |-> 0] /\ prov = [c \in Callers |-> Primary]
  /\ attempt = [c \in Callers |-> 0] /\ err = [c \in Callers |-> "other"]
  /\ seen = [c \in Callers |-> 0]
  /\ offered = [c \in Callers |-> << >>]
  /\ failed = 0 /\ served = Nobody /\ overlap = FALSE

At(c, where) == pc[c] = where
Goes(c, to) == pc' = [pc EXCEPT ![c] = to]

\* n + 1, as far as the circuit can tell.
CountUp(n) == IF n < Threshold THEN n + 1 ELSE n

\* A turn's locals go out of scope with it.
TurnOver(c) ==
  /\ attempt' = [attempt EXCEPT ![c] = 0]
  /\ err' = [err EXCEPT ![c] = "other"]
  /\ seen' = [seen EXCEPT ![c] = 0]

CallOver(c) ==
  /\ model' = [model EXCEPT ![c] = 0]
  /\ prov' = [prov EXCEPT ![c] = Primary]
  /\ offered' = [offered EXCEPT ![c] = << >>]
  /\ Goes(c, "idle")

MoreModels(c) == model[c] + 1 < ChainLen

\* The next extra, else the primary with the next model, else final_failure.
NextProvider(c) ==
  /\ TurnOver(c)
  /\ \/ /\ prov[c] < Extras
        /\ prov' = [prov EXCEPT ![c] = @ + 1] /\ UNCHANGED model /\ Goes(c, "ready")
     \/ /\ prov[c] = Extras /\ MoreModels(c)
        /\ prov' = [prov EXCEPT ![c] = Primary] /\ model' = [model EXCEPT ![c] = @ + 1]
        /\ Goes(c, "ready")
     \/ /\ prov[c] = Extras /\ ~MoreModels(c)
        /\ UNCHANGED <<prov, model>> /\ Goes(c, "gave up")

\* A turn that failed: the primary's is counted first.
TurnFailed(c) ==
  IF prov[c] = Primary
  THEN Goes(c, "failed") /\ TurnOver(c) /\ UNCHANGED <<model, prov>>
  ELSE NextProvider(c)

----------------------------------------------------------------------------
\* Slip: the last call's server is not forgotten.
LeavesServed == UNCHANGED last_served

ForgetsServed == last_served' = Nobody

\* reliable_chat, reliable_chat_with_system: the call begins.
Begin(c) ==
  /\ At(c, "idle")
  /\ ForgetsServed
  /\ overlap' = (overlap \/ \E d \in Callers \ {c} : ~At(d, "idle"))
  /\ Goes(c, "ready")
  /\ UNCHANGED <<circuit, errors, served, healthy, model, prov, turn, offered, failed>>

\* ... and is over at once when model_chain has no memory.
BeginFails(c) ==
  /\ At(c, "idle")
  /\ ForgetsServed /\ served' = Nobody
  /\ overlap' = (overlap \/ \E d \in Callers \ {c} : ~At(d, "idle"))
  /\ UNCHANGED <<circuit, errors, healthy, place, turn, offered, failed>>

\* Slip: once open, the circuit stays open.
StaysOpen == Threshold > 0 /\ cb_failures >= Threshold

\* circuit_skip_primary: open, and not yet time for a trial request.
CircuitOpen == Threshold > 0 /\ cb_failures >= Threshold /\ open_left > 0

SkipPrimary(c) ==
  /\ At(c, "ready") /\ prov[c] = Primary /\ CircuitOpen
  /\ NextProvider(c)
  /\ UNCHANGED <<circuit, errors, outcome, healthy, offered, failed, overlap>>

\* Slip: the extras are offered the next model, the last one again at the end.
NextOrLast(m) == IF m + 1 < ChainLen THEN m + 1 ELSE m

\* extras_model: the declared fallbacks first, the primary's own model last.
ExtrasModel(m) == IF ChainLen < 2 THEN m ELSE (m + 1) % ChainLen

\* The provider's turn: the extras are offered a model of their own.
TurnBegins(c) ==
  /\ At(c, "ready")
  /\ prov[c] = Primary => ~CircuitOpen
  /\ offered' = [offered EXCEPT ![c] =
                   IF prov[c] = Primary THEN @ ELSE Append(@, <<prov[c], ExtrasModel(model[c])>>)]

\* try_chat: the provider is called.
StartTurn(c) ==
  /\ TurnBegins(c)
  /\ last_empty' = FALSE
  /\ Goes(c, "call")
  /\ UNCHANGED <<circuit, rate_limited, outcome, healthy, model, prov, turn, failed, overlap>>

MayFail(c) == prov[c] = Primary => ~healthy

\* The provider has no chat, or the private text could not be stripped: the
\* turn fails before last_empty is reset.
TurnRefused(c) ==
  /\ TurnBegins(c) /\ MayFail(c)
  /\ TurnFailed(c)
  /\ failed' = IF prov[c] = Primary THEN CountUp(failed) ELSE failed
  /\ UNCHANGED <<circuit, errors, outcome, healthy, overlap>>

\* An answer; circuit_record_success if it is the primary's.
Answered(c) ==
  /\ At(c, "call")
  /\ IF prov[c] = Primary
     THEN cb_failures' = 0 /\ open_left' = 0 /\ failed' = 0
     ELSE UNCHANGED <<circuit, failed>>
  /\ last_served' = prov[c] /\ served' = prov[c]
  /\ CallOver(c) /\ TurnOver(c)
  /\ UNCHANGED <<errors, healthy, overlap>>

\* empty_reply_failure
EmptyReply(c) ==
  /\ At(c, "call") /\ MayFail(c)
  /\ last_empty' = TRUE /\ rate_limited' = FALSE
  /\ TurnFailed(c)
  /\ UNCHANGED <<circuit, outcome, healthy, offered, failed, overlap>>

\* store_error
AttemptFails(c, e) ==
  /\ At(c, "call") /\ MayFail(c)
  /\ rate_limited' = (e = "rate limited")
  /\ err' = [err EXCEPT ![c] = e]
  /\ Goes(c, "decide")
  /\ UNCHANGED <<circuit, last_empty, outcome, healthy, model, prov, attempt, seen,
                 offered, failed, overlap>>

\* should_break_to_extras: the timeout is this call's own, the rate limit is
\* whatever error was stored last.
ShouldBreakToExtras(c) == Extras > 0 /\ (err[c] = "timeout" \/ rate_limited)

\* error_code_is_terminal.  (The message has no digits in it, so
\* hu_error_is_non_retryable never adds to this.)
EndsAttempts(c) == err[c] = "terminal" \/ ShouldBreakToExtras(c)

\* The retry loop of try_chat.
Retry(c) ==
  /\ At(c, "decide") /\ ~EndsAttempts(c) /\ attempt[c] < MaxRetries
  /\ attempt' = [attempt EXCEPT ![c] = @ + 1]
  /\ err' = [err EXCEPT ![c] = "other"]
  /\ Goes(c, "call")
  /\ UNCHANGED <<circuit, errors, outcome, healthy, model, prov, seen,
                 offered, failed, overlap>>

GiveUpProvider(c) ==
  /\ At(c, "decide")
  /\ EndsAttempts(c) \/ attempt[c] = MaxRetries
  /\ TurnFailed(c)
  /\ failed' = IF prov[c] = Primary THEN CountUp(failed) ELSE failed
  /\ UNCHANGED <<circuit, errors, outcome, healthy, offered, overlap>>

----------------------------------------------------------------------------
\* Slip: empty replies count.
CountsAll == Threshold > 0

\* circuit_record_failure: an empty reply does not count, nor does anything
\* while last_empty says so.
Counts == Threshold > 0 /\ ~last_empty

CountReads(c) ==
  /\ At(c, "failed") /\ Counts
  /\ seen' = [seen EXCEPT ![c] = cb_failures]
  /\ Goes(c, "count")
  /\ UNCHANGED <<circuit, errors, outcome, healthy, model, prov, attempt, err,
                 offered, failed, overlap>>

CountWrites(c) ==
  /\ At(c, "count")
  /\ cb_failures' = CountUp(seen[c])
  /\ open_left' = IF cb_failures' >= Threshold THEN Recovery ELSE open_left
  /\ NextProvider(c)
  /\ UNCHANGED <<errors, outcome, healthy, offered, failed, overlap>>

NotCounted(c) ==
  /\ At(c, "failed") /\ ~Counts
  /\ NextProvider(c)
  /\ UNCHANGED <<circuit, errors, outcome, healthy, offered, failed, overlap>>

\* final_failure
ReturnFailure(c) ==
  /\ At(c, "gave up")
  /\ served' = Nobody
  /\ CallOver(c)
  /\ UNCHANGED <<circuit, errors, last_served, healthy, turn, failed, overlap>>

----------------------------------------------------------------------------
Tick ==
  /\ open_left > 0
  /\ open_left' = open_left - 1
  /\ UNCHANGED <<cb_failures, errors, outcome, healthy, place, turn, offered, failed, overlap>>

\* The primary breaks down or recovers.
PrimaryChanges ==
  /\ healthy' = ~healthy
  /\ UNCHANGED <<circuit, errors, outcome, place, turn, offered, failed, overlap>>

InCall(c) ==
  \/ SkipPrimary(c) \/ StartTurn(c) \/ TurnRefused(c)
  \/ Answered(c) \/ EmptyReply(c) \/ \E e \in Errors : AttemptFails(c, e)
  \/ Retry(c) \/ GiveUpProvider(c)
  \/ CountReads(c) \/ CountWrites(c) \/ NotCounted(c)
  \/ ReturnFailure(c)

Next == Tick \/ PrimaryChanges \/ \E c \in Callers : Begin(c) \/ BeginFails(c) \/ InCall(c)

\* Time passes, calls get on (every attempt ends, by its timeout at the
\* latest), and the agent keeps calling.
Fairness ==
  /\ WF_vars(Tick)
  /\ \A c \in Callers : WF_vars(Begin(c)) /\ WF_vars(InCall(c))

Spec == Init /\ [][Next]_vars /\ Fairness
----------------------------------------------------------------------------
\* A call fails only after every fallback provider was offered every model of
\* the chain, once each: the rotation leaves no pair out, whatever the circuit
\* and the other calls do.
FailsAfterAll ==
  \A c \in Callers : At(c, "gave up") =>
    \A e \in 1..Extras : \A m \in Models :
      Cardinality({i \in DOMAIN offered[c] : offered[c][i] = <<e, m>>}) = 1

\* Calls that do not overlap count at most the primary's consecutive failures:
\* empty replies, which do not, cannot open the circuit.
CountsOnlyFailures == ~overlap => cb_failures <= failed

\* Between calls last_served names who answered the last one, if calls do not
\* overlap: the proposer logs by it where a prompt went.
LastServedRight ==
  ~overlap /\ (\A c \in Callers : At(c, "idle")) => last_served = served

\* The circuit does not keep a recovered primary out: once it is back for
\* good, calls are answered by it again and again.
PrimaryComesBack == <>[]healthy => []<>(served = Primary)
=============================================================================
