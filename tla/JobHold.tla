------------------------------ MODULE JobHold ------------------------------
(***************************************************************************)
(* The inbound hold (HU_JOB_HOLD=live): the daemon's poll loop with        *)
(* hu_daemon_jobs_poll and hu_daemon_jobs_on_turn_error around it          *)
(* (src/daemon/daemon_job_release.c, daemon_job_hold.c), the reply dedup   *)
(* watermark and the model probe with its cache.  Messages whose turn      *)
(* fails while the local model is down are held as jobs and handed back    *)
(* to a turn when the model is up again.                                   *)
(*                                                                         *)
(* Rowids are the naturals 1..LastMsg in the order the messages arrive, and*)
(* the job key hold:<chat_id>:<rowid> is the rowid.  The daemon is one     *)
(* thread, pc is where it stands; the gateway's worker threads share its   *)
(* memory.db connection (foreign).                                         *)
(*                                                                         *)
(* Time is relative: the present is always Horizon, and Tick moves every   *)
(* stored time one unit into the past, down to 1, "long ago" (0 is unset). *)
(* hu_daemon_jobs_poll and the hold loop read the clock once and use that  *)
(* value to their end, so no Tick falls inside them.                       *)
(***************************************************************************)
EXTENDS JobTable, Sequences, SequencesExt

CONSTANTS LastMsg,     \* bound: the messages that arrive are 1..LastMsg
          Contact,     \* Contact[m]: session_key, the sender's handle
          Undecodable, \* messages whose payload hu_job_hold_decode refuses
          Oversize,    \* messages whose payload exceeds HU_JOB_PAYLOAD_MAX
          PollMax,     \* the daemon's msgs[16]
          MaxReplay,   \* HU_IMESSAGE_MAX_REPLAY: longest backlog read at start
          ReleaseMax,  \* HOLD_RELEASE_MAX
          Slots,       \* HU_JOB_HOLD_SHADOW_SLOTS, the ring of released rowids
          Horizon,     \* the present
          MaxAge,      \* HU_JOB_HOLD_MAX_AGE_S
          CheckEvery,  \* HOLD_RELEASE_EVERY_S
          LeaseS,      \* HOLD_RELEASE_LEASE_S
          CacheFor,    \* how long a cached probe answer is used
          MaxCrashes,  \* bound on process crashes
          OtherWriters \* do gateway threads open transactions on memory.db?

Msgs     == 1..LastMsg
Contacts == {Contact[m] : m \in Msgs}

ASSUME HoldKeys    == LastMsg \in Nat /\ Keys = Msgs
ASSUME HoldSets    == Undecodable \subseteq Msgs /\ Oversize \subseteq Msgs
ASSUME HoldLimits  == /\ {PollMax, ReleaseMax, Slots} \subseteq Nat \ {0} /\ Slots >= PollMax
                      /\ MaxReplay \in Nat /\ MaxCrashes \in Nat
ASSUME HoldTimes   == /\ {CheckEvery, LeaseS} \subseteq Nat \ {0}
                      /\ {Horizon, MaxAge, CacheFor} \subseteq Nat
                      /\ \A d \in {MaxAge + 1, CheckEvery, CacheFor} : Horizon > d

VARIABLES
  jobs, disk, foreign,  \* as in JobQueue
  pc,         \* where the daemon thread stands
  live,       \* hold mode: LIVE with a database, or fallen back to SHADOW
  arrived,    \* highest rowid in chat.db
  cursor,     \* highest rowid the channel has polled, saved by the poll
  batch,      \* msgs[]: what this poll returned and no turn has taken
  todo,       \* messages the loop the daemon stands in has still to do
  replied,    \* owner_replied's answer for the claimed rows
  held,       \* released messages, not yet put in front of the batch
  ring,       \* g_released
  ringNext,   \* g_released_next, modulo the ring's size
  lastCheck,  \* g_last_check
  modelUp,    \* is the model server answering?
  probe,      \* the probe cache: its answer and when it was taken
  watermark,  \* reply_dedup.json: highest rowid replied to, by contact
  ownerAt,    \* highest rowid the owner has answered in person, by contact
  crashes,    \* number of crashes so far
  handed,     \* handed[m]: how often a release handed m over (history)
  replies     \* replies[m]: how often m was in a batch that was answered

dbVars      == <<jobs, disk, foreign>>
releaseVars == <<todo, replied, held>>
processVars == <<live, ring, ringNext, lastCheck, probe>>
chatVars    == <<arrived, ownerAt>>
historyVars == <<crashes, handed, replies>>
vars == <<dbVars, releaseVars, processVars, chatVars, historyVars,
          pc, cursor, batch, modelUp, watermark>>

Stamp == 0..Horizon
PCs   == {"down", "poll", "expire", "gate", "claim", "decode", "defer",
          "commit", "finish", "turn", "mark", "hold"}

TypeOK ==
  /\ jobs \in [Keys -> Row] /\ disk \in [Keys -> Row] /\ foreign \in BOOLEAN
  /\ pc \in PCs /\ live \in BOOLEAN /\ modelUp \in BOOLEAN
  /\ arrived \in 0..LastMsg /\ cursor \in 0..arrived
  /\ batch \in Seq(Msgs)
  /\ todo \subseteq Msgs /\ replied \subseteq Msgs /\ held \subseteq Msgs
  /\ ring \in [0..Slots - 1 -> 0..LastMsg] /\ ringNext \in 0..Slots - 1
  /\ lastCheck \in Stamp /\ probe \in [up: BOOLEAN, at: Stamp]
  /\ watermark \in [Contacts -> 0..LastMsg] /\ ownerAt \in [Contacts -> 0..LastMsg]
  /\ crashes \in 0..MaxCrashes
  /\ handed \in [Msgs -> Nat] /\ replies \in [Msgs -> Nat]

NoProbe   == [up |-> FALSE, at |-> 0]
EmptyRing == [i \in 0..Slots - 1 |-> 0]

Init ==
  /\ jobs = EmptyTable /\ disk = EmptyTable /\ foreign = FALSE
  /\ pc = "down" /\ live = FALSE /\ modelUp = TRUE
  /\ arrived = 0 /\ cursor = 0 /\ batch = << >>
  /\ todo = {} /\ replied = {} /\ held = {}
  /\ ring = EmptyRing /\ ringNext = 0 /\ lastCheck = 0 /\ probe = NoProbe
  /\ watermark = [c \in Contacts |-> 0] /\ ownerAt = [c \in Contacts |-> 0]
  /\ crashes = 0
  /\ handed = [m \in Msgs |-> 0] /\ replies = [m \in Msgs |-> 0]

----------------------------------------------------------------------------
\* Slip: no BEGIN, so an open foreign transaction is joined.
JoinTransaction(t) ==
  /\ jobs' = t
  /\ disk' = IF foreign THEN disk ELSE t
  /\ UNCHANGED foreign

OwnTransaction(t) == ~foreign /\ jobs' = t /\ disk' = t /\ UNCHANGED foreign

Statement(t) ==
  /\ jobs' = t
  /\ disk' = IF foreign THEN disk ELSE t
  /\ UNCHANGED foreign

\* Messages in the order of their rowids: the one sequence of them, as a set.
InOrder(S) == {q \in [1..Cardinality(S) -> S] : \A i, j \in DOMAIN q : i < j => q[i] < q[j]}

\* The owner, not the daemon, wrote in m's conversation after m.
OwnerReplied(m) == ownerAt[Contact[m]] >= m

\* Claimed rows are taken in the order claim_due returned them (due_at, id).
FirstOf(S) == {m \in S : \A j \in S \ {m} : Before(jobs, m, j)}

\* Slip: the saved cursor is not used.
ResumeFromStart == 0

\* hu_imessage_resume_rowid: without a usable cursor the channel begins with
\* what comes next; a backlog over the cap is skipped, not answered.
ResumeRowid ==
  IF cursor \notin 1..arrived \/ arrived - cursor > MaxReplay THEN arrived ELSE cursor

\* The channel finds its saved cursor; jobq_start, jobq_configure_hold: schema,
\* recovery, and LIVE only after a clean start.
Start ==
  /\ pc = "down"
  /\ cursor' = ResumeRowid
  /\ pc' = "poll"
  /\ \/ OwnTransaction(Recover(jobs, Horizon)) /\ live' = TRUE
     \/ foreign /\ live' = FALSE /\ UNCHANGED dbVars
  /\ UNCHANGED <<releaseVars, ring, ringNext, lastCheck, probe, chatVars,
                 historyVars, batch, modelUp, watermark>>

\* Slip: the cursor moves by the batch size, not to the last message.
PollUpToLimit == cursor + PollMax

\* How far the channel's poll reads: LIMIT max_msgs.
PollUpTo == IF arrived < cursor + PollMax THEN arrived ELSE cursor + PollMax

\* What it returns of them: nothing the owner has answered.  The other filters
\* (our own echo, excluded and unlisted senders, age) may drop any of the rest.
Deliverable == SUBSET {m \in cursor + 1..PollUpTo : ~OwnerReplied(m)}

\* The channel's poll saves its cursor past all it has read.  A failed poll
\* changes nothing.  The release side runs when the last check is long enough
\* ago.
Poll ==
  /\ pc = "poll"
  /\ cursor' = PollUpTo
  /\ \E new \in Deliverable : batch' \in InOrder(new)
  /\ LET late == lastCheck = 0 \/ Horizon - lastCheck >= CheckEvery
     IN  /\ lastCheck' = IF late THEN Horizon ELSE lastCheck
         /\ pc' = IF late /\ live THEN "expire" ELSE "turn"
  /\ UNCHANGED <<dbVars, releaseVars, live, ring, ringNext, probe, chatVars,
                 historyVars, modelUp, watermark>>

Cutoff == Horizon - MaxAge

\* expire_live
ExpireLive ==
  /\ pc = "expire"
  /\ Statement(Expire(jobs, "inbound_hold", Cutoff))
  /\ pc' = "gate"
  /\ UNCHANGED <<releaseVars, processVars, chatVars, historyVars, cursor, batch,
                 modelUp, watermark>>

\* hu_mlx_admin_probe_health: the cached answer while it is fresh enough,
\* otherwise a request.
ProbeCached ==
  IF probe.at # 0 /\ Horizon - probe.at < CacheFor
  THEN probe ELSE [up |-> modelUp, at |-> Horizon]

\* release_live up to the claim: room in the batch, a due row, model up.
Gate ==
  /\ pc = "gate"
  /\ LET wanted == Len(batch) < PollMax /\ CountDue(jobs, "inbound_hold", Horizon) > 0
     IN  /\ probe' = IF wanted THEN ProbeCached ELSE probe
         /\ pc' = IF wanted /\ ProbeCached.up THEN "claim" ELSE "turn"
  /\ UNCHANGED <<dbVars, releaseVars, live, ring, ringNext, lastCheck, chatVars,
                 historyVars, cursor, batch, modelUp, watermark>>

ReleaseCap == IF PollMax - Len(batch) < ReleaseMax THEN PollMax - Len(batch) ELSE ReleaseMax

\* lease_until of the claim this call makes.
Lease == Horizon + LeaseS

\* claim_due, refused while a foreign transaction is open.
ClaimHolds ==
  /\ pc = "claim"
  /\ LET t == Requeue(jobs, Horizon)
         S == SelectDue(t, {"inbound_hold"}, Horizon, ReleaseCap)
     IN  \/ /\ OwnTransaction(Claim(t, S, Lease))
            /\ todo' = S
            /\ pc' = "decode"
         \/ /\ foreign
            /\ pc' = "turn"
            /\ UNCHANGED <<dbVars, todo>>
  /\ UNCHANGED <<replied, held, processVars, chatVars, historyVars, cursor, batch,
                 modelUp, watermark>>

\* claim_and_check: the rows that do not decode are finished `failed' ...
DecodeFails(m) ==
  /\ pc = "decode"
  /\ m \in FirstOf(todo \cap Undecodable)
  /\ Statement(IF MayFinish(jobs[m], "failed", Lease)
               THEN ToFinished(jobs, m, "failed") ELSE jobs)
  /\ todo' = todo \ {m}
  /\ UNCHANGED <<pc, replied, held, processVars, chatVars, historyVars, cursor,
                 batch, modelUp, watermark>>

\* ... chat.db is asked about the others, once ...
CheckOwner ==
  /\ pc = "decode"
  /\ todo \cap Undecodable = {}
  /\ \/ todo = {} /\ pc' = "turn" /\ UNCHANGED replied
     \/ todo # {} /\ pc' = "commit" /\ replied' = {m \in todo : OwnerReplied(m)}
     \/ todo # {} /\ pc' = "defer" /\ UNCHANGED replied       \* could not tell
  /\ UNCHANGED <<dbVars, todo, held, processVars, chatVars, historyVars, cursor,
                 batch, modelUp, watermark>>

\* Slip: rows chat.db cannot tell about stay claimed.
KeepClaimed(m) == jobs

GiveBack(m) == IF MayRelease(jobs[m], Lease) THEN ToPending(jobs, m, 0) ELSE jobs

\* ... if it cannot tell, every row is given back (defer_all) ...
Defer(m) ==
  /\ pc = "defer"
  /\ m \in FirstOf(todo)
  /\ Statement(GiveBack(m))
  /\ todo' = todo \ {m}
  /\ pc' = IF todo' = {} THEN "turn" ELSE "defer"
  /\ UNCHANGED <<replied, held, processVars, chatVars, historyVars, cursor, batch,
                 modelUp, watermark>>

\* ... otherwise a row the owner has answered is canceled ...
Cancel(m) ==
  /\ pc = "commit"
  /\ m \in FirstOf(todo) \cap replied
  /\ Statement(IF MayFinish(jobs[m], "canceled", Lease)
               THEN ToFinished(jobs, m, "canceled") ELSE jobs)
  /\ todo' = todo \ {m}
  /\ UNCHANGED <<pc, replied, held, processVars, chatVars, historyVars, cursor,
                 batch, modelUp, watermark>>

\* ... and the others are committed to `sending' (commit_release).  A refused
\* row stays claimed.
MarkSending(m) ==
  /\ pc = "commit"
  /\ m \in FirstOf(todo) \ replied
  /\ \/ /\ MaySend(jobs[m], Lease, Horizon)
        /\ OwnTransaction(ToSending(jobs, m))
        /\ pc' = "finish"
        /\ UNCHANGED todo
     \/ /\ foreign \/ ~MaySend(jobs[m], Lease, Horizon)
        /\ todo' = todo \ {m}
        /\ UNCHANGED <<pc, dbVars>>
  /\ UNCHANGED <<replied, held, processVars, chatVars, historyVars, cursor, batch,
                 modelUp, watermark>>

\* The row becomes `done' (or, if that fails, stays `sending') and its
\* message is noted in the ring of released rowids.
FinishReleased(m) ==
  /\ pc = "finish"
  /\ m \in FirstOf(todo)
  /\ \/ MayFinish(jobs[m], "done", Lease) /\ Statement(ToFinished(jobs, m, "done"))
     \/ UNCHANGED dbVars
  /\ ring' = [ring EXCEPT ![ringNext] = m]
  /\ ringNext' = (ringNext + 1) % Slots
  /\ held' = held \cup {m}
  /\ handed' = [handed EXCEPT ![m] = @ + 1]
  /\ todo' = todo \ {m}
  /\ pc' = "commit"
  /\ UNCHANGED <<replied, live, lastCheck, probe, chatVars, crashes, replies, cursor,
                 batch, modelUp, watermark>>

\* Released messages go ahead of what the poll returned, oldest first.
Splice ==
  /\ pc = "commit"
  /\ todo = {}
  /\ \E released \in InOrder(held) : batch' = released \o batch
  /\ held' = {}
  /\ replied' = {}
  /\ pc' = "turn"
  /\ UNCHANGED <<dbVars, todo, processVars, chatVars, historyVars, cursor, modelUp,
                 watermark>>

----------------------------------------------------------------------------
\* The poll loop takes consecutive messages of one sender as one turn, as
\* many of them as fit its buffer.
TurnSizes ==
  {n \in 1..Len(batch) : \A i \in 1..n : Contact[batch[i]] = Contact[batch[1]]}

TurnMsgs(n) == {batch[i] : i \in 1..n}

Rest(n) == SubSeq(batch, n + 1, Len(batch))

\* Keyed on the highest rowid: the last message of the batch.
AlreadyReplied(n) == watermark[Contact[batch[n]]] >= batch[n]

\* Slip: the whole ring is forgotten.
ForgetAll(S) == EmptyRing

\* take_reinjected: the failed turn's messages leave the ring.
Forget(S) == [i \in 0..Slots - 1 |-> IF ring[i] \in S THEN 0 ELSE ring[i]]

BatchDone ==
  /\ pc = "turn"
  /\ batch = << >>
  /\ pc' = "poll"
  /\ UNCHANGED <<dbVars, releaseVars, processVars, chatVars, historyVars, cursor, batch,
                 modelUp, watermark>>

\* "reply-dedup: already replied ... skip (crash replay)"
DedupSkip(n) ==
  /\ pc = "turn"
  /\ n \in TurnSizes
  /\ AlreadyReplied(n)
  /\ batch' = Rest(n)
  /\ UNCHANGED <<pc, dbVars, releaseVars, processVars, chatVars, historyVars, cursor,
                 modelUp, watermark>>

\* A turn that ends without a reply: silence, send budget, an error the hold
\* path ignores.  Of a failed turn, the released messages are reported.
TurnSilent(n) ==
  /\ pc = "turn"
  /\ n \in TurnSizes
  /\ ~AlreadyReplied(n)
  /\ batch' = Rest(n)
  /\ \/ UNCHANGED ring
     \/ ring' = Forget(TurnMsgs(n))
  /\ UNCHANGED <<pc, dbVars, releaseVars, live, ringNext, lastCheck, probe, chatVars,
                 historyVars, cursor, modelUp, watermark>>

\* The reply is sent; the watermark is recorded and saved afterwards.
TurnReplies(n) ==
  /\ pc = "turn"
  /\ n \in TurnSizes
  /\ ~AlreadyReplied(n)
  /\ replies' = [m \in Msgs |-> replies[m] + IF m \in TurnMsgs(n) THEN 1 ELSE 0]
  /\ todo' = TurnMsgs(n)
  /\ batch' = Rest(n)
  /\ pc' = "mark"
  /\ UNCHANGED <<dbVars, replied, held, processVars, chatVars, crashes, handed,
                 cursor, modelUp, watermark>>

\* Slip: the newest message polled is marked.
MarksPolled(S) == cursor

\* batch_end: the highest rowid of the batch.
BatchEnd(S) == CHOOSE m \in S : \A j \in S : j <= m

\* hu_daemon_reply_dedup_mark: never lowers the watermark.
MarkReplied ==
  /\ pc = "mark"
  /\ LET top == BatchEnd(todo)
     IN  watermark' = [watermark EXCEPT ![Contact[top]] = IF top > @ THEN top ELSE @]
  /\ todo' = {}
  /\ pc' = "turn"
  /\ UNCHANGED <<dbVars, replied, held, processVars, chatVars, historyVars, cursor,
                 batch, modelUp>>

\* hu_daemon_jobs_on_turn_error after a transport error: released messages
\* are reported and forgotten, a fresh probe decides between HOLD and a
\* one-off.
TurnFails(n) ==
  /\ pc = "turn"
  /\ n \in TurnSizes
  /\ ~AlreadyReplied(n)
  /\ ring' = Forget(TurnMsgs(n))
  /\ probe' = [up |-> modelUp, at |-> Horizon]
  /\ batch' = Rest(n)
  /\ IF ~modelUp /\ live
     THEN todo' = TurnMsgs(n) /\ pc' = "hold"
     ELSE UNCHANGED <<todo, pc>>
  /\ UNCHANGED <<dbVars, replied, held, live, ringNext, lastCheck, chatVars,
                 historyVars, cursor, modelUp, watermark>>

\* hold_live, one message: a job due at once; a payload that is too big is
\* not held, a key that exists is left alone.
HoldLive(m) ==
  /\ pc = "hold"
  /\ m \in todo /\ \A j \in todo : m <= j
  /\ Statement(IF m \in Oversize THEN jobs
               ELSE Insert(jobs, m, "inbound_hold", Horizon, Horizon, FALSE))
  /\ todo' = todo \ {m}
  /\ pc' = IF todo' = {} THEN "turn" ELSE "hold"
  /\ UNCHANGED <<replied, held, processVars, chatVars, historyVars, cursor, batch,
                 modelUp, watermark>>

----------------------------------------------------------------------------
\* A message arrives in chat.db; the owner answers a contact in person.
Arrive ==
  /\ arrived < LastMsg
  /\ arrived' = arrived + 1
  /\ UNCHANGED <<dbVars, releaseVars, processVars, ownerAt, historyVars, pc, cursor, batch,
                 modelUp, watermark>>

OwnerWrites(c) ==
  /\ ownerAt[c] < arrived
  /\ ownerAt' = [ownerAt EXCEPT ![c] = arrived]
  /\ UNCHANGED <<dbVars, releaseVars, processVars, arrived, historyVars, pc, cursor, batch,
                 modelUp, watermark>>

\* The model server is booted out for the nightly retrain, or comes back.
ModelFlips ==
  /\ modelUp' = ~modelUp
  /\ UNCHANGED <<dbVars, releaseVars, processVars, chatVars, historyVars, pc, cursor, batch,
                 watermark>>

\* Transactions of the gateway's threads on the same connection.
ForeignBegin ==
  /\ OtherWriters /\ ~foreign
  /\ foreign' = TRUE
  /\ UNCHANGED <<jobs, disk>>

ForeignEnd ==
  /\ foreign
  /\ foreign' = FALSE
  /\ \/ disk' = jobs /\ UNCHANGED jobs
     \/ jobs' = disk /\ UNCHANGED disk

Foreign(A) ==
  /\ A
  /\ UNCHANGED <<releaseVars, processVars, chatVars, historyVars, pc, cursor, batch,
                 modelUp, watermark>>

\* The process dies; what is on disk survives.
Crash ==
  /\ pc # "down" /\ crashes < MaxCrashes
  /\ crashes' = crashes + 1
  /\ pc' = "down" /\ live' = FALSE
  /\ jobs' = disk /\ foreign' = FALSE
  /\ batch' = << >> /\ todo' = {} /\ replied' = {} /\ held' = {}
  /\ ring' = EmptyRing /\ ringNext' = 0 /\ lastCheck' = 0 /\ probe' = NoProbe
  /\ UNCHANGED <<disk, chatVars, handed, replies, cursor, modelUp, watermark>>

\* One time unit passes.
Older(t) == IF t > 1 THEN t - 1 ELSE t

OlderRows(t) ==
  [k \in Keys |-> [t[k] EXCEPT !.due = Older(@), !.created = Older(@), !.lease = Older(@)]]

Tick ==
  /\ pc \in {"down", "poll", "turn"}
  /\ jobs' = OlderRows(jobs) /\ disk' = OlderRows(disk)
  /\ lastCheck' = Older(lastCheck)
  /\ probe' = [probe EXCEPT !.at = Older(@)]
  /\ UNCHANGED <<foreign, todo, replied, held, live, ring, ringNext, chatVars, historyVars,
                 pc, cursor, batch, modelUp, watermark>>

----------------------------------------------------------------------------
Release ==
  \/ ExpireLive \/ Gate \/ ClaimHolds \/ CheckOwner \/ Splice
  \/ \E m \in todo :
        DecodeFails(m) \/ Defer(m) \/ Cancel(m) \/ MarkSending(m) \/ FinishReleased(m)

Turns ==
  \/ BatchDone \/ MarkReplied
  \/ \E n \in 1..Len(batch) : DedupSkip(n) \/ TurnSilent(n) \/ TurnReplies(n) \/ TurnFails(n)
  \/ \E m \in todo : HoldLive(m)

Daemon == Start \/ Poll \/ Release \/ Turns

World ==
  \/ Arrive \/ (\E c \in Contacts : OwnerWrites(c)) \/ ModelFlips
  \/ Foreign(ForeignBegin) \/ Foreign(ForeignEnd) \/ Crash \/ Tick

Next == Daemon \/ World

\* The loop keeps running, time passes and transactions end; nothing makes
\* messages arrive, the owner write or the model come back.
Fairness == WF_vars(Daemon) /\ WF_vars(Tick) /\ WF_vars(Foreign(ForeignEnd))

Spec == Init /\ [][Next]_vars /\ Fairness
----------------------------------------------------------------------------
\* Whatever fails or crashes where, no message is in two answered turns: the
\* queue and the poll cursor between them never hand a message that was
\* answered to a second turn that answers it.
AnsweredOnce == \A m \in Msgs : replies[m] <= 1

\* A message on its way to a turn is not in the queue as well: its row, if it
\* has one, is past the fence both in the connection's view and on disk, so
\* no ROLLBACK, crash or later tick can hand it over again.
InTurnNotHeld ==
  \A m \in ToSet(batch) \cup held :
    AbstractStatus(jobs[m]) # "open" /\ AbstractStatus(disk[m]) # "open"

\* A released message is in the ring of released rowids until its turn is
\* over, so that a second failure is reported to the owner rather than lost
\* silently: the entries that later batches overwrite are those of turns that
\* are over.
ReleasedIsTracked ==
  \A m \in ToSet(batch) \cup held :
    jobs[m].state \in {"sending", "done"} => \E i \in 0..Slots - 1 : ring[i] = m

\* "Expire first, so a message held past the cap is never released"
\* (daemon_job_release.c:150).  The code breaks this: a claim left behind is
\* not seen by the expiry and turns pending after it.
ReleasedInTime ==
  [][\A m \in Msgs : jobs[m].state = "claimed" /\ jobs'[m].state = "sending"
                       => jobs[m].created >= Horizon - MaxAge]_vars

\* "If we already replied to this inbound ... skip": the dedup skips answered
\* messages only, "no dropped replies" (daemon.c:2663-2668).  The code breaks
\* this: a held message can be overtaken by a newer one of its contact.
NoDroppedReplies ==
  [][\A n \in 1..Len(batch) : DedupSkip(n) => \A m \in TurnMsgs(n) : replies[m] > 0]_vars

\* Overtaking is all that can cost a message at the dedup (daemon.c:2675): one
\* that is skipped unanswered has a newer one of the same contact that was
\* answered; another contact's replies, a crash before the watermark is saved
\* and a replay of the backlog never do it.
SkipsOnlyOvertaken ==
  [][\A n \in 1..Len(batch) : DedupSkip(n) =>
       \A m \in TurnMsgs(n) : \E o \in Msgs :
         o >= m /\ Contact[o] = Contact[m] /\ replies[o] > 0]_vars

\* Every held message is dealt with in the end: released, canceled, expired
\* or given up on.
HeldResolved ==
  \A m \in Msgs :
    AbstractStatus(jobs[m]) = "open" ~> AbstractStatus(jobs[m]) # "open"

HoldDelivery == INSTANCE AtMostOnceDelivery
  WITH Jobs      <- Msgs,
       status    <- [m \in Msgs |-> AbstractStatus(jobs[m])],
       permitted <- [m \in Msgs |-> pc = "finish" /\ m \in FirstOf(todo)],
       delivered <- handed

\* The hold side is a client of the queue that keeps the queue's promise: a
\* held message is handed to a turn at most once.
HandsOverAtMostOnce == HoldDelivery!Spec
=============================================================================
