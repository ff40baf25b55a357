# A TLA+ model of h-uman's job queue, inbound hold, service threads, sub-agents and provider wrapper

h-uman is a personal assistant in C: a daemon that polls message channels,
runs a language model over what it finds and sends replies, next to an HTTP and
WebSocket gateway with its own threads. Most of its source is heuristics and
I/O. What can go wrong in ways a test hardly reaches is the part that promises
something across threads, crashes and time: that a message is answered, that it
is not answered twice, that the threads doing so do not wait for each other for
ever nor free what another still uses, and that a provider that is down, and
one that is up again, are dealt with. That part is modelled here.

All source paths are relative to the repository.

## 1. Inventory

| Part | State | Operations | Hard about it |
|---|---|---|---|
| Job queue repository, `src/memory/repos/job_queue_repo_sqlite.c` | table `jobs` in memory.db: state, kind, due_at, created_at, attempts, lease_until per idempotency key | enqueue, claim_due, mark_sending, release, finish, expire_older_than, recover_on_start, count_due | crashes between any two steps; stale claims; wall clock; one connection shared with the gateway's threads |
| Foreign transactions, `src/memory/sql_transaction.c` | an open transaction on the shared connection | begin, commit, rollback | what does not BEGIN joins it |
| Queue start, `src/daemon/daemon_job_queue.c` | started, hold mode | schema, recovery, configure | the start may be refused |
| Inbound hold, `src/daemon/daemon_job_hold.c`, `daemon_job_release.c` | mode, ring of released rowids, time of the last check | poll hook, expire, gate, claim, check, commit, splice; failed-turn hook | several steps between claim and turn, each may fail or be the last before a crash |
| Reply dedup, `src/daemon/reply_dedup.c` | highest rowid replied to, per contact | record, already_replied | out-of-order replay |
| Daemon poll loop, `src/daemon.c` | msgs[16] | poll, batch by sender, dedup check, turn, dedup mark | order of its steps |
| Model probe, `src/ml/mlx_admin.c` | cached answer and its time | cached probe, fresh probe | stale answers |
| iMessage poll, `src/channels/imessage.c`, `imessage_replay_guard.c` | cursor, saved by the poll | poll, resume after restart, "has the owner replied?" | cursor moves before any turn |
| Gateway pool, `src/gateway/thread_pool.c` | ring, head, tail, count, busy_count, shutdown; mutex and two condition variables | create, submit, active, destroy, worker | lost wakeups, full ring, shutdown, failing create |
| Service process, `src/app/main.c`, `src/daemon/daemon_config_reload.c` | stop and reload flags, `svc_agent_mutex`, the one agent | service loop, reload, SIGTERM/SIGHUP, teardown | two threads install handlers for one signal; reload against a turn |
| Gateway, `src/gateway/gateway.c` | connections, guard, limiter, pool | set-up, event loop, shutdown, retry | shutdown order against queued and running requests |
| Event bus, `src/agent/bus.c` | subscribers | subscribe, publish, unsubscribe | callbacks from a snapshot; publishing from a callback |
| Agent pool, `src/agent/spawn.c`; delegates, `src/agent/hula.c` | 64 slots: id, status, cancelled, agent, thread, result | spawn, query, cancel, status, result, destroy; poll and time out | turns outside the mutex; agents that call the pool from their turns; destroy against all of it |
| Reliable provider, `src/providers/reliable.c` | circuit, last error, last_empty, last_served | chat with retries, fallback models and providers | one wrapper, several threads, no lock |
| Agent mailbox, `src/agent/mailbox.c` | rings per agent | send, receive | a mutex nobody locks |
| Send budget, `src/daemon/send_budget.c` | counters per contact and window | check, record | check and charge are apart |
| Everything else: agent turn, memory retrieval, other channels, providers, tools, persona, ML, security, voice, MCP | | | I/O, text and numeric heuristics; see section 8 |

How they interact: the daemon thread calls the channel's poll through
`hu_daemon_jobs_poll`, which may put released messages in front of what the
channel returned; the loop turns consecutive messages of one sender into one
turn; a failed turn goes to `hu_daemon_jobs_on_turn_error`, which may put its
messages into the job queue. The job queue and the gateway's worker threads
write through one SQLite connection. In `human service-loop --with-gateway` the main
thread runs that loop and a second thread the gateway's event loop. It hands HTTP
requests to the pool's workers and publishes chat messages on the bus, where the
agent's handler answers them on the same thread; both kinds of turn, and the poll
loop's own, use one agent and its reliable provider. An agent in a turn may spawn,
query and delegate to agents of the pool.

What makes each part correct: the queue hands a job to a sender at most once,
also across crashes, rollbacks and clock steps; the hold never releases a
message twice, is meant to release none too late, and forgets none; a poll loop replies to a
message at most once; the pool loses no item and no wakeup and can be shut
down; the gateway frees nothing that a request it still runs will use, a reload
does not pull the hooks from under a turn, and a stopped service ends; no
sub-agent is in two turns, a cancelled one stops, and taking the pool down waits for all
of them and for nobody for ever; a call fails only when every provider was
asked, and a recovered primary is used again.

## 2. Modules

| Module | Models |
|---|---|
| `JobTable` | the jobs table and each SQL statement, as functions from tables to tables |
| `AtMostOnceDelivery` | what the queue promises: open jobs are permitted at most once and delivered at most once |
| `JobTableProofs` | what each SQL statement does to the rows: the facts the proofs of the queue and the hold share |
| `JobQueue` | the repository under arbitrary workers, producers, foreign transactions, crashes, a wall clock |
| `JobQueueProofs` | its inductive invariant, type correctness, at-most-once, terminal rows are final, lease fencing |
| `JobQueueRefinement` | `JobQueue` implements `AtMostOnceDelivery` |
| `JobHold` | the daemon thread: start, poll, release, turns, dedup, hold; probe, owner, chat.db around it |
| `JobHoldProofs` | its answers, hand-overs, skips and ring, for any number of messages; `JobHold` implements `AtMostOnceDelivery` |
| `WorkQueue` | what the pool promises: a bounded FIFO with at most N items running |
| `ThreadPool` | the pool's threads, ring, mutex and condition variables |
| `ThreadPoolProofs` | its ring and its count of busy workers; `ThreadPool` implements `WorkQueue` |
| `Service` | the service process: main thread, gateway thread, HTTP workers, bus, signals; its pool is `WorkQueue` |
| `ServiceProofs` | its mutual exclusion, the order of its cleanup and teardown |
| `AgentPool` | the slots and threads of sub-agents, queries, cancels, delegates, destroy |
| `AgentPoolProofs` | its turns, queries, cancels, delegates and destroy, for any number of slots |
| `ReliableProvider` | calls through the provider wrapper by several threads |
| `ReliableProofs` | the circuit's count, who served, what a failed call has offered |
| `MC...` | contacts and symmetry for TLC |

`JobHold` and `JobQueue` share `JobTable`, so both run the same SQL; `JobHold`
is one concrete client of it, and is shown to keep the same promise,
`AtMostOnceDelivery`. `Service` composes the gateway with its pool through the pool's
abstract specification: its steps on the pool are `WorkQueue`'s actions, and
`ThreadPool` is shown to implement `WorkQueue`.

A definition whose comment starts with "Slip:" is a plausible mistake (a missing
guard, an off-by-one, a forgotten reset) in the definition below it. No
specification uses it; each property of a passing run is known to fail with one
of them in place.

### JobTable

A table is a function on idempotency keys: `idx_jobs_key` is unique and nothing
deletes rows. A row that is not there is `Absent`. `lease_until` NULL is 0, which
no real lease is. Payload, contact, channel, last_error and updated_at decide
nothing and are left out. `attempts` is kept: it is the durable trace that the
fence was passed.

### JobQueue

`jobs` is what the connection sees, `disk` what is committed; they differ while
`foreign`, another subsystem's transaction, is open. `OwnTransaction` is BEGIN
IMMEDIATE ... COMMIT and is refused while `foreign`; `Statement` commits at once or
joins. A statement that matches no row, a refused BEGIN, a failed COMMIT and an
SQL error change nothing and are stuttering steps. Each worker keeps a copy of
every job it claimed with its token (`token`) and how far it is (`stage`), and may
use it however stale it is. `Send` is the caller's send, allowed after mark_sending
returned HU_OK; `sent` counts. (HU_OK is decided by `sqlite3_changes` of the shared connection,
`:128`, `:246`; that a statement of another thread between the UPDATE and that call could make a refused
mark_sending look accepted is left out.) The inbound hold finishes the row `done` before it
hands the message over, so `Send` is also allowed after that (`finished`).
A crash forgets tokens and the foreign transaction. The clock may jump to any
time; `setBack` remembers that it has gone backwards.

The queue's own transaction is one step. Another thread's COMMIT or ROLLBACK cannot
land inside it: every user of `sql_transaction.c` and every raw COMMIT or ROLLBACK
on this connection that runs while the queue is open follows a BEGIN of its own
that succeeded, and BEGIN fails while the queue's is open. The two that
do not look (`m3` drain, which has no caller, and the confidence backfill, at
open) are not concurrent with the queue.

### JobHold

The daemon is one thread with a program counter `pc`; every call that writes the
database or reads something that may change is a step of its own, and `Crash` is
possible between any two. `batch` is msgs[]; `todo` holds the messages the current
inner loop has left; `held` those released and not yet spliced. A turn is one step with four
outcomes: skipped by the dedup, silent, replied (the watermark is saved in a
second step), failed. A turn's batch is any prefix of consecutive messages of one sender,
because the loop also stops when its 4096-byte buffer is full. The channel's
filters other than "the owner has replied" may drop any message. At start the channel resumes at the saved cursor,
or at the newest message when there is no usable one or the backlog is over `MaxReplay`; the operator's
HU_IMESSAGE_LOOKBACK is left out.

Time is relative. The present is always `Horizon`; `Tick` moves every stored time
one unit into the past, down to 1, "long ago". All comparisons in this code
are between a stored time and now, minus a constant shorter than `Horizon`
(`HoldTimes`), so nothing is lost, and the state space is finite without a
bound on how long the system runs, which liveness needs. `hu_daemon_jobs_poll`
and the hold loop read the clock once and use that value to their end, so no
`Tick` falls inside them. `JobQueue` has the general clock.

### ThreadPool

A stretch of code under the mutex is one step. The exception is the worker that
has tested its predicate and is about to wait (`parking`): there it is seen holding
the mutex, because `hu_thread_pool_create` writes `shutdown` and broadcasts without
locking when a later `pthread_create` fails. A signal wakes any one waiter, and up to
`MaxSpurious` waits return unprovoked. A submitter still inside `submit` when the
pool is freed would touch freed memory; the gateway's loop is the only submitter
and the destroyer, so this does not happen there, and the model stops such a call.

### Service

`main` and `gw` say where the two threads are, `phase[w]` where worker `w` is with its request.
`handler` is the process-wide disposition of SIGTERM: default, the service's or the gateway's,
whichever was installed last. Everything a thread does between two points where
another can interfere is one step: a flag read, a lock, a publication, a
submit that may have to wait, each single store of the cleanup. Freeing an object
and clearing the pointer to it are two steps (`GwFreeGuard`, `GwFreeLimiter`), and so are
a worker's test of the pointer and its use (`CheckLimiter`, `Limit`; `Route`, `Pair`). `Hears` is
publish's filter by event type; that the answer does not come back to the
handler, which would lock its mutex twice, hangs on it. A failed start is retried by
`svc_gateway_thread` with a new `hu_gateway_run`. The service loop's work in an iteration and a turn are one
step each. A chat that comes in when nobody is subscribed is dropped and takes no step. The loop's flag is read before
every chat and every request; the code reads it once per `poll` (`gateway.c:1755-1764`) and may handle
several in between, as if the stop came later.

### AgentPool

Slots, statuses and counters are the fields of `hu_agent_pool_t` and its slots. `thread[s]` is where
the slot's thread is; `askers[s]` are the agents in whose query its agent is taking a turn on the asker's thread.
Any agent in a turn, the process's own (`Root`) included, may spawn, query, or spawn
and wait as a HuLa delegate does; only the process cancels by command and destroys. destroy holds the mutex
through its sweep except while it joins (`owner`). `provider[s]` counts releases of the provider that the
slot's thread created. Variables marked history (`late`, `queried`) are read by properties only.
The budget check, worktrees, and the text of tasks and results are left out. In a query the
result is replaced as well, which can only be seen by a reader of a persistent agent's
result; delegates spawn one-shot agents. A delegate reads status and result in two critical sections
(`hula.c:1678`, `:1680`), here one step: the result is stored before the status is published. `Root` is one caller
although several threads of the process use its agent.

### ReliableProvider

`chat` and `chat_with_system` are one loop over models and, within it, primary and extras,
with retries inside. A call's place is `pc, model, prov, attempt`. Shared and unlocked
are `cb_failures`, `cb_open_until` (as the time left), `last_empty`, `last_error_msg` (as: does it
name a rate limit) and `last_served`; `cb_failures++` is a read and a write. The primary fails only while
it is not `healthy`; extras answer or fail as they like. What a success writes (`cb_failures`, `cb_open_until`,
`last_served`) is one step.

## 3. Runs

| Run | Checks | Bounds |
|---|---|---|
| `jobqueue` | `TypeOK`, `AtMostOnce`, `FenceDurable`, `OneSender`, `OneCurrentClaim`, `TerminalIsFinal`, `ImplementsDelivery` | 1 job, 2 workers, both kinds, clock 0..3 in any direction |
| `jobhold_safety` | `TypeOK`, `AnsweredOnce`, `InTurnNotHeld`, `HandsOverAtMostOnce`, `SkipsOnlyOvertaken` | 3 messages of 1 contact, one undecodable, 1 crash, foreign transactions |
| `jobhold_calm` | `ReleasedIsTracked`, `HeldResolved` | 3 messages of 1 contact, batch and ring of 2, no crash |
| `jobhold_dropped` | `NoDroppedReplies` is violated | 2 messages of 1 contact, no crash |
| `jobhold_late` | `ReleasedInTime` is violated | 2 messages, 1 crash |
| `jobhold_stranded` | `HeldResolved` is violated | 1 message, 1 crash |
| `pool_gateway` | `TypeOK`, `ActiveIsExact`, `ImplementsWorkQueue`, `SubmitReturns`, `AcceptedStarts`, `DestroyReturns` | 2 workers, 2 submitters, 4 items, ring of 2 |
| `agentpool` | `OneTurnPerAgent`, `QueryKeepsAgent`, `FreedQuietly`, `DelegateReadsLive`, `CancelObeyed`, `DestroyReturns`, `ThreadsRetire` | 2 slots, 4 spawns, 2 at once, depth 2 |
| `agentpool_provider` | `ProviderReleasedOnce` is violated | 2 slots, nothing fails |
| `reliable` | `FailsAfterAll`, `CountsOnlyFailures`, `LastServedRight`, `PrimaryComesBack` | 2 callers, 2 extras, 2 models, 1 retry, threshold 2 |
| `service` | `ReloadSparesBusTurns`, `GatewayFreedQuietly`, `AgentOutlivesTurns`, `LateRequestsSafe`, `BusTurnEnds`, `BothStoppedEnds` | 1 worker, queue of 2, 2 attempts, 1 look at the pool |
| `service_stop` | `StopEndsService` is violated | 1 worker, queue of 1 |

Why the bounds are enough to be interesting:

* Queue: jobs do not interact except through the claim's order and limit, so one
  job carries the delivery argument; order and limit are at work in the hold's runs. A lease of 1 and a clock to 3
  allow a claim, its expiry, a second claim and its expiry. Two workers are a current and a stale one. A clock that
  is set back can produce two claims with the same token; the run goes on after it, and `OneCurrentClaim`
  speaks of the time before. Two jobs of one kind hold as well (1.4 million states).
  The theorems cover every size, as those of the other modules do for theirs.
* Hold: one crash, at any step, with everything that is lost in it. The messages are one contact's, so that a held
  message can be overtaken by an answered one and the dedup's skip really happens; several contacts are
  covered by the theorems. In `jobhold_calm` all three messages can be held and handed over, in at least two
  batches, so the ring of two wraps and overwrites entries; a batch of two makes new and released messages compete
  for room. `MaxAge`, `CheckEvery`, the lease and the probe cache are one unit each, except in `jobhold_stranded`, where
  age and cache are two: a message is released on time, late, or after its lease, and a cached answer is
  or is not asked again. (The constants are 3 h, 30 s, 120 s and 60 s.) A backlog of two at start exceeds
  `MaxReplay` 1. Payloads too big to hold (`Oversize`) are in the theorems only.
* Pool: four items through a ring of two wrap head and tail and leave both submitters
  waiting at a full ring. No symmetry is used, as the run checks liveness.
* Agent pool: two slots and the process's own agent are three callers: a parent, its child and a third that
  queries one of them, at the depth limit; destroy finds each slot before or after the other, and two agents are enough
  to wait for each other. Four ids (`MaxIds`) let slots given back by a failed creation be used
  again. With three slots and three ids the safety properties hold as well (1.2 million states).
* Provider: two extras and two models make every wrong rotation visible; two callers
  interleave every read and write of the shared fields; with a threshold of two a lost
  update matters. The run has no bound on the number of calls.
* Service: the loop's queue can be full with a worker busy, so that a submit waits; the
  shutdown gives up after its only look (the code's 50), or finds the pool idle; two
  attempts (the code's 5) show a retry. With two workers and a queue of one the safety
  properties hold as well (887 thousand states); liveness takes minutes there, so the run has one.

`CHECK_DEADLOCK FALSE` in the queue's, the pools' and the service's runs: with all jobs
terminal and the clock at its bound, with a freed pool, all items submitted or all ids
spent, or with the process gone, they really stop. The hold's and the provider's runs check for
deadlock; the daemon never stops and calls go on.

## 4. Fairness

* `JobHold`: `WF(Daemon)`, the loop keeps running (it also restarts after a crash:
  launchd's KeepAlive); `WF(Tick)`, time passes; `WF` of the end of a foreign
  transaction. Nothing makes the model come back, the owner write, or a
  message arrive: `HeldResolved` holds because held messages expire. Under weak
  fairness of `Daemon` as a whole a turn may fail every time.
* `ThreadPool`: `WF` of each worker, of each submitter's call and of the owner's create and join.
  That includes that a request ends, which the gateway's handlers do by their
  own timeouts. Nobody has to submit or to destroy, and no fairness is put on which
  waiter a signal wakes.
* `AgentPool`: `WF` of each thread, of each delegate's polling and of destroy's sweep; `SF` of
  the end of a turn. A turn that calls the pool can end between its calls only, so weak
  fairness would let it call for ever; the code bounds the rounds of a turn (max_tool_iterations).
  Nobody has to call anything.
* `ReliableProvider`: `WF` of time, of each call's progress (an attempt ends, by its timeout
  at the latest) and of each caller calling again, which the daemon and the gateway do as long as
  messages come. Which outcome an attempt has is free, except that a healthy primary answers.
* `Service`: `WF` of the main thread, of each worker and of what the gateway's thread does of itself;
  `SF` of its getting the mutex, because the reload holds it once per iteration of a
  loop that sleeps in between. No client and no signal has to come.
* `JobQueue` has no liveness property and no fairness.

## 5. Proofs

All proof modules are checked by TLAPS, for every value of the constants the named ASSUMEs
allow; TLC evaluates these ASSUMEs in the runs.

**Job queue** (`JobQueueProofs`, `JobQueueRefinement`): every finite set of
keys, every set of workers, any lease, limits, times and clock bound, and with a
clock that may be set back.

`AtMostOnce` (`sent[k] <= 1`) is not inductive. `SafetyInv` adds what it rests on:

* `FenceDurable`: a job that was sent or may be sent is fenced (`sending`, `done`, `failed`,
  `unknown`) on disk and in the connection's view, with an attempt counted;
* `OneSender`: at most one worker is past mark_sending with a job;
* `AuthorityUnused`: who may still send has not sent;
* `ViewExtendsDisk`: the connection's view is the committed table, or an evolution
  of it (`Evolves`: fenced stays fenced, attempts do not fall, terminal rows stay)
  while a foreign transaction is open. Without it a ROLLBACK or a crash, which
  replace `jobs` by `disk`, could not be shown to keep the fence.

The lemmas, the ones about single statements in `JobTableProofs`, say of each operator of `JobTable` that it
evolves a table and keeps its type; then each action has one step per conjunct it can disturb. mark_sending
is the only step that creates authority, and needs a `claimed` row, which is
not fenced, so by `FenceDurable` nobody has sent or may send it. The theorems:

| Theorem | States |
|---|---|
| `SafetyInvariant` | `Spec => []SafetyInv` |
| `TypeCorrect` | `Spec => []TypeOK` |
| `DeliveredAtMostOnce` | `Spec => []AtMostOnce` |
| `FenceBeforeSend` | `Spec => []FenceDurable` |
| `OneWorkerSends` | `Spec => []OneSender` |
| `TerminalRowsAreFinal` | `Spec => TerminalIsFinal` |
| `QueueImplementsDelivery` | `Spec => ImplementsDelivery` |
| `LeaseFencing` | `Spec => []OneCurrentClaim` |

The assumptions are those of `JobTable` and `JobQueue`: finitely many keys, a
positive lease, positive limits, natural times.

For the refinement a row's pending and claimed are "open", anything else is "closed"; a job is
permitted when some worker is authorised; enqueue creates, mark_sending permits,
`Send` delivers, a crash may take the permission away, a ROLLBACK may reopen or remove
only a job nobody may send. Each action maps to one such step or to a stutter.

`OneCurrentClaim` speaks of the time until the clock is first set back (`setBack`):
the token is the end of the lease, and after a step back two claims can have the same. `LeaseInv` says that a
worker whose token has not run out finds the row claimed under that token, in the view and on disk (so
that no ROLLBACK gives it away), that equal tokens for a job belong to one worker, and that no claim
survives a crash. A claim needs a row that is not claimed, or one whose lease has run out,
and makes a token later than every one given before for that job that has run out.

**Inbound hold** (`JobHoldProofs`): any number of messages and contacts, any batch, ring (at least as long as the
batch, `HoldLimits`), ages, lease and caches, any number of crashes, with or without other writers. `HoldInv` adds to
`TypeOK`:

* `TableInv`: view and disk are equal unless a foreign transaction is open, and no row is closed on disk only, so
  neither a ROLLBACK nor a crash can close a row;
* `CursorInv`: the cursor is past every message that has a row, was answered or is in hand. So the poll
  returns only messages the daemon has never met;
* `BatchInv`: the batch is in the order of the rowids, what is being released is below it, and nothing in either
  was answered or has an open row;
* `AnswerInv`: a message is answered at most once; an answered one has no open row, one that was handed over is
  closed in the view and on disk;
* `WatermarkInv`: a watermark is an answered message of its contact;
* `PlaceInv`: what holds at each place of the loop: during a release no message of the batch has a row, after
  mark_sending the first row of the list is `sending` on disk and was not answered, on the way into the hold nothing
  in hand is answered or in the batch.

Every statement but the INSERT and mark_sending's is `Steady`: rows are neither added nor reopened, nothing gets in
flight, number, kind and creation time stay. `QuietKeeps` uses this once for all steps of the daemon but the two; hold_live,
the one step that opens a row, has a message in hand that is neither answered nor in the batch.

For `HandsOverAtMostOnce` the queue's mapping is used; the permission is the daemon standing between mark_sending and
finish, with this row first in its list. mark_sending commits, the hand-over delivers, hold_live accepts; a crash or a
ROLLBACK takes back only rows that are not closed on disk, which by `AnswerInv` were not handed over.

`ReleasedIsTracked` needs `TrackInv` besides: rows have numbers of their own (else LIMIT could select more than its
cap, `SelectBound`), a release has no more rows in hand than the ring has slots, what it has handed over is in
the slots written last, and what waits in the batch is in some slot. No slot is written
while released messages wait, because during a release no message of the batch has a row.

| Theorem | States |
|---|---|
| `HoldInvariant` | `Spec => []HoldInv` |
| `HoldTypeCorrect` | `Spec => []TypeOK` |
| `HoldAnsweredOnce` | `Spec => []AnsweredOnce` |
| `HoldInTurnNotHeld` | `Spec => []InTurnNotHeld` |
| `HoldSkipsOnlyOvertaken` | `Spec => SkipsOnlyOvertaken` |
| `HoldHandsOverAtMostOnce` | `Spec => HandsOverAtMostOnce` |
| `HoldReleasedIsTracked` | `Spec => []ReleasedIsTracked` |

**Gateway pool** (`ThreadPoolProofs`): any size of the ring, any workers, submitters and items, any number of
unprovoked wakeups. `PoolInv` adds to the types:

* `RingInv`: tail is `count` places behind head, modulo the ring's size. With it the item submit writes lands at the
  end of `Queued` and the item a worker takes is its first, also when the ring is full or empty;
* `ArgInv`: a call inside submit has an item;
* `ActiveIsExact`: busy_count is the number of workers in a callback, so the count never passes its bound.

For `ImplementsWorkQueue` a push is submit's write to the ring, a take is a worker's, a finish the end of its callback,
destroy is shutdown; waiting, waking, create and join are stutters. The lemmas say what `Queued` is after
a push and after a take, by arithmetic modulo the size.

| Theorem | States |
|---|---|
| `PoolInvariant` | `Spec => []PoolInv` |
| `PoolTypes` | `Spec => []TypeOK` |
| `PoolActiveIsExact` | `Spec => []ActiveIsExact` |
| `PoolImplementsWorkQueue` | `Spec => ImplementsWorkQueue` |

**Agent pool** (`AgentPoolProofs`): any number of slots, ids and calls, any limit. `SpawnInv` adds to `TypeOK`:

* `SlotInv`, per slot: a slot is free only after its thread has ended (`ThreadOK`); while the pool is up a slot that is
  not used never was (`FreshOK`); an agent that is queried has one asker and is not idle (`AskersOK`); a
  query that came late has the agent for itself (`QueryOK`); where the thread of an agent nobody queried is, and that
  a cancelled one is not kept (`CancelOK`);
* `UpInv`: slots are filled from below; `SweepInv`: destroy leaves no thread behind in the slots it has passed;
* `IdInv`: ids are handed out once; `DelegateInv`: so what a delegate finds under its id is the agent it
  spawned, in a slot above its own, which destroy's sweep reaches after it has joined the parent;
* `CalmInv`: an agent that has not begun its turn waits for nobody.

| Theorem | States |
|---|---|
| `SpawnInvariant` | `Spec => []SpawnInv` |
| `SpawnTypes` | `Spec => []TypeOK` |
| `SpawnOneTurnPerAgent` | `Spec => []OneTurnPerAgent` |
| `SpawnQueryKeepsAgent` | `Spec => []QueryKeepsAgent` |
| `SpawnFreedQuietly` | `Spec => []FreedQuietly` |
| `SpawnDelegateReadsLive` | `Spec => []DelegateReadsLive` |
| `SpawnCancelObeyed` | `Spec => []CancelObeyed` |

**Service** (`ServiceProofs`): any number of workers, any queue, any number of attempts and
of looks at the pool. None of the four safety properties is inductive. `ShutdownInv` adds to `TypeOK`:

* `MutexInv`: svc_agent_mutex is main's exactly in a reload and the gateway thread's exactly in a
  turn, so the two exclude each other; the handler of the bus never meets its own lock;
* `SlotInv`: a worker is busy exactly while the pool lists one request as its own. It connects
  the pool's specification (`active`) with where the workers are (`phase`);
* `QuietInv`: outside hu_gateway_run nothing waits and nothing runs;
* `ClearedInv`: from which point of the cleanup on guard and limiter are null;
* `LateInv`: requests taken up during hu_thread_pool_destroy are past, or never come to, the
  guard and the limiter. It needs `ClearedInv`, because a worker decides by the pointer;
* `TeardownInv`: main tears down after the join, so by `QuietInv` no turn is left.

| Theorem | States |
|---|---|
| `ShutdownInvariant` | `Spec => []ShutdownInv` |
| `ServiceTypes` | `Spec => []TypeOK` |
| `ReloadExcludesBusTurns` | `Spec => []ReloadSparesBusTurns` |
| `GatewayIsFreedQuietly` | `Spec => []GatewayFreedQuietly` |
| `AgentOutlivesItsTurns` | `Spec => []AgentOutlivesTurns` |
| `LateRequestsAreSafe` | `Spec => []LateRequestsSafe` |

**Provider wrapper** (`ReliableProofs`): any number of callers, extras, models and retries, any threshold.
`CallInv` holds, beside types:

* `AloneInv`: until two calls overlap, one caller at most is in a call;
* `CountInv`: in that case the failure about to be counted, in the step before the read and in the one
  between read and write, is already among the primary's (`failed`);
* `ServedInv`: in that case last_served is nobody's during a call.

`OfferInv` says of every call that what it has offered is exactly, and once each, the passes before the one it is at.
That the rotated index runs through the whole chain (`RotationInjective`, `RotationOnto`) makes the passes of a failed
call all pairs of an extra and a model.

| Theorem | States |
|---|---|
| `CallInvariant` | `Spec => []CallInv` |
| `OfferInvariant` | `Spec => []OfferInv` |
| `CircuitCountsFailures` | `Spec => []CountsOnlyFailures` |
| `LastServedIsServer` | `Spec => []LastServedRight` |
| `FailsOnlyAfterAll` | `Spec => []FailsAfterAll` |

Every safety property of the passing runs is stated by a theorem. Only model-checked: liveness under fairness, which
the prover cannot do (`HeldResolved`, `SubmitReturns`, `AcceptedStarts`, `DestroyReturns`, `ThreadsRetire`,
`PrimaryComesBack`, `BusTurnEnds`, `BothStoppedEnds`).

## 6. Where the code and what is said of it differ

Shown by a run:

* `jobhold_stranded` (`daemon_job_release.c:279`). `release_live` calls `claim_due`, the only
  place where run-out leases are requeued after the start, only if `count_due` sees a
  *pending* row; `expire_older_than` takes pending rows only. A row left `claimed`
  (crash after the claim and a restart within the 120 s lease, or a mark_sending
  refused because a gateway thread has a transaction open) is not seen again
  until another message is held. The file's header says that the lease expires and the row is
  claimed again.
* `jobhold_dropped` (`daemon.c:2675`). The watermark is one rowid per contact. A message that is held while a newer
  one of its contact is answered is below the watermark when it is released; the dedup takes it for answered and skips it,
  and its row is already `done`, so nobody ever answers it. `daemon.c:2663-2668` says "no dropped replies".
  `SkipsOnlyOvertaken` shows that this is the only case.
* `jobhold_late` (`daemon_job_release.c:274`). Expiry takes pending rows; the requeue of old claims is the first
  statement of `claim_due`, after it. A claim left behind by a crash, or by a refused
  mark_sending, is requeued, claimed and released in one tick however old it is, when another message is due. `:150` says "a message
  held past the cap is never released".
* `agentpool_provider` (`spawn.c:344`). A sub-agent's thread creates a provider, `hu_agent_from_config`
  copies it, `hu_agent_deinit` releases it and at `done` the thread releases it again. A persistent agent
  is even left with a released provider, which its next query uses. Elsewhere the code keeps one
  owner (`replay_harness_io.c:350`, `cli_replay.c:575`).
* `service_stop` (`gateway.c:1700`). Of the service's and the gateway's SIGTERM handlers the one
  installed last hears the signal. If it is the service's, main leaves its loop and waits for ever
  to join the gateway's thread; if it is the gateway's, the service loop goes on. `human service
  stop` says "service stopped" (`main.c:1381`). `BothStoppedEnds` shows that a second signal path is all that is
  missing: with both flags up the process ends.

Visible in the models, without a run of their own:

* finish (`job_queue_repo_sqlite.c:299`) compares the token only while the row is `claimed`, so a
  stale worker can finish `failed` a row a newer claim has moved to `sending`; `job_queue_repo.h:149-151` says
  it cannot. Delivery stays at most once.
* submit waits on a full ring (`thread_pool.c:134`); `thread_pool.h:13` says it returns false. In `Service` the gateway's
  loop then serves nobody until a worker is free.
* A failing `hu_thread_pool_create` broadcasts without the mutex (`thread_pool.c:98`); a worker about to wait misses it
  and the join does not return.
* Agent pool: a query makes an idle agent run without asking `max_concurrent`, which `docs/standards/ai/fleet.md:17` calls
  "Max running ... workers at once"; `0 = unlimited lifetime spawns` (`spawn.h:71`) ends at the
  64 slots, which only destroy gives back; a cancel during a query is lost when the query sets the slot idle (`:662`);
  destroy does not wait for a query in another agent's slot, and an agent it is joining can spawn into a
  slot it has passed; `hu_agent_pool_list` counts slots without the mutex (`:758`).
* Agent pool, an early query (`spawn.c:257-347`): a persistent agent is published idle before its thread has ended.
  A query that comes in between sets the slot RUNNING; the thread then overwrites that with COMPLETED
  (`:348-349`), and a cancel, which frees the agent of a slot that is not running, frees it under the query.
  `QueryKeepsAgent` holds of queries that begin after the thread has retired and leaves these out. The thread of a cancelled
  agent stores its result all the same (`:349-353`); `CancelObeyed` speaks of the status and the agent.
* Reliable provider: `reliable.h:73-74` says a timed-out provider is not retried within the same call; the
  primary and every extra are asked again with the next model of the chain, and retried at once when there are no extras
  (`reliable.c:135-141`). A rate limit that another call has stored ends this call's retries. The "ONE trial request" (`:76`) is one only if it fails in a way that counts and no other call
  is in progress.
* Service: requests a worker has begun when guard and limiter are freed (`gateway.c:2035-2042`) may use
  them afterwards; `LateRequestsSafe` holds of those begun later. The reload is serialised with turns of the bus only:
  HTTP turns use another lock (`openai_compat.c:1020`), the service loop's own turns and cron.run none. The WebSocket
  table is used by workers and loop without a lock. A stop heard between a failed attempt and the
  next is forgotten (`gateway.c:1695`). The detached thread of cron.run may outlive the gateway and the agent.

## 7. Plan

Done: the queue, the hold, the gateway's pool, the service process with bus and signals, the agent pool and the
provider wrapper, each with proofs of its safety properties.

1. Theorems: the safety the liveness properties rest on, as invariants of their own: no worker of the pool sleeps
   on a ring that is not empty, no row stays claimed by nobody under a lease without end.
2. `SendBudget` (check and charge apart) composed with the poll loop, and the dedup's
   64-entry table with eviction and its file.
3. Reminders and cron with their stores.

## 8. Not modelled

* The hold's shadow mode (it only counts), its metrics and the owner's banners; the payload's
  encoding (a message decodes or does not, fits or does not).
* The dedup's table eviction and file format; failing writes of the cursor and of the dedup file.
* SQL and chat.db I/O errors beyond those the code branches on: a statement that fails
  changes nothing.
* What happens inside an agent turn; memory retrieval, channels other than iMessage, providers,
  tools, persona and cognition, ML, voice, MCP, observability: text, numbers and I/O without
  shared control state. Security policies and pairing: sequential checks.
* Reminders, cron and proactive sends: candidates for a later module.
* The agent mailbox: its mutex is never locked, so operations of two threads race in every field; what
  holds when they do not overlap is a sequential ring.
* In `Service`: request parsing, the routes other than pairing and chat, the WebSocket protocol, cron.run's thread.
  In `AgentPool`: the HuLa interpreter around the delegate step, budgets. In `ReliableProvider`: `stream_chat`, which
  asks neither circuit nor errors, and the backoff between attempts, which takes time and changes nothing.
