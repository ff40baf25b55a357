------------------------------ MODULE AgentPool ------------------------------
(***************************************************************************)
(* The pool of sub-agents (src/agent/spawn.c) and the two ways in which    *)
(* agents use it while their own turn is running: the query tool, and the  *)
(* delegate step of a HuLa program, which spawns, polls and times out.     *)
(*                                                                         *)
(* Every slot has one thread at most.  A stretch of code under the pool's  *)
(* mutex is one step; the pool's destroy keeps the mutex for its whole     *)
(* sweep and gives it up only to join a thread.  An agent's turn runs      *)
(* outside the mutex, on its slot's thread the first time and on the       *)
(* asker's thread when it is queried.  The worktree manager and the pool's *)
(* own cost tracker are never set, and left out.                           *)
(***************************************************************************)
EXTENDS Integers, FiniteSets

CONSTANTS SlotCount,       \* HU_POOL_MAX_SLOTS
          MaxConcurrent,   \* max_concurrent
          MaxDepth,        \* fleet_limits.max_spawn_depth, 0 = unlimited
          MaxTotal,        \* fleet_limits.max_total_spawns, 0 = unlimited
          MaxIds,          \* bound on next_id
          MayFail          \* can a thread, a provider or an agent not be created?

ASSUME SlotAssumption  == SlotCount \in Nat \ {0}
ASSUME LimitAssumption == MaxConcurrent \in Nat \ {0} /\ MaxDepth \in Nat /\ MaxTotal \in Nat
ASSUME BoundAssumption == MaxIds \in Nat /\ MayFail \in BOOLEAN

Slots == 0..SlotCount - 1
Root == -1     \* the agent of the process, which owns the pool
None == -2     \* nobody, or no slot
Agents == Slots \cup {Root}

VARIABLES
  used, agent_id, status, mode, cancelled, persistent_agent, thread_valid, spawn_depth,
  next_id, fleet_spawns_started,
  thread,    \* thread[s]: where the thread of slot s is
  provider,  \* provider[s]: how often the slot's provider was released
  askers,    \* askers[s]: the agents in whose queries slot s's agent is answering
  delegate,  \* delegate[a]: the id agent a polls for, 0 if it does not
  reading,   \* reading[a]: the slot whose result agent a is copying
  owner,     \* the pool's life
  sweep,     \* the slot destroy has come to
  late,      \* late[s]: spawned after destroy had begun
  queried    \* queried[s]: was the agent queried, perhaps before its thread had retired?

slot == <<used, agent_id, status, mode, cancelled, persistent_agent, thread_valid, spawn_depth>>
counters == <<next_id, fleet_spawns_started>>
vars == <<slot, counters, thread, provider, askers, delegate, reading, owner, sweep, late, queried>>

Statuses == {"running", "idle", "completed", "cancelled"}
Modes == {"one_shot", "persistent"}

TypeOK ==
  /\ used \in [Slots -> BOOLEAN] /\ agent_id \in [Slots -> 0..MaxIds]
  /\ status \in [Slots -> Statuses] /\ mode \in [Slots -> Modes]
  /\ cancelled \in [Slots -> BOOLEAN] /\ persistent_agent \in [Slots -> BOOLEAN]
  /\ thread_valid \in [Slots -> BOOLEAN] /\ spawn_depth \in [Agents -> Nat]
  /\ next_id \in 1..MaxIds + 1 /\ fleet_spawns_started \in 0..MaxIds
  /\ thread \in [Slots -> {"none", "starting", "turn", "finishing", "gone"}]
  /\ provider \in [Slots -> {"none", "live", "released", "released again"}]
  /\ askers \in [Slots -> SUBSET Agents]
  /\ delegate \in [Agents -> 0..MaxIds]
  /\ reading \in [Agents -> Slots \cup {None}]
  /\ owner \in {"up", "sweeping", "joining", "freed"} /\ sweep \in 0..SlotCount
  /\ late \in [Slots -> BOOLEAN] /\ queried \in [Slots -> {"never", "in time", "early"}]

Init ==
  /\ used = [s \in Slots |-> FALSE]
  /\ agent_id = [s \in Slots |-> 0]
  /\ status = [s \in Slots |-> "running"]
  /\ mode = [s \in Slots |-> "one_shot"]
  /\ cancelled = [s \in Slots |-> FALSE]
  /\ persistent_agent = [s \in Slots |-> FALSE]
  /\ thread_valid = [s \in Slots |-> FALSE]
  /\ spawn_depth = [a \in Agents |-> 0]
  /\ next_id = 1 /\ fleet_spawns_started = 0
  /\ thread = [s \in Slots |-> "none"]
  /\ provider = [s \in Slots |-> "none"]
  /\ askers = [s \in Slots |-> {}]
  /\ delegate = [a \in Agents |-> 0]
  /\ reading = [a \in Agents |-> None]
  /\ owner = "up" /\ sweep = 0
  /\ late = [s \in Slots |-> FALSE]
  /\ queried = [s \in Slots |-> "never"]

\* Slip: destroy keeps the mutex while it joins.
LockedWhileJoining == owner = "up"

\* The mutex is free, and the memory it is in is still the pool's.
Unlocked == owner \in {"up", "joining"}

\* Agent a's turn is running and waits for nothing in this pool: it may call.
InTurn(a) == IF a = Root THEN owner = "up" ELSE thread[a] = "turn" \/ askers[a] # {}
Calling(a) == delegate[a] # 0 \/ reading[a] # None \/ \E s \in Slots : a \in askers[s]
MayCall(a) == InTurn(a) /\ ~Calling(a) /\ Unlocked

RunningLocked == {s \in Slots : used[s] /\ status[s] = "running"}

\* find_slot
Finds(s, i) == used[s] /\ agent_id[s] = i

\* vtable->deinit of the slot's provider.  Releasing it a second time is
\* undefined; the process is taken to survive that.
Release(p) == CASE p = "live" -> "released"
                [] p \in {"released", "released again"} -> "released again"
                [] OTHER -> p

----------------------------------------------------------------------------
\* hu_agent_pool_spawn: the fleet's limits, then the number running.  (The
\* budget is checked against the caller's tracker and off by default.)
SpawnAllowed(a) ==
  /\ MaxDepth > 0 => spawn_depth[a] + 1 <= MaxDepth
  /\ MaxTotal > 0 => fleet_spawns_started < MaxTotal

BelowConcurrent == Cardinality(RunningLocked) < MaxConcurrent

\* Slip: a slot whose agent is done counts as free.
FreeOrDone(s) == ~used[s] \/ status[s] = "completed"

\* ... then the lowest slot that is not in use.
FreeSlot(s) == ~used[s] /\ \A t \in Slots : t < s => used[t]

Spawn(a, s, m, waits) ==
  /\ MayCall(a)
  /\ next_id <= MaxIds
  /\ SpawnAllowed(a) /\ BelowConcurrent /\ FreeSlot(s)
  /\ agent_id' = [agent_id EXCEPT ![s] = next_id]
  /\ status' = [status EXCEPT ![s] = "running"]
  /\ mode' = [mode EXCEPT ![s] = m]
  /\ cancelled' = [cancelled EXCEPT ![s] = FALSE]
  /\ persistent_agent' = [persistent_agent EXCEPT ![s] = FALSE]
  /\ spawn_depth' = [spawn_depth EXCEPT ![s] = spawn_depth[a] + 1]
  /\ next_id' = next_id + 1
  /\ fleet_spawns_started' = fleet_spawns_started + 1
  /\ used' = [used EXCEPT ![s] = TRUE]
  /\ thread_valid' = [thread_valid EXCEPT ![s] = TRUE]
  /\ thread' = [thread EXCEPT ![s] = "starting"]
  /\ provider' = [provider EXCEPT ![s] = "none"]
  /\ late' = [late EXCEPT ![s] = owner # "up"]
  /\ queried' = [queried EXCEPT ![s] = "never"]
  /\ delegate' = IF waits THEN [delegate EXCEPT ![a] = next_id] ELSE delegate
  /\ UNCHANGED <<askers, reading, owner, sweep>>

\* No memory for the thread's argument, or no thread: the slot is given back,
\* the id and the spawn are spent.
SpawnFails(a, s) ==
  /\ MayFail /\ MayCall(a)
  /\ next_id <= MaxIds
  /\ SpawnAllowed(a) /\ BelowConcurrent /\ FreeSlot(s)
  /\ next_id' = next_id + 1
  /\ fleet_spawns_started' = fleet_spawns_started + 1
  /\ UNCHANGED <<slot, thread, provider, askers, delegate, reading, owner, sweep, late, queried>>

----------------------------------------------------------------------------
\* spawn_thread, up to its turn: `cancelled' is read without the mutex.
ThreadStarts(s) ==
  /\ thread[s] = "starting"
  /\ \/ cancelled[s] /\ thread' = [thread EXCEPT ![s] = "finishing"] /\ UNCHANGED provider
     \/ /\ ~cancelled[s] /\ MayFail
        /\ thread' = [thread EXCEPT ![s] = "finishing"]
        /\ \/ UNCHANGED provider
           \/ provider' = [provider EXCEPT ![s] = "live"]
     \/ /\ ~cancelled[s]
        /\ thread' = [thread EXCEPT ![s] = "turn"]
        /\ provider' = [provider EXCEPT ![s] = "live"]
  /\ UNCHANGED <<slot, counters, askers, delegate, reading, owner, sweep, late, queried>>

\* The turn is over.  A one-shot agent is taken down with its provider, a
\* persistent one is kept unless it was cancelled meanwhile.
OneShotTurnEnds(s) ==
  /\ thread[s] = "turn" /\ mode[s] = "one_shot" /\ ~Calling(s)
  /\ thread' = [thread EXCEPT ![s] = "finishing"]
  /\ provider' = [provider EXCEPT ![s] = Release(@)]
  /\ UNCHANGED <<slot, counters, askers, delegate, reading, owner, sweep, late, queried>>

\* Slip: the first answer is published whether or not the agent was cancelled.
Keeps(s) == TRUE

KeepsPersistent(s) == ~cancelled[s]

PersistentTurnEnds(s) ==
  /\ thread[s] = "turn" /\ mode[s] = "persistent" /\ ~Calling(s) /\ Unlocked
  /\ IF KeepsPersistent(s)
     THEN /\ persistent_agent' = [persistent_agent EXCEPT ![s] = TRUE]
          /\ status' = [status EXCEPT ![s] = "idle"]
          /\ UNCHANGED provider
     ELSE /\ provider' = [provider EXCEPT ![s] = Release(@)]
          /\ status' = [status EXCEPT ![s] = "cancelled"]
          /\ UNCHANGED persistent_agent
  /\ thread' = [thread EXCEPT ![s] = "finishing"]
  /\ UNCHANGED <<used, agent_id, mode, cancelled, thread_valid, spawn_depth, counters,
                 askers, delegate, reading, owner, sweep, late, queried>>

\* A thread ends completed even if its agent could not be created: only the
\* result says so.
EndStatus(s) == IF cancelled[s] THEN "cancelled" ELSE "completed"

\* done: the thread releases the provider it created, also when the agent it
\* leaves behind has a copy.
ThreadEnds(s) ==
  /\ thread[s] = "finishing" /\ Unlocked
  /\ provider' = [provider EXCEPT ![s] = Release(@)]
  /\ status' = [status EXCEPT ![s] =
                  IF @ \in {"idle", "cancelled"} THEN @ ELSE EndStatus(s)]
  /\ thread_valid' = [thread_valid EXCEPT ![s] = FALSE]
  /\ thread' = [thread EXCEPT ![s] = "gone"]
  /\ UNCHANGED <<used, agent_id, mode, cancelled, persistent_agent, spawn_depth, counters,
                 askers, delegate, reading, owner, sweep, late, queried>>

----------------------------------------------------------------------------
\* Slip: a query does not look at the agent's status.
Known(s) == persistent_agent[s]

Queryable(s) == status[s] = "idle" /\ persistent_agent[s]

\* hu_agent_pool_query: up to the turn ...
QueryBegins(a, s) ==
  /\ MayCall(a) /\ used[s] /\ s # a
  /\ Queryable(s)
  /\ status' = [status EXCEPT ![s] = "running"]
  /\ askers' = [askers EXCEPT ![s] = @ \cup {a}]
  /\ queried' = [queried EXCEPT ![s] =
                   IF @ = "early" \/ thread[s] # "gone" THEN "early" ELSE "in time"]
  /\ UNCHANGED <<used, agent_id, mode, cancelled, persistent_agent, thread_valid, spawn_depth,
                 counters, thread, provider, delegate, reading, owner, sweep, late>>

\* ... and after it: the slot is idle, whatever happened to it meanwhile.
QueryEnds(a, s) ==
  /\ a \in askers[s] /\ ~Calling(s) /\ Unlocked
  /\ status' = [status EXCEPT ![s] = "idle"]
  /\ askers' = [askers EXCEPT ![s] = @ \ {a}]
  /\ UNCHANGED <<used, agent_id, mode, cancelled, persistent_agent, thread_valid, spawn_depth,
                 counters, thread, provider, delegate, reading, owner, sweep, late, queried>>

\* Slip: an agent that is running is taken down as well.
AnyStatus(s) == TRUE

TakenDownNow(s) == status[s] \in {"idle", "completed"}

\* hu_agent_pool_cancel
CancelSlot(s) ==
  /\ cancelled' = [cancelled EXCEPT ![s] = TRUE]
  /\ IF TakenDownNow(s)
     THEN /\ provider' = [provider EXCEPT ![s] = IF persistent_agent[s] THEN Release(@) ELSE @]
          /\ persistent_agent' = [persistent_agent EXCEPT ![s] = FALSE]
          /\ status' = [status EXCEPT ![s] = "cancelled"]
     ELSE UNCHANGED <<provider, persistent_agent, status>>

\* /cancel, typed at the process's agent while its own turn is not running.
Cancel(s) ==
  /\ MayCall(Root) /\ used[s]
  /\ CancelSlot(s)
  /\ UNCHANGED <<used, agent_id, mode, thread_valid, spawn_depth, counters, thread, askers,
                 delegate, reading, owner, sweep, late, queried>>

----------------------------------------------------------------------------
\* A HuLa delegate polls the status of its child.  It takes the address of the
\* result under the mutex and copies the text without it.
DelegateSees(a) ==
  /\ delegate[a] # 0 /\ Unlocked
  /\ \E s \in Slots : /\ Finds(s, delegate[a]) /\ status[s] = "completed"
                      /\ reading' = [reading EXCEPT ![a] = s]
  /\ delegate' = [delegate EXCEPT ![a] = 0]
  /\ UNCHANGED <<slot, counters, thread, provider, askers, owner, sweep, late, queried>>

DelegateCopies(a) ==
  /\ reading[a] # None
  /\ reading' = [reading EXCEPT ![a] = None]
  /\ UNCHANGED <<slot, counters, thread, provider, askers, delegate, owner, sweep, late, queried>>

\* The id is unknown (HU_AGENT_FAILED): destroy has taken the slot.
DelegateFails(a) ==
  /\ delegate[a] # 0 /\ Unlocked
  /\ ~\E s \in Slots : Finds(s, delegate[a])
  /\ delegate' = [delegate EXCEPT ![a] = 0]
  /\ UNCHANGED <<slot, counters, thread, provider, askers, reading, owner, sweep, late, queried>>

\* Slip: the delegate polls for ever.
NeverTimesOut(a) == FALSE

\* After 300 polls the child is cancelled; it may have finished meanwhile.
DelegateTimesOut(a) ==
  /\ delegate[a] # 0 /\ Unlocked
  /\ \E s \in Slots : Finds(s, delegate[a]) /\ CancelSlot(s)
  /\ delegate' = [delegate EXCEPT ![a] = 0]
  /\ UNCHANGED <<used, agent_id, mode, thread_valid, spawn_depth, counters, thread, askers,
                 reading, owner, sweep, late, queried>>

----------------------------------------------------------------------------
\* hu_agent_pool_destroy, called by the process outside its agent's turns.
Destroy ==
  /\ MayCall(Root)
  /\ owner' = "sweeping" /\ sweep' = 0
  /\ UNCHANGED <<slot, counters, thread, provider, askers, delegate, reading, late, queried>>

\* slot_deinit_agent, slot_free
FreeSlotAt(s) ==
  /\ provider' = [provider EXCEPT ![s] = IF persistent_agent[s] THEN Release(@) ELSE @]
  /\ persistent_agent' = [persistent_agent EXCEPT ![s] = FALSE]
  /\ used' = [used EXCEPT ![s] = FALSE]
  /\ sweep' = s + 1
  /\ UNCHANGED <<agent_id, status, mode, cancelled, spawn_depth>>

SweepSkips ==
  /\ owner = "sweeping" /\ sweep < SlotCount /\ ~used[sweep]
  /\ sweep' = sweep + 1
  /\ UNCHANGED <<slot, counters, thread, provider, askers, delegate, reading, owner, late, queried>>

\* Slip: a thread that has been told to stop is not waited for.
JoinsUncancelled(s) == thread_valid[s] /\ ~cancelled[s]

Joins(s) == thread_valid[s]

SweepFrees ==
  /\ owner = "sweeping" /\ sweep < SlotCount /\ used[sweep] /\ ~Joins(sweep)
  /\ FreeSlotAt(sweep)
  /\ UNCHANGED <<thread_valid, counters, thread, askers, delegate, reading, owner, late, queried>>

SweepJoins ==
  /\ owner = "sweeping" /\ sweep < SlotCount /\ used[sweep] /\ Joins(sweep)
  /\ thread_valid' = [thread_valid EXCEPT ![sweep] = FALSE]
  /\ owner' = "joining"
  /\ UNCHANGED <<used, agent_id, status, mode, cancelled, persistent_agent, spawn_depth, counters,
                 thread, provider, askers, delegate, reading, sweep, late, queried>>

SweepJoined ==
  /\ owner = "joining" /\ thread[sweep] = "gone"
  /\ FreeSlotAt(sweep)
  /\ owner' = "sweeping"
  /\ UNCHANGED <<thread_valid, counters, thread, askers, delegate, reading, late, queried>>

PoolFreed ==
  /\ owner = "sweeping" /\ sweep = SlotCount
  /\ owner' = "freed"
  /\ UNCHANGED <<slot, counters, thread, provider, askers, delegate, reading, sweep, late, queried>>

----------------------------------------------------------------------------
\* What a thread does with the pool after it was freed is undefined, and not
\* modelled.
ThreadStep(s) == owner # "freed" /\ (ThreadStarts(s) \/ ThreadEnds(s))

TurnEnds(s) ==
  /\ owner # "freed"
  /\ OneShotTurnEnds(s) \/ PersistentTurnEnds(s) \/ \E a \in Agents : QueryEnds(a, s)

DelegateStep(a) ==
  /\ owner # "freed"
  /\ DelegateSees(a) \/ DelegateCopies(a) \/ DelegateFails(a) \/ DelegateTimesOut(a)

SweepStep == SweepSkips \/ SweepFrees \/ SweepJoins \/ SweepJoined \/ PoolFreed

AgentCalls(a) ==
  \E s \in Slots :
    \/ \E m \in Modes : Spawn(a, s, m, FALSE)
    \/ Spawn(a, s, "one_shot", TRUE)
    \/ SpawnFails(a, s)
    \/ QueryBegins(a, s)

Next ==
  \/ \E s \in Slots : ThreadStep(s) \/ TurnEnds(s) \/ Cancel(s)
  \/ \E a \in Agents : DelegateStep(a) \/ AgentCalls(a)
  \/ Destroy \/ SweepStep

\* Threads run, a delegate polls on and destroy goes on; nobody has to call
\* anything.  A turn makes at most max_iterations rounds of calls, so one that
\* can end again and again does end.
Fairness ==
  /\ \A s \in Slots : WF_vars(ThreadStep(s)) /\ SF_vars(TurnEnds(s))
  /\ \A a \in Agents : WF_vars(DelegateStep(a))
  /\ WF_vars(SweepStep)

Spec == Init /\ [][Next]_vars /\ Fairness
----------------------------------------------------------------------------
\* No agent is in two turns at once: its first one is over, and the slot
\* published, before any query gets it, and one query at a time has it.  (Not
\* so once destroy has freed a slot under a query and another agent is in it.)
OneTurnPerAgent ==
  \A s \in Slots : askers[s] # {} /\ ~late[s]
    => Cardinality(askers[s]) = 1 /\ thread[s] \in {"finishing", "gone"}

\* While the pool is up, a query that began after the agent's thread had
\* retired keeps its agent: neither a cancel nor another query can take or
\* free it before the turn ends.  (An early query, between the publication of
\* the agent and the end of its thread, does not: the thread overwrites its
\* RUNNING with COMPLETED, and a cancel may then free the agent under it.)
QueryKeepsAgent ==
  \A s \in Slots : askers[s] # {} /\ queried[s] # "early" /\ owner = "up"
                     => persistent_agent[s] /\ status[s] = "running"

\* Destroy leaves no thread of an agent behind that was there when it began.
\* (An agent it is waiting for may spawn into a slot it has passed.)
FreedQuietly == owner = "freed" => \A s \in Slots : thread[s] \in {"none", "gone"} \/ late[s]

\* The text a delegate copies without the mutex stays in its child's slot: the
\* result is not replaced, and destroy joins a parent's thread before it comes
\* to a child's slot.
DelegateReadsLive ==
  \A a \in Agents : \A s \in Slots :
    reading[a] = s /\ (owner = "up" \/ (a # Root /\ thread[a] = "turn" /\ ~late[a] /\ ~late[s]))
      => used[s] /\ mode[s] = "one_shot" /\ status[s] \in {"completed", "cancelled"}

\* A cancel that comes before the agent was ever queried is obeyed: the slot is
\* never published as idle or completed, shows cancelled when its thread has
\* retired at the latest, and never has an agent that could be asked.  (The
\* text of the turn is stored all the same and is left out here.  A cancel
\* during a query is lost: the slot is idle again after it.)
CancelObeyed ==
  \A s \in Slots : used[s] /\ cancelled[s] /\ queried[s] = "never" /\ ~late[s]
    => /\ status[s] \in {"running", "cancelled"} /\ ~persistent_agent[s]
       /\ thread[s] = "gone" => status[s] = "cancelled"

\* Destroy comes back: no two threads of the pool wait for each other.
DestroyReturns == owner # "up" ~> owner = "freed"

\* Agents that query each other or wait for delegates do not wait in a circle:
\* every spawned agent's thread retires, unless the pool is freed first.
ThreadsRetire == \A s \in Slots : thread[s] = "starting" ~> thread[s] = "gone" \/ owner = "freed"

\* A provider has one owner, which releases it.
ProviderReleasedOnce == \A s \in Slots : provider[s] # "released again"
=============================================================================
