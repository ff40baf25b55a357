--------------------------- MODULE AgentPoolProofs ---------------------------
(***************************************************************************)
(* The safety of the pool of sub-agents, for any number of slots, any      *)
(* limits and any number of spawns: turns, queries, cancels, delegates and *)
(* destroy.                                                                *)
(***************************************************************************)
EXTENDS AgentPool, FiniteSetTheorems, TLAPS

\* The thread of slot s ends before the slot is free, and is known to the pool until then.
ThreadOK(s) ==
  /\ ~used[s] => thread[s] \in {"none", "gone"}
  /\ used[s] /\ ~thread_valid[s] => thread[s] = "gone" \/ (owner = "joining" /\ sweep = s)
  /\ status[s] = "completed" => thread[s] = "gone"
  /\ persistent_agent[s] => mode[s] = "persistent" /\ thread[s] \in {"finishing", "gone"}

\* While the pool is up, a slot that is not used was never used.
FreshOK(s) ==
  owner = "up" => ~late[s] /\ (~used[s] => thread[s] = "none" /\ askers[s] = {})

\* An agent that is being queried has one asker, is over its first turn and is not idle, ...
AskersOK(s) ==
  askers[s] # {} /\ ~late[s] =>
    /\ \E a \in Agents : askers[s] = {a}
    /\ thread[s] \in {"finishing", "gone"}
    /\ status[s] # "idle" /\ mode[s] = "persistent" /\ queried[s] # "never"

\* ... and a query that came after the thread had retired has the agent for itself.
QueryOK(s) ==
  owner = "up" /\ askers[s] # {} /\ queried[s] # "early"
    => persistent_agent[s] /\ status[s] = "running" /\ thread[s] = "gone"

\* An agent nobody ever queried: its status says where its thread is, and a cancelled one is not kept.
CancelOK(s) ==
  used[s] /\ queried[s] = "never" /\ ~late[s] =>
    /\ status[s] = "running" => ~persistent_agent[s] /\ thread[s] \in {"starting", "turn", "finishing"}
    /\ status[s] = "cancelled" => ~persistent_agent[s]
    /\ cancelled[s] => /\ status[s] \in {"running", "cancelled"} /\ ~persistent_agent[s]
                       /\ thread[s] = "gone" => status[s] = "cancelled"

\* What holds of every slot by itself.
SlotOK(s) == ThreadOK(s) /\ FreshOK(s) /\ AskersOK(s) /\ QueryOK(s) /\ CancelOK(s)

SlotInv == \A s \in Slots : SlotOK(s)

\* While the pool is up its slots are filled from below, and one that was never filled waits for nobody.
UpInv ==
  owner = "up" => \A s \in Slots :
    /\ used[s] => \A t \in Slots : t < s => used[t]
    /\ ~used[s] => delegate[s] = 0 /\ reading[s] = None

\* Destroy leaves no thread behind in the slots it has passed.
SweepInv ==
  /\ owner # "up" => \A s \in Slots : s < sweep => thread[s] \in {"none", "gone"} \/ late[s]
  /\ owner = "joining" => sweep < SlotCount
  /\ owner = "freed" => sweep = SlotCount

\* Ids are handed out once, ...
IdInv ==
  /\ \A s \in Slots : agent_id[s] < next_id
  /\ \A a \in Agents : delegate[a] < next_id
  /\ next_id = fleet_spawns_started + 1

\* ... so what a delegate finds under its id is the one-shot agent it spawned, in a slot above its own.
DelegateInv ==
  \A a \in Agents : \A s \in Slots :
    /\ used[s] /\ delegate[a] # 0 /\ agent_id[s] = delegate[a]
         => mode[s] = "one_shot" /\ (a # Root /\ ~late[a] /\ ~late[s] => a < s)
    /\ reading[a] = s /\ a # Root /\ ~late[a] /\ ~late[s] => a < s

\* An agent that has not had its turn waits for nobody.
CalmInv ==
  \A s \in Slots : thread[s] \in {"none", "starting"} /\ ~late[s] => delegate[s] = 0 /\ reading[s] = None

\* The inductive invariant.
SpawnInv ==
  /\ TypeOK
  /\ SlotInv /\ UpInv /\ SweepInv
  /\ IdInv /\ DelegateInv /\ CalmInv /\ DelegateReadsLive
----------------------------------------------------------------------------
(* TypeOK in parts: the slots; the agents that wait; the counters and the pool's life.            *)

SlotTypes ==
  /\ used \in [Slots -> BOOLEAN] /\ agent_id \in [Slots -> 0..MaxIds]
  /\ status \in [Slots -> Statuses] /\ mode \in [Slots -> Modes]
  /\ cancelled \in [Slots -> BOOLEAN] /\ persistent_agent \in [Slots -> BOOLEAN]
  /\ thread_valid \in [Slots -> BOOLEAN]
  /\ thread \in [Slots -> {"none", "starting", "turn", "finishing", "gone"}]
  /\ askers \in [Slots -> SUBSET Agents]
  /\ late \in [Slots -> BOOLEAN] /\ queried \in [Slots -> {"never", "in time", "early"}]

ProviderTypes == provider \in [Slots -> {"none", "live", "released", "released again"}]

AgentTypes ==
  /\ spawn_depth \in [Agents -> Nat]
  /\ delegate \in [Agents -> 0..MaxIds]
  /\ reading \in [Agents -> Slots \cup {None}]

PoolTypes ==
  /\ next_id \in 1..MaxIds + 1 /\ fleet_spawns_started \in 0..MaxIds
  /\ owner \in {"up", "sweeping", "joining", "freed"} /\ sweep \in 0..SlotCount

\* The parts are the whole, before a step and after it.
LEMMA TypeParts ==
  /\ TypeOK <=> SlotTypes /\ ProviderTypes /\ AgentTypes /\ PoolTypes
  /\ TypeOK' <=> SlotTypes' /\ ProviderTypes' /\ AgentTypes' /\ PoolTypes'
BY DEF TypeOK, SlotTypes, ProviderTypes, AgentTypes, PoolTypes

\* Slots are agents; the process's own agent and "no slot" are not slots.
LEMMA SlotFacts ==
  /\ Root \in Agents /\ Root # None
  /\ \A s \in Slots : s \in Agents /\ s \in Int /\ s # Root /\ s # None /\ s < SlotCount /\ s >= 0
  /\ \A a \in Agents : a # Root => a \in Slots
BY SlotAssumption DEF Slots, Root, None, Agents

\* Ids are natural numbers.
LEMMA IdTypes ==
  ASSUME TypeOK
  PROVE  /\ next_id \in Nat
         /\ \A t \in Slots : agent_id[t] \in Nat
         /\ \A a \in Agents : delegate[a] \in Nat
<1>1. agent_id \in [Slots -> 0..MaxIds] /\ delegate \in [Agents -> 0..MaxIds] /\ next_id \in 1..MaxIds + 1
  BY DEF TypeOK
<1>2. \A n \in 0..MaxIds : n \in Nat
  OBVIOUS
<1> QED
  BY <1>1, <1>2, BoundAssumption

\* A step leaves slot t alone.
Kept(t) ==
  /\ used'[t] = used[t] /\ agent_id'[t] = agent_id[t] /\ status'[t] = status[t] /\ mode'[t] = mode[t]
  /\ cancelled'[t] = cancelled[t] /\ persistent_agent'[t] = persistent_agent[t]
  /\ thread_valid'[t] = thread_valid[t] /\ thread'[t] = thread[t] /\ askers'[t] = askers[t]
  /\ late'[t] = late[t] /\ queried'[t] = queried[t]

\* What holds of a slot keeps holding when the slot is left alone, unless destroy stops waiting for it.
LEMMA KeptSlotOK ==
  ASSUME NEW t \in Slots, Kept(t), SlotOK(t), owner' = "up" => owner = "up",
         owner = "joining" /\ sweep = t => owner' = "joining" /\ sweep' = t
  PROVE  SlotOK(t)'
<1>1. ThreadOK(t)' /\ FreshOK(t)'
  BY DEF Kept, SlotOK, ThreadOK, FreshOK
<1>2. AskersOK(t)' /\ QueryOK(t)'
  BY DEF Kept, SlotOK, AskersOK, QueryOK
<1>3. CancelOK(t)'
  BY DEF Kept, SlotOK, CancelOK
<1> QED
  BY <1>1, <1>2, <1>3 DEF SlotOK

\* Whoever calls while the pool is up has a slot, unless it is the process's agent.
LEMMA CallerUsed ==
  ASSUME SlotInv, NEW a \in Slots, InTurn(a), owner = "up"
  PROVE  used[a]
BY SlotFacts DEF SlotInv, SlotOK, FreshOK, InTurn

\* ... and has been at its turn.
LEMMA CallerHadTurn ==
  ASSUME SlotInv, NEW a \in Slots, InTurn(a), ~late[a]
  PROVE  thread[a] \notin {"none", "starting"}
BY SlotFacts DEF SlotInv, SlotOK, AskersOK, InTurn

----------------------------------------------------------------------------
\* A step of one slot: who is in which slot and the pool's life do not change.  A delegate may stop
\* to wait, or to read.
OneSlotStep(s) ==
  /\ UNCHANGED <<used, agent_id, mode, late, next_id, fleet_spawns_started, owner, sweep>>
  /\ \A a \in Agents : delegate'[a] \in {delegate[a], 0} /\ reading'[a] \in {reading[a], None}
  /\ \A t \in Slots \ {s} : Kept(t)
  /\ thread'[s] \in {"none", "starting"} => thread[s] \in {"none", "starting"}
  /\ thread[s] \in {"none", "gone"} => thread'[s] \in {"none", "gone"}
  /\ thread'[s] = "turn" => thread[s] \in {"starting", "turn"}
  /\ mode[s] = "one_shot" /\ ~late[s] /\ status[s] \in {"completed", "cancelled"}
       => status'[s] \in {"completed", "cancelled"}

\* Of such a step only the types and the slot itself are left to prove.
LEMMA OneSlotKeeps ==
  ASSUME SpawnInv, NEW s \in Slots, OneSlotStep(s), TypeOK', SlotOK(s)'
  PROVE  SpawnInv'
<1> USE DEF SpawnInv
<1>1. SlotInv'
  <2> SUFFICES ASSUME NEW t \in Slots, t # s PROVE SlotOK(t)'
    BY DEF SlotInv
  <2>1. Kept(t) /\ SlotOK(t) /\ UNCHANGED <<owner, sweep>>
    BY DEF OneSlotStep, SlotInv
  <2> QED
    BY <2>1, KeptSlotOK
<1>2. UpInv'
  <2> SUFFICES ASSUME owner = "up", NEW t \in Slots
               PROVE  /\ used[t] => \A u \in Slots : u < t => used[u]
                      /\ ~used[t] => delegate'[t] = 0 /\ reading'[t] = None
    BY DEF UpInv, OneSlotStep
  <2> QED
    BY SlotFacts DEF UpInv, OneSlotStep
<1>3. \A t \in Slots : thread[t] \in {"none", "gone"} => thread'[t] \in {"none", "gone"}
  BY DEF OneSlotStep, Kept
<1>4. SweepInv'
  BY <1>3 DEF SweepInv, OneSlotStep
<1>5. IdInv'
  <2>1. \A a \in Agents : delegate'[a] < next_id
    BY TypeParts DEF IdInv, OneSlotStep, PoolTypes
  <2> QED
    BY <2>1 DEF IdInv, OneSlotStep
<1>6. DelegateInv'
  <2> SUFFICES ASSUME NEW a \in Agents, NEW t \in Slots
               PROVE  /\ used[t] /\ delegate'[a] # 0 /\ agent_id[t] = delegate'[a]
                           => mode[t] = "one_shot" /\ (a # Root /\ ~late[a] /\ ~late[t] => a < t)
                      /\ reading'[a] = t /\ a # Root /\ ~late[a] /\ ~late[t] => a < t
    BY DEF DelegateInv, OneSlotStep
  <2> QED
    BY SlotFacts DEF DelegateInv, OneSlotStep
<1>7. CalmInv'
  <2> SUFFICES ASSUME NEW t \in Slots, thread'[t] \in {"none", "starting"}, ~late[t]
               PROVE  delegate'[t] = 0 /\ reading'[t] = None
    BY DEF CalmInv, OneSlotStep
  <2>1. thread[t] \in {"none", "starting"}
    BY DEF OneSlotStep, Kept
  <2> QED
    BY <2>1, SlotFacts DEF CalmInv, OneSlotStep
<1>8. DelegateReadsLive'
  <2> SUFFICES ASSUME NEW a \in Agents, NEW t \in Slots, reading'[a] = t,
                      owner = "up" \/ (a # Root /\ thread'[a] = "turn" /\ ~late[a] /\ ~late[t])
               PROVE  used[t] /\ mode[t] = "one_shot" /\ status'[t] \in {"completed", "cancelled"}
    BY DEF DelegateReadsLive, OneSlotStep
  <2>0. reading[a] = t
    BY SlotFacts DEF OneSlotStep
  <2>1. owner = "up" \/ (a # Root /\ thread[a] = "turn" /\ ~late[a] /\ ~late[t])
    <3>1. CASE a # Root /\ thread'[a] = "turn" /\ ~late[a] /\ ~late[t]
      <4>1. a \in Slots /\ reading[a] # None
        BY <3>1, <2>0, SlotFacts
      <4>2. thread[a] \in {"starting", "turn"}
        BY <3>1, <4>1 DEF OneSlotStep, Kept
      <4> QED
        BY <3>1, <4>1, <4>2 DEF CalmInv
    <3> QED
      BY <3>1
  <2>2. used[t] /\ mode[t] = "one_shot" /\ status[t] \in {"completed", "cancelled"}
    BY <2>0, <2>1 DEF DelegateReadsLive
  <2>3. ~late[t]
    BY <2>1 DEF SlotInv, SlotOK, FreshOK
  <2> QED
    BY <2>2, <2>3 DEF OneSlotStep, Kept
<1> QED
  BY <1>1, <1>2, <1>4, <1>5, <1>6, <1>7, <1>8
----------------------------------------------------------------------------
(* The steps of one slot.                                                  *)

\* What a provider is after it was released.
LEMMA ReleaseTypes ==
  \A p \in {"none", "live", "released", "released again"} :
    Release(p) \in {"none", "live", "released", "released again"}
BY DEF Release

\* A thread that starts sees a cancel, fails, or begins its turn.
LEMMA StartsKeeps ==
  ASSUME SpawnInv, NEW s \in Slots, ThreadStarts(s)
  PROVE  SpawnInv'
<1>0. SlotTypes /\ ProviderTypes /\ AgentTypes /\ PoolTypes /\ SlotOK(s)
  BY TypeParts DEF SpawnInv, SlotInv
<1>1. thread[s] = "starting" /\ thread' \in {[thread EXCEPT ![s] = "finishing"], [thread EXCEPT ![s] = "turn"]}
  BY DEF ThreadStarts
<1>2. TypeOK'
  <2>1. SlotTypes' /\ AgentTypes' /\ PoolTypes'
    BY <1>0, <1>1 DEF ThreadStarts, slot, counters, SlotTypes, AgentTypes, PoolTypes
  <2>2. ProviderTypes'
    BY <1>0 DEF ThreadStarts, ProviderTypes
  <2> QED
    BY <2>1, <2>2, TypeParts
<1>3. OneSlotStep(s)
  BY <1>0, <1>1 DEF ThreadStarts, slot, counters, OneSlotStep, Kept, SlotTypes
<1>4. SlotOK(s)'
  <2>1. thread'[s] \in {"finishing", "turn"}
    BY <1>0, <1>1 DEF SlotTypes
  <2>2. ThreadOK(s)' /\ FreshOK(s)'
    BY <1>0, <1>1, <2>1 DEF ThreadStarts, slot, counters, SlotOK, ThreadOK, FreshOK
  <2>3. AskersOK(s)' /\ QueryOK(s)'
    BY <1>0, <1>1, <2>1 DEF ThreadStarts, slot, counters, SlotOK, AskersOK, QueryOK, FreshOK
  <2>4. CancelOK(s)'
    BY <1>0, <1>1, <2>1 DEF ThreadStarts, slot, counters, SlotOK, CancelOK
  <2> QED
    BY <2>2, <2>3, <2>4 DEF SlotOK
<1> QED
  BY <1>2, <1>3, <1>4, OneSlotKeeps

\* A one-shot agent's turn ends.
LEMMA OneShotKeeps ==
  ASSUME SpawnInv, NEW s \in Slots, OneShotTurnEnds(s)
  PROVE  SpawnInv'
<1>0. SlotTypes /\ ProviderTypes /\ AgentTypes /\ PoolTypes /\ SlotOK(s)
  BY TypeParts DEF SpawnInv, SlotInv
<1>2. TypeOK'
  <2>1. SlotTypes' /\ AgentTypes' /\ PoolTypes'
    BY <1>0 DEF OneShotTurnEnds, slot, counters, SlotTypes, AgentTypes, PoolTypes
  <2>2. ProviderTypes'
    BY <1>0, ReleaseTypes DEF OneShotTurnEnds, ProviderTypes
  <2> QED
    BY <2>1, <2>2, TypeParts
<1>3. OneSlotStep(s)
  BY <1>0 DEF OneShotTurnEnds, slot, counters, OneSlotStep, Kept, SlotTypes
<1>4. SlotOK(s)'
  <2>1. thread[s] = "turn" /\ thread'[s] = "finishing"
    BY <1>0 DEF OneShotTurnEnds, SlotTypes
  <2>2. ThreadOK(s)' /\ FreshOK(s)'
    BY <1>0, <2>1 DEF OneShotTurnEnds, slot, counters, SlotOK, ThreadOK, FreshOK
  <2>3. AskersOK(s)' /\ QueryOK(s)'
    BY <1>0, <2>1 DEF OneShotTurnEnds, slot, counters, SlotOK, AskersOK, QueryOK, FreshOK
  <2>4. CancelOK(s)'
    BY <1>0, <2>1 DEF OneShotTurnEnds, slot, counters, SlotOK, CancelOK
  <2> QED
    BY <2>2, <2>3, <2>4 DEF SlotOK
<1> QED
  BY <1>2, <1>3, <1>4, OneSlotKeeps

\* A persistent agent's first turn ends: the agent is kept unless it was cancelled.
LEMMA PersistentKeeps ==
  ASSUME SpawnInv, NEW s \in Slots, PersistentTurnEnds(s)
  PROVE  SpawnInv'
<1>0. SlotTypes /\ ProviderTypes /\ AgentTypes /\ PoolTypes /\ SlotOK(s)
  BY TypeParts DEF SpawnInv, SlotInv
<1>2. TypeOK'
  <2>1. SlotTypes' /\ AgentTypes' /\ PoolTypes'
    BY <1>0 DEF PersistentTurnEnds, counters, SlotTypes, AgentTypes, PoolTypes, Statuses
  <2>2. ProviderTypes'
    BY <1>0, ReleaseTypes DEF PersistentTurnEnds, ProviderTypes
  <2> QED
    BY <2>1, <2>2, TypeParts
<1>3. OneSlotStep(s)
  BY <1>0 DEF PersistentTurnEnds, counters, OneSlotStep, Kept, SlotTypes
<1>4. SlotOK(s)'
  <2>1. thread[s] = "turn" /\ thread'[s] = "finishing" /\ mode[s] = "persistent"
    BY <1>0 DEF PersistentTurnEnds, SlotTypes
  <2>5. IF cancelled[s] THEN status'[s] = "cancelled" /\ persistent_agent'[s] = persistent_agent[s]
                        ELSE status'[s] = "idle" /\ persistent_agent'[s]
    BY <1>0 DEF PersistentTurnEnds, KeepsPersistent, SlotTypes
  <2>2. ThreadOK(s)' /\ FreshOK(s)'
    BY <1>0, <2>1, <2>5 DEF PersistentTurnEnds, counters, SlotOK, ThreadOK, FreshOK
  <2>3. AskersOK(s)' /\ QueryOK(s)'
    BY <1>0, <2>1, <2>5 DEF PersistentTurnEnds, counters, SlotOK, AskersOK, QueryOK, FreshOK
  <2>4. CancelOK(s)'
    BY <1>0, <2>1, <2>5 DEF PersistentTurnEnds, counters, SlotOK, CancelOK, ThreadOK
  <2> QED
    BY <2>2, <2>3, <2>4 DEF SlotOK
<1> QED
  BY <1>2, <1>3, <1>4, OneSlotKeeps

\* A thread retires.
LEMMA EndsKeeps ==
  ASSUME SpawnInv, NEW s \in Slots, ThreadEnds(s)
  PROVE  SpawnInv'
<1>0. SlotTypes /\ ProviderTypes /\ AgentTypes /\ PoolTypes /\ SlotOK(s)
  BY TypeParts DEF SpawnInv, SlotInv
<1>1. thread[s] = "finishing" /\ thread'[s] = "gone" /\ ~thread_valid'[s]
  BY <1>0 DEF ThreadEnds, SlotTypes
<1>5. status'[s] = IF status[s] \in {"idle", "cancelled"} THEN status[s] ELSE EndStatus(s)
  BY <1>0 DEF ThreadEnds, SlotTypes
<1>2. TypeOK'
  <2>1. SlotTypes' /\ AgentTypes' /\ PoolTypes'
    BY <1>0 DEF ThreadEnds, counters, SlotTypes, AgentTypes, PoolTypes, Statuses, EndStatus
  <2>2. ProviderTypes'
    BY <1>0, ReleaseTypes DEF ThreadEnds, ProviderTypes
  <2> QED
    BY <2>1, <2>2, TypeParts
<1>3. OneSlotStep(s)
  BY <1>0, <1>1, <1>5 DEF ThreadEnds, EndStatus, counters, OneSlotStep, Kept, SlotTypes
<1>4. SlotOK(s)'
  <2>2. ThreadOK(s)' /\ FreshOK(s)'
    BY <1>0, <1>1 DEF ThreadEnds, counters, SlotOK, ThreadOK, FreshOK
  <2>3. AskersOK(s)' /\ QueryOK(s)'
    BY <1>0, <1>1, <1>5 DEF ThreadEnds, EndStatus, counters, SlotOK, AskersOK, QueryOK, FreshOK
  <2>4. CancelOK(s)'
    BY <1>0, <1>1, <1>5 DEF ThreadEnds, EndStatus, counters, SlotOK, CancelOK, ThreadOK
  <2> QED
    BY <2>2, <2>3, <2>4 DEF SlotOK
<1> QED
  BY <1>2, <1>3, <1>4, OneSlotKeeps

\* A query takes an idle agent, ...
LEMMA QueryBeginsKeeps ==
  ASSUME SpawnInv, NEW a \in Agents, NEW s \in Slots, QueryBegins(a, s)
  PROVE  SpawnInv'
<1>0. SlotTypes /\ ProviderTypes /\ AgentTypes /\ PoolTypes /\ SlotOK(s)
  BY TypeParts DEF SpawnInv, SlotInv
<1>1. /\ used[s] /\ status[s] = "idle" /\ persistent_agent[s]
      /\ status'[s] = "running" /\ askers'[s] = askers[s] \cup {a}
      /\ queried'[s] \in {"early", "in time"}
      /\ queried'[s] # "early" => thread[s] = "gone"
  BY <1>0 DEF QueryBegins, Queryable, SlotTypes
<1>2. TypeOK'
  <2>1. SlotTypes' /\ AgentTypes' /\ PoolTypes'
    BY <1>0 DEF QueryBegins, counters, SlotTypes, AgentTypes, PoolTypes, Statuses
  <2>2. ProviderTypes'
    BY <1>0 DEF QueryBegins, ProviderTypes
  <2> QED
    BY <2>1, <2>2, TypeParts
<1>3. OneSlotStep(s)
  BY <1>0, <1>1 DEF QueryBegins, counters, OneSlotStep, Kept, SlotTypes
<1>4. SlotOK(s)'
  <2>1. ~late[s] => askers[s] = {}
    BY <1>0, <1>1 DEF SlotOK, AskersOK
  <2>2. ThreadOK(s)' /\ FreshOK(s)'
    BY <1>0, <1>1 DEF QueryBegins, counters, SlotOK, ThreadOK, FreshOK
  <2>3. AskersOK(s)' /\ QueryOK(s)'
    BY <1>0, <1>1, <2>1 DEF QueryBegins, counters, SlotOK, ThreadOK, AskersOK, QueryOK, FreshOK
  <2>4. CancelOK(s)'
    BY <1>0, <1>1 DEF CancelOK
  <2> QED
    BY <2>2, <2>3, <2>4 DEF SlotOK
<1> QED
  BY <1>2, <1>3, <1>4, OneSlotKeeps

\* ... and leaves it idle.
LEMMA QueryEndsKeeps ==
  ASSUME SpawnInv, NEW a \in Agents, NEW s \in Slots, QueryEnds(a, s)
  PROVE  SpawnInv'
<1>0. SlotTypes /\ ProviderTypes /\ AgentTypes /\ PoolTypes /\ SlotOK(s)
  BY TypeParts DEF SpawnInv, SlotInv
<1>1. a \in askers[s] /\ status'[s] = "idle" /\ askers'[s] = askers[s] \ {a}
  BY <1>0 DEF QueryEnds, SlotTypes
<1>2. TypeOK'
  <2>1. SlotTypes' /\ AgentTypes' /\ PoolTypes'
    BY <1>0 DEF QueryEnds, counters, SlotTypes, AgentTypes, PoolTypes, Statuses
  <2>2. ProviderTypes'
    BY <1>0 DEF QueryEnds, ProviderTypes
  <2> QED
    BY <2>1, <2>2, TypeParts
<1>5. ~late[s] => mode[s] = "persistent" /\ queried[s] # "never" /\ askers'[s] = {}
  BY <1>0, <1>1 DEF SlotOK, AskersOK
<1>3. OneSlotStep(s)
  BY <1>0, <1>1, <1>5 DEF QueryEnds, counters, OneSlotStep, Kept, SlotTypes
<1>4. SlotOK(s)'
  <2>2. ThreadOK(s)' /\ FreshOK(s)'
    BY <1>0, <1>1 DEF QueryEnds, counters, SlotOK, ThreadOK, FreshOK
  <2>3. AskersOK(s)' /\ QueryOK(s)'
    BY <1>0, <1>1, <1>5 DEF QueryEnds, counters, SlotOK, ThreadOK, AskersOK, QueryOK, FreshOK
  <2>4. CancelOK(s)'
    BY <1>0, <1>1, <1>5 DEF QueryEnds, CancelOK
  <2> QED
    BY <2>2, <2>3, <2>4 DEF SlotOK
<1> QED
  BY <1>2, <1>3, <1>4, OneSlotKeeps

\* An agent is cancelled, by /cancel or by a delegate that stops to wait.
LEMMA CancelKeeps ==
  ASSUME SpawnInv, NEW s \in Slots, CancelSlot(s),
         UNCHANGED <<used, agent_id, mode, thread_valid, spawn_depth, counters, thread, askers,
                     reading, owner, sweep, late, queried>>,
         delegate' \in [Agents -> 0..MaxIds], \A a \in Agents : delegate'[a] \in {delegate[a], 0}
  PROVE  SpawnInv'
<1>0. SlotTypes /\ ProviderTypes /\ AgentTypes /\ PoolTypes /\ SlotOK(s)
  BY TypeParts DEF SpawnInv, SlotInv
<1>1. /\ cancelled'[s]
      /\ IF status[s] \in {"idle", "completed"}
         THEN ~persistent_agent'[s] /\ status'[s] = "cancelled"
         ELSE persistent_agent'[s] = persistent_agent[s] /\ status'[s] = status[s]
  BY <1>0 DEF CancelSlot, TakenDownNow, SlotTypes
<1>2. TypeOK'
  <2>1. SlotTypes' /\ AgentTypes' /\ PoolTypes'
    BY <1>0 DEF CancelSlot, counters, SlotTypes, AgentTypes, PoolTypes, Statuses
  <2>2. ProviderTypes'
    BY <1>0, ReleaseTypes DEF CancelSlot, ProviderTypes
  <2> QED
    BY <2>1, <2>2, TypeParts
<1>3. OneSlotStep(s)
  BY <1>0, <1>1 DEF CancelSlot, counters, OneSlotStep, Kept, SlotTypes
<1>4. SlotOK(s)'
  <2>2. ThreadOK(s)' /\ FreshOK(s)'
    BY <1>0, <1>1 DEF SlotOK, ThreadOK, FreshOK
  <2>3. AskersOK(s)' /\ QueryOK(s)'
    BY <1>0, <1>1 DEF SlotOK, ThreadOK, AskersOK, QueryOK, FreshOK
  <2>4. CancelOK(s)'
    BY <1>0, <1>1 DEF SlotOK, CancelOK, SlotTypes, Statuses
  <2> QED
    BY <2>2, <2>3, <2>4 DEF SlotOK
<1> QED
  BY <1>2, <1>3, <1>4, OneSlotKeeps

----------------------------------------------------------------------------
(* The delegates.                                                          *)

\* A delegate that fails or has copied its text leaves everybody alone.
LEMMA DelegateEndsKeeps ==
  ASSUME SpawnInv, NEW a \in Agents, DelegateCopies(a) \/ DelegateFails(a)
  PROVE  SpawnInv'
<1>0. SlotTypes /\ ProviderTypes /\ AgentTypes /\ PoolTypes
  BY TypeParts DEF SpawnInv
<1>1. /\ UNCHANGED <<slot, counters, thread, provider, askers, owner, sweep, late, queried>>
      /\ delegate' \in {delegate, [delegate EXCEPT ![a] = 0]}
      /\ reading' \in {reading, [reading EXCEPT ![a] = None]}
  BY DEF DelegateCopies, DelegateFails
<1>2. TypeOK'
  <2>1. SlotTypes' /\ PoolTypes' /\ ProviderTypes'
    BY <1>0, <1>1 DEF slot, counters, SlotTypes, PoolTypes, ProviderTypes
  <2>2. AgentTypes'
    BY <1>0, <1>1, BoundAssumption DEF slot, AgentTypes
  <2> QED
    BY <2>1, <2>2, TypeParts
<1>3. PICK s \in Slots : TRUE
  BY SlotAssumption DEF Slots
<1>4. \A t \in Slots : Kept(t)
  BY <1>1 DEF slot, Kept
<1>5. OneSlotStep(s)
  <2>1. \A b \in Agents : delegate'[b] \in {delegate[b], 0} /\ reading'[b] \in {reading[b], None}
    BY <1>0, <1>1 DEF AgentTypes
  <2> QED
    BY <1>1, <1>4, <2>1 DEF OneSlotStep, slot, counters
<1>6. SlotOK(s)'
  BY <1>1, <1>4, KeptSlotOK DEF SpawnInv, SlotInv
<1> QED
  BY <1>2, <1>5, <1>6, OneSlotKeeps

\* A delegate that sees its child completed reads from a slot above its own.
LEMMA DelegateSeesKeeps ==
  ASSUME SpawnInv, NEW a \in Agents, DelegateSees(a)
  PROVE  SpawnInv'
<1>0. SlotTypes /\ ProviderTypes /\ AgentTypes /\ PoolTypes
  BY TypeParts DEF SpawnInv
<1>1. PICK s \in Slots : /\ used[s] /\ agent_id[s] = delegate[a] /\ status[s] = "completed"
                         /\ reading' = [reading EXCEPT ![a] = s]
  BY DEF DelegateSees, Finds
<1>2. /\ UNCHANGED <<slot, counters, thread, provider, askers, owner, sweep, late, queried>>
      /\ delegate[a] # 0 /\ delegate' = [delegate EXCEPT ![a] = 0]
  BY DEF DelegateSees
<1>3. /\ \A b \in Agents : delegate'[b] \in {delegate[b], 0}
      /\ \A b \in Agents : b # a => reading'[b] = reading[b]
      /\ reading'[a] = s /\ delegate'[a] = 0
  BY <1>0, <1>1, <1>2 DEF AgentTypes
<1>4. mode[s] = "one_shot" /\ (a # Root /\ ~late[a] /\ ~late[s] => a < s)
  BY <1>1, <1>2 DEF SpawnInv, DelegateInv
<1>5. TypeOK'
  <2>1. SlotTypes' /\ PoolTypes' /\ ProviderTypes'
    BY <1>0, <1>2 DEF slot, counters, SlotTypes, PoolTypes, ProviderTypes
  <2>2. AgentTypes'
    BY <1>0, <1>1, <1>2, BoundAssumption DEF slot, AgentTypes
  <2> QED
    BY <2>1, <2>2, TypeParts
<1>6. SlotInv'
  <2>1. \A t \in Slots : Kept(t)
    BY <1>2 DEF slot, Kept
  <2> QED
    BY <1>2, <2>1, KeptSlotOK DEF SpawnInv, SlotInv
<1>7. UpInv'
  <2>1. owner = "up" => (a \in Slots => used[a])
    BY <1>2 DEF SpawnInv, UpInv
  <2> QED
    BY <1>2, <1>3, <2>1, SlotFacts DEF SpawnInv, UpInv, slot
<1>8. SweepInv'
  BY <1>2 DEF SpawnInv, SweepInv
<1>9. IdInv'
  <2>1. \A b \in Agents : delegate'[b] < next_id
    BY <1>0, <1>3 DEF SpawnInv, IdInv, PoolTypes
  <2> QED
    BY <1>2, <2>1 DEF SpawnInv, IdInv, slot, counters
<1>10. DelegateInv'
  <2> SUFFICES ASSUME NEW b \in Agents, NEW t \in Slots
               PROVE  /\ used[t] /\ delegate'[b] # 0 /\ agent_id[t] = delegate'[b]
                           => mode[t] = "one_shot" /\ (b # Root /\ ~late[b] /\ ~late[t] => b < t)
                      /\ reading'[b] = t /\ b # Root /\ ~late[b] /\ ~late[t] => b < t
    BY <1>2 DEF DelegateInv, slot
  <2> QED
    BY <1>3, <1>4 DEF SpawnInv, DelegateInv
<1>11. CalmInv'
  <2>1. a \in Slots /\ ~late[a] => thread[a] \notin {"none", "starting"}
    BY <1>2 DEF SpawnInv, CalmInv
  <2> SUFFICES ASSUME NEW t \in Slots, thread[t] \in {"none", "starting"}, ~late[t]
               PROVE  delegate'[t] = 0 /\ reading'[t] = None
    BY <1>2 DEF CalmInv
  <2> QED
    BY <1>3, <2>1, SlotFacts DEF SpawnInv, CalmInv
<1>12. DelegateReadsLive'
  <2> SUFFICES ASSUME NEW b \in Agents, NEW t \in Slots, reading'[b] = t,
                      owner = "up" \/ (b # Root /\ thread[b] = "turn" /\ ~late[b] /\ ~late[t])
               PROVE  used[t] /\ mode[t] = "one_shot" /\ status[t] \in {"completed", "cancelled"}
    BY <1>2 DEF DelegateReadsLive, slot
  <2>1. CASE b = a
    BY <1>1, <1>3, <1>4, <2>1
  <2>2. CASE b # a
    BY <1>3, <2>2 DEF SpawnInv, DelegateReadsLive
  <2> QED
    BY <2>1, <2>2
<1> QED
  BY <1>5, <1>6, <1>7, <1>8, <1>9, <1>10, <1>11, <1>12 DEF SpawnInv
----------------------------------------------------------------------------
(* Spawning.                                                               *)

\* Who calls while the pool is up sits below the slot it gets.
LEMMA CallerBelow ==
  ASSUME SpawnInv, NEW a \in Slots, NEW s \in Slots, InTurn(a), owner = "up", FreeSlot(s)
  PROVE  used[a] /\ a < s
<1>1. used[a]
  BY CallerUsed DEF SpawnInv
<1>2. ~used[s] /\ ~(s < a)
  BY <1>1 DEF SpawnInv, UpInv, FreeSlot
<1> QED
  BY <1>1, <1>2, SlotFacts

\* A spawn fills the lowest free slot.
LEMMA SpawnKeeps ==
  ASSUME SpawnInv, NEW a \in Agents, NEW s \in Slots, NEW m \in Modes, NEW waits \in BOOLEAN,
         waits => m = "one_shot", Spawn(a, s, m, waits)
  PROVE  SpawnInv'
<1>0. SlotTypes /\ ProviderTypes /\ AgentTypes /\ PoolTypes /\ SlotOK(s)
  BY TypeParts DEF SpawnInv, SlotInv
<1>1. InTurn(a) /\ next_id <= MaxIds /\ FreeSlot(s) /\ ~used[s]
  BY DEF Spawn, MayCall, FreeSlot
<1>2. UNCHANGED <<askers, reading, owner, sweep>> /\ next_id' = next_id + 1
  BY DEF Spawn
<1>3. \A t \in Slots : t # s => Kept(t)
  BY <1>0 DEF Spawn, Kept, SlotTypes
<1>4. /\ used'[s] /\ agent_id'[s] = next_id /\ status'[s] = "running" /\ mode'[s] = m
      /\ ~cancelled'[s] /\ ~persistent_agent'[s] /\ thread_valid'[s] /\ thread'[s] = "starting"
      /\ late'[s] = (owner # "up") /\ queried'[s] = "never"
  BY <1>0 DEF Spawn, SlotTypes
<1>5. \A b \in Agents : delegate'[b] = IF waits /\ b = a THEN next_id ELSE delegate[b]
  BY <1>0 DEF Spawn, AgentTypes
<1>6. owner = "up" /\ a \in Slots => used[a] /\ a < s
  BY <1>1, CallerBelow
<1>7. /\ owner = "up" => ~late[s] /\ askers[s] = {} /\ delegate[s] = 0 /\ reading[s] = None
      /\ \A t \in Slots : ~late'[t] => ~late[t] /\ (t = s => owner = "up")
  BY <1>0, <1>1, <1>3, <1>4 DEF SpawnInv, UpInv, SlotOK, FreshOK, Kept
<1>8. TypeOK'
  <2>1. SlotTypes'
    <3>1. next_id \in 0..MaxIds /\ "running" \in Statuses
      BY <1>0, <1>1, BoundAssumption DEF PoolTypes, Statuses
    <3> QED
      BY <1>0, <3>1 DEF Spawn, SlotTypes
  <2>2. ProviderTypes'
    BY <1>0 DEF Spawn, ProviderTypes
  <2>3. AgentTypes'
    <3>1. next_id \in 0..MaxIds /\ spawn_depth[a] + 1 \in Nat /\ s \in Agents
      BY <1>0, <1>1, BoundAssumption, SlotFacts DEF PoolTypes, AgentTypes
    <3> QED
      BY <1>0, <1>2, <3>1 DEF Spawn, AgentTypes
  <2>4. PoolTypes'
    BY <1>0, <1>1, BoundAssumption DEF Spawn, PoolTypes, SpawnInv, IdInv
  <2> QED
    BY <2>1, <2>2, <2>3, <2>4, TypeParts
<1>9. SlotInv'
  <2>1. SlotOK(s)'
    <3>1. ThreadOK(s)' /\ FreshOK(s)'
      BY <1>2, <1>4 DEF ThreadOK, FreshOK
    <3>2. AskersOK(s)' /\ QueryOK(s)' /\ CancelOK(s)'
      BY <1>2, <1>4, <1>7 DEF AskersOK, QueryOK, CancelOK
    <3> QED
      BY <3>1, <3>2 DEF SlotOK
  <2>2. \A t \in Slots : t # s => SlotOK(t)'
    BY <1>2, <1>3, KeptSlotOK DEF SpawnInv, SlotInv
  <2> QED
    BY <2>1, <2>2 DEF SlotInv
<1>10. UpInv'
  <2> SUFFICES ASSUME owner = "up", NEW t \in Slots
               PROVE  /\ used'[t] => \A u \in Slots : u < t => used'[u]
                      /\ ~used'[t] => delegate'[t] = 0 /\ reading[t] = None
    BY <1>2 DEF UpInv
  <2>1. \A u \in Slots : used[u] => used'[u]
    BY <1>3, <1>4 DEF Kept
  <2>2. used'[t] => \A u \in Slots : u < t => used[u]
    BY <1>1, <1>3 DEF SpawnInv, UpInv, FreeSlot, Kept
  <2>3. ~used'[t] => ~used[t] /\ t # a
    BY <1>3, <1>4, <1>6 DEF Kept
  <2> QED
    BY <2>1, <2>2, <2>3, <1>5, SlotFacts DEF SpawnInv, UpInv
<1>11. SweepInv'
  BY <1>2, <1>3, <1>4 DEF SpawnInv, SweepInv, Kept
<1>12. IdInv'
  <2>1. next_id \in Nat /\ \A t \in Slots : agent_id[t] \in Nat
    BY IdTypes DEF SpawnInv
  <2>2. \A t \in Slots : agent_id'[t] < next_id'
    BY <1>2, <1>3, <1>4, <2>1 DEF SpawnInv, IdInv, Kept
  <2>3. \A b \in Agents : delegate'[b] < next_id'
    BY <1>0, <1>2, <1>5, <2>1 DEF SpawnInv, IdInv, AgentTypes
  <2> QED
    BY <1>0, <2>2, <2>3 DEF Spawn, SpawnInv, IdInv, PoolTypes
<1>13. DelegateInv'
  <2> SUFFICES ASSUME NEW b \in Agents, NEW t \in Slots
               PROVE  /\ used'[t] /\ delegate'[b] # 0 /\ agent_id'[t] = delegate'[b]
                           => mode'[t] = "one_shot" /\ (b # Root /\ ~late'[b] /\ ~late'[t] => b < t)
                      /\ reading[b] = t /\ b # Root /\ ~late'[b] /\ ~late'[t] => b < t
    BY <1>2 DEF DelegateInv
  <2>1. reading[b] = t /\ b # Root /\ ~late'[b] /\ ~late'[t] => b < t
    BY <1>7, SlotFacts DEF SpawnInv, DelegateInv
  <2>2. ASSUME used'[t], delegate'[b] # 0, agent_id'[t] = delegate'[b]
        PROVE  mode'[t] = "one_shot" /\ (b # Root /\ ~late'[b] /\ ~late'[t] => b < t)
    <3>0. /\ next_id \in Nat /\ agent_id[t] \in Nat /\ agent_id[t] < next_id
          /\ delegate[b] \in Nat /\ delegate[b] < next_id
      BY IdTypes DEF SpawnInv, IdInv
    <3>1. CASE t = s
      <4>1. b = a /\ waits
        BY <1>4, <1>5, <2>2, <3>0, <3>1
      <4> QED
        BY <1>4, <1>6, <1>7, <3>1, <4>1, SlotFacts
    <3>2. CASE t # s
      <4>1. Kept(t)
        BY <1>3, <3>2
      <4>2. delegate'[b] = delegate[b]
        <5>1. delegate'[b] # next_id
          BY <2>2, <3>0, <4>1 DEF Kept
        <5> QED
          BY <1>5, <5>1
      <4>3. mode[t] = "one_shot" /\ (b # Root /\ ~late[b] /\ ~late[t] => b < t)
        BY <2>2, <4>1, <4>2 DEF SpawnInv, DelegateInv, Kept
      <4> QED
        BY <1>7, <2>2, <4>1, <4>2, <4>3, SlotFacts DEF Kept
    <3> QED
      BY <3>1, <3>2
  <2> QED
    BY <2>1, <2>2
<1>14. CalmInv'
  <2> SUFFICES ASSUME NEW t \in Slots, thread'[t] \in {"none", "starting"}, ~late'[t]
               PROVE  delegate'[t] = 0 /\ reading[t] = None
    BY <1>2 DEF CalmInv
  <2>1. CASE t = s
    BY <1>5, <1>6, <1>7, <2>1, SlotFacts, <1>1
  <2>2. CASE t # s
    <3>1. thread[t] \in {"none", "starting"} /\ ~late[t]
      BY <1>3, <2>2 DEF Kept
    <3>2. t # a
      BY <1>1, <3>1, CallerHadTurn DEF SpawnInv
    <3> QED
      BY <1>5, <3>1, <3>2, SlotFacts DEF SpawnInv, CalmInv
  <2> QED
    BY <2>1, <2>2
<1>15. DelegateReadsLive'
  <2> SUFFICES ASSUME NEW b \in Agents, NEW t \in Slots, reading[b] = t,
                      owner = "up" \/ (b # Root /\ thread'[b] = "turn" /\ ~late'[b] /\ ~late'[t])
               PROVE  used'[t] /\ mode'[t] = "one_shot" /\ status'[t] \in {"completed", "cancelled"}
    BY <1>2 DEF DelegateReadsLive
  <2>1. owner = "up" \/ (b # Root /\ thread[b] = "turn" /\ ~late[b] /\ ~late[t])
    BY <1>3, <1>4, <1>7, SlotFacts DEF Kept
  <2>2. used[t] /\ mode[t] = "one_shot" /\ status[t] \in {"completed", "cancelled"}
    BY <2>1 DEF SpawnInv, DelegateReadsLive
  <2> QED
    BY <1>1, <1>3, <2>2 DEF Kept
<1> QED
  BY <1>8, <1>9, <1>10, <1>11, <1>12, <1>13, <1>14, <1>15 DEF SpawnInv

\* A spawn that fails has only spent an id.
LEMMA SpawnFailsKeeps ==
  ASSUME SpawnInv, NEW a \in Agents, NEW s \in Slots, SpawnFails(a, s)
  PROVE  SpawnInv'
<1>0. SlotTypes /\ ProviderTypes /\ AgentTypes /\ PoolTypes
  BY TypeParts DEF SpawnInv
<1>1. /\ UNCHANGED <<slot, thread, provider, askers, delegate, reading, owner, sweep, late, queried>>
      /\ next_id <= MaxIds /\ next_id' = next_id + 1
      /\ fleet_spawns_started' = fleet_spawns_started + 1
  BY DEF SpawnFails
<1>2. TypeOK'
  <2>1. SlotTypes' /\ ProviderTypes' /\ AgentTypes'
    BY <1>0, <1>1 DEF slot, SlotTypes, ProviderTypes, AgentTypes
  <2>2. PoolTypes'
    BY <1>0, <1>1, BoundAssumption DEF PoolTypes, SpawnInv, IdInv
  <2> QED
    BY <2>1, <2>2, TypeParts
<1>3. SlotInv'
  <2>1. \A t \in Slots : Kept(t)
    BY <1>1 DEF slot, Kept
  <2> QED
    BY <1>1, <2>1, KeptSlotOK DEF SpawnInv, SlotInv
<1>4. IdInv'
  <2>1. \A t \in Slots : agent_id[t] < next_id + 1
    BY IdTypes DEF SpawnInv, IdInv
  <2>2. \A b \in Agents : delegate[b] < next_id + 1
    BY <1>0 DEF SpawnInv, IdInv, PoolTypes, AgentTypes
  <2>3. next_id = fleet_spawns_started + 1
    BY DEF SpawnInv, IdInv
  <2> QED
    BY <1>1, <2>1, <2>2, <2>3 DEF IdInv, slot
<1>5. UpInv' /\ SweepInv' /\ DelegateInv' /\ CalmInv' /\ DelegateReadsLive'
  BY <1>1 DEF SpawnInv, UpInv, SweepInv, DelegateInv, CalmInv, DelegateReadsLive, slot
<1> QED
  BY <1>2, <1>3, <1>4, <1>5 DEF SpawnInv
----------------------------------------------------------------------------
(* Destroy.                                                                *)

\* Of a step of destroy only the types, the slots and the sweep itself are left to prove: a delegate
\* whose child's slot is freed sits below it, so its thread is gone.
LEMMA SweepKeeps ==
  ASSUME SpawnInv, TypeOK', SlotInv', SweepInv', owner' # "up",
         UNCHANGED <<agent_id, status, mode, counters, thread, delegate, reading, late>>,
         \A t \in Slots : used'[t] => used[t],
         \A t \in Slots : used[t] /\ ~used'[t] => t = sweep /\ owner # "up"
  PROVE  SpawnInv'
<1>1. UpInv' /\ IdInv' /\ DelegateInv' /\ CalmInv'
  BY DEF SpawnInv, UpInv, IdInv, DelegateInv, CalmInv, counters
<1>2. DelegateReadsLive'
  <2> SUFFICES ASSUME NEW b \in Agents, NEW t \in Slots, reading[b] = t,
                      b # Root /\ thread[b] = "turn" /\ ~late[b] /\ ~late[t]
               PROVE  used'[t] /\ mode[t] = "one_shot" /\ status[t] \in {"completed", "cancelled"}
    BY DEF DelegateReadsLive
  <2>1. used[t] /\ mode[t] = "one_shot" /\ status[t] \in {"completed", "cancelled"}
    BY DEF SpawnInv, DelegateReadsLive
  <2>2. b \in Slots /\ b < t
    BY SlotFacts DEF SpawnInv, DelegateInv
  <2>3. ~(t = sweep /\ owner # "up")
    BY <2>2 DEF SpawnInv, SweepInv
  <2> QED
    BY <2>1, <2>3, TypeParts DEF SlotTypes
<1> QED
  BY <1>1, <1>2 DEF SpawnInv

\* Destroy begins.
LEMMA DestroyKeeps == SpawnInv /\ Destroy => SpawnInv'
<1> SUFFICES ASSUME SpawnInv, Destroy PROVE SpawnInv'
  OBVIOUS
<1>0. SlotTypes /\ ProviderTypes /\ AgentTypes /\ PoolTypes
  BY TypeParts DEF SpawnInv
<1>1. /\ UNCHANGED <<slot, counters, thread, provider, askers, delegate, reading, late, queried>>
      /\ owner = "up" /\ owner' = "sweeping" /\ sweep' = 0
  BY DEF Destroy, MayCall, InTurn
<1>2. TypeOK'
  <2>1. SlotTypes' /\ ProviderTypes' /\ AgentTypes'
    BY <1>0, <1>1 DEF slot, SlotTypes, ProviderTypes, AgentTypes
  <2>2. PoolTypes'
    BY <1>0, <1>1, SlotAssumption DEF counters, PoolTypes
  <2> QED
    BY <2>1, <2>2, TypeParts
<1>3. SlotInv'
  <2>1. \A t \in Slots : Kept(t)
    BY <1>1 DEF slot, Kept
  <2> QED
    BY <1>1, <2>1, KeptSlotOK DEF SpawnInv, SlotInv
<1>4. SweepInv'
  BY <1>1, SlotFacts DEF SweepInv
<1> QED
  BY <1>1, <1>2, <1>3, <1>4, SweepKeeps DEF slot

\* Destroy passes a slot nobody uses, or is through.
LEMMA SkipKeeps == SpawnInv /\ (SweepSkips \/ PoolFreed) => SpawnInv'
<1> SUFFICES ASSUME SpawnInv, SweepSkips \/ PoolFreed PROVE SpawnInv'
  OBVIOUS
<1>0. SlotTypes /\ ProviderTypes /\ AgentTypes /\ PoolTypes
  BY TypeParts DEF SpawnInv
<1>1. /\ UNCHANGED <<slot, counters, thread, provider, askers, delegate, reading, late, queried>>
      /\ owner = "sweeping" /\ owner' \in {"sweeping", "freed"}
  BY DEF SweepSkips, PoolFreed
<1>2. TypeOK'
  <2>1. SlotTypes' /\ ProviderTypes' /\ AgentTypes'
    BY <1>0, <1>1 DEF slot, SlotTypes, ProviderTypes, AgentTypes
  <2>2. sweep' \in 0..SlotCount
    BY <1>0, SlotAssumption DEF SweepSkips, PoolFreed, PoolTypes
  <2>3. PoolTypes'
    BY <1>0, <1>1, <2>2 DEF counters, PoolTypes
  <2> QED
    BY <2>1, <2>3, TypeParts
<1>3. SlotInv'
  <2>1. \A t \in Slots : Kept(t)
    BY <1>1 DEF slot, Kept
  <2> QED
    BY <1>1, <2>1, KeptSlotOK DEF SpawnInv, SlotInv
<1>4. SweepInv'
  <2>1. CASE SweepSkips
    <3>1. thread[sweep] \in {"none", "gone"} /\ sweep \in Slots
      BY <1>0, <2>1, SlotAssumption DEF SweepSkips, SpawnInv, SlotInv, SlotOK, ThreadOK, PoolTypes, Slots
    <3>2. \A t \in Slots : t < sweep + 1 => t < sweep \/ t = sweep
      BY <3>1, SlotFacts
    <3> QED
      BY <1>1, <2>1, <3>1, <3>2 DEF SweepSkips, SpawnInv, SweepInv
  <2>2. CASE PoolFreed
    BY <1>1, <2>2 DEF PoolFreed, SpawnInv, SweepInv
  <2> QED
    BY <2>1, <2>2
<1> QED
  BY <1>1, <1>2, <1>3, <1>4, SweepKeeps DEF slot

\* Destroy frees a slot whose thread is gone, with or without having waited for it.
LEMMA FreeKeeps == SpawnInv /\ (SweepFrees \/ SweepJoined) => SpawnInv'
<1> SUFFICES ASSUME SpawnInv, SweepFrees \/ SweepJoined PROVE SpawnInv'
  OBVIOUS
<1>0. SlotTypes /\ ProviderTypes /\ AgentTypes /\ PoolTypes
  BY TypeParts DEF SpawnInv
<1>1. /\ FreeSlotAt(sweep)
      /\ UNCHANGED <<thread_valid, counters, thread, askers, delegate, reading, late, queried>>
      /\ owner \in {"sweeping", "joining"} /\ owner' = "sweeping"
  BY DEF SweepFrees, SweepJoined
<1>2. sweep \in Slots
  BY <1>0, SlotAssumption DEF SweepFrees, SweepJoined, SpawnInv, SweepInv, PoolTypes, Slots
<1>3. thread[sweep] = "gone"
  BY <1>2 DEF SweepFrees, SweepJoined, Joins, SpawnInv, SlotInv, SlotOK, ThreadOK
<1>4. ~used'[sweep] /\ ~persistent_agent'[sweep] /\ sweep' = sweep + 1
  BY <1>0, <1>1, <1>2 DEF FreeSlotAt, SlotTypes
<1>5. \A t \in Slots : t # sweep => Kept(t)
  BY <1>0, <1>1, <1>2 DEF FreeSlotAt, Kept, SlotTypes
<1>6. TypeOK'
  <2>1. SlotTypes' /\ AgentTypes'
    BY <1>0, <1>1 DEF FreeSlotAt, SlotTypes, AgentTypes
  <2>2. ProviderTypes'
    BY <1>0, <1>1, <1>2, ReleaseTypes DEF FreeSlotAt, ProviderTypes
  <2>3. sweep' \in 0..SlotCount
    BY <1>2, <1>4, SlotAssumption DEF Slots
  <2>4. PoolTypes'
    BY <1>0, <1>1, <2>3 DEF counters, PoolTypes
  <2> QED
    BY <2>1, <2>2, <2>4, TypeParts
<1>7. SlotInv'
  <2>1. SlotOK(sweep)
    BY <1>2 DEF SpawnInv, SlotInv
  <2>2. \A t \in Slots : t = sweep => SlotOK(t)'
    <3> SUFFICES ASSUME NEW t \in Slots, t = sweep PROVE SlotOK(t)'
      OBVIOUS
    <3>1. ThreadOK(t)' /\ FreshOK(t)' /\ QueryOK(t)' /\ CancelOK(t)'
      BY <1>1, <1>3, <1>4 DEF ThreadOK, FreshOK, QueryOK, CancelOK
    <3>2. AskersOK(t)'
      BY <1>1, <2>1 DEF SlotOK, AskersOK, FreeSlotAt
    <3> QED
      BY <3>1, <3>2 DEF SlotOK
  <2>3. \A t \in Slots : t # sweep => SlotOK(t)'
    BY <1>1, <1>5, KeptSlotOK DEF SpawnInv, SlotInv
  <2> QED
    BY <2>2, <2>3 DEF SlotInv
<1>8. SweepInv'
  <2>1. \A t \in Slots : t < sweep + 1 => t < sweep \/ t = sweep
    BY <1>2, SlotFacts
  <2> QED
    BY <1>1, <1>3, <1>4, <2>1 DEF SpawnInv, SweepInv
<1>9. \A t \in Slots : (used'[t] => used[t]) /\ (used[t] /\ ~used'[t] => t = sweep /\ owner # "up")
  BY <1>1, <1>4, <1>5 DEF Kept
<1> QED
  BY <1>1, <1>6, <1>7, <1>8, <1>9, SweepKeeps DEF FreeSlotAt

\* Destroy begins to wait for a thread.
LEMMA JoinKeeps == SpawnInv /\ SweepJoins => SpawnInv'
<1> SUFFICES ASSUME SpawnInv, SweepJoins PROVE SpawnInv'
  OBVIOUS
<1>0. SlotTypes /\ ProviderTypes /\ AgentTypes /\ PoolTypes
  BY TypeParts DEF SpawnInv
<1>1. sweep \in Slots
  BY <1>0, SlotAssumption DEF SweepJoins, PoolTypes, Slots
<1>2. TypeOK'
  <2>1. SlotTypes' /\ ProviderTypes' /\ AgentTypes' /\ PoolTypes'
    BY <1>0 DEF SweepJoins, counters, SlotTypes, ProviderTypes, AgentTypes, PoolTypes
  <2> QED
    BY <2>1, TypeParts
<1>3. SlotInv'
  <2>1. SlotOK(sweep)
    BY <1>1 DEF SpawnInv, SlotInv
  <2>2. \A t \in Slots : t = sweep => SlotOK(t)'
    <3> SUFFICES ASSUME NEW t \in Slots, t = sweep PROVE SlotOK(t)'
      OBVIOUS
    <3>1. ThreadOK(t)' /\ FreshOK(t)' /\ QueryOK(t)' /\ CancelOK(t)'
      BY <2>1 DEF SweepJoins, SlotOK, ThreadOK, FreshOK, QueryOK, CancelOK
    <3>2. AskersOK(t)'
      BY <2>1 DEF SweepJoins, SlotOK, AskersOK
    <3> QED
      BY <3>1, <3>2 DEF SlotOK
  <2>3. \A t \in Slots : t # sweep => Kept(t)
    BY <1>0 DEF SweepJoins, Kept, SlotTypes
  <2>4. \A t \in Slots : t # sweep => SlotOK(t)'
    BY <2>3, KeptSlotOK DEF SweepJoins, SpawnInv, SlotInv
  <2> QED
    BY <2>2, <2>4 DEF SlotInv
<1>4. SweepInv'
  BY DEF SweepJoins, SpawnInv, SweepInv
<1> QED
  BY <1>2, <1>3, <1>4, SweepKeeps DEF SweepJoins
----------------------------------------------------------------------------
(* The whole specification.                                                *)

\* The pool starts with all its slots free.
LEMMA InitSpawn == Init => SpawnInv
<1> SUFFICES ASSUME Init PROVE SpawnInv
  OBVIOUS
<1>1. TypeOK
  <2>1. SlotTypes /\ ProviderTypes
    BY BoundAssumption DEF Init, SlotTypes, ProviderTypes, Statuses, Modes
  <2>2. AgentTypes /\ PoolTypes
    BY BoundAssumption, SlotAssumption DEF Init, AgentTypes, PoolTypes
  <2> QED
    BY <2>1, <2>2, TypeParts
<1>2. SlotInv
  BY DEF Init, SlotInv, SlotOK, ThreadOK, FreshOK, AskersOK, QueryOK, CancelOK
<1>3. UpInv /\ SweepInv /\ IdInv /\ DelegateInv /\ CalmInv /\ DelegateReadsLive
  BY SlotFacts DEF Init, UpInv, SweepInv, IdInv, DelegateInv, CalmInv, DelegateReadsLive
<1> QED
  BY <1>1, <1>2, <1>3 DEF SpawnInv

\* Every step of the pool keeps the invariant.
LEMMA StepSpawn == SpawnInv /\ [Next]_vars => SpawnInv'
<1> SUFFICES ASSUME SpawnInv, [Next]_vars PROVE SpawnInv'
  OBVIOUS
<1>1. ASSUME NEW s \in Slots, ThreadStep(s) PROVE SpawnInv'
  BY <1>1, StartsKeeps, EndsKeeps DEF ThreadStep
<1>2. ASSUME NEW s \in Slots, TurnEnds(s) PROVE SpawnInv'
  BY <1>2, OneShotKeeps, PersistentKeeps, QueryEndsKeeps DEF TurnEnds
<1>3. ASSUME NEW s \in Slots, Cancel(s) PROVE SpawnInv'
  <2>1. UNCHANGED delegate /\ delegate \in [Agents -> 0..MaxIds]
    BY <1>3 DEF Cancel, SpawnInv, TypeOK
  <2> QED
    BY <1>3, <2>1, CancelKeeps DEF Cancel
<1>4. ASSUME NEW a \in Agents, DelegateStep(a) PROVE SpawnInv'
  <2>1. CASE DelegateTimesOut(a)
    <3>1. PICK s \in Slots : CancelSlot(s)
      BY <2>1 DEF DelegateTimesOut
    <3>2. delegate \in [Agents -> 0..MaxIds] /\ 0 \in 0..MaxIds
      BY BoundAssumption, TypeParts DEF SpawnInv, AgentTypes
    <3>3. delegate' \in [Agents -> 0..MaxIds] /\ \A b \in Agents : delegate'[b] \in {delegate[b], 0}
      BY <2>1, <3>2 DEF DelegateTimesOut
    <3> QED
      BY <2>1, <3>1, <3>3, CancelKeeps DEF DelegateTimesOut
  <2> QED
    BY <1>4, <2>1, DelegateSeesKeeps, DelegateEndsKeeps DEF DelegateStep
<1>5. ASSUME NEW a \in Agents, AgentCalls(a) PROVE SpawnInv'
  <2>1. PICK s \in Slots : \/ \E m \in Modes : Spawn(a, s, m, FALSE)
                           \/ Spawn(a, s, "one_shot", TRUE)
                           \/ SpawnFails(a, s) \/ QueryBegins(a, s)
    BY <1>5 DEF AgentCalls
  <2>2. ASSUME NEW m \in Modes, Spawn(a, s, m, FALSE) PROVE SpawnInv'
    BY <2>2, SpawnKeeps
  <2>3. CASE Spawn(a, s, "one_shot", TRUE)
    <3>1. "one_shot" \in Modes
      BY DEF Modes
    <3> QED
      BY <2>3, <3>1, SpawnKeeps
  <2> QED
    BY <2>1, <2>2, <2>3, SpawnFailsKeeps, QueryBeginsKeeps
<1>6. CASE Destroy \/ SweepStep
  BY <1>6, DestroyKeeps, SkipKeeps, FreeKeeps, JoinKeeps DEF SweepStep
<1>7. CASE UNCHANGED vars
  <2>1. TypeOK'
    <3>1. SlotTypes' /\ ProviderTypes' /\ AgentTypes' /\ PoolTypes'
      BY <1>7, TypeParts
         DEF SpawnInv, vars, slot, counters, SlotTypes, ProviderTypes, AgentTypes, PoolTypes
    <3> QED
      BY <3>1, TypeParts
  <2>2. SlotInv'
    <3>1. \A t \in Slots : Kept(t)
      BY <1>7 DEF vars, slot, Kept
    <3> QED
      BY <1>7, <3>1, KeptSlotOK DEF SpawnInv, SlotInv, vars
  <2>3. UpInv' /\ SweepInv' /\ IdInv' /\ DelegateInv' /\ CalmInv' /\ DelegateReadsLive'
    BY <1>7 DEF SpawnInv, UpInv, SweepInv, IdInv, DelegateInv, CalmInv, DelegateReadsLive, vars, slot, counters
  <2> QED
    BY <2>1, <2>2, <2>3 DEF SpawnInv
<1> QED
  BY <1>1, <1>2, <1>3, <1>4, <1>5, <1>6, <1>7 DEF Next

\* The inductive invariant holds throughout.
THEOREM SpawnInvariant == Spec => []SpawnInv
BY InitSpawn, StepSpawn, PTL DEF Spec

\* Every variable of the pool keeps its type: no slot, id, counter or sweep goes out of range.
THEOREM SpawnTypes == Spec => []TypeOK
<1>1. SpawnInv => TypeOK
  BY DEF SpawnInv
<1> QED
  BY <1>1, SpawnInvariant, PTL

\* No agent is in two turns at once: a query gets it only after its first turn, and alone.
THEOREM SpawnOneTurnPerAgent == Spec => []OneTurnPerAgent
<1>1. SpawnInv => OneTurnPerAgent
  <2> SUFFICES ASSUME SpawnInv, NEW s \in Slots, askers[s] # {}, ~late[s]
               PROVE  Cardinality(askers[s]) = 1 /\ thread[s] \in {"finishing", "gone"}
    BY DEF OneTurnPerAgent
  <2>1. thread[s] \in {"finishing", "gone"} /\ \E a \in Agents : askers[s] = {a}
    BY DEF SpawnInv, SlotInv, SlotOK, AskersOK
  <2>2. PICK a \in Agents : askers[s] = {a}
    BY <2>1
  <2>3. Cardinality({a}) = 1
    BY FS_Singleton
  <2> QED
    BY <2>1, <2>2, <2>3
<1> QED
  BY <1>1, SpawnInvariant, PTL

\* A query that began after the agent's thread had retired keeps its agent while the pool is up.
THEOREM SpawnQueryKeepsAgent == Spec => []QueryKeepsAgent
<1>1. SpawnInv => QueryKeepsAgent
  BY DEF SpawnInv, SlotInv, SlotOK, QueryOK, QueryKeepsAgent
<1> QED
  BY <1>1, SpawnInvariant, PTL

\* Destroy leaves no thread behind that was there when it began.
THEOREM SpawnFreedQuietly == Spec => []FreedQuietly
<1>1. SpawnInv => FreedQuietly
  BY SlotFacts DEF SpawnInv, SweepInv, FreedQuietly
<1> QED
  BY <1>1, SpawnInvariant, PTL

\* The text a delegate copies without the mutex is still its child's completed result.
THEOREM SpawnDelegateReadsLive == Spec => []DelegateReadsLive
<1>1. SpawnInv => DelegateReadsLive
  BY DEF SpawnInv
<1> QED
  BY <1>1, SpawnInvariant, PTL

\* A cancel that comes before the agent was ever queried is obeyed.
THEOREM SpawnCancelObeyed == Spec => []CancelObeyed
<1>1. SpawnInv => CancelObeyed
  BY DEF SpawnInv, SlotInv, SlotOK, CancelOK, CancelObeyed
<1> QED
  BY <1>1, SpawnInvariant, PTL
=============================================================================
