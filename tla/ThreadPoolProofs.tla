-------------------------- MODULE ThreadPoolProofs --------------------------
(***************************************************************************)
(* The gateway's worker pool for any number of workers, submitters and     *)
(* items and any size of the ring: its types, the exactness of its count   *)
(* of busy workers, and that it implements WorkQueue.                      *)
(***************************************************************************)
EXTENDS ThreadPool, Integers, FiniteSetTheorems, TLAPS

\* The index k places behind h in the ring.
Slot(h, k) == (h + k) % Size

\* Where the ring ends: tail is count places behind head.
RingInv == tail = Slot(head, count)

\* A call inside submit has an item.
ArgInv == \A p \in Submitters : submit[p] # "out" => arg[p] \in Items

\* TypeOK but for busy_count, whose bound rests on ActiveIsExact.
RingTypes ==
  /\ queue \in [0..Size - 1 -> Items \cup {NoItem}]
  /\ head \in 0..Size - 1 /\ tail \in 0..Size - 1 /\ count \in 0..Size

ThreadTypes ==
  /\ worker \in [Workers -> {"absent", "ready", "parking", "waiting", "running", "exited"}]
  /\ item \in [Workers -> Items \cup {NoItem}]
  /\ submit \in [Submitters -> {"out", "entering", "waiting", "woken"}]
  /\ arg \in [Submitters -> Items \cup {NoItem}]

StateTypes ==
  /\ shutdown \in BOOLEAN /\ mutex \subseteq Workers
  /\ owner \in {"creating", "undoing", "unjoined", "failed", "up", "joining", "freed"}
  /\ submitted \subseteq Items
  /\ spurious \in 0..MaxSpurious

\* The inductive invariant.
PoolInv ==
  /\ RingTypes
  /\ ThreadTypes
  /\ StateTypes
  /\ RingInv
  /\ ArgInv
  /\ ActiveIsExact

----------------------------------------------------------------------------
\* Going round the ring takes one subtraction at most.
LEMMA SlotIs ==
  ASSUME NEW h \in 0..Size - 1, NEW k \in 0..Size
  PROVE  Slot(h, k) = (IF h + k < Size THEN h + k ELSE h + k - Size)
<1>1. CASE h + k < Size
  BY <1>1, PoolSize DEF Slot
<1>2. CASE h + k >= Size
  BY <1>2, PoolSize DEF Slot
<1> QED
  BY <1>1, <1>2, PoolSize

\* The head moves on by one item: what was k + 1 behind it is k behind it now.
LEMMA SlotMoves ==
  ASSUME NEW h \in 0..Size - 1, NEW k \in 0..Size - 1
  PROVE  /\ Slot(h, 1) \in 0..Size - 1
         /\ Slot(Slot(h, 1), k) = Slot(h, k + 1)
         /\ Slot(Slot(h, k), 1) = Slot(h, k + 1)
         /\ Slot(h, k) \in 0..Size - 1
<1>1. Slot(h, 1) = (IF h + 1 < Size THEN h + 1 ELSE 0) /\ Slot(h, 1) \in 0..Size - 1
  BY SlotIs, PoolSize
<1>2. Slot(h, k) = (IF h + k < Size THEN h + k ELSE h + k - Size) /\ Slot(h, k) \in 0..Size - 1
  BY SlotIs, PoolSize
<1>3. Slot(h, k + 1) = (IF h + (k + 1) < Size THEN h + (k + 1) ELSE h + (k + 1) - Size)
  BY SlotIs, PoolSize
<1>4. ASSUME NEW g \in 0..Size - 1
      PROVE  Slot(g, 1) = (IF g + 1 < Size THEN g + 1 ELSE 0)
             /\ Slot(g, k) = (IF g + k < Size THEN g + k ELSE g + k - Size)
  BY SlotIs, PoolSize
<1>5. Slot(Slot(h, 1), k) = Slot(h, k + 1)
  BY <1>1, <1>3, <1>4, PoolSize
<1>6. Slot(Slot(h, k), 1) = Slot(h, k + 1)
  BY <1>2, <1>3, <1>4, PoolSize
<1> QED
  BY <1>1, <1>2, <1>5, <1>6

\* What signals and broadcasts do to the threads' places: some of those that wait go on.
LEMMA SignalNotEmptyEffect ==
  ASSUME ThreadTypes, SignalNotEmpty(worker)
  PROVE  /\ worker' \in [Workers -> {"absent", "ready", "parking", "waiting", "running", "exited"}]
         /\ \A v \in Workers : worker'[v] = "running" <=> worker[v] = "running"
BY DEF SignalNotEmpty, ThreadTypes

\* The same for a submitter that is told that there is room.
LEMMA SignalNotFullEffect ==
  ASSUME ThreadTypes, SignalNotFull
  PROVE  /\ submit' \in [Submitters -> {"out", "entering", "waiting", "woken"}]
         /\ \A p \in Submitters : submit'[p] = "out" <=> submit[p] = "out"
BY DEF SignalNotFull, ThreadTypes

\* Broadcasts do it to all that wait.
LEMMA BroadcastEffect ==
  ASSUME ThreadTypes
  PROVE  /\ BroadcastNotEmpty =>
              /\ worker' \in [Workers -> {"absent", "ready", "parking", "waiting", "running", "exited"}]
              /\ \A v \in Workers : worker'[v] = "running" <=> worker[v] = "running"
         /\ BroadcastNotFull =>
              /\ submit' \in [Submitters -> {"out", "entering", "waiting", "woken"}]
              /\ \A p \in Submitters : submit'[p] = "out" <=> submit[p] = "out"
BY DEF BroadcastNotEmpty, BroadcastNotFull, ThreadTypes

\* The running workers are finitely many, at most all of them.
LEMMA RunningFinite ==
  IsFiniteSet(Running) /\ Cardinality(Running) \in 0..Cardinality(Workers)
<1>1. Running \subseteq Workers
  BY DEF Running
<1> QED
  BY <1>1, PoolThreads, FS_Subset, FS_CardinalityType

\* One worker more runs when an item is taken up.
LEMMA OneMoreRunning ==
  ASSUME NEW w \in Workers, worker[w] # "running", Running' = Running \cup {w}
  PROVE  Cardinality(Running') = Cardinality(Running) + 1
<1>1. w \notin Running
  BY DEF Running
<1> QED
  BY <1>1, RunningFinite, FS_AddElement

\* One less when it is finished.
LEMMA OneLessRunning ==
  ASSUME NEW w \in Workers, worker[w] = "running", Running' = Running \ {w}
  PROVE  Cardinality(Running') = Cardinality(Running) - 1
<1>1. w \in Running
  BY DEF Running
<1> QED
  BY <1>1, RunningFinite, FS_RemoveElement

\* As long as no worker starts or ends an item the count of busy ones stays exact.
LEMMA SameRunning ==
  ASSUME \A v \in Workers : worker'[v] = "running" <=> worker[v] = "running"
  PROVE  Running' = Running
BY DEF Running

\* The pool starts in the invariant.
LEMMA PoolInit == Init => PoolInv
<1> SUFFICES ASSUME Init PROVE PoolInv
  OBVIOUS
<1> USE DEF Init
<1>1. RingTypes /\ ThreadTypes /\ ArgInv
  BY PoolSize DEF RingTypes, ThreadTypes, ArgInv
<1>5. StateTypes
  <2>1. 0 \in 0..MaxSpurious
    BY PoolLimits
  <2> QED
    BY <2>1, Zenon DEF StateTypes
<1>2. RingInv
  BY SlotIs, PoolSize DEF RingInv
<1>3. Running = {}
  BY DEF Running
<1>4. ActiveIsExact
  BY <1>3, FS_EmptySet DEF ActiveIsExact
<1> QED
  BY <1>1, <1>2, <1>4, <1>5 DEF PoolInv

\* The worker's steps.  Two of them move an item out of the ring and out of the pool.
LEMMA WorkerKeeps ==
  ASSUME PoolInv, NEW w \in Workers, WorkerStep(w)
  PROVE  PoolInv'
<1> USE DEF PoolInv
<1>1. CASE WorkerParks(w) \/ WorkerWaits(w) \/ WorkerExits(w)
  <2> USE DEF WorkerParks, WorkerWaits, WorkerExits, ring
  <2>1. RingTypes' /\ RingInv' /\ ArgInv'
    BY <1>1 DEF RingTypes, RingInv, ArgInv
  <2>2. ThreadTypes' /\ StateTypes'
    BY <1>1 DEF ThreadTypes, StateTypes
  <2>3. \A v \in Workers : worker'[v] = "running" <=> worker[v] = "running"
    BY <1>1 DEF ThreadTypes
  <2>4. ActiveIsExact'
    BY <1>1, <2>3, SameRunning DEF ActiveIsExact
  <2> QED
    BY <2>1, <2>2, <2>4
<1>2. CASE WorkerTakes(w)
  <2> USE DEF WorkerTakes
  <2>1. head' = Slot(head, 1) /\ head' \in 0..Size - 1 /\ count' \in 0..Size - 1
    BY <1>2, SlotMoves, PoolSize DEF RingTypes, AdvanceHead, Slot
  <2>2. RingTypes' /\ RingInv'
    <3>1. Slot(Slot(head, 1), count') = Slot(head, count' + 1)
      BY <2>1, SlotMoves DEF RingTypes
    <3>2. count' + 1 = count
      BY <1>2 DEF RingTypes
    <3>3. tail' = Slot(head', count')
      BY <1>2, <2>1, <3>1, <3>2 DEF RingInv
    <3> QED
      BY <1>2, <2>1, <3>3, PoolSize DEF RingTypes, RingInv
  <2>3. ThreadTypes'
    BY <1>2, SignalNotFullEffect DEF ThreadTypes, RingTypes, AtHead
  <2>4. StateTypes' /\ ArgInv'
    BY <1>2, SignalNotFullEffect DEF StateTypes, ArgInv
  <2>5. Running' = Running \cup {w}
    BY <1>2 DEF Running, ThreadTypes
  <2>6. ActiveIsExact'
    BY <1>2, <2>5, OneMoreRunning DEF ActiveIsExact
  <2> QED
    BY <2>2, <2>3, <2>4, <2>6
<1>3. CASE WorkerFinishes(w)
  <2> USE DEF WorkerFinishes
  <2>1. RingTypes' /\ RingInv' /\ ArgInv' /\ StateTypes'
    BY <1>3 DEF RingTypes, RingInv, ArgInv, StateTypes
  <2>2. ThreadTypes'
    BY <1>3 DEF ThreadTypes
  <2>3. Running' = Running \ {w}
    BY <1>3 DEF Running, ThreadTypes
  <2>4. ActiveIsExact'
    BY <1>3, <2>3, OneLessRunning DEF ActiveIsExact, NoLongerBusy
  <2> QED
    BY <2>1, <2>2, <2>4
<1> QED
  BY <1>1, <1>2, <1>3 DEF WorkerStep

\* The submitter's steps.
LEMMA SubmitKeeps ==
  ASSUME PoolInv, NEW p \in Submitters,
         SubmitStep(p) \/ \E x \in Items : SubmitCalled(p, x)
  PROVE  PoolInv'
<1> USE DEF PoolInv
<1>1. CASE SubmitRefused(p) \/ SubmitWaits(p) \/ \E x \in Items : SubmitCalled(p, x)
  <2> USE DEF SubmitRefused, SubmitWaits, SubmitCalled, ring
  <2>1. RingTypes' /\ RingInv' /\ StateTypes'
    BY <1>1 DEF RingTypes, RingInv, StateTypes
  <2>2. ThreadTypes'
    BY <1>1 DEF ThreadTypes
  <2>3. ArgInv'
    BY <1>1 DEF ThreadTypes, ArgInv
  <2>4. ActiveIsExact'
    BY <1>1 DEF ActiveIsExact, Running
  <2> QED
    BY <2>1, <2>2, <2>3, <2>4
<1>2. CASE SubmitQueues(p)
  <2> USE DEF SubmitQueues
  <2>1. tail' = Slot(tail, 1) /\ tail' \in 0..Size - 1 /\ count \in 0..Size - 1
    BY <1>2, SlotMoves, PoolSize DEF RingTypes, Room, Slot
  <2>2. RingInv'
    <3>1. Slot(Slot(head, count), 1) = Slot(head, count + 1)
      BY <2>1, SlotMoves DEF RingTypes
    <3> QED
      BY <1>2, <2>1, <3>1 DEF RingInv
  <2>5. RingTypes'
    BY <1>2, <2>1, PoolSize DEF RingTypes, ThreadTypes
  <2>3. ThreadTypes' /\ Running' = Running
    BY <1>2, SignalNotEmptyEffect, SameRunning DEF ThreadTypes
  <2>4. StateTypes' /\ ArgInv' /\ ActiveIsExact'
    BY <1>2, <2>3 DEF StateTypes, ArgInv, ThreadTypes, ActiveIsExact
  <2> QED
    BY <2>2, <2>3, <2>4, <2>5
<1> QED
  BY <1>1, <1>2 DEF SubmitStep

\* The owner's steps, and wakeups nobody asked for: the ring is not touched.
LEMMA OwnerKeeps ==
  ASSUME PoolInv, OwnerStep \/ CreateFails \/ Destroy \/ SpuriousWakeup
  PROVE  PoolInv'
<1> USE DEF PoolInv
<1>1. UNCHANGED <<queue, head, tail, count, busy_count, item, arg, submitted, mutex>>
  BY DEF OwnerStep, CreateThread, UndoBroadcast, UndoJoin, DestroyJoin, CreateFails, Destroy,
         SpuriousWakeup, ring
<1>2. RingTypes' /\ RingInv'
  BY <1>1 DEF RingTypes, RingInv
<1>3. StateTypes'
  <2>1. /\ shutdown' \in {shutdown, TRUE}
        /\ owner' \in {owner, "creating", "undoing", "unjoined", "failed", "up", "joining", "freed"}
    BY DEF OwnerStep, CreateThread, UndoBroadcast, UndoJoin, DestroyJoin, CreateFails, Destroy,
           SpuriousWakeup
  <2>2. spurious' \in 0..MaxSpurious
    BY PoolLimits DEF StateTypes, OwnerStep, CreateThread, UndoBroadcast, UndoJoin, DestroyJoin,
                      CreateFails, Destroy, SpuriousWakeup
  <2> QED
    BY <1>1, <2>1, <2>2 DEF StateTypes
<1>4. /\ worker' \in [Workers -> {"absent", "ready", "parking", "waiting", "running", "exited"}]
      /\ \A v \in Workers : worker'[v] = "running" <=> worker[v] = "running"
  BY BroadcastEffect DEF OwnerStep, CreateThread, UndoBroadcast, UndoJoin, DestroyJoin, CreateFails,
                         Destroy, SpuriousWakeup, ThreadTypes
<1>5. /\ submit' \in [Submitters -> {"out", "entering", "waiting", "woken"}]
      /\ \A p \in Submitters : submit'[p] = "out" <=> submit[p] = "out"
  BY BroadcastEffect DEF OwnerStep, CreateThread, UndoBroadcast, UndoJoin, DestroyJoin, CreateFails,
                         Destroy, SpuriousWakeup, ThreadTypes
<1>6. ThreadTypes' /\ ArgInv'
  BY <1>1, <1>4, <1>5 DEF ThreadTypes, ArgInv
<1>7. ActiveIsExact'
  BY <1>1, <1>4, SameRunning DEF ActiveIsExact
<1> QED
  BY <1>2, <1>3, <1>6, <1>7

\* The invariant holds whatever the threads do.
THEOREM PoolInvariant == Spec => []PoolInv
<1>1. PoolInv /\ [Next]_vars => PoolInv'
  <2> SUFFICES ASSUME PoolInv, [Next]_vars PROVE PoolInv'
    OBVIOUS
  <2>1. CASE Next
    BY <2>1, WorkerKeeps, SubmitKeeps, OwnerKeeps DEF Next
  <2>2. CASE UNCHANGED vars
    BY <2>2 DEF PoolInv, vars, ring, RingTypes, ThreadTypes, StateTypes, RingInv, ArgInv, ActiveIsExact,
                Running
  <2> QED
    BY <2>1, <2>2
<1> QED
  BY <1>1, PoolInit, PTL DEF Spec

\* Every variable of the pool keeps its type: in particular the ring never holds more than
\* POOL_QUEUE_SIZE items and busy_count never falls below zero.
THEOREM PoolTypes == Spec => []TypeOK
<1>1. PoolInv => TypeOK
  BY RunningFinite DEF PoolInv, RingTypes, ThreadTypes, StateTypes, ActiveIsExact, TypeOK
<1> QED
  BY <1>1, PoolInvariant, PTL

\* hu_thread_pool_active reports the workers that run an item, for any number of them.
THEOREM PoolActiveIsExact == Spec => []ActiveIsExact
<1>1. PoolInv => ActiveIsExact
  BY DEF PoolInv
<1> QED
  BY <1>1, PoolInvariant, PTL

----------------------------------------------------------------------------
(* The refinement: what is in the ring from the head on is the abstract queue.                    *)

\* What a slot of the ring may hold.
Cell == Items \cup {NoItem}

\* The n items of the ring q from index h on.
FromHead(q, h, n) == [i \in 1..n |-> q[Slot(h, i - 1)]]

\* They are a sequence of length n.
LEMMA FromHeadIsSeq ==
  ASSUME NEW q \in [0..Size - 1 -> Cell], NEW h \in 0..Size - 1, NEW n \in 0..Size
  PROVE  /\ FromHead(q, h, n) \in Seq(Cell) /\ Len(FromHead(q, h, n)) = n
         /\ \A i \in 1..n : FromHead(q, h, n)[i] = q[Slot(h, i - 1)]
<1>1. ASSUME NEW i \in 1..n
      PROVE  q[Slot(h, i - 1)] \in Cell
  <2>1. i - 1 \in 0..Size - 1
    BY PoolSize
  <2> QED
    BY <2>1, SlotMoves
<1> QED
  BY <1>1 DEF FromHead

\* Different places in the ring are different slots.
LEMMA SlotsDiffer ==
  ASSUME NEW h \in 0..Size - 1, NEW j \in 0..Size - 1, NEW k \in 0..Size - 1, j # k
  PROVE  Slot(h, j) # Slot(h, k)
<1>1. /\ Slot(h, j) = (IF h + j < Size THEN h + j ELSE h + j - Size)
      /\ Slot(h, k) = (IF h + k < Size THEN h + k ELSE h + k - Size)
  BY SlotIs, PoolSize
<1> QED
  BY <1>1, PoolSize

\* An item put n places behind the head is the last of the sequence ...
LEMMA FromHeadAppends ==
  ASSUME NEW q \in [0..Size - 1 -> Cell], NEW h \in 0..Size - 1, NEW n \in 0..Size - 1,
         NEW x \in Cell, NEW r \in [0..Size - 1 -> Cell],
         r[Slot(h, n)] = x, \A j \in 0..Size - 1 : j # Slot(h, n) => r[j] = q[j]
  PROVE  FromHead(r, h, n + 1) = Append(FromHead(q, h, n), x)
<1>3. ASSUME NEW i \in 1..n
      PROVE  r[Slot(h, i - 1)] = q[Slot(h, i - 1)]
  <2>1. i - 1 \in 0..Size - 1 /\ i - 1 # n
    BY PoolSize
  <2>2. Slot(h, i - 1) # Slot(h, n) /\ Slot(h, i - 1) \in 0..Size - 1
    BY <2>1, SlotsDiffer, SlotMoves
  <2> QED
    BY <2>2
<1>4. n + 1 \in 0..Size /\ n \in 0..Size
  BY PoolSize
<1>5. /\ FromHead(r, h, n + 1) \in Seq(Cell) /\ Len(FromHead(r, h, n + 1)) = n + 1
      /\ \A i \in 1..n + 1 : FromHead(r, h, n + 1)[i] = r[Slot(h, i - 1)]
  BY <1>4, FromHeadIsSeq
<1>6. /\ FromHead(q, h, n) \in Seq(Cell) /\ Len(FromHead(q, h, n)) = n
      /\ \A i \in 1..n : FromHead(q, h, n)[i] = q[Slot(h, i - 1)]
  BY <1>4, FromHeadIsSeq
<1>7. \A i \in 1..n + 1 : FromHead(r, h, n + 1)[i] = Append(FromHead(q, h, n), x)[i]
  <2> SUFFICES ASSUME NEW i \in 1..n + 1
               PROVE  FromHead(r, h, n + 1)[i] = Append(FromHead(q, h, n), x)[i]
    OBVIOUS
  <2>1. CASE i = n + 1
    <3>1. FromHead(r, h, n + 1)[i] = r[Slot(h, n)]
      BY <1>5, <2>1
    <3> QED
      BY <3>1, <1>6, <2>1
  <2>2. CASE i # n + 1
    <3>1. i \in 1..n
      BY <2>2
    <3>2. FromHead(r, h, n + 1)[i] = q[Slot(h, i - 1)]
      BY <1>3, <1>5, <3>1
    <3> QED
      BY <3>1, <3>2, <1>6
  <2> QED
    BY <2>1, <2>2
<1> QED
  BY <1>5, <1>6, <1>7

\* ... and moving the head on takes the first one away.
LEMMA FromHeadTail ==
  ASSUME NEW q \in [0..Size - 1 -> Cell], NEW h \in 0..Size - 1, NEW n \in 1..Size
  PROVE  /\ FromHead(q, h, n) # << >>
         /\ Head(FromHead(q, h, n)) = q[h]
         /\ FromHead(q, Slot(h, 1), n - 1) = Tail(FromHead(q, h, n))
<1>1. n \in 0..Size /\ n - 1 \in 0..Size /\ 0 \in 0..Size - 1
  BY PoolSize
<1>2. Slot(h, 1) \in 0..Size - 1
  BY <1>1, SlotMoves
<1>3. /\ FromHead(q, h, n) \in Seq(Cell) /\ Len(FromHead(q, h, n)) = n
      /\ \A i \in 1..n : FromHead(q, h, n)[i] = q[Slot(h, i - 1)]
  BY <1>1, FromHeadIsSeq
<1>4. /\ FromHead(q, Slot(h, 1), n - 1) \in Seq(Cell) /\ Len(FromHead(q, Slot(h, 1), n - 1)) = n - 1
      /\ \A i \in 1..n - 1 : FromHead(q, Slot(h, 1), n - 1)[i] = q[Slot(Slot(h, 1), i - 1)]
  BY <1>1, <1>2, FromHeadIsSeq
<1>5. Slot(h, 0) = h
  BY <1>1, SlotIs, PoolSize
<1>6. FromHead(q, h, n)[1] = q[h]
  BY <1>3, <1>5
<1>7. ASSUME NEW i \in 1..n - 1
      PROVE  FromHead(q, Slot(h, 1), n - 1)[i] = FromHead(q, h, n)[i + 1]
  <2>1. i - 1 \in 0..Size - 1 /\ (i - 1) + 1 = i /\ i + 1 \in 1..n /\ (i + 1) - 1 = i
    BY PoolSize
  <2>2. Slot(Slot(h, 1), i - 1) = Slot(h, i)
    BY <2>1, SlotMoves
  <2>3. FromHead(q, h, n)[i + 1] = q[Slot(h, i)]
    BY <1>3, <2>1
  <2> QED
    BY <1>4, <2>2, <2>3
<1>8. FromHead(q, Slot(h, 1), n - 1) = Tail(FromHead(q, h, n))
  BY <1>3, <1>4, <1>7
<1> QED
  BY <1>3, <1>6, <1>8

\* The queue of the refinement mapping is the ring from the head on.
LEMMA QueuedFromHead ==
  ASSUME NEW h \in 0..Size - 1, NEW n \in 0..Size, NEW q
  PROVE  [i \in 1..n |-> q[(h + i - 1) % Size]] = FromHead(q, h, n)
<1>1. \A i \in 1..n : h + i - 1 = h + (i - 1)
  OBVIOUS
<1> QED
  BY <1>1 DEF FromHead, Slot

\* The items in the workers' hands.
Active == {<<w, item[w]>> : w \in Running}

\* The abstract step of each concrete one: an item is taken up or finished, ...
LEMMA WorkerRefines ==
  ASSUME PoolInv, PoolInv', NEW w \in Workers, WorkerStep(w)
  PROVE  WQ!Next \/ UNCHANGED WQ!vars
<1> USE DEF PoolInv
<1>1. CASE WorkerParks(w) \/ WorkerWaits(w) \/ WorkerExits(w)
  <2>1. UNCHANGED <<queue, head, count, item, shutdown>>
    BY <1>1 DEF WorkerParks, WorkerWaits, WorkerExits, ring
  <2>2. Running' = Running
    BY <1>1 DEF WorkerParks, WorkerWaits, WorkerExits, Running, ThreadTypes
  <2> QED
    BY <2>1, <2>2 DEF WQ!vars, Queued
<1>2. CASE WorkerTakes(w)
  <2>1. Queued = FromHead(queue, head, count)
    BY QueuedFromHead DEF Queued, RingTypes
  <2>2. Queued' = FromHead(queue, Slot(head, 1), count - 1)
    <3>1. head' = Slot(head, 1) /\ count' = count - 1 /\ UNCHANGED queue
      BY <1>2 DEF WorkerTakes, AdvanceHead, Slot
    <3>2. [i \in 1..count' |-> queue'[(head' + i - 1) % Size]] = FromHead(queue', head', count')
      BY QueuedFromHead DEF RingTypes
    <3> QED
      BY <3>1, <3>2 DEF Queued
  <2>3. count \in 1..Size
    BY <1>2 DEF WorkerTakes, RingTypes
  <2>4. Queued # << >> /\ Head(Queued) = queue[head] /\ Queued' = Tail(Queued)
    BY <2>1, <2>2, <2>3, FromHeadTail DEF RingTypes, Cell
  <2>5. Running' = Running \cup {w} /\ w \notin Running
    BY <1>2 DEF WorkerTakes, Running, ThreadTypes
  <2>6. item' = [item EXCEPT ![w] = queue[head]] /\ UNCHANGED shutdown
    BY <1>2 DEF WorkerTakes, AtHead
  <2>7. Active' = Active \cup {<<w, Head(Queued)>>}
    BY <2>4, <2>5, <2>6 DEF Active, ThreadTypes, Running
  <2>8. \A a \in Active : a[1] # w
    BY <2>5 DEF Active
  <2>9. WQ!Start(w)
    BY <2>4, <2>6, <2>7, <2>8 DEF WQ!Start, Active
  <2> QED
    BY <2>9 DEF WQ!Next
<1>3. CASE WorkerFinishes(w)
  <2>1. UNCHANGED <<queue, head, count, item, shutdown>>
    BY <1>3 DEF WorkerFinishes
  <2>2. Running' = Running \ {w} /\ w \in Running
    BY <1>3 DEF WorkerFinishes, Running, ThreadTypes
  <2>3. Active' = Active \ {<<w, item[w]>>} /\ <<w, item[w]>> \in Active
    BY <2>1, <2>2 DEF Active
  <2>5. PICK a \in {<<v, item[v]>> : v \in Running} : a = <<w, item[w]>>
    BY <2>3 DEF Active
  <2>6. WQ!Complete(a)
    BY <2>1, <2>3, <2>5 DEF WQ!Complete, Active, Queued
  <2> QED
    BY <2>6, Zenon DEF WQ!Next
<1> QED
  BY <1>1, <1>2, <1>3 DEF WorkerStep

\* ... an item is accepted, ...
LEMMA SubmitRefines ==
  ASSUME PoolInv, PoolInv', NEW p \in Submitters,
         SubmitStep(p) \/ \E x \in Items : SubmitCalled(p, x)
  PROVE  WQ!Next \/ UNCHANGED WQ!vars
<1> USE DEF PoolInv
<1>1. CASE SubmitRefused(p) \/ SubmitWaits(p) \/ \E x \in Items : SubmitCalled(p, x)
  <2>1. UNCHANGED <<queue, head, count, item, shutdown, worker>>
    BY <1>1 DEF SubmitRefused, SubmitWaits, SubmitCalled, ring
  <2> QED
    BY <2>1 DEF WQ!vars, Queued, Running
<1>2. CASE SubmitQueues(p)
  <2>1. Queued = FromHead(queue, head, count)
    BY QueuedFromHead DEF Queued, RingTypes
  <2>2. count \in 0..Size - 1 /\ tail = Slot(head, count)
    BY <1>2, PoolSize DEF SubmitQueues, Room, RingTypes, RingInv
  <2>3. Queued' = FromHead(queue', head, count + 1)
    <3>1. UNCHANGED head /\ count' = count + 1
      BY <1>2 DEF SubmitQueues
    <3>2. [i \in 1..count' |-> queue'[(head' + i - 1) % Size]] = FromHead(queue', head', count')
      BY QueuedFromHead DEF RingTypes
    <3> QED
      BY <3>1, <3>2 DEF Queued
  <2>4. /\ arg[p] \in Items /\ arg[p] \in Cell
        /\ queue \in [0..Size - 1 -> Cell] /\ head \in 0..Size - 1
    BY <1>2 DEF SubmitQueues, ArgInv, RingTypes, Cell
  <2>5. Queued' = Append(Queued, arg[p])
    <3>1. /\ queue' \in [0..Size - 1 -> Cell]
          /\ queue'[Slot(head, count)] = arg[p]
          /\ \A j \in 0..Size - 1 : j # Slot(head, count) => queue'[j] = queue[j]
      BY <1>2, <2>2, <2>4, SlotMoves DEF SubmitQueues, RingTypes, Cell
    <3>2. FromHead(queue', head, count + 1) = Append(FromHead(queue, head, count), arg[p])
      BY <2>2, <2>4, <3>1, FromHeadAppends
    <3> QED
      BY <2>1, <2>3, <3>2
  <2>6. Len(Queued) < Size
    <3>1. count \in 0..Size
      BY <2>2, PoolSize
    <3>2. Len(FromHead(queue, head, count)) = count
      BY <2>4, <3>1, FromHeadIsSeq, Zenon
    <3> QED
      BY <2>1, <2>2, <3>2, PoolSize
  <2>7. Running' = Running /\ UNCHANGED <<item, shutdown>> /\ ~shutdown
    BY <1>2, SignalNotEmptyEffect, SameRunning DEF SubmitQueues
  <2>8. WQ!Accept(arg[p])
    BY <2>5, <2>6, <2>7 DEF WQ!Accept
  <2> QED
    BY <2>4, <2>8 DEF WQ!Next
<1> QED
  BY <1>1, <1>2 DEF SubmitStep

\* ... or the queue is closed.
LEMMA OwnerRefines ==
  ASSUME PoolInv, OwnerStep \/ CreateFails \/ Destroy \/ SpuriousWakeup
  PROVE  WQ!Next \/ UNCHANGED WQ!vars
<1>1. UNCHANGED <<queue, head, count, item>> /\ shutdown' \in {shutdown, TRUE}
  BY DEF OwnerStep, CreateThread, UndoBroadcast, UndoJoin, DestroyJoin, CreateFails, Destroy,
         SpuriousWakeup, ring
<1>2. Running' = Running
  <2>1. \A v \in Workers : worker'[v] = "running" <=> worker[v] = "running"
    BY BroadcastEffect DEF OwnerStep, CreateThread, UndoBroadcast, UndoJoin, DestroyJoin, CreateFails,
                           Destroy, SpuriousWakeup, PoolInv, ThreadTypes
  <2> QED
    BY <2>1, SameRunning
<1>3. CASE UNCHANGED shutdown
  BY <1>1, <1>2, <1>3 DEF WQ!vars, Queued
<1>4. CASE shutdown' = TRUE
  BY <1>1, <1>2, <1>4 DEF WQ!Next, WQ!Close, Queued
<1> QED
  BY <1>1, <1>3, <1>4

\* The pool is a bounded first-in first-out queue with at most one item per worker, for any number
\* of workers and submitters, any size of the ring and whatever wakes up when.
THEOREM PoolImplementsWorkQueue == Spec => ImplementsWorkQueue
<1>1. Init => WQ!Init
  <2> SUFFICES ASSUME Init PROVE WQ!Init
    OBVIOUS
  <2>1. Queued = << >> /\ Running = {}
    BY DEF Init, Queued, Running
  <2> QED
    BY <2>1 DEF WQ!Init, Init
<1>2. PoolInv /\ PoolInv' /\ [Next]_vars => [WQ!Next]_(WQ!vars)
  <2> SUFFICES ASSUME PoolInv, PoolInv', [Next]_vars PROVE WQ!Next \/ UNCHANGED WQ!vars
    OBVIOUS
  <2>1. CASE Next
    BY <2>1, WorkerRefines, SubmitRefines, OwnerRefines DEF Next
  <2>2. CASE UNCHANGED vars
    BY <2>2 DEF vars, ring, WQ!vars, Queued, Running
  <2> QED
    BY <2>1, <2>2
<1> QED
  BY <1>1, <1>2, PoolInvariant, PTL DEF Spec, ImplementsWorkQueue, WQ!Spec
=============================================================================
