----------------------------- MODULE ThreadPool -----------------------------
(***************************************************************************)
(* The gateway's worker pool (src/gateway/thread_pool.c): a ring buffer    *)
(* of work items under one mutex and two condition variables.              *)
(*                                                                         *)
(* A stretch of code between locking and unlocking the mutex is one step;  *)
(* only the worker that has tested its predicate and is about to wait is   *)
(* seen holding the mutex, because a failing create writes `shutdown' and  *)
(* broadcasts without locking.  pthread_cond_signal wakes any one waiter,  *)
(* a waiter may also wake for no reason.                                   *)
(***************************************************************************)
EXTENDS Naturals, Sequences, FiniteSets

CONSTANTS Workers,     \* the threads create is asked for
          Submitters,  \* threads that call submit
          Owner,       \* the one of them that creates and destroys the pool
          Items,       \* work items; each is submitted once
          NoItem,      \* an unused slot
          Size,        \* POOL_QUEUE_SIZE
          MayFail,     \* can pthread_create fail?
          MayDestroy,  \* does the owner destroy the pool?
          MaxSpurious  \* bound on unprovoked wakeups

ASSUME PoolThreads == /\ IsFiniteSet(Workers) /\ Workers # {} /\ Owner \in Submitters
                      /\ Workers \cap Submitters = {}
ASSUME PoolSize    == Size \in Nat \ {0} /\ NoItem \notin Items
ASSUME PoolLimits  == MayFail \in BOOLEAN /\ MayDestroy \in BOOLEAN /\ MaxSpurious \in Nat

VARIABLES
  queue, head, tail, count, busy_count, shutdown,
  mutex,     \* {w}: worker w holds the mutex on its way into a wait
  worker,    \* worker[w]: where worker w is
  item,      \* item[w]: the work item w took last
  submit,    \* submit[p]: where p is in hu_thread_pool_submit
  arg,       \* arg[p]: the work item p submits
  owner,     \* the pool's life: being created, up, joined, freed
  submitted, \* the items handed to submit so far (each item once)
  spurious   \* how many waits have returned unprovoked

ring == <<queue, head, tail, count, busy_count>>
vars == <<ring, shutdown, mutex, worker, item, submit, arg, owner, submitted, spurious>>

TypeOK ==
  /\ queue \in [0..Size - 1 -> Items \cup {NoItem}]
  /\ head \in 0..Size - 1 /\ tail \in 0..Size - 1 /\ count \in 0..Size
  /\ busy_count \in 0..Cardinality(Workers)
  /\ shutdown \in BOOLEAN
  /\ mutex \subseteq Workers
  /\ worker \in [Workers -> {"absent", "ready", "parking", "waiting", "running", "exited"}]
  /\ item \in [Workers -> Items \cup {NoItem}]
  /\ submit \in [Submitters -> {"out", "entering", "waiting", "woken"}]
  /\ arg \in [Submitters -> Items \cup {NoItem}]
  /\ owner \in {"creating", "undoing", "unjoined", "failed", "up", "joining", "freed"}
  /\ submitted \subseteq Items
  /\ spurious \in 0..MaxSpurious

Init ==
  /\ queue = [i \in 0..Size - 1 |-> NoItem]
  /\ head = 0 /\ tail = 0 /\ count = 0 /\ busy_count = 0
  /\ shutdown = FALSE
  /\ mutex = {}
  /\ worker = [w \in Workers |-> "absent"]
  /\ item = [w \in Workers |-> NoItem]
  /\ submit = [p \in Submitters |-> "out"]
  /\ arg = [p \in Submitters |-> NoItem]
  /\ owner = "creating"
  /\ submitted = {}
  /\ spurious = 0

Unlocked == mutex = {}

\* pthread_cond_signal(&not_empty), given the workers' state W: one waiting
\* worker, if there is one, goes on.
SignalNotEmpty(W) ==
  LET asleep == {w \in Workers : W[w] = "waiting"}
  IN  \/ asleep = {} /\ worker' = W
      \/ \E w \in asleep : worker' = [W EXCEPT ![w] = "ready"]

\* Slip: nobody is told that there is room.
SignalNobody == UNCHANGED submit

SignalNotFull ==
  LET asleep == {p \in Submitters : submit[p] = "waiting"}
  IN  \/ asleep = {} /\ UNCHANGED submit
      \/ \E p \in asleep : submit' = [submit EXCEPT ![p] = "woken"]

\* Slip: the sleeping workers are not told.
BroadcastNobody == UNCHANGED worker

BroadcastNotEmpty ==
  worker' = [w \in Workers |-> IF worker[w] = "waiting" THEN "ready" ELSE worker[w]]

BroadcastNotFull ==
  submit' = [p \in Submitters |-> IF submit[p] = "waiting" THEN "woken" ELSE submit[p]]

----------------------------------------------------------------------------
\* hu_thread_pool_create starts the workers one by one ...
CreateThread(w) ==
  /\ owner = "creating"
  /\ worker[w] = "absent"
  /\ worker' = [worker EXCEPT ![w] = "ready"]
  /\ owner' = IF \E v \in Workers : worker'[v] = "absent" THEN "creating" ELSE "up"
  /\ UNCHANGED <<ring, shutdown, mutex, item, submit, arg, submitted, spurious>>

\* ... and takes them down again if one cannot be started: without the mutex,
\* shutdown is set, not_empty is broadcast, and the started ones are joined.
CreateFails ==
  /\ MayFail
  /\ owner = "creating"
  /\ shutdown' = TRUE
  /\ owner' = "undoing"
  /\ UNCHANGED <<ring, mutex, worker, item, submit, arg, submitted, spurious>>

UndoBroadcast ==
  /\ owner = "undoing"
  /\ BroadcastNotEmpty
  /\ owner' = "unjoined"
  /\ UNCHANGED <<ring, shutdown, mutex, item, submit, arg, submitted, spurious>>

UndoJoin ==
  /\ owner = "unjoined"
  /\ \A w \in Workers : worker[w] \in {"absent", "exited"}
  /\ owner' = "failed"
  /\ UNCHANGED <<ring, shutdown, mutex, worker, item, submit, arg, submitted, spurious>>

----------------------------------------------------------------------------
\* Slip: shutdown is obeyed at once.
ExitsAtOnce == shutdown

\* A worker leaves once the pool is shut down and drained.
Drained == shutdown /\ count = 0

\* Slip: the newest item is taken.
AtTail == queue[(head + count - 1) % Size]

AtHead == queue[head]

AdvanceHead == head' = (head + 1) % Size

\* Slip: busy_count is not taken down again.
StaysBusy == UNCHANGED busy_count

NoLongerBusy == busy_count' = busy_count - 1

\* The worker's loop: wait for work, leave when shut down and drained, or
\* take the item at the head.
WorkerParks(w) ==
  /\ worker[w] = "ready" /\ Unlocked
  /\ count = 0 /\ ~shutdown
  /\ mutex' = {w}
  /\ worker' = [worker EXCEPT ![w] = "parking"]
  /\ UNCHANGED <<ring, shutdown, item, submit, arg, owner, submitted, spurious>>

WorkerWaits(w) ==
  /\ worker[w] = "parking"
  /\ mutex' = {}
  /\ worker' = [worker EXCEPT ![w] = "waiting"]
  /\ UNCHANGED <<ring, shutdown, item, submit, arg, owner, submitted, spurious>>

WorkerExits(w) ==
  /\ worker[w] = "ready" /\ Unlocked
  /\ Drained
  /\ worker' = [worker EXCEPT ![w] = "exited"]
  /\ UNCHANGED <<ring, shutdown, mutex, item, submit, arg, owner, submitted, spurious>>

WorkerTakes(w) ==
  /\ worker[w] = "ready" /\ Unlocked
  /\ count > 0
  /\ item' = [item EXCEPT ![w] = AtHead]
  /\ AdvanceHead
  /\ count' = count - 1
  /\ busy_count' = busy_count + 1
  /\ worker' = [worker EXCEPT ![w] = "running"]
  /\ SignalNotFull
  /\ UNCHANGED <<queue, tail, shutdown, mutex, arg, owner, submitted, spurious>>

WorkerFinishes(w) ==
  /\ worker[w] = "running" /\ Unlocked
  /\ NoLongerBusy
  /\ worker' = [worker EXCEPT ![w] = "ready"]
  /\ UNCHANGED <<queue, head, tail, count, shutdown, mutex, item, submit, arg, owner,
                 submitted, spurious>>

----------------------------------------------------------------------------
\* Slip: the room is not tested.
AlwaysRoom == TRUE

Room == count < Size

\* hu_thread_pool_submit
SubmitCalled(p, x) ==
  /\ owner = "up"
  /\ submit[p] = "out"
  /\ x \notin submitted
  /\ submitted' = submitted \cup {x}
  /\ submit' = [submit EXCEPT ![p] = "entering"]
  /\ arg' = [arg EXCEPT ![p] = x]
  /\ UNCHANGED <<ring, shutdown, mutex, worker, item, owner, spurious>>

\* shutdown is looked at on entry, and again once there is room.
SubmitRefused(p) ==
  /\ Unlocked /\ shutdown
  /\ \/ submit[p] = "entering"
     \/ submit[p] = "woken" /\ Room
  /\ submit' = [submit EXCEPT ![p] = "out"]
  /\ UNCHANGED <<ring, shutdown, mutex, worker, item, arg, owner, submitted, spurious>>

SubmitWaits(p) ==
  /\ Unlocked
  /\ \/ submit[p] = "entering" /\ ~shutdown
     \/ submit[p] = "woken"
  /\ ~Room
  /\ submit' = [submit EXCEPT ![p] = "waiting"]
  /\ UNCHANGED <<ring, shutdown, mutex, worker, item, arg, owner, submitted, spurious>>

SubmitQueues(p) ==
  /\ Unlocked /\ ~shutdown
  /\ submit[p] \in {"entering", "woken"}
  /\ Room
  /\ queue' = [queue EXCEPT ![tail] = arg[p]]
  /\ tail' = (tail + 1) % Size
  /\ count' = count + 1
  /\ SignalNotEmpty(worker)
  /\ submit' = [submit EXCEPT ![p] = "out"]
  /\ UNCHANGED <<head, busy_count, shutdown, mutex, item, arg, owner, submitted, spurious>>

----------------------------------------------------------------------------
\* hu_thread_pool_destroy
Destroy ==
  /\ MayDestroy
  /\ owner = "up" /\ submit[Owner] = "out" /\ Unlocked
  /\ shutdown' = TRUE
  /\ BroadcastNotEmpty
  /\ BroadcastNotFull
  /\ owner' = "joining"
  /\ UNCHANGED <<ring, mutex, item, arg, submitted, spurious>>

DestroyJoin ==
  /\ owner = "joining"
  /\ \A w \in Workers : worker[w] = "exited"
  /\ owner' = "freed"
  /\ UNCHANGED <<ring, shutdown, mutex, worker, item, submit, arg, submitted, spurious>>

\* POSIX lets a wait return unprovoked.
SpuriousWakeup ==
  /\ spurious < MaxSpurious
  /\ spurious' = spurious + 1
  /\ \/ /\ \E w \in Workers : worker[w] = "waiting" /\ worker' = [worker EXCEPT ![w] = "ready"]
        /\ UNCHANGED submit
     \/ /\ \E p \in Submitters : submit[p] = "waiting" /\ submit' = [submit EXCEPT ![p] = "woken"]
        /\ UNCHANGED worker
  /\ UNCHANGED <<ring, shutdown, mutex, item, arg, owner, submitted>>

WorkerStep(w) ==
  WorkerParks(w) \/ WorkerWaits(w) \/ WorkerExits(w) \/ WorkerTakes(w) \/ WorkerFinishes(w)

\* What a call still inside the pool does once the pool has been freed is
\* undefined, and not modelled.
SubmitStep(p) ==
  /\ owner # "freed"
  /\ SubmitRefused(p) \/ SubmitWaits(p) \/ SubmitQueues(p)

OwnerStep ==
  \/ \E w \in Workers : CreateThread(w)
  \/ UndoBroadcast \/ UndoJoin \/ DestroyJoin

Next ==
  \/ \E w \in Workers : WorkerStep(w)
  \/ \E p \in Submitters : SubmitStep(p) \/ \E x \in Items : SubmitCalled(p, x)
  \/ OwnerStep \/ CreateFails \/ Destroy \/ SpuriousWakeup

\* Every thread that can run does so in the end, and requests end
\* (WorkerFinishes); nobody has to submit, destroy or wake up unprovoked,
\* and a wait does not return unprovoked forever.
Fairness ==
  /\ \A w \in Workers : WF_vars(WorkerStep(w))
  /\ \A p \in Submitters : WF_vars(SubmitStep(p))
  /\ WF_vars(OwnerStep)

Spec == Init /\ [][Next]_vars /\ Fairness
----------------------------------------------------------------------------
Running == {w \in Workers : worker[w] = "running"}

\* The items in the ring, from the head.
Queued == [i \in 1..count |-> queue[(head + i - 1) % Size]]

\* hu_thread_pool_active, which the gateway's shutdown waits on, is exact
\* whenever the mutex is free.
ActiveIsExact == busy_count = Cardinality(Running)

\* The pool is a bounded FIFO of work, whatever wakes up when.
WQ == INSTANCE WorkQueue
  WITH Work     <- Items,
       Capacity <- Size,
       Parallel <- Workers,
       waiting  <- Queued,
       active   <- {<<w, item[w]>> : w \in Running},
       open     <- ~shutdown

ImplementsWorkQueue == WQ!Spec

\* No wakeup is lost on the way in: a call of submit returns, unless the pool
\* is freed under it.
SubmitReturns ==
  \A p \in Submitters : submit[p] # "out" ~> submit[p] = "out" \/ owner = "freed"

\* "Drain pending work and join all threads": accepted work is started, also
\* when the pool is destroyed under it.
AcceptedStarts ==
  \A x \in Items :
    (\E i \in 1..count : Queued[i] = x) ~> (\E w \in Running : item[w] = x)

\* ... and destroy comes back.
DestroyReturns == owner = "joining" ~> owner = "freed"
=============================================================================
