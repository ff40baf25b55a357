--------------------------- MODULE ServiceProofs ---------------------------
(***************************************************************************)
(* The safety of the service's shutdown and reload, for every number of    *)
(* workers, every queue and every number of attempts.                      *)
(***************************************************************************)
EXTENDS Service, TLAPS

\* Who holds svc_agent_mutex.  The handler of the bus never meets it locked by its own
\* thread, and no default SIGTERM can kill a process that has come to its loop.
MutexInv ==
  /\ svc_mutex = "main" <=> main = "reload"
  /\ svc_mutex = "gateway" <=> gw = "turn"
  /\ gw # "relock"
  /\ handler = "default" => main \in {"boot", "killed"}

\* A worker is busy exactly while the pool has one request in its hands.
SlotInv ==
  /\ \A a, b \in active : a[1] = b[1] => a = b
  /\ \A w \in Workers : phase[w] = "idle" <=> \A a \in active : a[1] # w

\* Outside of hu_gateway_run there is no request.
QuietInv == gw \in {"start", "backoff", "ended"} => waiting = << >> /\ active = {}

\* The cleanup clears guard and limiter before it closes the pool, and every run of the
\* gateway starts with both cleared.
ClearedInv ==
  /\ gw \in {"start", "limiter", "limiter freed", "pool", "closing", "backoff", "ended"}
       => pairing_guard = "null"
  /\ gw \in {"start", "pool", "closing", "backoff", "ended"} => rate_limiter = "null"

\* Requests taken up while the pool is being destroyed use neither.
LateInv == \A w \in late : gw = "closing" /\ phase[w] \notin {"idle", "limiting", "pairing"}

\* main tears down after the gateway's thread has ended, which is for good.
TeardownInv == main \in {"teardown", "gone"} => gw = "ended"

\* The inductive invariant.
ShutdownInv ==
  /\ TypeOK
  /\ MutexInv
  /\ SlotInv
  /\ QuietInv
  /\ ClearedInv
  /\ LateInv
  /\ TeardownInv

----------------------------------------------------------------------------
(* TypeOK in parts: the flags; the threads' places and the objects; the counters; the bus; the    *)
(* pool and its workers.                                                                          *)

FlagTypes ==
  /\ g_stop_flag \in BOOLEAN /\ s_gateway_stop \in BOOLEAN /\ reload_requested \in BOOLEAN
  /\ failed \in BOOLEAN /\ open \in BOOLEAN

PlaceTypes ==
  /\ handler \in {"default", "service", "gateway"}
  /\ svc_mutex \in {Free, "main", "gateway"}
  /\ main \in MainAt /\ gw \in GwAt
  /\ pairing_guard \in Pointer /\ rate_limiter \in Pointer

CountTypes == attempt \in 0..MaxAttempts - 1 /\ polls \in 0..MaxPolls

SubscriberTypes == subscribers \subseteq {"agent", "bridge"}

PoolTypes ==
  /\ compat_lock \in Workers \cup {Free}
  /\ waiting \in Seq(Requests) /\ Len(waiting) <= QueueCap
  /\ active \subseteq Workers \X Requests
  /\ phase \in [Workers -> Phases] /\ late \subseteq Workers

\* The parts are the whole.
LEMMA TypeParts ==
  TypeOK <=> FlagTypes /\ PlaceTypes /\ CountTypes /\ SubscriberTypes /\ PoolTypes
BY DEF TypeOK, FlagTypes, PlaceTypes, CountTypes, SubscriberTypes, PoolTypes

\* The service starts with nothing queued, nothing locked and nothing to free.
LEMMA InitShutdown == Init => ShutdownInv
<1> SUFFICES ASSUME Init PROVE ShutdownInv
  OBVIOUS
<1>1. TypeOK
  <2>1. FlagTypes
    BY DEF Init, FlagTypes
  <2>2. PlaceTypes
    BY DEF Init, PlaceTypes, Free, MainAt, GwAt, Pointer
  <2>4. CountTypes /\ SubscriberTypes
    BY BoundsAssumption DEF Init, CountTypes, SubscriberTypes
  <2>3. PoolTypes
    BY BoundsAssumption DEF Init, PoolTypes, Phases, Free
  <2> QED
    BY <2>1, <2>2, <2>3, <2>4, TypeParts
<1>2. MutexInv /\ SlotInv /\ QuietInv /\ ClearedInv /\ LateInv /\ TeardownInv
  BY DEF Init, MutexInv, SlotInv, QuietInv, ClearedInv, LateInv, TeardownInv, Free
<1> QED
  BY <1>1, <1>2 DEF ShutdownInv

\* What the pool's operations do to its variables.
LEMMA PoolOperations ==
  ASSUME PoolTypes
  PROVE  /\ \A x \in Requests : Pool!Accept(x) =>
              waiting' \in Seq(Requests) /\ Len(waiting') <= QueueCap
         /\ \A w \in Workers : Pool!Start(w) =>
              /\ waiting' \in Seq(Requests) /\ Len(waiting') <= QueueCap
              /\ active' \subseteq Workers \X Requests
         /\ \A a \in active : Pool!Complete(a) => active' \subseteq Workers \X Requests
<1>1. waiting \in Seq(Requests) /\ Len(waiting) <= QueueCap /\ QueueCap \in Nat
  BY BoundsAssumption DEF PoolTypes
<1>2. active \subseteq Workers \X Requests
  BY DEF PoolTypes
<1>3. ASSUME NEW x \in Requests, Pool!Accept(x)
      PROVE  waiting' \in Seq(Requests) /\ Len(waiting') <= QueueCap
  BY <1>1, <1>3 DEF Pool!Accept
<1>4. ASSUME NEW w \in Workers, Pool!Start(w)
      PROVE  /\ waiting' \in Seq(Requests) /\ Len(waiting') <= QueueCap
             /\ active' \subseteq Workers \X Requests
  <2>1. waiting # << >> /\ waiting' = Tail(waiting) /\ active' = active \cup {<<w, Head(waiting)>>}
    BY <1>4 DEF Pool!Start
  <2>2. Head(waiting) \in Requests /\ Tail(waiting) \in Seq(Requests)
    BY <1>1, <2>1
  <2>3. Len(Tail(waiting)) <= QueueCap
    BY <1>1, <2>1
  <2> QED
    BY <1>2, <2>1, <2>2, <2>3
<1>5. ASSUME NEW a \in active, Pool!Complete(a)
      PROVE  active' \subseteq Workers \X Requests
  BY <1>2, <1>5 DEF Pool!Complete
<1> QED
  BY <1>3, <1>4, <1>5

----------------------------------------------------------------------------
\* Signals and the main thread leave the gateway, its pool and its workers alone.
LEMMA MainLeavesPool ==
  Terminate \/ Hangup \/ Main => UNCHANGED <<gw, thread, objects, pool, workers>>
BY DEF Terminate, Hangup, Main, ServiceStart, ServiceTop, ReloadBegin, ReloadEnd, ServiceWork,
    Unsubscribe, Join, Exit, thread, objects, pool, workers

\* The gateway's thread leaves the workers alone and only adds to the queue.
LEMMA GatewayLeavesWorkers ==
  Gateway => /\ active' = active /\ UNCHANGED workers
             /\ waiting' = waiting \/ \E x \in Requests : Pool!Accept(x)
BY DEF Gateway, GwOnward, GwInstall, GwSubmit, GwTurnEnd, GwDrain, GwDetach,
    GwFreeGuard, GwFreeLimiter, GwClosePool, GwReturn, GwRetry, GwSetUp, GwBind, GwCreatePool,
    GwStopped, GwTurn, GwPollFails, GwChat, GwRead, workers, pool,
    Pool!Accept, Pool!Close

\* A worker touches the pool, itself and the lock of its agent, and nothing else.
LEMMA WorkerLeavesRest ==
  ASSUME NEW w \in Workers, Worker(w)
  PROVE  UNCHANGED <<signals, svc_mutex, main, gw, thread, subscribers, objects, open>>
BY DEF Worker, Take, CheckLimiter, Limit, Route, Pair, ChatBegin, ChatEnd, Finish, signals, thread,
    objects, pool, Pool!Start, Pool!Complete

\* Flags stay flags.
LEMMA FlagStep == FlagTypes /\ Next => FlagTypes'
<1> SUFFICES ASSUME FlagTypes, Next PROVE FlagTypes'
  OBVIOUS
<1> USE DEF FlagTypes, signals, thread, pool
<1>1. CASE Terminate \/ Hangup
  BY <1>1 DEF Terminate, Hangup
<1>2. CASE Main
  BY <1>2 DEF Main, ServiceStart, ServiceTop, ReloadBegin, ReloadEnd, ServiceWork, Unsubscribe,
    Join, Exit
<1>3. CASE Gateway
  BY <1>3 DEF Gateway, GwOnward, GwInstall, GwSubmit, GwTurnEnd, GwDrain, GwDetach,
    GwFreeGuard, GwFreeLimiter, GwClosePool, GwReturn, GwRetry, GwSetUp, GwBind, GwCreatePool,
    GwStopped, GwTurn, GwPollFails, GwChat, GwRead, Pool!Accept, Pool!Close
<1>4. ASSUME NEW w \in Workers, Worker(w) PROVE FlagTypes'
  BY <1>4, WorkerLeavesRest
<1> QED
  BY <1>1, <1>2, <1>3, <1>4 DEF Next

\* The threads are at places the code has, and the pointers are null, live or dangling.
LEMMA PlaceStep == PlaceTypes /\ Next => PlaceTypes'
<1> SUFFICES ASSUME PlaceTypes, Next PROVE PlaceTypes'
  OBVIOUS
<1> USE DEF PlaceTypes, signals, objects, MainAt, GwAt, Pointer, Free
<1>1. CASE Terminate \/ Hangup
  BY <1>1 DEF Terminate, Hangup
<1>2. CASE Main
  BY <1>2 DEF Main, ServiceStart, ServiceTop, ReloadBegin, ReloadEnd, ServiceWork, Unsubscribe,
    Join, Exit
<1>3. CASE Gateway
  BY <1>3 DEF Gateway, GwOnward, GwInstall, GwSubmit, GwTurnEnd, GwDrain, GwDetach,
    GwFreeGuard, GwFreeLimiter, GwClosePool, GwReturn, GwRetry, GwSetUp, GwBind, GwCreatePool,
    GwStopped, GwTurn, GwPollFails, GwChat, GwRead,
    GwStep, Destroyed, Nulled
<1>4. ASSUME NEW w \in Workers, Worker(w) PROVE PlaceTypes'
  BY <1>4, WorkerLeavesRest
<1> QED
  BY <1>1, <1>2, <1>3, <1>4 DEF Next

\* Attempts and looks stay in their bounds.
LEMMA CountStep == CountTypes /\ Next => CountTypes'
<1> SUFFICES ASSUME CountTypes, Next PROVE CountTypes'
  OBVIOUS
<1> USE BoundsAssumption DEF CountTypes, thread
<1>1. CASE Terminate \/ Hangup \/ Main
  BY <1>1, MainLeavesPool
<1>2. CASE Gateway
  <2>1. CASE GwDrain \/ GwStopped
    BY <2>1 DEF GwDrain, GwStopped, DrainGoesOn
  <2>2. CASE GwReturn
    BY <2>2 DEF GwReturn, Retries
  <2>3. CASE ~(GwDrain \/ GwStopped \/ GwReturn)
    <3>1. attempt' = attempt /\ polls' = polls
      BY <1>2, <2>3 DEF Gateway, GwOnward, GwInstall, GwSubmit, GwTurnEnd, GwDetach, GwFreeGuard,
        GwFreeLimiter, GwClosePool, GwRetry, GwSetUp, GwBind, GwCreatePool, GwTurn, GwPollFails,
        GwChat, GwRead
    <3> QED
      BY <3>1
  <2> QED
    BY <2>1, <2>2, <2>3
<1>3. ASSUME NEW w \in Workers, Worker(w) PROVE CountTypes'
  BY <1>3, WorkerLeavesRest
<1> QED
  BY <1>1, <1>2, <1>3 DEF Next

\* The bus has the two subscribers of the service.
LEMMA SubscriberStep == SubscriberTypes /\ Next => SubscriberTypes'
<1> SUFFICES ASSUME SubscriberTypes, Next PROVE SubscriberTypes'
  OBVIOUS
<1> USE DEF SubscriberTypes
<1>1. CASE Terminate \/ Hangup
  BY <1>1 DEF Terminate, Hangup
<1>2. CASE Main
  BY <1>2 DEF Main, ServiceStart, ServiceTop, ReloadBegin, ReloadEnd, ServiceWork, Unsubscribe,
    Join, Exit
<1>3. CASE Gateway
  BY <1>3 DEF Gateway, GwOnward, GwInstall, GwSubmit, GwTurnEnd, GwDrain, GwDetach,
    GwFreeGuard, GwFreeLimiter, GwClosePool, GwReturn, GwRetry, GwSetUp, GwBind, GwCreatePool,
    GwStopped, GwTurn, GwPollFails, GwChat, GwRead
<1>4. ASSUME NEW w \in Workers, Worker(w) PROVE SubscriberTypes'
  BY <1>4, WorkerLeavesRest
<1> QED
  BY <1>1, <1>2, <1>3, <1>4 DEF Next

\* The mutex: only a free one is taken, by the reload or by a turn of the bus, and the turn's own
\* answer does not reach the handler.
LEMMA MutexStep == PlaceTypes /\ MutexInv /\ Next => MutexInv'
<1> SUFFICES ASSUME PlaceTypes, MutexInv, Next PROVE MutexInv'
  OBVIOUS
<1> USE DEF PlaceTypes, MutexInv, signals, Free, MainAt, GwAt
<1>1. CASE Terminate \/ Hangup
  BY <1>1 DEF Terminate, Hangup, Up
<1>2. CASE Main
  BY <1>2 DEF Main, ServiceStart, ServiceTop, ReloadBegin, ReloadEnd, ServiceWork, Unsubscribe,
    Join, Exit, ReloadGuard
<1>3. CASE Gateway
  BY <1>3 DEF Gateway, GwOnward, GwInstall, GwSubmit, GwTurnEnd, GwDrain, GwDetach,
    GwFreeGuard, GwFreeLimiter, GwClosePool, GwReturn, GwRetry, GwSetUp, GwBind, GwCreatePool,
    GwStopped, GwTurn, GwPollFails, GwChat, GwRead,
    GwStep, Hears, Up
<1>4. ASSUME NEW w \in Workers, Worker(w) PROVE MutexInv'
  BY <1>4, WorkerLeavesRest
<1> QED
  BY <1>1, <1>2, <1>3, <1>4 DEF Next

\* The gateway's thread is joined before the teardown and does not come back.
LEMMA TeardownStep == TeardownInv /\ Next => TeardownInv'
<1> SUFFICES ASSUME TeardownInv, Next PROVE TeardownInv'
  OBVIOUS
<1> USE DEF TeardownInv
<1>1. CASE Terminate \/ Hangup
  BY <1>1 DEF Terminate, Hangup, Up
<1>2. CASE Main
  BY <1>2 DEF Main, ServiceStart, ServiceTop, ReloadBegin, ReloadEnd, ServiceWork, Unsubscribe,
    Join, Exit, Joined
<1>3. CASE Gateway
  BY <1>3 DEF Gateway, GwOnward, GwInstall, GwSubmit, GwTurnEnd, GwDrain, GwDetach,
    GwFreeGuard, GwFreeLimiter, GwClosePool, GwReturn, GwRetry, GwSetUp, GwBind, GwCreatePool,
    GwStopped, GwTurn, GwPollFails, GwChat, GwRead,
    GwStep, Up
<1>4. ASSUME NEW w \in Workers, Worker(w) PROVE TeardownInv'
  BY <1>4, WorkerLeavesRest
<1> QED
  BY <1>1, <1>2, <1>3, <1>4 DEF Next

\* The cleanup clears guard and limiter on its way to the pool.
LEMMA ClearedStep == PlaceTypes /\ ClearedInv /\ Next => ClearedInv'
<1> SUFFICES ASSUME PlaceTypes, ClearedInv, Next PROVE ClearedInv'
  OBVIOUS
<1> USE DEF PlaceTypes, ClearedInv, objects, GwAt, Pointer
<1>1. CASE Terminate \/ Hangup \/ Main
  BY <1>1, MainLeavesPool
<1>2. CASE Gateway
  BY <1>2 DEF Gateway, GwOnward, GwInstall, GwSubmit, GwTurnEnd, GwDrain, GwDetach,
    GwFreeGuard, GwFreeLimiter, GwClosePool, GwReturn, GwRetry, GwSetUp, GwBind, GwCreatePool,
    GwStopped, GwTurn, GwPollFails, GwChat, GwRead,
    GwStep, Nulled
<1>3. ASSUME NEW w \in Workers, Worker(w) PROVE ClearedInv'
  BY <1>3, WorkerLeavesRest
<1> QED
  BY <1>1, <1>2, <1>3 DEF Next

\* Requests are queued inside of hu_gateway_run and it returns when they are done.
LEMMA QuietStep == QuietInv /\ Next => QuietInv'
<1> SUFFICES ASSUME QuietInv, Next PROVE QuietInv'
  OBVIOUS
<1> USE DEF QuietInv, pool
<1>1. CASE Terminate \/ Hangup \/ Main
  BY <1>1, MainLeavesPool
<1>2. CASE Gateway
  BY <1>2 DEF Gateway, GwOnward, GwInstall, GwSubmit, GwTurnEnd, GwDrain, GwDetach,
    GwFreeGuard, GwFreeLimiter, GwClosePool, GwReturn, GwRetry, GwSetUp, GwBind, GwCreatePool,
    GwStopped, GwTurn, GwPollFails, GwChat, GwRead,
    GwStep, Pool!Accept, Pool!Close, PoolDone
<1>3. ASSUME NEW w \in Workers, Worker(w) PROVE QuietInv'
  BY <1>3, WorkerLeavesRest DEF Worker, Take, CheckLimiter, Limit, Route, Pair, ChatBegin, ChatEnd,
    Finish, Pool!Start, Pool!Complete
<1> QED
  BY <1>1, <1>2, <1>3 DEF Next

\* What a worker does with the pool and with itself.
LEMMA WorkerMoves ==
  ASSUME NEW w \in Workers, Worker(w), phase \in [Workers -> Phases]
  PROVE  /\ \E p \in Phases : phase' = [phase EXCEPT ![w] = p]
         /\ \/ /\ phase[w] # "idle" /\ phase'[w] # "idle"
               /\ UNCHANGED <<waiting, active, late>>
            \/ /\ phase[w] = "idle" /\ phase'[w] = "taken" /\ Pool!Start(w)
               /\ late' = IF gw = "closing" THEN late \cup {w} ELSE late
            \/ /\ phase[w] = "done" /\ phase'[w] = "idle"
               /\ \E x \in Requests : Pool!Complete(<<w, x>>)
               /\ late' = late \ {w}
         /\ phase'[w] = "limiting" => rate_limiter # "null"
         /\ phase'[w] = "pairing" => pairing_guard # "null"
         /\ compat_lock' \in {compat_lock, w, Free}
<1> USE DEF Moves, Phases, objects, pool
<1>1. CASE Take(w)
  BY <1>1 DEF Take
<1>2. CASE CheckLimiter(w) \/ Limit(w)
  BY <1>2 DEF CheckLimiter, Limit
<1>3. CASE Route(w) \/ Pair(w)
  BY <1>3 DEF Route, Pair
<1>4. CASE ChatBegin(w) \/ ChatEnd(w)
  BY <1>4 DEF ChatBegin, ChatEnd
<1>5. CASE Finish(w)
  BY <1>5 DEF Finish
<1> QED
  BY <1>1, <1>2, <1>3, <1>4, <1>5 DEF Worker

\* The pool and the workers keep their types.
LEMMA PoolStep == PoolTypes /\ Next => PoolTypes'
<1> SUFFICES ASSUME PoolTypes, Next PROVE PoolTypes'
  OBVIOUS
<1>1. CASE Terminate \/ Hangup \/ Main
  BY <1>1, MainLeavesPool DEF PoolTypes, pool, workers
<1>2. CASE Gateway
  <2>1. waiting' \in Seq(Requests) /\ Len(waiting') <= QueueCap
    BY <1>2, GatewayLeavesWorkers, PoolOperations DEF PoolTypes
  <2> QED
    BY <1>2, <2>1, GatewayLeavesWorkers DEF PoolTypes, workers
<1>3. ASSUME NEW w \in Workers, Worker(w) PROVE PoolTypes'
  <2>1. waiting' \in Seq(Requests) /\ Len(waiting') <= QueueCap
    BY <1>3, WorkerMoves, PoolOperations DEF PoolTypes, Pool!Complete
  <2>2. active' \subseteq Workers \X Requests
    BY <1>3, WorkerMoves, PoolOperations DEF PoolTypes, Pool!Complete
  <2>3. phase' \in [Workers -> Phases] /\ late' \subseteq Workers
    BY <1>3, WorkerMoves DEF PoolTypes
  <2>4. compat_lock' \in Workers \cup {Free}
    BY <1>3, WorkerMoves DEF PoolTypes
  <2> QED
    BY <2>1, <2>2, <2>3, <2>4 DEF PoolTypes
<1> QED
  BY <1>1, <1>2, <1>3 DEF Next

\* A worker has one request while it is busy and none while it is idle.
LEMMA SlotStep == PoolTypes /\ SlotInv /\ Next => SlotInv'
<1> SUFFICES ASSUME PoolTypes, SlotInv, Next PROVE SlotInv'
  OBVIOUS
<1>1. CASE Terminate \/ Hangup \/ Main
  BY <1>1, MainLeavesPool DEF SlotInv, pool, workers
<1>2. CASE Gateway
  BY <1>2, GatewayLeavesWorkers DEF SlotInv, workers
<1>3. ASSUME NEW w \in Workers, Worker(w) PROVE SlotInv'
  <2>0. PICK p \in Phases : phase' = [phase EXCEPT ![w] = p]
    BY <1>3, WorkerMoves DEF PoolTypes
  <2>1. \A v \in Workers \ {w} : phase'[v] = phase[v]
    BY <2>0 DEF PoolTypes
  <2>2. CASE phase[w] # "idle" /\ phase'[w] # "idle" /\ active' = active
    BY <2>1, <2>2 DEF SlotInv
  <2>3. CASE phase[w] = "idle" /\ phase'[w] = "taken" /\ Pool!Start(w)
    <3>1. active' = active \cup {<<w, Head(waiting)>>}
      BY <2>3 DEF Pool!Start
    <3>2. \A a \in active : a[1] # w
      BY <2>3 DEF Pool!Start
    <3>3. \A a, b \in active' : a[1] = b[1] => a = b
      BY <3>1, <3>2 DEF SlotInv
    <3>4. ASSUME NEW v \in Workers
          PROVE  phase'[v] = "idle" <=> \A a \in active' : a[1] # v
      <4>1. CASE v = w
        <5>1. <<w, Head(waiting)>>[1] = w /\ <<w, Head(waiting)>> \in active'
          BY <3>1
        <5> QED
          BY <2>3, <4>1, <5>1
      <4>2. CASE v # w
        BY <2>1, <3>1, <4>2 DEF SlotInv
      <4> QED
        BY <4>1, <4>2
    <3> QED
      BY <3>3, <3>4 DEF SlotInv
  <2>4. CASE phase[w] = "done" /\ phase'[w] = "idle" /\ \E x \in Requests : Pool!Complete(<<w, x>>)
    <3>1. PICK x \in Requests : <<w, x>> \in active /\ active' = active \ {<<w, x>>}
      BY <2>4 DEF Pool!Complete
    <3>2. \A a \in active' : a[1] # w
      BY <3>1 DEF SlotInv
    <3>3. \A v \in Workers \ {w} : \A a \in active : a[1] = v => a \in active'
      BY <3>1
    <3>4. \A a, b \in active' : a[1] = b[1] => a = b
      BY <3>1 DEF SlotInv
    <3>5. ASSUME NEW v \in Workers
          PROVE  phase'[v] = "idle" <=> \A a \in active' : a[1] # v
      <4>1. CASE v = w
        BY <2>4, <3>2, <4>1
      <4>2. CASE v # w
        <5>1. phase'[v] = phase[v] /\ (phase[v] = "idle" <=> \A a \in active : a[1] # v)
          BY <2>1, <4>2 DEF SlotInv
        <5> QED
          BY <3>1, <3>3, <4>2, <5>1
      <4> QED
        BY <4>1, <4>2
    <3> QED
      BY <3>4, <3>5 DEF SlotInv
  <2> QED
    BY <1>3, <2>2, <2>3, <2>4, WorkerMoves DEF PoolTypes
<1> QED
  BY <1>1, <1>2, <1>3 DEF Next

\* A request taken up while the pool is being destroyed finds no guard and no limiter to use, and
\* is over before the gateway's state is freed.
LEMMA LateStep ==
  PoolTypes /\ SlotInv /\ ClearedInv /\ LateInv /\ Next => LateInv'
<1> SUFFICES ASSUME PoolTypes, SlotInv, ClearedInv, LateInv, Next PROVE LateInv'
  OBVIOUS
<1>1. CASE Terminate \/ Hangup \/ Main
  BY <1>1, MainLeavesPool DEF LateInv, workers
<1>2. CASE Gateway
  <2>1. late' = late /\ phase' = phase
    BY <1>2, GatewayLeavesWorkers DEF workers
  <2>2. CASE late = {}
    BY <2>1, <2>2 DEF LateInv
  <2>3. CASE late # {}
    <3>1. PICK w \in late : gw = "closing" /\ w \in Workers /\ phase[w] # "idle"
      BY <2>3 DEF LateInv, PoolTypes
    <3>2. active # {}
      BY <3>1 DEF SlotInv
    <3>3. FALSE
      BY <1>2, <3>1, <3>2 DEF Gateway, GwOnward, GwInstall, GwSubmit, GwTurnEnd, GwDrain, GwDetach,
        GwFreeGuard, GwFreeLimiter, GwClosePool, GwReturn, GwRetry, GwSetUp, GwBind, GwCreatePool,
        GwStopped, GwTurn, GwPollFails, GwChat, GwRead, GwStep, PoolDone
    <3> QED
      BY <3>3
  <2> QED
    BY <2>2, <2>3
<1>3. ASSUME NEW w \in Workers, Worker(w) PROVE LateInv'
  <2>0. PICK p \in Phases : phase' = [phase EXCEPT ![w] = p]
    BY <1>3, WorkerMoves DEF PoolTypes
  <2>1. gw' = gw /\ \A v \in Workers \ {w} : phase'[v] = phase[v]
    BY <1>3, <2>0, WorkerLeavesRest DEF PoolTypes
  <2>2. late' \subseteq late \cup {w} /\ late \subseteq Workers
    BY <1>3, WorkerMoves DEF PoolTypes
  <2>3. w \in late' => gw = "closing" /\ phase'[w] # "idle"
    BY <1>3, WorkerMoves DEF PoolTypes, LateInv
  <2>4. gw = "closing" => phase'[w] \notin {"limiting", "pairing"}
    BY <1>3, WorkerMoves DEF PoolTypes, ClearedInv
  <2> QED
    BY <2>1, <2>2, <2>3, <2>4 DEF LateInv
<1> QED
  BY <1>1, <1>2, <1>3 DEF Next

\* Every step keeps the invariant.
LEMMA ShutdownStep == ShutdownInv /\ [Next]_vars => ShutdownInv'
<1> SUFFICES ASSUME ShutdownInv, [Next]_vars PROVE ShutdownInv'
  OBVIOUS
<1>1. FlagTypes /\ PlaceTypes /\ CountTypes /\ SubscriberTypes /\ PoolTypes
  BY TypeParts DEF ShutdownInv
<1>2. CASE Next
  <2>1. FlagTypes' /\ PlaceTypes' /\ CountTypes' /\ SubscriberTypes' /\ PoolTypes'
    BY <1>1, <1>2, FlagStep, PlaceStep, CountStep, SubscriberStep, PoolStep
  <2>2. TypeOK'
    BY <2>1 DEF TypeOK, FlagTypes, PlaceTypes, CountTypes, SubscriberTypes, PoolTypes
  <2>3. MutexInv' /\ ClearedInv' /\ TeardownInv' /\ QuietInv'
    BY <1>1, <1>2, MutexStep, ClearedStep, TeardownStep, QuietStep DEF ShutdownInv
  <2>4. SlotInv' /\ LateInv'
    BY <1>1, <1>2, SlotStep, LateStep DEF ShutdownInv
  <2> QED
    BY <2>2, <2>3, <2>4 DEF ShutdownInv
<1>3. CASE UNCHANGED vars
  <2> USE DEF vars, signals, thread, objects, pool, workers
  <2>1. TypeOK'
    BY <1>3 DEF ShutdownInv, TypeOK
  <2>2. MutexInv' /\ QuietInv' /\ ClearedInv' /\ TeardownInv'
    BY <1>3 DEF ShutdownInv, MutexInv, QuietInv, ClearedInv, TeardownInv
  <2>3. SlotInv' /\ LateInv'
    BY <1>3 DEF ShutdownInv, SlotInv, LateInv
  <2> QED
    BY <2>1, <2>2, <2>3 DEF ShutdownInv
<1> QED
  BY <1>2, <1>3

----------------------------------------------------------------------------
\* The inductive invariant holds in every reachable state of the service.
THEOREM ShutdownInvariant == Spec => []ShutdownInv
<1>1. Init => ShutdownInv
  BY InitShutdown
<1>2. ShutdownInv /\ [Next]_vars => ShutdownInv'
  BY ShutdownStep
<1> QED
  BY <1>1, <1>2, PTL DEF Spec

\* The variables of the service keep their types; in particular no more requests wait than the
\* pool's queue has room for.
THEOREM ServiceTypes == Spec => []TypeOK
<1>1. ShutdownInv => TypeOK
  BY DEF ShutdownInv
<1> QED
  BY <1>1, ShutdownInvariant, PTL

\* A reload never replaces the hook registry under a turn of the bus: svc_agent_mutex is held by
\* one of the two.
THEOREM ReloadExcludesBusTurns == Spec => []ReloadSparesBusTurns
<1>1. ShutdownInv => ReloadSparesBusTurns
  BY DEF ShutdownInv, MutexInv, ReloadSparesBusTurns
<1> QED
  BY <1>1, ShutdownInvariant, PTL

\* hu_gateway_run frees the gateway's state only when no request is queued or in a worker's
\* hands, for any number of workers and of looks at the pool.
THEOREM GatewayIsFreedQuietly == Spec => []GatewayFreedQuietly
<1>1. ShutdownInv => GatewayFreedQuietly
  BY DEF ShutdownInv, QuietInv, SlotInv, GatewayFreedQuietly
<1> QED
  BY <1>1, ShutdownInvariant, PTL

\* main tears the agent down when neither the gateway's thread nor a worker is in a turn.
THEOREM AgentOutlivesItsTurns == Spec => []AgentOutlivesTurns
<1>1. ShutdownInv => AgentOutlivesTurns
  BY DEF ShutdownInv, TeardownInv, QuietInv, SlotInv, AgentOutlivesTurns
<1> QED
  BY <1>1, ShutdownInvariant, PTL

\* The requests that hu_thread_pool_destroy still has run use no freed guard and no freed limiter.
THEOREM LateRequestsAreSafe == Spec => []LateRequestsSafe
<1>1. ShutdownInv => LateRequestsSafe
  BY DEF ShutdownInv, LateInv, LateRequestsSafe
<1> QED
  BY <1>1, ShutdownInvariant, PTL
=============================================================================
