------------------------------- MODULE Service -------------------------------
(***************************************************************************)
(* The service process with --with-gateway: the main thread's service loop *)
(* (cmd_service_loop, hu_service_run), the gateway's thread                *)
(* (svc_gateway_thread, hu_gateway_run), the workers of its HTTP pool, the *)
(* event bus between them, the signals, and the one agent they share.      *)
(*                                                                         *)
(* The pool is WorkQueue, which ThreadPool is shown to implement.  A chat  *)
(* message that arrives by WebSocket is published on the bus by the        *)
(* gateway's thread and answered on it, under svc_agent_mutex; a chat      *)
(* request that arrives by HTTP is answered by a worker, under             *)
(* g_openai_compat_agent_lock.  Of the bus' subscribers only the agent's   *)
(* handler and the gateway's event bridge are kept, of the requests the    *)
(* two kinds that use shared objects.  Pairing is required, and the guard  *)
(* and the limiter get their memory.  The detached thread of a cron.run    *)
(* call is left out.                                                       *)
(***************************************************************************)
EXTENDS Naturals, Sequences, FiniteSets

CONSTANTS Workers,     \* of the HTTP pool
          QueueCap,    \* requests that may wait for one
          MaxAttempts, \* how often svc_gateway_thread runs the gateway
          MaxPolls     \* how often the shutdown looks whether the pool is idle

ASSUME WorkersAssumption == IsFiniteSet(Workers) /\ Workers # {}
ASSUME BoundsAssumption  == QueueCap \in Nat \ {0} /\ MaxAttempts \in Nat \ {0} /\ MaxPolls \in Nat

Requests == {"chat", "pair"}
Free == "free"

\* A pointer of the gateway's state: NULL, to a live object, or to a freed one.
Pointer == {"null", "live", "dangling"}

VARIABLES
  handler,      \* who hears SIGTERM and SIGINT; the disposition is the process'
  g_stop_flag, s_gateway_stop, reload_requested,
  svc_mutex,    \* svc_agent_mutex: free, or who holds it
  compat_lock,  \* g_openai_compat_agent_lock: free, or the worker that holds it
  main,         \* where the main thread is
  gw,           \* where the gateway's thread is
  attempt, failed, \* svc_gateway_thread's attempt, and the err hu_gateway_run will return
  polls,        \* looks at the pool that the shutdown has left
  subscribers,  \* of svc_bus
  pairing_guard, rate_limiter,
  waiting, active, open, \* the HTTP pool
  phase,        \* phase[w]: where worker w is in its request
  late          \* workers whose request was taken up after hu_thread_pool_destroy began (history)

pool    == <<waiting, active, open>>
workers == <<compat_lock, phase, late>>
signals == <<handler, g_stop_flag, s_gateway_stop, reload_requested>>
objects == <<pairing_guard, rate_limiter>>
thread  == <<attempt, failed, polls>>
vars == <<signals, svc_mutex, main, gw, thread, subscribers, objects, pool, workers>>

Pool == INSTANCE WorkQueue WITH Work <- Requests, Capacity <- QueueCap, Parallel <- Workers

MainAt == {"boot", "top", "guard", "reload", "work", "left", "join", "teardown", "gone", "killed"}
GwAt   == {"start", "bind", "listening", "installed", "loop", "submit", "lock", "turn", "relock", "drain",
           "bridge", "guard", "guard freed", "limiter", "limiter freed", "pool", "closing",
           "backoff", "ended"}
Phases == {"idle", "taken", "limiting", "admitted", "pairing", "locking", "turn", "done"}

TypeOK ==
  /\ handler \in {"default", "service", "gateway"}
  /\ g_stop_flag \in BOOLEAN /\ s_gateway_stop \in BOOLEAN /\ reload_requested \in BOOLEAN
  /\ svc_mutex \in {Free, "main", "gateway"}
  /\ compat_lock \in Workers \cup {Free}
  /\ main \in MainAt /\ gw \in GwAt
  /\ attempt \in 0..MaxAttempts - 1 /\ failed \in BOOLEAN /\ polls \in 0..MaxPolls
  /\ subscribers \subseteq {"agent", "bridge"}
  /\ pairing_guard \in Pointer /\ rate_limiter \in Pointer
  /\ waiting \in Seq(Requests) /\ Len(waiting) <= QueueCap
  /\ active \subseteq Workers \X Requests /\ open \in BOOLEAN
  /\ phase \in [Workers -> Phases] /\ late \subseteq Workers

\* The agent's handler is subscribed and the guard is set; the gateway's thread has
\* been created, or could not be (gw_tid = 0).
Init ==
  /\ handler = "default"
  /\ g_stop_flag = FALSE /\ s_gateway_stop = FALSE /\ reload_requested = FALSE
  /\ svc_mutex = Free /\ compat_lock = Free
  /\ main = "boot" /\ gw \in {"start", "ended"}
  /\ attempt = 0 /\ failed = FALSE /\ polls = 0
  /\ subscribers = {"agent"}
  /\ pairing_guard = "null" /\ rate_limiter = "null"
  /\ waiting = << >> /\ active = {} /\ open = FALSE
  /\ phase = [w \in Workers |-> "idle"] /\ late = {}

Up == main \notin {"gone", "killed"}

-----------------------------------------------------------------------------
(* Signals.                                                                *)

\* SIGTERM: whoever installed a handler last hears it; before that it is fatal.
Terminate ==
  /\ Up
  /\ \/ handler = "default" /\ main' = "killed" /\ UNCHANGED <<g_stop_flag, s_gateway_stop>>
     \/ handler = "service" /\ g_stop_flag' = TRUE /\ UNCHANGED <<main, s_gateway_stop>>
     \/ handler = "gateway" /\ s_gateway_stop' = TRUE /\ UNCHANGED <<main, g_stop_flag>>
  /\ UNCHANGED <<handler, reload_requested, svc_mutex, gw, thread, subscribers, objects, pool, workers>>

\* handle_sighup
Hangup ==
  /\ Up /\ ~reload_requested
  /\ reload_requested' = TRUE
  /\ UNCHANGED <<handler, g_stop_flag, s_gateway_stop, svc_mutex, main, gw, thread, subscribers,
                 objects, pool, workers>>

-----------------------------------------------------------------------------
(* The main thread.                                                        *)

\* hu_service_run, up to its loop.
ServiceStart ==
  /\ main = "boot"
  /\ main' = "top"
  /\ g_stop_flag' = FALSE /\ handler' = "service"
  /\ UNCHANGED <<s_gateway_stop, reload_requested, svc_mutex, gw, thread, subscribers, objects,
                 pool, workers>>

\* The head of the loop and the first half of hu_daemon_config_reload_tick.
ServiceTop ==
  /\ main = "top"
  /\ \/ g_stop_flag /\ main' = "left" /\ UNCHANGED reload_requested
     \/ ~g_stop_flag /\ ~reload_requested /\ main' = "work" /\ UNCHANGED reload_requested
     \/ ~g_stop_flag /\ reload_requested /\ main' = "guard" /\ reload_requested' = FALSE
  /\ UNCHANGED <<handler, g_stop_flag, s_gateway_stop, svc_mutex, gw, thread, subscribers, objects,
                 pool, workers>>

\* Slip: main.c does not register the guard.
Unguarded == TRUE

\* reload_guard_lock can take the mutex.
ReloadGuard == svc_mutex = Free

\* The hook registry is destroyed and recreated while main is at "reload".
ReloadBegin ==
  /\ main = "guard" /\ ReloadGuard
  /\ main' = "reload" /\ svc_mutex' = "main"
  /\ UNCHANGED <<signals, gw, thread, subscribers, objects, pool, workers>>

ReloadEnd ==
  /\ main = "reload"
  /\ main' = "work" /\ svc_mutex' = Free
  /\ UNCHANGED <<signals, gw, thread, subscribers, objects, pool, workers>>

\* The rest of the iteration: channels polled, messages answered, the sleep.
ServiceWork ==
  /\ main = "work"
  /\ main' = "top"
  /\ UNCHANGED <<signals, svc_mutex, gw, thread, subscribers, objects, pool, workers>>

\* hu_bus_unsubscribe
Unsubscribe ==
  /\ main = "left"
  /\ main' = "join" /\ subscribers' = subscribers \ {"agent"}
  /\ UNCHANGED <<signals, svc_mutex, gw, thread, objects, pool, workers>>

\* Slip: the gateway's thread is left to itself.
NotJoined == TRUE

\* pthread_join(gw_tid) returns.
Joined == gw = "ended"

\* From here on the agent and its provider are being freed.
Join ==
  /\ main = "join" /\ Joined
  /\ main' = "teardown"
  /\ UNCHANGED <<signals, svc_mutex, gw, thread, subscribers, objects, pool, workers>>

Exit ==
  /\ main = "teardown"
  /\ main' = "gone"
  /\ UNCHANGED <<signals, svc_mutex, gw, thread, subscribers, objects, pool, workers>>

-----------------------------------------------------------------------------
(* The gateway's thread.                                                   *)

GwStep(from, to) == Up /\ gw = from /\ gw' = to

\* hu_gateway_run from its state to the pairing guard; without memory for the state
\* there is nothing to clean up.
GwSetUp ==
  /\ Up /\ gw = "start"
  /\ \/ /\ gw' = "bind"
        /\ subscribers' = subscribers \cup {"bridge"}
        /\ pairing_guard' = "live"
        /\ UNCHANGED failed
     \/ gw' = "closing" /\ failed' = TRUE /\ UNCHANGED <<subscribers, pairing_guard>>
  /\ UNCHANGED <<signals, svc_mutex, main, attempt, polls, rate_limiter, pool, workers>>

GwBind ==
  /\ \/ GwStep("bind", "listening") /\ UNCHANGED failed
     \/ GwStep("bind", "bridge") /\ failed' = TRUE
  /\ UNCHANGED <<signals, svc_mutex, main, attempt, polls, subscribers, objects, pool, workers>>

\* s_gateway_stop = 0 and sigaction.
GwInstall ==
  /\ GwStep("listening", "installed")
  /\ s_gateway_stop' = FALSE /\ handler' = "gateway"
  /\ UNCHANGED <<g_stop_flag, reload_requested, svc_mutex, main, thread, subscribers, objects,
                 pool, workers>>

\* The rate limiter, the pool, and the buffer for bodies.
GwCreatePool ==
  /\ \/ GwStep("installed", "loop") /\ open' = TRUE /\ UNCHANGED failed
     \/ GwStep("installed", "bridge") /\ failed' = TRUE /\ open' \in BOOLEAN
  /\ rate_limiter' = "live"
  /\ UNCHANGED <<signals, svc_mutex, main, attempt, polls, subscribers, pairing_guard, waiting,
                 active, workers>>

\* The loop ends by the flag, or by an error of poll other than EINTR; what follows
\* asks the flag again.
GwStopped ==
  /\ s_gateway_stop /\ GwStep("loop", "drain")
  /\ polls' = MaxPolls
  /\ UNCHANGED <<signals, svc_mutex, main, attempt, failed, subscribers, objects, pool, workers>>

GwPollFails ==
  /\ ~s_gateway_stop /\ GwStep("loop", "bridge")
  /\ UNCHANGED <<signals, svc_mutex, main, thread, subscribers, objects, pool, workers>>

\* A connection is accepted and its request read.
GwRead ==
  /\ ~s_gateway_stop /\ GwStep("loop", "submit")
  /\ UNCHANGED <<signals, svc_mutex, main, thread, subscribers, objects, pool, workers>>

\* hu_thread_pool_submit, which waits for room.
GwSubmit ==
  /\ GwStep("submit", "loop")
  /\ \E x \in Requests : Pool!Accept(x)
  /\ UNCHANGED <<signals, svc_mutex, main, thread, subscribers, objects, workers>>

\* Slip: the handler subscribes to every type of event.
HearsAll(s, type) == s \in subscribers

\* hu_bus_publish calls s for an event of this type.
Hears(s, type) == s \in subscribers /\ (s = "agent" => type = "received")

\* chat.send: the event is published, and the agent's handler, if it is in the snapshot,
\* starts with locking the mutex.  The bridge only writes to WebSockets.
GwChat ==
  /\ ~s_gateway_stop /\ Hears("agent", "received")
  /\ GwStep("loop", "lock")
  /\ UNCHANGED <<signals, svc_mutex, main, thread, subscribers, objects, pool, workers>>

GwTurn ==
  /\ svc_mutex = Free
  /\ GwStep("lock", "turn")
  /\ svc_mutex' = "gateway"
  /\ UNCHANGED <<signals, main, thread, subscribers, objects, pool, workers>>

\* The turn ends, its answer or error is published on the same bus, still under the
\* mutex, and the mutex is released.
GwTurnEnd ==
  /\ GwStep("turn", IF Hears("agent", "sent") THEN "relock" ELSE "loop")
  /\ svc_mutex' = IF Hears("agent", "sent") THEN svc_mutex ELSE Free
  /\ UNCHANGED <<signals, main, thread, subscribers, objects, pool, workers>>

\* The shutdown sleeps and looks again.
DrainGoesOn == polls > 0 /\ active # {}

GwDrain ==
  /\ \/ DrainGoesOn /\ GwStep("drain", "drain") /\ polls' = polls - 1
     \/ ~DrainGoesOn /\ GwStep("drain", "bridge") /\ polls' = 0
  /\ UNCHANGED <<signals, svc_mutex, main, attempt, failed, subscribers, objects, pool, workers>>

\* cleanup: hu_event_bridge_deinit
GwDetach ==
  /\ GwStep("bridge", "guard")
  /\ subscribers' = subscribers \ {"bridge"}
  /\ UNCHANGED <<signals, svc_mutex, main, thread, objects, pool, workers>>

Destroyed(p) == IF p = "live" THEN "dangling" ELSE p

\* Slip: the pointer is left behind.
Kept(p) == p

Nulled(p) == "null"

GwFreeGuard ==
  /\ \/ GwStep("guard", "guard freed") /\ pairing_guard' = Destroyed(pairing_guard)
     \/ GwStep("guard freed", "limiter") /\ pairing_guard' = Nulled(pairing_guard)
  /\ UNCHANGED <<signals, svc_mutex, main, thread, subscribers, rate_limiter, pool, workers>>

GwFreeLimiter ==
  /\ \/ GwStep("limiter", "limiter freed") /\ rate_limiter' = Destroyed(rate_limiter)
     \/ GwStep("limiter freed", "pool") /\ rate_limiter' = Nulled(rate_limiter)
  /\ UNCHANGED <<signals, svc_mutex, main, thread, subscribers, pairing_guard, pool, workers>>

\* hu_thread_pool_destroy begins; there may be no pool.
GwClosePool ==
  /\ GwStep("pool", "closing")
  /\ Pool!Close
  /\ UNCHANGED <<signals, svc_mutex, main, thread, subscribers, objects, workers>>

\* Slip: a request that a worker has in hand is not waited for.
QueueEmpty == waiting = << >>

\* Every worker has been joined: the queue is empty and nobody has a request.
PoolDone == waiting = << >> /\ active = {}

\* Slip: the thread runs the gateway again whatever it returned.
RetriesAlways == attempt + 1 < MaxAttempts

Retries == failed /\ attempt + 1 < MaxAttempts

\* The gateway's state is freed, and svc_gateway_thread looks at the error.
GwReturn ==
  /\ PoolDone
  /\ \/ Retries /\ GwStep("closing", "backoff") /\ attempt' = attempt + 1
     \/ ~Retries /\ GwStep("closing", "ended") /\ UNCHANGED attempt
  /\ UNCHANGED <<signals, svc_mutex, main, failed, polls, subscribers, objects, pool, workers>>

GwRetry ==
  /\ GwStep("backoff", "start")
  /\ failed' = FALSE
  /\ UNCHANGED <<signals, svc_mutex, main, attempt, polls, subscribers, objects, pool, workers>>

-----------------------------------------------------------------------------
(* The workers: http_worker_fn and handle_http_request.                    *)

Moves(w, from, to) == Up /\ phase[w] = from /\ phase' = [phase EXCEPT ![w] = to]

Handles(w, x) == <<w, x>> \in active

Take(w) ==
  /\ Moves(w, "idle", "taken") /\ Pool!Start(w)
  /\ late' = IF gw = "closing" THEN late \cup {w} ELSE late
  /\ UNCHANGED <<signals, svc_mutex, compat_lock, main, gw, thread, subscribers, objects>>

\* if (gw->rate_limiter && ...)
CheckLimiter(w) ==
  /\ \/ rate_limiter = "null" /\ Moves(w, "taken", "admitted")
     \/ rate_limiter # "null" /\ Moves(w, "taken", "limiting")
  /\ UNCHANGED <<signals, svc_mutex, compat_lock, main, gw, thread, subscribers, objects, pool, late>>

\* hu_rate_limiter_allow: admitted, or 429.
Limit(w) ==
  /\ Moves(w, "limiting", "admitted") \/ Moves(w, "limiting", "done")
  /\ UNCHANGED <<signals, svc_mutex, compat_lock, main, gw, thread, subscribers, objects, pool, late>>

\* The routes.  Pairing asks for the guard; a chat request may be refused on its way.
Route(w) ==
  /\ \/ Handles(w, "chat") /\ (Moves(w, "admitted", "locking") \/ Moves(w, "admitted", "done"))
     \/ Handles(w, "pair") /\ pairing_guard = "null" /\ Moves(w, "admitted", "done")
     \/ Handles(w, "pair") /\ pairing_guard # "null" /\ Moves(w, "admitted", "pairing")
  /\ UNCHANGED <<signals, svc_mutex, compat_lock, main, gw, thread, subscribers, objects, pool, late>>

\* hu_pairing_guard_attempt_pair
Pair(w) ==
  /\ Moves(w, "pairing", "done")
  /\ UNCHANGED <<signals, svc_mutex, compat_lock, main, gw, thread, subscribers, objects, pool, late>>

\* hu_openai_compat_handle_chat_completions
ChatBegin(w) ==
  /\ compat_lock = Free /\ Moves(w, "locking", "turn")
  /\ compat_lock' = w
  /\ UNCHANGED <<signals, svc_mutex, main, gw, thread, subscribers, objects, pool, late>>

ChatEnd(w) ==
  /\ Moves(w, "turn", "done")
  /\ compat_lock' = Free
  /\ UNCHANGED <<signals, svc_mutex, main, gw, thread, subscribers, objects, pool, late>>

\* The answer is sent, the connection closed and the work freed.
Finish(w) ==
  /\ Moves(w, "done", "idle") /\ \E x \in Requests : Pool!Complete(<<w, x>>)
  /\ late' = late \ {w}
  /\ UNCHANGED <<signals, svc_mutex, compat_lock, main, gw, thread, subscribers, objects>>

-----------------------------------------------------------------------------
Main ==
  ServiceStart \/ ServiceTop \/ ReloadBegin \/ ReloadEnd \/ ServiceWork \/ Unsubscribe \/ Join \/ Exit

\* What the gateway's thread does of itself, once its loop has been told to stop.
GwOnward ==
  \/ GwInstall \/ GwSubmit \/ GwTurnEnd \/ GwDrain \/ GwDetach \/ GwFreeGuard \/ GwFreeLimiter \/ GwClosePool
  \/ GwReturn \/ GwRetry \/ GwSetUp \/ GwBind \/ GwCreatePool \/ GwStopped

Gateway ==
  GwOnward \/ GwTurn \/ GwPollFails \/ GwChat \/ GwRead

Worker(w) ==
  \/ Take(w) \/ CheckLimiter(w) \/ Limit(w) \/ Route(w) \/ Pair(w) \/ ChatBegin(w) \/ ChatEnd(w)
  \/ Finish(w)

Next == Terminate \/ Hangup \/ Main \/ Gateway \/ \E w \in Workers : Worker(w)

\* Every thread is scheduled and every turn ends.  The reload holds the mutex once per
\* iteration of a loop that sleeps, so a gateway thread that waits for it gets it.
Fairness ==
  /\ WF_vars(Main) /\ WF_vars(GwOnward) /\ SF_vars(GwTurn)
  /\ \A w \in Workers : WF_vars(Worker(w))

Spec == Init /\ [][Next]_vars /\ Fairness

-----------------------------------------------------------------------------
(* Properties.                                                             *)

\* A reload never replaces the hook registry under a turn that answers a message of the
\* bus (main.c:1736-1741): the loop's tick and the bus' handler take the same mutex.
ReloadSparesBusTurns == ~(main = "reload" /\ gw \in {"turn", "relock"})

\* When the gateway's state is freed no request is queued or in a worker's hands, though
\* the shutdown's wait gives up after a while and looks only at running requests.
GatewayFreedQuietly ==
  gw \in {"start", "backoff", "ended"} =>
    waiting = << >> /\ \A w \in Workers : phase[w] = "idle"

\* When main tears the agent down, no thread it knows of is in a turn: neither the
\* gateway's, whose publication may still hold the unsubscribed handler in its snapshot,
\* nor a worker's.
AgentOutlivesTurns ==
  main \in {"teardown", "gone"} =>
    gw \notin {"lock", "turn", "relock"} /\ \A w \in Workers : phase[w] \notin {"locking", "turn"}

\* The requests that hu_thread_pool_destroy still has run find no freed limiter and no
\* freed guard: both pointers were cleared before.  (Requests already running may.)
LateRequestsSafe ==
  \A w \in late : /\ phase[w] = "limiting" => rate_limiter = "live"
                  /\ phase[w] = "pairing" => pairing_guard = "live"

\* A message of the bus is answered and the gateway's loop goes on: the answer is
\* published under the mutex that the handler takes, and must not reach the handler.
BusTurnEnds == (gw \in {"lock", "turn"}) ~> (gw = "loop" \/ ~Up)

\* A service both of whose loops were told to stop ends, with the pool full, the reload
\* pending or a turn in progress.
BothStoppedEnds ==
  (g_stop_flag /\ s_gateway_stop /\ gw \in {"loop", "submit", "lock", "turn", "drain"}) ~> ~Up

\* `human service stop' ends the service (main.c:1381 "service stopped"): a SIGTERM that
\* some loop has heard is followed by the end of the process.
StopEndsService == (g_stop_flag \/ s_gateway_stop) ~> ~Up
=============================================================================
