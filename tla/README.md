# TLA+ specifications of the Onelo Python SDK

This directory models the parts of the SDK (`src/src/onelo/`) whose correctness
depends on the order in which threads, event-loop callbacks, network answers and
shutdowns happen. Every module is checked with TLC on small instances. Every safety
property those checks confirm is also proved with TLAPS, for every number of
threads, users, events, requests, switches and forks; liveness stays with TLC.

`tlc -workers 2 -config X.cfg M` runs a model, `tlapm M.tla` checks the proofs.
`PROJECT.json` lists the runs, the source lines of every definition, the
disagreements found between code and documentation, the hazards and the theorems.

## 1. The system

An application process holds one `Onelo` client. The client starts a daemon
thread with its own asyncio loop (`_backend.py`) that runs one consumer, SSE or
polling, and writes feature snapshots into a shared cache. Independently,
`onelo.monitor` starts a second daemon thread with its own loop that ships
events. Application threads and request handlers call into both.

| Component | State | Operations | Interacts with |
|---|---|---|---|
| identity and cache (`_client.py`, `_cache.py`) | `_user_id` under `_user_id_lock`, which the loop takes too; `_features`, `_config_version`, `_generation` under the cache lock; the ready event; `_closed` | `identify`, `feature`, `ready`, `close`, fork handler | posts callbacks to the backend loop; the consumer applies results to it |
| backend thread (`_backend.py`) | `_loop`, `_consumer`, `_stopped` | `start`, `stop`, `signal_user_change` | owns the loop; receives callbacks of any thread |
| polling consumer (`_polling.py`) | `_stop`, `_wake`, the request in flight | `run`, `_poll_once`, `poll_now`, `stop` | cache, server |
| SSE consumer (`_sse.py`) | `_stop`, `_reconnect_signal`, `_last_event_at`, the connection | `run`, `_connect_and_consume`, `_healthcheck_loop`, `force_reconnect`, `stop` | cache, server, its own watchdog task |
| per-user features (`_features.py`) | `_UserSnapshotCache` | `for_user`, `invalidate_user` | concurrent callers on any loop |
| auto-discovery (`_features.py`, `_client.py`) | `_discovered`, `_pending_ping_task` | `feature`/`declare`, `_schedule_batch_ping`, `discovery_requested` | backend loop, server |
| auth cache and gates (`_auth_cache.py`, `fastapi.py`, `auth.py`) | an LRU of verified tokens | `RequireUser`, `verify_token`, `invalidate` | concurrent request handlers |
| auth adapters (`asgi.py`, `wsgi.py`, `flask.py`, `django.py`, `litestar.py`) | a cache each | the same steps, one answer to failure each | application, server, monitor scopes |
| monitor transport (`monitor/_transport.py`) | bounded buffer, `_wake`, `_flush_lock`, `_stopping`, hold-off window | `send`, `flush`, `stop`, the loop, the atexit hook | capture calls from any thread; its own loop |
| scopes (`monitor/_scope.py`, `_executor.py`, `_propagation.py`) | `Scope` objects behind two ContextVars; carriers | `isolation_scope`, `identified_scope`, `new_scope`, `set_user`, `add_breadcrumb`, `carrier`, `continue_trace`, `apply_scopes_to_event` | tasks that copy one another's context, threads that are reused |
| request integrations (`monitor/integrations/asgi.py`, `wsgi.py`, `flask.py`, `django.py`) | the scope of a request | one block or pair of hooks per request | web server, scopes |
| exception hooks (`monitor/_excepthook.py`) | the saved handlers, the hooked loops | `install`, `install_for_loop`, `uninstall` | interpreter, event loops, other SDKs |
| capture and lifecycle (`monitor/_capture.py`, `_init.py`) | the sink, session, deploy context, sample rates, scrubbing, flag provider, the active transport | `capture_*`, `track`, `init`, `close`, fork handler | all of the monitor, the client's cache, other SDKs |
| store, instance, http, detection | none, or one constant of the process | | |

What makes it hard: the consumer's answers race `identify()` and `close()`; a
callback posted to a loop runs later, or never if the loop is gone; an event
cleared at the wrong place loses a wake-up; several flushes share one buffer;
checks are made before an `await` and used after it; scopes are shared by tasks
nobody thought of; hooks are saved and restored by several SDKs at once; `init()`
and `close()` change a dozen globals one by one under capturing threads; a fork
copies locks and bound methods of a process whose threads are gone; the process
may end at any moment.

What each component has to guarantee:

* **identity and cache** — a feature read never shows another user's snapshot;
  `ready()` never speaks for an empty cache; the current snapshot arrives in the end.
* **consumers** — an identity change is asked for at once; a silent connection is
  replaced; `close()` ends them.
* **per-user cache** — bounded age, bounded size, eviction of what expires soonest;
  nothing survives an invalidation (it can: section 4).
* **auth** — no admission on a right lost longer ago than the cache's ttl; the
  retry budget is kept; the cache stays bounded; an outage is not a sign-out.
* **discovery** — a name used is a name reported; a click on "Discover" does not wait.
* **transport** — no event lost or sent twice inside the process, oldest first;
  `flush()` means flushed; an error leaves at once; exit drains; `stop()` ends.
* **scopes** — one request's user and breadcrumbs never appear in another's events,
  nor a producer's in a job of another request.
* **hooks** — an uncaught exception is still shown, other SDKs are not cut out,
  `close()` leaves nothing behind.
* **lifecycle** — an event is stamped by the monitor that sends it and reaches a
  transport that is running; a forked child works on its own and sends nothing of
  its parent's (its flags stay the parent's: section 4).

## 2. Modules and how they correspond to the code

An action is one step between two points where another thread or task can run: an
`await`, a lock, a callback boundary, or — where the code re-reads a shared
attribute — a bytecode boundary. Mutants (operators commented `Mutant:`) are
plausible wrong versions of a definition; each property is broken by at least one.

| Module | Models | Notes |
|---|---|---|
| `IdentityCache` | `_cache.py`, `identify()`, `close()`, the callbacks of `_backend.py` | extended by both consumers. A snapshot is abstracted to the user it was evaluated for, and `configVersion` to when. `identify()` takes the steps another thread can see: the id is written first (`IdentifyNew`), the cache moves on next (`BeginIdentity`), the signal is posted last (`SignalUserChange`), outside the lock. |
| `IdentitySnapshot` | what the cache promises, without threads, requests or a server | the abstract specification: one identity at a time; a switch empties, then the identity's snapshot is learnt at versions that never go back. |
| `PollingSync` | `_polling.py` on the backend loop | composes `IdentityCache` with the consumer and an external server. Callbacks run only while the consumer awaits. `ReadUser` waits for `_user_id_lock`, as `_get_user_id()` does. |
| `SSESync` | `_sse.py`, its backoff and its watchdog | the stream is what was sent and not yet read; the 90-second clock is the boolean `silent`. The peer may refuse the key, break, close or stall at any moment, during the handshake too. |
| `UserSnapshots` | `for_user()`, `_UserSnapshotCache`, `invalidate_user()` | real clock ticks, because deadlines matter; the failed resolve's `{}` is cached like any answer. |
| `AuthGate` | `RequireUser._resolve`, `_verify_with_retry`, `InProcessAuthCache`, and the adapters for Flask, Litestar, DRF and Django, ASGI and WSGI | handlers with different gates share a cache; the server may withdraw a token or a plan at any moment, and an answer is decided before it is received. The adapters repeat these steps and differ in what they tell the application when one fails: one operator each, and any of them may serve a request. `outcome` is a history variable: what the last step told the application, and why. A failure may be an exception the client does not expect, which two of the adapters catch. |
| `Discovery` | `_DiscoveredNames`, the debounced ping, `discovery_requested` | the loop begins "starting": `Onelo()` may return before its thread has made one (`loop_ready.wait(timeout=5.0)`). A component: it has no `Next` of its own. |
| `ClientLifecycle` | `identify()`, `_get_user_id()`, `ready()`, `close()` and `_after_fork()` around `Discovery` | the loop's thread runs no callback while it waits for `_user_id_lock`, so pings and `ready()` depend on who holds it. The connection is reduced to down, reading the user id, up; its protocol is `SSESync` and `PollingSync`. After `Fork` the variables are the child's, its histories included. |
| `MonitorTransport` | `_transport.py`, its loop, flush tasks, drop counter and atexit hook | an event is the number of the `send()` that queued it; `send()` is four steps because it reads `self._loop` again and again. `Fork` is `reinit_after_fork()`: the child starts where `Init` does, so it adds no states. |
| `MonitorScope` | `_scope.py`, `ScopeAwareExecutor`, `_propagation.py`, the scope of a request behind the ASGI, WSGI and Django middlewares and Flask's hooks | scopes are references into a heap, so that sharing is visible; a user and a breadcrumb carry which work they come from: start-up code is work 0, each request is one, and what runs for any request outside its block is `Outside`. A current scope lists in `spans` the works whose `new_scope()` it came from, and a block remembers the scope it works on. `app` is the integration a process uses, chosen at the start. Behind Django and Flask a request may stream its body when its block is over (`StreamsAfterBlock`, `BodySent`); under ASGI a WebSocket shares the server's context (`ServeSocket`). A job's `home` becomes the request that sent its carrier. |
| `DjangoScope` | `OneloMonitorMiddleware` under Django's ASGI handler | replaces how `MonitorScope` serves a request. |
| `Excepthook` | `_excepthook.py` beside another, well-behaved SDK | `Chain` is the handlers that run when an exception reaches a slot. A component of `MonitorLifecycle`. |
| `MonitorLifecycle` | `init()`, `close()` and the fork hook of `_init.py`, `_emit()` and its callers in `_capture.py`, the handlers of `_excepthook.py` while an exception is in them | `main` is the set of steps still to do of the call under way, one global per step; `Due` takes them in the code's order (`CloseSteps`, then `InitSteps`), so a set is enough. Settings are numbered by the `init()` that set them, caches by the process that made them. A capturing thread reads the sink, stamps, scrubs and reads the sink again; its exception may go through our handler first and then through whatever was saved. A transport is what `MonitorTransport` shows of it. |
| `MCUserSnapshots`, `MCMonitorScope` | — | symmetry sets for TLC; only where no liveness is checked, since symmetry is unsound for it. |
| `PollingSyncProofs`, `SSESyncProofs`, `UserSnapshotsProofs`, `AuthGateProofs`, `ClientLifecycleProofs`, `MonitorTransportProofs`, `MonitorLifecycleProofs`, `MonitorScopeProofs` | — | the theorems of section 5, one module per specification. |

Composition: `IdentityCache` + `PollingSync` or `SSESync` is the whole path from
`identify()` to the snapshot on the screen; both instantiate `IdentitySnapshot`
with `identity <- bound, shown <- features, version <- configVersion`. `bound` is a
history variable: the identity the current generation stands for, which differs
from `userId` exactly while `identify()` holds its lock.

External parts — the server, the network, the clock, another SDK, the web server
that creates tasks — are modelled from how the code uses them and marked external
in `PROJECT.json`.

## 3. What is checked

`CHECK_DEADLOCK FALSE` throughout: a closed client, a dead process and a bounded
clock rightly have no next step. Liveness, where it matters, is a property.

| Run | Shows | Bounds |
|---|---|---|
| `polling` | `SnapshotIsCurrent`: no interleaving of `identify()`, polls, late and lost answers and `close()` shows another user's snapshot. `StaleRequestIsSignalled`: while the consumer's last request was for an earlier identity, a wake-up is set or coming. `ImplementsSnapshot`: the refinement. `SettlesOnCurrent`: the current snapshot arrives | 2 threads, 3 identities, 3 switches, 2 versions: enough for A→B→A with an answer of the first A still on its way |
| `sse` | the same for the stream; `StaleConnectionIsSignalled`: no interleaving of signal, clear and reconnect leaves the consumer streaming for a previous user; `SilentStreamIsReplaced`, `CloseStops` | 2 threads, 2 identities, 2 switches, 2 versions; frames of one connection queue up while the configuration moves on |
| `transport` | `EventsAccounted`, `OldestFirst`, `FlushMeansSettled`, `ExitDrainsBuffer`; `ErrorStaysSignalled`: whatever the loop does, an error in the buffer keeps a wake-up coming; `StopEnds`: after `stop()` the loop ends and has reported every drop counted before | 3 events, the first an error, in a buffer of 2, so that two wait together, leave in one batch or lose the older to the third; 2 attempts; main loop, `flush()`, `stop()` and exit drain concurrently |
| `user_snapshots` | `ServedIsFresh`, `EvictsSoonest` | 3 users in 2 places, ttls 1 and 2, 2 callers, a resolve of up to 1 tick, 4 ticks |
| `auth_gate` | `LapsedIsRefused`; `OutageIsNotSignOut`, whichever way attempts fail and whichever adapter serves, but for one named exception (section 4); `NoLateAttempt` | 2 handlers, one gated, racing over 2 tokens, one of which may lose its rights, in a cache of 1; ttl, budget and attempts 2; 4 ticks |
| `client_lifecycle` | `NoNameForgotten`, `DiscoverIsDirect`; `NamesReachServer` and `ReadyUnlessLockLost`: in the parent and in a child, through identity switches and dropped connections, names are reported and `ready()` is answered, unless the fork lost the lock | 2 names, 2 threads (one forks while the other identifies), 1 request of the dashboard, 1 fork |
| `monitor_lifecycle` | `BufferedIsDelivered`: no accepted event is left to a thread that is gone, nor sent by parent and child; `EventsMatchTheirInit`: no event mixes two monitors; `UncaughtIsShown`; `ClosedLeavesNothing`, `OthersStillRun` | 2 calls of `init()`, each with or without client and hooks, any number of `close()`, 1 fork, 1 capturing thread, 1 thread slot and 1 loop, one of which another SDK comes to |
| `scope_isolation` | `UsersStayHome`, `BreadcrumbsStayHome` behind each integration, with spawned tasks, nested blocks, start-up code, reused threads, streamed bodies, WebSockets, teardowns that fail and jobs: what a request, task or job sets in its block stays there | 2 requests, 2 tasks or threads besides start-up, 1 carrier, 3 scopes, 1 block in a request's own, 1 scope with breadcrumbs at a time |

Every passing run checks its module's `TypeOK` too, which includes the bounds the code
keeps: the buffer's, both caches', the number of attempts.

The four runs that end in a counterexample are in section 4.

### Fairness

* Application threads finish a call they began; nobody is obliged to call.
* The loop runs what is ready (weak fairness). A posted callback runs although the
  consumer awaits only now and then (strong fairness): asyncio runs every ready
  callback before it polls again.
* In `ClientLifecycle` the loop's thread gets a lock that is free again and again, and
  callbacks take their turn between two connections; a lock whose owner did not
  survive the fork is never free, and nothing is promised then.
* Polling's interval elapses and SSE's backoff expires. In `MonitorTransport` nothing
  obliges the flush interval or the hold-off window to end: an error must leave
  without it. In `Discovery` the debounce ends once no new name restarts it, which
  `DiscoverIsDirect` does not rely on.
* `asyncio.Lock` is handed over in order of arrival, so a waiting flush gets it;
  weak fairness of `Drain`, which says less, is enough.
* The network recovers: not every poll, handshake or frame fails (strong fairness
  of the server's answer and of its receipt). Failures, stalls, refusals and
  configuration changes are never obliged to happen.
* Every request ends, by its answer or by the configured timeout, except the
  streaming request of `SSESync`, which has no read timeout: nothing ends a stalled
  handshake. The liveness properties of that module name the case as an exception
  (`HandshakeStalled`), and `sse_handshake_stall` checks the claim without it.

## 4. Where the code differs from what it says

Each of these is a run that TLC ends with a counterexample of the property named.

| Run | Disagreement |
|---|---|
| `sse_handshake_stall` | The zombie watchdog promises to replace a silent connection; its signal is not looked at before the response headers, and there is no read timeout. |
| `user_invalidation` | `invalidate_user()` makes the next call fetch fresh state, unless a resolve is in flight: it puts the old state back. |
| `flags_after_fork` | Events of a forked child carry the flags the parent had at the fork, for ever: the client gets a new cache, the flag provider keeps the old one's method. |
| `scope_django_async` | Under Django's ASGI handler the middleware's scope ends before the view runs, so requests share the scope start-up code used and report one another's users. |

Noted while modelling; the models contain the behaviour, no run states the claim:

* `identified_scope(None)` "leaves the user unset"; it keeps the user of the enclosing
  scope, which `clone()` copied (`Identified`).
* "Each incoming request enters this block so its `set_user` / breadcrumbs cannot bleed
  into other concurrent requests" (`isolation_scope()`), which is so inside the block.
  Django's middleware leaves it as it returns the response and Flask's teardown runs
  before an ordinary streamed body, so the streaming code works on the worker thread's
  base scope; the ASGI middleware passes a WebSocket by, whose code works on the server's
  scope. Whom they set and what breadcrumbs they leave there stay: later requests fork
  that user, and later streamed bodies and sockets report both. The model has these steps
  (`StreamsAfterBlock`, `ServeSocket`), and `UsersStayHome` and `BreadcrumbsStayHome`
  promise nothing to such code and nothing about what it sets (`Outside`). Only the WSGI
  middleware's block lasts until the body is sent.
* `continue_trace()` forks the isolation scope only: a worker task created inside a
  `new_scope()` block takes that current scope, its user and its breadcrumbs, into every
  job and into whatever the job opens and spawns. Such code may speak for the work whose
  `new_scope()` it is (`Near`); for everybody else's isolated data it may not.
* "Backend unreachable — NOT the same as an invalid/missing token": the ASGI and WSGI
  middlewares keep to it for `OneloAuthUnavailable`, but treat every exception that is no
  `OneloAuthError` as unauthenticated (`asgi.py:242`, `wsgi.py:185`): no user, and
  `onelo_auth_unavailable` left `False`, for a token that may be valid. `Breaks` is that
  failure, and `OutageIsNotSignOut` excepts it by name (`TreatedAsUnauth`); the other
  adapters let the exception go up to the framework.
* `reinit_after_fork()` says in its docstring that buffered events carry over, and in
  its body that they must not; it drops them.
* `force_reconnect()` "reconnect[s] immediately", except during the backoff sleep,
  which waits on `_stop` alone (`BackoffExpires` does not look at the signal).
* The hold-off window of the transport is tested before the flush lock is awaited:
  a queued flush posts inside the window (`Gate`, then `Drain`).
* `send()` "never raises", but reads `self._loop` again after testing it, while the
  loop's thread sets it to `None` (`SendPost`). The capture layer swallows it.
* The "hard wall-clock cap" of `_verify_with_retry` does not bound the attempt in
  flight: `NoLateAttempt` is what holds.
* "The next call after startup will catch up": a name first used before the backend
  has its loop is already known, so its next use sends nothing (`early`).
* "Removing our handler restores the prior chain exactly": after `close()` under another
  SDK's hook and a new `init()`, the two hooks call each other without end. Slots that
  were closed under another hook are `disordered`, and excepted.
* While `uninstall()` runs, a hook in another thread may find no saved hook, or find one
  and call `None`: the exception is shown by nobody (`overtaken`, excepted too).
* Between `set_transport()` and the rest of `init()`, a captured event is sent without
  session id and flags and with its email addresses, whatever the options say; `calm`
  excepts it.
* An event in `send()` while `close()` stops the transport is queued for a thread that
  has ended (`crossed`); "drain buffer" does not reach it.
* A refused `init()` (no key, no URL) has already closed the previous monitor.
* The client restarts in a child even if the parent had closed it. A fork while another
  thread is in `identify()` leaves `_user_id_lock` locked for ever (`holder = "dead"`).
  The monitor's own lock is replaced, the parent's cache lock is not, and the flag
  provider takes it.
* "We chain to whatever handler was installed before us" is not true of event loops,
  whose earlier handler is saved for `uninstall()` but not called; `OthersStillRun`
  is about thread hooks.

## 5. What is proved

Eight modules of proofs, each for every value of the constants that its named
assumptions allow. For each specification one theorem states an inductive invariant,
`IInv`, and the others follow from it; type correctness (`...Typed`) is always one of
them.

| Theorems | State, besides `TypeOK` |
|---|---|
| `PollingIdentitySafe`, `PollingRequestConsistent`, `PollingStaleSignalled` | `SnapshotIsCurrent` and `ReadyHasSnapshot`; what is asked of the server is asked for the right user and version; `StaleRequestIsSignalled` |
| `SSEIdentitySafe`, `SSEConnectionSafe` | the same, and `StaleConnectionIsSignalled` |
| `PollingImplements`, `SSEImplements` | the refinement of `IdentitySnapshot` |
| `UserSnapshotsFresh`, `UserSnapshotsEvictsSoonest` | `ServedIsFresh`; the action property `EvictsSoonest` |
| `AuthGateRefusesLapsed`, `AuthGateOutageIsNotSignOut`, `AuthGateNoLateAttempt` | `LapsedIsRefused`, `OutageIsNotSignOut` with its one exception, `NoLateAttempt` |
| `ClientForgetsNoName`, `ClientDiscoversDirectly` | `NoNameForgotten`, `DiscoverIsDirect` |
| `MonitorTransportAccounts`, `MonitorTransportOldestFirst`, `MonitorTransportFlushes`, `MonitorTransportExitDrains`, `MonitorTransportStaysSignalled` | `EventsAccounted`, `OldestFirst`, `FlushMeansSettled`, `ExitDrainsBuffer`; the action property `ErrorStaysSignalled` |
| `MonitorLifecycleDelivers`, `MonitorLifecycleMatches`, `MonitorLifecycleShowsUncaught`, `MonitorLifecycleLeavesNothing`, `MonitorLifecycleOthersRun` | `BufferedIsDelivered`, `EventsMatchTheirInit`, `UncaughtIsShown`, `ClosedLeavesNothing`, `OthersStillRun` |
| `MonitorScopeUsersStayHome`, `MonitorScopeBreadcrumbsStayHome` | `UsersStayHome`, `BreadcrumbsStayHome`: code inside the block of its request, and its tasks and jobs, reports only its own work's users and breadcrumbs, those of the work inside whose `new_scope()` it runs, start-up code's user, and what was set outside every block |

### Assumptions

They name what the constants are and nothing the code has to ensure: bounds and
capacities are naturals (positive where the code needs one), the anonymous identity is
an identity, a value that stands for "none" is not one of the others
(`NoUser`, `NoToken`, `Nobody`, the states of a lock, a slot's name), the tasks
of the transport are different ones, loops are not threads, the set of ttls is finite.
`BackoffAssumption` says that `2 ^ (attempt - 1)` is a natural number for the attempts
there are, since the provers know no exponentiation; TLC evaluates it.

### The inductive invariants

None of the safety properties is inductive: each needs what the code maintains on the
way.

* **Consumers.** Whether a late answer is harmless depends on what the generation it
  carries stands for. `LockHeld`: a thread is switching exactly when it holds the lock.
  `BoundIsUser`: the generation stands for the current user except inside that critical
  section. `CacheOfBound`: the cache is empty, at version 0, or holds the snapshot of
  the generation's identity. `RequestOfBound`/`AnswerOfRequest`,
  `ConnOfBound`/`StreamOfConn`: a request of the *current* generation is for that
  identity and names the cache's version; what comes back is for the request's user and
  not older. `SignalOnItsWay`: a request or connection of an older generation has a
  signal set, posted, or about to be posted. In the refinement `BeginIdentity` is
  `Switch`, an accepted answer is `Learn`, and everything else stutters.
* **Per-user cache.** A call in flight is young and its snapshot younger than the call
  (`CallsAreYoung`), which bounds the deadline of the entry it puts by the age of the
  snapshot (`EntriesExpire`), and so the age of what is served, whoever put it.
* **Auth.** An entry expires, and an answer is used, no later than a verification and a
  ttl after the token lost the right (`EntriesSound`, `Vouched`); a result without
  `paid` is final; an attempt in flight started inside the budget and is no older than a
  request timeout (`Asked`).
* **Discovery.** Until the loop is open no name counts as reported and nothing has been
  asked for; afterwards a known name has a ping coming (`NamesOnTheirWay`), a ping
  carries known names (`PingHasNames`), what the dashboard asked for is in a ping of its
  own (`RequestsDirect`), and a connection needs a loop (`Connected`).
* **Transport.** The buffer holds the latest events without a gap (`Contiguous`), what
  left it is in exactly one place (`Partition`), a drop is counted once and none is
  reported twice (`Counters`), the task that has a batch is the one
  that holds the lock (`Locked`), and its batch covers what is still missing of what its
  caller asked for (`Promised`).
* **Lifecycle.** The steps left to do say everything: they are the last ones of
  `close()`, of `init()`, or of one after the other (`Ordered`), and from them follow
  which transport the sink feeds (`SinkFollows`), which one runs (`OneRuns`,
  `BoxOfLive`) and whose settings and flags are in force (`SettingsFollow`,
  `FlagsFollow`). A thread in `_emit()` holds the sink of now or one that was taken away
  (`SendersHoldSink`), with an event no newer than it (`EventsBehind`). For the hooks:
  the other SDK stays in the chain of a slot it has hooked (`OthersSaved`); where the
  monitor was never closed under it the two are stacked in one of five ways (`Tidy`);
  and a handler that an exception is in has somewhere to pass it on (`ExceptionsGoOn`).
* **Scopes.** No action mentions another request's data, so what counts is who can
  write to the objects a task reaches: every isolation scope has one owner, an isolated
  work or the code outside every block with start-up code (`Side`), whose code alone can
  come back to it (`Ownership`, `Suits`; in Flask, a streamed body to any its thread was
  left with) and whose users and breadcrumbs alone it holds
  (`Holds`); current scopes list the works that may have written to them
  (`CurrentsSound`), carriers bring what their sender's scope held (`CarriersSound`), and
  blocks restore what they saved (`Nesting`).

Two models changed because of their proofs. `spans` used to keep the last `new_scope()`
alone, which `UsersStayHome` contradicts on instances with one task and one nested block
more than TLC's: it now follows everything opened inside. And the
hooks' slots are assumed not to be called "none", which `TypeOK` had taken for granted.

### Only model-checked

Liveness (`SettlesOnCurrent`, `SilentStreamIsReplaced`, `CloseStops`, `StopEnds`,
`NamesReachServer`, `ReadyUnlessLockLost`): fairness and `ENABLED` are beyond the prover.
The four counterexamples of section 4 are TLC's.

## 6. Bounds

Named bounds are constants whose declaration says `bound:`. They cut behaviours
short and never add any: `MaxSwitches`, `MaxVersion`, `MaxEvents`, `MaxTime`,
`MaxInvalidations`, `MaxRequests`, `MaxInits`, `MaxForks`, `MaxContested`,
`MaxCarriers`, `MaxScopes`, `MaxCrumbs`, `MaxDepth`,
`Withdrawn` (the tokens that may lose a right), and `Latency`, which stands for the
request timeout. Capacities that belong to the program
(`Capacity`, `MaxEntries`, `MaxSize`, `Attempts`, `TTL`, `Budget`) are small but
smaller than what is put against them, so that eviction, overflow, expiry and
giving up all happen. A clock of 4 ticks lets an entry be made, expire, be made
again and be read. Two calls of `init()` are a monitor and its successor, with a fork
before, between or after. `sys.excepthook` and `threading.excepthook` are treated
alike and slots touch one another only in `install()` and `uninstall()`, so one thread
slot and one loop, contested one at a time, show what more would. One capturing thread
is enough where threads share nothing but settings that only `init()` and `close()`
write. A second fork starts from a child, which is in no state a parent cannot be in,
but for the lost lock. Three scopes are two concurrent requests behind start-up code that
has one, or one request with its forks and jobs, or three turns of a worker thread;
two requests in which nothing was set at start-up need a fourth, which adds no sharing
(each makes its own). One scope with breadcrumbs at a time loses nothing: they do
not act on one another, and a foreign one is foreign alone. Running outside the request's
block counts as one nested block (`Nested`). For safety the proofs cover every larger instance.

## 7. Not modelled

* `_store.py`, `_http.py`, `_instance.py`, `_detection.py`: one request per call or
  a constant of the process; no state to go wrong.
* Scrubbing, stack traces, event types, request data, SSE line parsing: functions
  of one input; tests reach them.
* Outgoing-call integrations: one wrapper, one breadcrumb or event. The logging handler
  calls `capture_exception()` or `capture_message()`, which is `Captures`.
* `init()` or `close()` by two threads at once, or a fork in the middle of one; another
  SDK that leaves while an exception is in its handler.
* The application's own references to objects a fork replaced (`onelo.features` kept
  from before it).
* Tags, contexts and transactions of scopes: data; the user and the breadcrumbs
  stand for what must not leak.
* A server that breaks the poll's contract: a 304, or a 200 object without `features`,
  confirms the version held (`_polling.py:106`, `_polling.py:125`), and the model's server
  sends neither unless the version asked for is the current one (`Answer`).
* `identified_scope()` in a WebSocket handler is modelled as a block of `Outside`, for
  which no property speaks. `get_current_scope()` used to write to a current scope that a
  task inherited and did not open; `set_user()` and `add_breadcrumb()` never do.
* A WSGI server that iterates one response on several threads: servers do not.
* Pooled HTTP clients and auth caches the application brings along.

## 8. Plan

Done, in this order: `IdentityCache` with `PollingSync` and `SSESync`, their
abstract specification and proofs; `MonitorTransport`; `UserSnapshots`;
`AuthGate` and the adapters; `Discovery`; `Excepthook`; `MonitorScope` with
carriers and the request integrations; `DjangoScope`; the compositions
`ClientLifecycle` (over `Discovery`) and `MonitorLifecycle` (over `Excepthook`), with
the forks of both; the fork of `MonitorTransport`; the proofs of every safety property of
the passing runs.

Next: abstract specifications that several modules implement, with their refinements
checked and proved — a lossy queue for `MonitorTransport`, a ttl map for
`UserSnapshots` and `AuthGate`.
