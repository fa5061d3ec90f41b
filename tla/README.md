# A TLA+ development of tgwsproxy-core

This directory models the Go library under `src/native/tgwsproxy` (called "the
core" below, paths are relative to it): TLA+ modules translated from the code,
TLC configurations that check them on small instances, and TLAPS proofs of what
matters most for every value of the constants. `PROJECT.json` maps every
definition to the lines it stands for and lists runs, hazards and theorems.

## 1. The system

The core is a local proxy between a Telegram client and Telegram's data centres.
A client connects to a *frontend* (SOCKS5, or MTProto with fake TLS). For each
session the core plans a list of *routes* to the session's DC and tries them in
order: WebSocket through a user's Cloudflare Worker (plain, or as numbered chunks
over HTTP, the *chunk relay*), WebSocket through a Cloudflare-proxied domain,
WebSocket straight to Telegram, AmneziaWG/WARP, direct TCP. What it learns on the
way (circuits, cooldowns, scores, idle sockets) is shared by all sessions, each
of which runs in goroutines of its own. An Android app controls the core through
exported C functions that may be called from any thread.

### Components

| Component | Source | State it keeps | Operations | Modelled |
|---|---|---|---|---|
| Chunk-relay upload | `mtproto_chunk_relay_pipeline.go`, `_frames.go`, `_status.go` | `upSeq`, `completed`, head tracker, primary slots, per-job retry state | Write, launch, hedge, retry, answer, Close | yes, `ChunkUpload` |
| Chunk-relay connection, download | `mtproto_chunk_relay.go`, `_poll.go`, `_body_timeout.go` | `ackSeq`, read buffer, HTTP slots | dial, poll, Read, ack, Close | `ChunkDownload`; the open request in `WorkerRoute`; HTTP slots not |
| Cloudflare domain pool | `tgwsroute/cfpool.go`, used by `mtproto_ws_route.go` and `routing.go` | the lists, `inFlight`, health per DC and domain, `dcPreferred` | SelectionForDC, TryReserve, Release, MarkSuccess, MarkFailure, Set*Domains | `CfDomainPool`, but for the order of candidates |
| MTProto frontend runtime | `mtproxyfrontend/runtime.go` | listener, `runCtx`, status, counters, route truth | Start, Stop, accept loop, watchdog, sessions, bridge | `FrontendRuntime`, the bridge in `WsSession` |
| Worker circuit and failover | `worker_circuit_breaker.go`, `worker_failover.go`, `worker_session_selection.go`, `mtproto_worker_route.go` | end and reason per Worker, `rtWorkerFailoverActive` | select, mark, clear, dial, fail over | `WorkerRoute`, but for status texts |
| Worker destination scoring | `worker_dst_scoring.go`, `worker_network_probe.go`, `tgwsroute/worker_ipv6.go`, ... | scores, `workerRouteCooldowns` | order, report, probe | the route cooldown, in `RoutePlan` |
| Direct TCP route | `mtproto_direct_route.go`, `mtproto_direct_health.go` | failures and cooldown per address | dial, success, failure | a flag and the connect, in `Routes` |
| AmneziaWG/WARP route | `awg_warp_route_runtime.go`, `mtproto_awg_route.go`, ... | policy, configuration, tunnel | Configure, connect | the policy and the connect, in `RoutePlan`, `Routes` |
| Idle WebSocket pools | `tg-ws-proxy.go` (`WsPool`, `WorkerWsPool`) | idle sockets, refill and rotation flags | Get, Warmup, refill, rotation, maintenance, CloseAll | `WsPool`, one key |
| Proxy lifecycle and SOCKS frontend | `tg-ws-proxy.go`, `init_session.go` | the running proxy, its listener and sessions | StartProxy, StopProxy, runProxy, accept loop, watchdog, session | `ProxyLifecycle`, `SocksRoutes`, `WsSession` |
| Route planning and settings | `routing.go`, `route_runtime_state.go`, `mtproto_route_truth.go`, ... | settings, policy generation | set, snapshot, plan, run a chain | `RoutePlan`, `SocksRoutes`, `Routes` |
| Adaptive route store | `tgwsroute/adaptive.go`, `adaptive_bridge.go` | failures in a row, cooldown and score per route | order, record, persist | `RoutePlan`, with scores left open |
| WebSocket framing | `flowseal_websocket_frames.go`, `_lifecycle.go`, `mtproto_websocket_frames.go`, `RawWebSocket` | `writeMu`, `closed`, `frag` | Send, Recv, pong, Close | `WsSession` |
| Session handshake, fake TLS | `mtproxyfrontend/session.go`, `fake_tls.go` | ciphers | parse, derive | no: data; its outcomes are branches of the frontend |
| WARP provisioning | `awg_warp_*provisioning*`, `*bootstrap*`, `consumer_*` | none shared | one HTTP exchange | no: parsing and I/O |
| TLS dialing, socket diagnostics, payload traces, re-encryption, exports | `worker_tls.go`, `flowseal_websocket_{connect,utls,tls_profiles}.go`, `sockopt_*`, `tcp_*`, `worker_reencrypt.go` | none shared | library calls | no |
| Kotlin wrapper | `src/core/...` | none | bridge calls | no |

### How they interact

* **Frontend and connector.** `handleConnection` calls `connector.Connect`, which
  walks the planned routes; the call ends with a stream, or with an error when all
  routes failed or the run's context is done. Every connector runs concurrently
  with those of other sessions and with `Start`/`Stop`.
* **Connectors and shared health.** Circuit, domain pool, direct health, scores and
  the adaptive store are mutex-protected tables. A connector reads a
  decision (a list of candidates, "blocked until"), unlocks, dials for seconds and
  then writes a result. Between the two others did the same, so every table is
  modelled with one step per call, never with one step per attempt.
* **Settings.** `setRuntimeSettings` replaces the settings at any time, in several
  calls, under attempts that hold candidates of the old ones.
* **Chunk relay and Worker.** Requests are HTTP posts with deadlines; one that the
  client has given up on may still arrive. The Worker keeps the first body of a
  seq and acknowledges a seq it holds.
* **Stop.** `Stop` cancels a context and closes a listener, but waits for nobody:
  goroutines of a stopped run are still at work while the next run starts.

### What is hard, and what makes each component correct

* *Upload*: retries, hedges and late duplicates must not reorder, repeat or lose
  bytes; what `Write` reports as written must have arrived; nothing may wait for a
  result nobody sends. → exactly-once, in-order delivery; a gapless confirmed
  prefix; every goroutine ends.
* *Download*: a poll may be answered and the answer lost, or arrive after it was
  given up; the Worker drops a chunk once a poll acknowledges it. → the stream in
  order, without gap or repetition; nothing acknowledged that the caller has not;
  Close ends a waiting Read.
* *Domain pool*: select and reserve are separate calls; the lists change under
  reservations; a burst of failures counts once. → one dial per domain; no orphan
  reservation; a cooldown is neither shortened nor stretched by a failure.
* *Frontend*: `Stop`, `Start`, the watchdog and sessions of two runs share one
  listener, one status and one counter. → what belongs to the current run is never
  damaged by an older one; every session of a stopped run ends; an accept failure
  does not end the service.
* *Idle pool and proxy lifecycle*: `CloseAll` forgets the goroutines that are at
  work; a stopped run still serves, maintains and finally closes a pool that may
  belong to the next run. → no socket handed out twice; bounded sockets and
  goroutines; the current run keeps its port; a stopped run returns.
* *Worker circuits and failover*: answers are acted on after the circuit has changed;
  a candidate can fail with its socket open. → a quota lasts as long as it was said
  to; no socket leaked; the status reports no failover nobody is in; every connect ends.
* *Route planning*: a session reads the settings up to four times while the host
  changes them, and cooldowns come and go between planning and dialing. →
  restricted modes and policies are kept; nobody is turned away while a route is
  open; every chain ends.
* *WebSockets*: two directions and a closer share one connection, one lock and one
  flag; deadlines cut frames off; peers stop reading. → frames stay whole; messages
  are put together; the session ends when one direction does.

What can go wrong, line by line, is listed under "hazards" in `PROJECT.json`.

## 2. Modules

| Module | Models | Checked by |
|---|---|---|
| `ReliableUpload` | what an upload session promises its caller (abstract) | refinement of `ChunkUpload` |
| `ChunkUpload`, `ChunkUploadProofs` | the pipelined upload | `chunk_upload`, tlapm |
| `ReliableDownload` | what a download session promises its caller and the Worker (abstract) | refinement of `ChunkDownload` |
| `ChunkDownload`, `ChunkDownloadProofs` | Read, polls and acknowledgements of the download | `chunk_download`, tlapm |
| `CfDomainPool`, `CfDomainPoolProofs` | the domain pool, MTProto and SOCKS attempts, settings changes | `cf_pool_*`, tlapm |
| `FrontendRuntime`, `FrontendRuntimeProofs` | the MTProto frontend's lifecycle | `frontend`, tlapm |
| `Filter` | the loop that keeps some elements of a list in order (`Keep`) | with its users |
| `WsPool` | the pools of idle WebSockets | `ws_pool`, tlapm (in `ProxyLifecycleProofs`) |
| `ProxyLifecycle`, `ProxyLifecycleProofs` | the SOCKS proxy's runs, composed with `WsPool` (EXTENDS) | `proxy_restart`, tlapm |
| `WorkerRoute`, `MCWorkerRoute`, `WorkerRouteProofs` | circuits, selection and failover over the Workers | `worker_route`, tlapm |
| `WsSession`, `WsSessionProofs` | one bridged session over one of the three WebSockets | `ws_session`, `ws_raw_close`, tlapm |
| `RoutePlan` | settings, AWG policy, adaptive store, cooldowns, and the plans made of them | with `Routes` |
| `SocksRoutes` | a SOCKS session's way to a route (EXTENDS `RoutePlan`) | with `Routes` |
| `Routes`, `MCRoutes`, `RoutesProofs` | SOCKS sessions and MTProto connects side by side (EXTENDS `SocksRoutes`) | `routes`, `routes_cooldown`, tlapm |

### ChunkUpload

One session. `upSeq` is `c.upSeq`; `base`, `count`, `launched` and `completed` are
the locals `baseSeq`, `len(specs)`, `nextLaunch` and `completed` of
`writePipelinedMtProtoChunkRelay`; `results` is its buffered channel. A chunk is
its position in the caller's stream, so seq `s` carries the right data exactly
when it carries `s`. For every seq there is at most one *job*, a goroutine:
`slot` (waiting for a primary slot) → `round` (a primary and perhaps a hedge
outstanding) → `backoff` → `round` … → `over`. `live[s]` is the set of legs whose
answer the round still waits for.

| Action | Code |
|---|---|
| `StartWrite(k)` | specs, `baseSeq`, the first window of launches |
| `AcquireSlot`, `AbortSlotWait` | `acquireMtProtoChunkRelayPrimarySlot` |
| `HedgeHead` | the hedge timer fires and the tracker says "head" |
| `LegAnswered`, `LegRejected`, `LegFailed` | the ways a request of a round can end |
| `RetryAfterBackoff`, `JobCancelled` | the retry loop and its contexts |
| `ReceiveAck`, `ReceiveFailure` | one iteration of the main loop |
| `CloseConn` | `Close` |
| `WorkerReceives` | external: a request arrives, perhaps long after |

`onWire` never shrinks: a request that was sent may arrive at any later time and
any number of times, so duplication, delay and reordering need no actions of
their own, and loss is an arrival that does not happen.

### ChunkDownload

One session's `Read` with `requestWithRetry`. `ackSeq`, `pendingSeq`, `closed` and
`cancelled` are the fields of the connection and its `lifeCtx`; `left` is what
remains of `readBuf`, counted in the pieces in which the caller takes a chunk, and
`last` the piece it got last. `read` says where the Read under way stands:
`loop` (the head of its loop), `request` (a poll is out), `backoff`.

| Action | Code |
|---|---|
| `StartRead`, `ReturnPiece`, `ReturnClosed`, `Poll` | the head of the loop of `Read` |
| `Payload`, `Empty`, `Rejected` | what `Read` does with an answer |
| `RequestFails`, `RetryAfterBackoff`, `BackoffCancelled` | `requestWithRetry` |
| `CloseMarks`, `CloseCancels` | `Close`, which unlocks between the two |
| `WorkerProduces`, `LatePoll`, `WorkerEndsSession` | external |

The Worker is not part of the repository and is modelled from how `Read` uses it: it
keeps a chunk until a poll acknowledges it, and answers with the chunk after the
poll's ack or again with one it still has. That it sends no gap is assumed: `Read`
would take one without noticing.
`ReliableDownload` is what is left without polls and buffer: pieces are received in
order, of chunks that were supplied and are not released; `produced`, `last` and
`forgotten` are mapped to what was supplied, received and released. `polls` never shrinks, so `LatePoll` covers polls
that were given up, arrive twice or overtake each other; one whose answer is lost
is a `LatePoll` and a `RequestFails`. How long a poll asks the Worker to wait is
timing only and left out.

### CfDomainPool

One DC, because health and reservations are kept per DC; each exported call of the
pool is one step because each takes the pool's mutex once. A cooldown is the time
left of it, which `Tick` reduces. The order in which candidates that are not
manual are offered (scores, rotation, exploration) is left open, so every order is
covered. An attempt is `idle` → `choosing` (it holds a selection that may be
stale) → `dialing` → `connected` (MTProto, between `MarkSuccess` and the deferred
release) or `bridging` (SOCKS, whose `MarkSuccess` comes when the session is over).
`SetManualDomains` and `SetCachedUpstreamDomains` are the two calls of
`setRuntimeSettings`, with everything else possible between them.

### FrontendRuntime

A *run* is one Start. `runCtx` is the current run or 0; a run is cancelled once
its Stop has come to `cancel()`. A listener is `<<run, n>>`, the n-th socket the
run opened; `open` is the set of sockets that are really open. `Stop` is three
steps because it unlocks before `cancel` and `Close`. The accept loop is split
where it touches shared state: after the check of the context, after
`totalConnections.Add`, after `activeConnections.Add`. The watchdog
(`restartListener`) is split before `Listen` and before it records its result. A
session walks through handshake, passthrough or connect, bridge and the deferred
function. `routeBy` records which run's session last wrote the route truth.

### WsPool

One key (DC and media flag, or a Worker's): keys share only `CloseAll`. `kind` says
which of the two pools it is; the Worker pool holds one socket, does not rotate, and
is switched off and on by the host (`SwitchPreconnect`). `idle` is the bucket,
`refilling` and `rotating` the two flags, which are deleted by whoever is done,
not by whoever has set them. Goroutines have no names: `counting` is the number of
refills that have not counted the idle sockets yet, `dialing[n]` the number that wait
for `n` more answers (`dialing[0]` is about to clear the flag), and `rotation` counts
those that look at the bucket, sleep, or are about to clear their flag. A dial
answers with a name from `Sockets` that nobody uses, so names of closed
sockets come back. `GoesStale` is age, a failed ping or a close by the peer; the code
looks at all three when it takes or filters a socket.

### ProxyLifecycle

A *run* is one successful StartProxy; it is cancelled when it is not `current`.
`main` follows `runProxy`: warm-up, serving, draining (at most 30 s), the last
`CloseAll`. `StopProxy` is two steps, cancel and `CloseAll`, with `globalMu` held, so
that no StartProxy comes between them. `registered` is `currentListener`, which
`runProxy` closes, while the loop accepts on `Accepting(r)`; they differ between the
watchdog's two assignments. The pool is the one of `WsPool`, whose `Warmup`,
`MaintainDrops`, `CloseAll`, `GetHit`, `GetMiss` and `DropSocket` are called from the
steps that call them in the code. `WarmRuns` are the runs whose mode warms the pool
up, which is also the condition of its maintenance.

### WorkerRoute

Slots for sessions of the MTProto frontend and of SOCKS, used again and again. `circuit[w]` is the entry of
`workerCircuitRuntime.states` as a reason and the ticks left. The selection looks at
the circuits one by one (`LookAtCircuit`), since `activeWorkerCircuit` takes and gives
back the lock for each; from then on the session goes through its own list. An MTProto
session finds the transport of each candidate in turn, chunk relay or legacy WebSocket.
The chunk relay looks at the circuit once (`CheckCircuit`) and sends its request later
(`SendOpen`), when another session may have opened the circuit; retries do not look
again. `SendOpen` and `RetryOpen` choose the answer of the request; `OpenFails`,
`OpenSucceeds` and `BridgedQuota` act on it later still. `socks` counts the connections
to a Worker that the session holds.

| Action | Code |
|---|---|
| `Begin`, `LookAtCircuit`, `Selected` | `workerCandidatesForSession`, `filterWorkerCandidatesByCircuit` |
| `Exhausted`, `CancelledBetween` | the ends of the candidate loops |
| `CheckCircuit`, `SendOpen`, `RetryOpen`, `OpenAborted`, `OpenFails`, `OpenSucceeds` | `dialMtProtoChunkRelay` and its retries |
| `DialLegacy`, `WriteInit` | the MTProto connector's WebSocket candidate and the relay init |
| `DialSocks`, `FirstWrite`, `Redial`, `SecondWrite` | `tryWorkerFailoverConnect`, `cfWorkerFallback` |
| `BridgedQuota`, `Disconnect`, `Tick` | a quota answer while bridged, the end, time |

### WsSession

One session, three goroutines: `up` (client to peer), `down` (peer to client, answers
control frames) and `stop` (the closer). `kind` picks the socket: `raw` is
`RawWebSocket` under `bridgeWS`, `safe` is `mtProtoSafeFrameSocket`, `flowseal` is
`flowsealRawWebSocket`, both under `bridgeTransformedStreams`. A frame is written in
two halves, `WriteSome` and `WriteRest`, so that another writer could come between
them; `wire` is whose frame lies on the wire in part. `mid` and `frag` count
the fragments the peer has sent and Recv has kept: `RawWebSocket` keeps none, returns
the first fragment as a message and drops the continuations; the others close at the
fragment, first or last, that exceeds their limit (`ReceiveTooLong`). The peer and the client do what
they like: only a closed connection or a deadline ends a blocked call.

### RoutePlan, SocksRoutes, Routes

One DC, media flag and network profile. `RoutePlan` has the shared state: `settings`
with their generation, the AWG policy, the adaptive store (`consecutive`,
`cooling`), the cooldown of the Worker route and that of the DC's address. A cooldown
is a flag that time clears at any moment. Which routes the scores of the adaptive
store drop, and how they order the rest, is left open, so that every order is
covered. `OthersFail`, `OthersTimeOut` and `OthersSilent` stand for clients a model does not follow: they may
leave any cooldown at any moment.

`SocksRoutes` follows `handleClient`: `decide` (the mode and policy read at the
accept), `consider` (Direct WS or not), `plan` and `start` of a chain, `chain`
(`runRouteChain`), `dial`, `write` (the first packet over Direct WS), `bridge`.
`accepted`, `chained` and `used` are the settings the session read at each look; they
differ when the host changed them in between. `Confined` is a mode of one route or
`CF.Only`, which bars Direct WS and TCP for unknown destinations beside any mode, while the fallback chain goes by the
mode. A success is two steps, as in `adaptive_bridge.go`: `BridgeEnds` has the check of
generation and policy, `RecordsSuccess` the record under the store's own lock, and the
settings may change in between. `Routes` adds `mtProtoRouteConnector`:
the plan is made once, each connector looks at the settings of its own moment.
Actions of one kind of client leave the variables of the other alone, so the two
are composed by sharing `RoutePlan`'s.

## 3. Runs

| Run | Instance | Shows |
|---|---|---|
| `chunk_upload` | window 2, 2 slots, 1 retry, 4 chunks | safety and refinement of the upload; every Write returns, every job ends |
| `chunk_download` | 4 chunks of 3 pieces, 2 retries | refinement of the download, acknowledgements, Close ends a waiting Read |
| `cf_pool_stable` | 1 MTProto and 1 SOCKS attempt, 2 cached domains, no reconfiguration | no two dials of one domain; every reservation is returned |
| `cf_pool_reconfig` | 1 MTProto and 1 SOCKS attempt, a built-in domain and one that moves between lists, one reconfiguration | what survives a change of the lists |
| `frontend` | 2 addresses, 1 connection, 2 runs, 1 accept failure, 1 invalid Start | status, socket, counter and route truth follow the current run; Stop frees the port; the watchdog returns |
| `ws_pool` | 2 sessions, 5 sockets, `poolSize` 2, 1 CloseAll, either pool | no socket handed out twice; goroutines bounded; the refill flag clears |
| `proxy_restart` | 2 runs, the second warms the pool up, 1 connection, 1 accept failure, no socket | the current run keeps its port; a stopped run returns and frees its port |
| `worker_route` | 2 sessions, 2 Workers, 1 retry, quota longer than a temporary failure | sockets, status flag, quota; every connect ends |
| `ws_session` | the three sockets, 2 fragments within the limit | whole frames and messages; Send and the bridges end |
| `routes` | 1 client at a time, 4 settings, 2 AWG policies, 1 change, any dial may fail | modes, `CF.Only` and policies are kept; nobody is refused too early; chains end |
| `routes_cooldown` | direct_only with a policy | **violated**: finding 1 |
| `ws_raw_close` | `RawWebSocket` | **violated**: finding 2 |

**Why the bounds are enough.** *Upload*: a window of 2 that refills, with 4
chunks, has a first chunk, a chunk behind a lost one, one launched by a refill and
one in a second Write; one retry gives a round with and one without a successor.
Window 3 (the code's) adds a second chunk between head and tail, and the safety
properties are proved for every window. *Download*: a chunk that is
read, one in the buffer, one the Worker has and one to come; a first, a middle and a
last piece; an attempt that is first, middle and last. *Pool*: two attempts race for a
domain; two domains are one that fails and one to turn to;
the cooldown lengths keep the order of the real ones (30 s, 120 s, 300 s, 600 s,
6 h) and, where a run maps two of them to one length, only ticks are merged.
`consecutive` counts to 3, above which the code treats all counts alike. *Frontend*:
two runs are one that is stopped and one that is current, on the same address or not; every property relates a
run to earlier ones pairwise. *Idle pool*: a second goroutine of a kind needs one
CloseAll, a third does nothing the second does not; the sockets suffice for a full
pool beside the one a forgotten refill fills. *Proxy*: `MaxCloses` is at least two per run, so its bound never blocks a
StopProxy. The run about the listener has no sockets, because every dial may fail
and nothing about the listener depends on the pool. *Worker route*: two sessions of any
kind are one whose answer is late and one that changed the circuit; two Workers are one
that fails and one to turn to; a quota of two ticks outlasts a cooldown of one.
*WebSocket session*: two fragments are a first and a later one, a third is the message
that is too long;
frames are two halves because one place to interrupt is enough. *Routes*: `MaxClients`
lets one client run at a time, a SOCKS session or a connect, because clients meet only in
cooldowns and settings, and any of those may be changed at any moment by the clients
that are not followed and by the host. `MaxFailures` bounds the arrival of clients and
the failures of clients that are not followed, never a dial: whoever is under way may see
every dial fail, so a chain ends by its own length or not at all. One failure is enough
for a cooldown (`CooldownAfter`; the code's threshold is higher, and the clients that are
not followed supply the failures before, and a failure below it is one whose cooldown is
over at once). One change splits every chain into a part
before and a part after; the properties relate two readings of the settings. The four
settings are one of an adaptive mode, one with a policy and primary routes, one of
another mode with `CF.Only` and both optional routes, so that a chain of two routes may
not end after the first, and one restricted with an explicit order.

**Deadlock.** The upload, the frontend, the proxy, the WebSocket session and the routes
may stop (a closed session, the last run stopped, the bounded clients served), so those
runs do not check it. The two pools, the download and the Worker route have nothing they
may stop in and are checked for deadlock.

**Fairness, and why the code justifies it.**
* *Upload*: weak fairness per job and for the main loop. Every request has a
  deadline (`mtProtoChunkRelayUpTimeout`), backoff and hedge use timers, the
  channel is buffered for all results. No fairness is assumed of the Worker, of the
  caller or of Close, so the requests may all be lost.
* *Download*: weak fairness of the Read under way, for the same reasons; none of the
  Worker, of the caller or of Close.
* *Pool*: weak fairness per attempt. Dials have a timeout; how long a bridged
  session lasts is its client's affair, so its end is not fair.
* *Frontend*: weak fairness per `Stop`, loop and session. An `Accept` on an open
  listener need never return; handshakes have deadlines; connect, bridge and
  passthrough may last as long as the run does and return once its context is done
  (each of them installs an `AfterFunc` or selects on the context).
* *Idle pool*: weak fairness of a refill's steps: its dials have a timeout. Neither
  rotations nor the maintenance ticker are needed.
* *Proxy*: weak fairness of StopProxy's second half, of `runProxy` (whose wait for
  sessions ends with a timer) and of the accept loop. Sessions and accepts are not
  fair.
* *Worker route*: weak fairness of a session that connects: every dial, request, write
  and backoff has a timeout. How long a bridge lasts is not fair.
* *WebSocket session*: weak fairness of what a goroutine does without the peer
  (noticing a closed connection or a deadline, closing, starting the closer); strong
  fairness of taking `writeMu`, since `sync.Mutex` hands itself to a waiter that has
  starved for a millisecond. Nothing is assumed of the peer or the client.
* *Routes*: weak fairness of a session that decides and of a connect that proceeds; dials
  have timeouts. Bridges, the host and time are not fair.

## 4. Findings

1. `routes_cooldown`: with a policy, `directIPCooldownFallbackAvailable` asks what the
   policy allows and not what the mode uses. In direct_only mode one timeout then
   makes every session fail without a dial for the hour of `ipFailCooldown`; the test
   beside it says that the address is passed over "when fallback exists".
2. `ws_raw_close`: `bridgeWS` closes its connections on cancellation to unblock its
   goroutines, but `RawWebSocket.Close` waits for `writeMu`, which a `Write` that the
   peer does not read holds without a deadline, and returns early when Recv has set
   `closed`. The bridge then waits for as long as the peer likes.

Behaviour worth knowing that the models show and that no property forbids is recorded in
the hazards:

* A change of the domain lists deletes the reservation of a dial under way, and
  `TryReserve` does not ask whether its domain is still listed: the domain can be
  dialed twice. Without reconfigurations it cannot (`cf_pool_stable`, proved).
* `restartListener` does not look at its context after `Listen`: after a `Stop` the
  status can end as `LISTENING`, with a socket nothing closes, or as
  `FAILED_RUNTIME_ERROR`. That is why `StatusTruthful` and `StopFrees` speak of
  behaviours without an accept failure.
* The loop of a stopped run may add to `activeConnections` after the next Start has reset
  it; the count can stay too high, never too low (`ActiveCovers`).
* A refill that dials while `CloseAll` runs fills the pool of a stopped proxy again.
* An invalid Start overwrites the status of a running frontend.
* When Direct WS breaks at the first packet the session goes on over TCP whatever the
  policy says, and `runRouteChain` filters no primary routes; `PolicyHeld` therefore
  leaves TCP out. It leaves out the Worker of MTProto connects too, because
  `mtProtoWorkerConnector` asks no policy.
* An open request may go to a Worker whose circuit another session has opened since the
  check before it.
* A success from before a change of the settings may end a cooldown after it, when the
  change comes between the check of the generation and the record.

## 5. Proofs

All proofs are checked by tlapm without assumptions other than the one about the
constants that each module states, which TLC evaluates in every run.

**ChunkUpload** (`ChunkUploadProofs`), for every window, slot count, retry limit
and number of chunks. The invariant
`Inv == TypeOK /\ WriteInv /\ JobInv /\ AckInv /\ StreamIntact /\ ConfirmedReceived /\ HedgeOnlyOldest`
is inductive. None of the last three is inductive alone: `StreamIntact` needs that
a body is fixed for a seq when the seq is chosen (`JobInv`), which needs
that `offered` and `upSeq` agree between Writes (`WriteInv`); `ConfirmedReceived`
needs that an `"ack"` in `results` or a seq in `completed` or `acked` is a chunk
the Worker has (`AckInv`). The theorems are `TypeCorrect`, `StreamTheorem`,
`ConfirmedTheorem`, `HedgeTheorem` and `RefinementTheorem`: every step of the
upload is a step of `ReliableUpload` or leaves its variables alone.

**ChunkDownload** (`ChunkDownloadProofs`), for every number of chunks, pieces and
retries. `Inv == TypeOK /\ Position /\ Polling /\ Retrying /\ Acknowledged` is
inductive: `Position` ties `ackSeq`, `pendingSeq` and `left` to the last piece read,
`Polling` says that the buffer is empty whenever a poll is out, `Acknowledged` that no
poll on its way carries more than `ackSeq`. It gives `DownloadTypeCorrect`,
`ForgottenTheorem` and, as an action property, `InOrderTheorem`. With `Supplied` (what
is acknowledged or buffered, the Worker was given) it gives `DownloadRefines`: a
`ReturnPiece` is a `Receive` (`ReturnPieceReceives`), an answer or a late poll is a
`Release` or a stutter (`AcknowledgeReleases`), `WorkerProduces` is a `Supply`, and
every other step stutters.

**CfDomainPool** (`CfDomainPoolProofs`), for every finite set of domains and every
set of attempts. `PoolInv` relates reservations to holders and is preserved by
every action, changes of the lists included; it gives `PoolTypeCorrect`,
`NoOrphanTheorem`, `ReservedTheorem` and, as an action property,
`CooldownTheorem`. `StableInv` adds that a reservation has exactly one
holder; it is inductive only under `MaxReconfigs = 0`, which `ExclusiveTheorem`
assumes: a reconfiguration does free a reservation under its dial.

**FrontendRuntime** (`FrontendRuntimeProofs`), for every number of runs, connections,
addresses and failures. `PortHeld` needs that a Stop has captured a listener of its own
run or of an earlier one (`Captures`) and that the current run is the latest
(`Latest`). `StatusTruthful` needs `NoWatchdog`: until an accept fails, no loop is in its
watchdog, because only a Stop that has cancelled closes a first listener. `ActiveCovers`
needs `OwnConns`: what a loop counts is the connection it has accepted itself.
`RouteTruthOwn` is inductive with its type. The theorems are `FrontendTypeCorrect`,
`PortTheorem`, `StatusTheorem`, `ActiveTheorem` and `TruthTheorem`.

**Lists.** Filters are `Keep`, a recursive function: tlapm knows nothing of
`SelectSeq`. What `Keep` returns is proved by induction over the length of the list.
The library's induction theorems take a predicate, which no installed prover can
supply; `SetInduction` derives what is needed from `WFMin`, which speaks of sets. The
filtered list has exactly the elements asked for (`KeepSet`), and none twice that was
there once (`KeepProperties`).

**WsPool** (in `ProxyLifecycleProofs`), for every finite set of sockets, any number of
sessions, every pool size and number of `CloseAll`s. `PoolInv` is inductive:
`SocketsInv` is `HandedOutOnce` with what it needs, that the bucket lists a socket once
and a session's socket is none of them; `RefillsBounded` and `RotationsBounded`
count the goroutines at work against the flag and the `CloseAll`s so far: a set flag is
one of the `1 + closes`, a clear one leaves room for one more. `GoroutinesBounded`
without the flag is not inductive: the step that schedules a refill would break it. The
number of refills that dial is the size of a set (`Entries`), so that one more or one
less is a fact about finite sets. The theorems are `PoolInvHolds`, `PoolTypes`,
`OnceTheorem` and `GoroutinesTheorem`.

**ProxyLifecycle** (`ProxyLifecycleProofs`), for every number of runs, sessions and
accept failures. `BoundTheorem` (`RunningIsBound`) needs that `currentListener` is the
run's own (`Registered`), that the current run is the latest (`Latest`), and that a
watchdog between `Listen` and its assignments has its socket open (`Restoring`).
`ProxyUsesPool` shows that every step of the proxy is a step of the pool or leaves it
alone, so `ProxyPoolSafe` gives the pool's two properties to the proxy.
`LifeTypes` needs `ListenersCounted`. `ClosesTheorem` is about the model: its
bound `MaxCloses` blocks no `CloseAll` of the proxy, because `ClosesBalance` counts two
per run, less one for each run that has not ended and one while a run is current or a
`StopProxy` is still to close.

**WorkerRoute** (`WorkerRouteProofs`), for every number of sessions and Workers, every
order, retry limit and duration. `Inv == TypeOK /\ SocketsOwned /\ NeverGone /\
IdleNotActive`; `NeverGone` says that a SOCKS session has no context that ends, so that
it leaves its failover only through the places that reset the flag. Besides
`WorkerTypeCorrect`, `SocketsTheorem` and `FailoverTheorem` it gives the action
property `QuotaTheorem`, from lemmas about what `Mark` keeps of an entry.

**WsSession** (`WsSessionProofs`), for every set of sockets and every limit.
`FramesWhole` needs `LockHeld` (who is in a frame holds `writeMu`) and `CutOff` (a frame
left in the middle has broken the connection for writes, which is why a deadline may
free the lock); `Reassembled` needs `WithinLimit`. The theorems are
`SessionTypeCorrect`, `WholeTheorem` and `ReassembledTheorem`.

**Routes** (`RoutesProofs`), for every set of settings and policies, any number of
clients and every bound. `PolicyTheorem` needs that a session on its way to
Direct WS found it allowed when it was accepted (`Asked`). It is about the policy of the
host's settings: Worker and CF domains of SOCKS sessions and CF domains of connects by
the settings in force, Direct WS by those the client was accepted under, and it says
nothing of TCP, of the Worker of MTProto connects or of AWG. `TypesTheorem` is the type invariant: a plan is a list of routes, and a
client that dials has a route. `RestrictedTheorem` and `RefusedTheorem` rest
on `SoundHolds`: for every session, `SeesSettings` (while the settings stay, those it
was accepted by and those its chain was planned by are in force), `OnlyItsRoute`
(a restricted mode's plan holds nothing but its one route, and no confined session has
tried Direct WS), `ReachesOpen` (an open
route is among those tried or still in the plan) and `Exhausted` (a client whose chain
is over has nothing left). Neither property is inductive without them: what a chain
drops for a cooldown or a policy it must have been allowed to drop. The plans are
compared as sets of routes, by lemmas on each operator that makes one (`WorkerFilter`,
`AdaptiveRoutesPlan` and the like).

**Only model-checked**: the 13 liveness properties, which need fairness and ENABLED, out
of the prover's reach, and the two properties that runs show violated. Every invariant
and every action property of the passing runs is a theorem.

## 6. Not modelled, and the plan

* HTTP slots shared by the uploads, polls and Close requests of several sessions: listed
  as a hazard. A module `ChunkSlots` beside `ChunkUpload` would answer it.
* The read-modify-write of the settings in `SetManualCFDomains` and
  `SetCachedCFDomains`: listed as a hazard, to be added to `RoutePlan`.
* Several DCs and media flags at once: tables are kept per DC, what DCs share is the
  settings and the AWG policy.
* How long cooldowns last (`RoutePlan`, `Routes`: flags that time clears), the scores
  behind the order of routes, domains and destinations: every order is covered instead.
* Counters, metrics, status texts and error values.
* Handshakes, ciphers, fake TLS, WARP provisioning, TLS profiles, socket options,
  exports and the Kotlin wrapper: data and I/O without a protocol of their own.

Theorems worth proving next: a refinement of the domain pool (a table of reservations
with one holder each, under settings that stand still), and one of the
listener of both frontends (an abstract service that is stopped, bound or being
restored), to stand beside the two of the chunk relay.
