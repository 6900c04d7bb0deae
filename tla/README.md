# a2a-warp in TLA+

A verification development of a2a-warp: TLA+ modules translated from its
TypeScript source, TLC runs on small instances, and theorems checked by TLAPS.

1. [The system](#1-the-system): components, their state, how they interact, what
is hard 2. [The modules](#2-the-modules): what each models and how it
corresponds to the code 3. [The runs](#3-the-runs): what TLC checks, within
which bounds, under which fairness 4. [The proofs](#4-the-proofs): what is
proved, from what, along which argument 5. [Where the code and its documentation
disagree](#5-where-the-code-and-its-documentation-disagree) 6. [Not
modelled](#6-not-modelled) 7. [Plan](#7-plan)

Run everything from this directory:

    tlc -config MCTaskRuntime.cfg MCTaskRuntime
    tlapm TaskProofs.tla

`PROJECT.json` lists components, runs, the mutant of the code that breaks each
property, the source lines of every definition, hazards, findings and theorems.

## 1. The system

a2a-warp is a runtime for the Agent2Agent protocol. An agent is a subclass of
`A2AServer` with one method of its own, `handleTask`. Clients send it messages
over JSON-RPC; each message belongs to a task; the task is worked on in the
background, and clients learn of its progress by asking, by streaming, or by
webhook. A registry keeps a directory of agents and watches their health.

Every process is one JavaScript thread. Code between two `await`s is atomic;
at an `await` anything else may run. That is the grain of all the models: an
action is what one turn of the event loop does, and handlers are split at the
awaits the code has, nowhere else.

| Component | Source | State | Operations | Talks to |
| --- | --- | --- | --- | --- |
| Lifecycle rules | `core/src/server/taskLifecycle.ts` | none | may this task change, may it go from state to state | both task managers |
| Task manager, storage | `server/TaskManager.ts`, `storage/*` | tasks (state, history, artifacts, extensions), push configurations | create, append message or artifact, change state, cancel, set extensions or push configuration | emits `taskUpdated` in the turn of each change |
| JSON-RPC methods | `server/http/jsonRpcHandler.ts` | suspended requests | message/send, message/stream, tasks/cancel, tasks/pushNotification/set, reads | task manager, task processing, idempotency |
| Task processing | `server/A2AServer.ts` | running `handleTask` calls | start, finish, fail | adapters, task manager |
| SSE streams | `server/SSEStreamer.ts`, `http/streamRoutes.ts` | clients per task, listeners, open responses | subscribe, resubscribe, broadcast, end, connection closed | `taskUpdated`, metrics |
| Metrics | `telemetry/src/RuntimeMetrics.ts` | counters, gauge of SSE connections | record | `taskUpdated`, streams |
| Idempotency | `http/idempotency.ts`, `server/IdempotencyStore.ts` | records by scope and key, in memory or Redis | look up, replay, conflict, store, expire | wraps the JSON-RPC methods |
| Push delivery | `server/PushNotificationService.ts`, `http/pushCallbacks.ts` | queue, slots, dispatcher | send, retry, stop | `taskUpdated`, circuit breakers, webhooks |
| Circuit breaker | `server/CircuitBreaker.ts` | state and counters per URL | admit a call, count its result | push delivery |
| Async task manager | `server/AsyncTaskManager.ts`, `storage/AsyncTaskStorage.ts`, `storage/SqliteTaskStorage.ts` | chain of promises, open transaction, tasks, push configurations | as the task manager, asynchronously; transactions of the application | a storage that can fail, a file that outlives the process |
| Registry store | `registry/src/storage/*` | agents and their index entries | upsert, delete, updateStatus, list | Redis, command by command |
| Registry polling, routes | `registry/src/server/*` | page cursors, due times, recorded tasks, SSE clients | register, import, heartbeat, delete, health check, task poll, task streams | registry store, agents, browsers |
| Registry UI task list | `apps/registry-ui/src/hooks/useTaskStream.ts` | the tasks on the screen | load, follow the stream | registry routes |
| WebSocket transport | `transport-ws/src/*` | `this.socket`, pending requests and their timers | connect, request, answer, timeout, close | a JSON-RPC handler |
| gRPC transport | `transport-grpc/src/*` | listeners of streaming calls | SendMessage, StreamMessage, CancelTask | the task manager JSON-RPC uses |
| Client, outbound policy | `core/src/client/A2AClient.ts`, `core/src/net/fetchWithPolicy.ts` | attempts of a call, abort signals | call, retry, abort | servers |
| Rate limiter | `core/src/middleware/rateLimiter.ts` | counter or timestamps per key | count, refuse, expire | in memory or Redis |

What is hard about it:

- **State held across an await.** A request fetches a task, awaits the
  validation of a webhook URL, and goes on; a subscription looks a task up,
  awaits an authentication, and registers. In between the task may be closed,
  the connection may be gone.
- **Several writers of one task.** Every message to a task starts a processor.
  Processors, cancellations, adapters that report progress and push
  configurations interleave, and any of them may be late.
- **Observers.** Streams, metrics and webhooks live on events. An update made
  between a look-up and the registration of a listener, a stream that is ended
  by the update and by the close of its connection, a counter that is driven by
  an event the store does not know of.
- **Retries.** A client repeats a call it got no answer to, the service repeats
  a notification, a store answers late or not at all, the process dies between
  the run of a method and the record of its result.
- **Several writers of one record, without a lock.** The registry reads an agent,
  awaits, and writes it and its index entries back, in one Redis transaction or
  in three commands, while the agent is polled, registered again or deleted and
  searches go from index to index.
- **Overlap of what was meant to alternate.** Intervals fire while their last
  run still waits for answers and share its cursor; WebSocket connections are
  opened beside each other, and the close event of any unsets the one in use.
- **Limits.** Slots that must come back however a delivery ends; circuits that
  get the results of calls they admitted in another state.

What makes each component correct:

- *Task runtime*: a task is closed once, by one author, and is frozen from then
  on; a message that was accepted has somebody working on it; what a refused
  request asked for never shows; counters agree with the store.
- *Streams*: an open stream shows the task as it is stored; nobody stays
  registered on a closed task; a stream the server ends carried the outcome;
  every connection leaves the gauge once.
- *Idempotency*: the retry of an answered call does not run again; replays and
  conflicts are about calls that ran.
- *Push delivery*: slots are exact; a queue that holds something is served; an
  open circuit is left alone; every notification settles.
- *Async task manager*: a mutation takes effect at one instant, on what those
  before it left, or not at all; what was answered lasts; events tell the
  history that was committed; every call settles. What an operation of a storage
  may leave half done is known and no more than that.
- *Registry store*: a search finds whoever matched throughout by one same term;
  entries that are out of date, and agents that come back, are due to
  overlapping writes only.
- *Registry server*: a delete leaves nothing of its agent; a screen shows what is
  recorded as far as it has room; every agent is contacted again and again.
- *WebSocket*: nobody waits on a connection that closed; no connection is left
  open behind `this.socket`; every request that got past its connect settles.
- *Client and limiter*: no call makes more attempts than it may; a window admits
  what its limit says; a counter in Redis has an end.

## 2. The modules

| Module | What it is |
| --- | --- |
| `TaskLifecycle` | the rules of `taskLifecycle.ts` as operators |
| `TaskContract` | abstract specification: what a task promises to its owner |
| `TaskRuntime` | task manager, JSON-RPC methods, processing, metrics; implements `TaskContract` |
| `TaskStreams` | SSE observers, composed with `TaskRuntime` |
| `Idempotency` | idempotency keys of the JSON-RPC endpoint |
| `PushDelivery` | webhook delivery and circuit breakers |
| `SerialTasks` | abstract specification: what the asynchronous manager promises |
| `AsyncTasks` | the asynchronous manager over its storages; implements `SerialTasks` |
| `RegistryStore` | the agent storages: records, indexes, searches |
| `RegistryServer` | routes, intervals, task projection and streams of the registry, and a screen |
| `WsTransport` | one WebSocket client and its server |
| `ClientCalls` | outbound calls that are retried, and the rate limiter they meet |
| `TaskProofs` (of `TaskRuntime` and `TaskStreams`), `IdempotencyProofs`, `PushDeliveryProofs`, `AsyncTasksProofs`, `RegistryStoreProofs`, `RegistryServerProofs`, `WsTransportProofs`, `ClientCallsProofs` | theorems |
| `MC` and the name of a module | its instance for TLC |

### TaskRuntime

A message is represented by the request that brought it, so `history[t]` is a
sequence of requests; an artifact by the request whose `handleTask` returned
it; extensions and push configurations by the request that supplied them.

| Variable | In the code |
| --- | --- |
| `state`, `history`, `artifacts`, `extensions`, `push` | the stored task and its push configuration |
| `pc`, `target`, `held` | a suspended or finished `handleMessageRequest`: where it is, its task, and the extensions on the *copy* of the task it holds (storage clones on every read) |
| `proc` | the `processTaskInternal` call a request started |
| `pushPc`, `pushTarget` | a `tasks/pushNotification/set` request |
| `counters` | the task counters of `RuntimeMetrics` |

| Action | In the code |
| --- | --- |
| `SendMessage` | `handleMessageRequest` without a push configuration: no await before its end |
| `SendMessageWithConfig`, `ConfigAccepted`, `ConfigRefused` | the same with one: up to the await, and after it |
| `Accept`, `Refuse` (in `Proceed`) | the rest of the handler, or the exception of negotiation or of a closed task |
| `SendMessageDenied` | not found, or another principal's |
| `GrpcSendMessage` | `createGrpcTask` of the gRPC service: create, append, WORKING and the adapter's start in one turn; no extensions, no push configuration |
| `HandlerResolves`, `HandlerRejects`, `HandlerTooLate` | the settling of `handleTask` in `processTaskInternal` or in `completeGrpcTask`: all the artifacts and COMPLETED; those appended before one that cannot be normalized, cloned or stored, possibly none, and FAILED; or nothing because the task was closed first |
| `AdapterUpdates` | an adapter calls `getTaskManager().updateTaskState` while it works |
| `CancelTask` | tasks/cancel, and CancelTask over gRPC |
| `PushSetBegins`, `PushSetStores`, `PushSetRefused` | tasks/pushNotification/set around its await |

`TaskContract` says what of this a client may rely on: open once, take messages
while open, close once, with the results in the closing step and all of them
answers to one message: `Settle` closes a task COMPLETED or FAILED, and a FAILED
one may hold a part of an answer. The refinement mapping forgets requests,
extensions, push configurations and counters, and merges the open states.

### TaskStreams

A step of `TaskRuntime` and what the observers do with its event are one step
(`Next /\ Notify`), as `EventEmitter.emit` is synchronous. Of several frames
written in one turn the last is kept. `Sub` are GET /stream responses, kept by
the `SSEStreamer`; `Rpc` are the responses of message/stream and
tasks/resubscribe, each with its own listener, and the StreamMessage calls of
gRPC (`GrpcStream`). The latter start in the turn that creates their task
(`Begun`) and are not on the gauge (`Metered`). `peer` records whether the close
event a stream listens for has fired. It can fire at any time, also before the
listener is registered, and then the listener never runs; `late` remembers
those streams.

### Idempotency

A record is represented by the call that wrote it. `Arrive`, the four outcomes
of the look-up, the run, the write and the response are separate steps, as each
is an await; `StoreFails` covers a store that rejects before or after it wrote.
`Crash` ends the calls in progress and keeps the records (Redis) or loses them
(memory). `forgotten` and `before` are history variables the properties need:
calls whose record is gone, and calls answered before a call arrived.

### PushDelivery

One notification per change of a task's state, from `sendPushNotification` to
the settling of `retryWithBackoff`. `processQueue(q)` is one turn of the loop of
`processQueue`: it hands out the free slots and polls if the queue is not
empty. Each URL has a breaker; a call that `execute` admitted reports its result
later, whatever state the breaker is in then. Time is a boolean per circuit
(`cooling`: `Date.now() < nextAttemptAt`), read once per turn.

### AsyncTasks

An operation is a call of the manager (`create`, `edit` for appended messages
and artifacts and for changes of state that keep a task open, `close`, `extend`
for extensions, `push`) or of the application on the storage (`batch`, a
transaction of its own; `remove`). A task is a flag and a log of the operations
whose changes it holds, so that a lost update shows as an entry that is missing
and a repeated one as an entry twice.

| Variable | In the code |
| --- | --- |
| `storage` | which storage the manager was given: SQLite, `SyncTaskStorageAdapter`, or one without `transaction` |
| `queue` | the chain of promises, `mutationQueue` or `operationQueue`: the operations not settled |
| `pc`, `out` | the callback: where it is between its awaits, and its copy of the task |
| `tasks`, `push` | the rows or maps of the storage |
| `backup` | what a ROLLBACK restores; `None` when no SQLite transaction is open |
| `events` | the `taskUpdated` events, a history variable |

`Begin`, `Read`, `Save`/`SavePush`/`Insert`/`DeleteConfig`/`DeleteTask`,
`Commit` and `Answer` are the turns of one operation; `BeginFails`,
`ReadRefused`, `WriteFails`, `BatchThrows` and `CommitFails` its ways out, with
`Rollback` where SQLite has one. `Crash` opens the file in a new process.
`SerialTasks` knows none of this: `Apply` is one mutation in one step, `Refuse`
says that one never will. Under the refinement mapping a mutation happens at its
COMMIT, or at its write where there is no transaction.

Two operations are not atomic in the code (`Bare`): `deleteTask` of SQLite, whose
two DELETEs have no transaction around them (`DeleteConfig`, then `DeleteTask`,
with a failure or a crash between them), and `transaction` of
`SyncTaskStorageAdapter`, which does not undo what its callback wrote before it
threw. `SerialTasks` states them as exceptions of its own: an operation is
announced as bare, starts (`Start`), and then finishes or is refused with its
part left behind; `pc` is `torn` for one that was. Any other operation that is
refused has no effect.

### RegistryStore

One step is one Redis command, or one method of `InMemoryStorage`. `index` has
one set per term, `agent-ids` among them; a record is reduced to the fields that
make terms. `Writer` are calls of upsert (`put`), updateStatus (`update`), the
heartbeat route (`beat`: it reads the agent itself and then calls upsert) and
delete. `Load` is the read of updateStatus, `Get` that of upsert or delete,
`Exec` the MULTI/EXEC; without multi() it is `RemoveTerms`, `SetRecord`,
`AddTerms`, and `BreakOff` is a command that fails, or a process that dies,
after some of the SREM or SADD were sent (`Partly`). A behaviour over Redis
begins with any agents earlier processes registered. A search (`StartSearch`,
`ReadIndex`, `LoadAgents`) reads the indexes of `findCandidateIds` one by one,
that of the tenant and the public one added to it apart, and then the records.
History variables: `steady` (agents that have matched since the search began by
one same term of `Ways`, and were not being rewritten in pieces), `overlap`
(agents of which two writes were once under way at a time), `gone` (deleted
while no other write of them was under way, not registered or imported since),
`torn` (agents a write broke off in). They are the exceptions the properties
make, for what the code does not prevent: a status update that read an agent
before it was deleted stores it again; two writers that read the same record
each leave the entries of theirs; an agent that turns from public to its
tenant's only between the reads of the two indexes is missed by a search of that
tenant, to which it was visible throughout; an agent a client without multi()
stopped rewriting half way is not found by the entries that are missing.

### RegistryServer

The server over `InMemoryStorage`. A behaviour follows one of the two intervals
(`kind`), as they share nothing but the agents; each may have up to `Overlap`
runs under way. Every agent has one task, and answers a poll with any version of
it, 1 .. `MaxVersion`, or with none; the version stands for the time of the
task's last update. Routes are one step each.

| Variable | In the code |
| --- | --- |
| `agents` | `list()`, in its order, which the cursors index |
| `cursor`, `next` | `healthCursor`/`taskCursor`; `nextHealthCheckAt`/`nextTaskPollAt` as none, later or past |
| `run` | a run of `executeHealthChecks` or `executeTaskPolling`: agents to contact, each with its place in the page, whose order the chunks follow, and requests under way |
| `recent`, `maxRecent` | `recentTasks` with `taskVersions`, and how many they may be |
| `stream`, `loading`, `screen` | `/tasks/stream` and `/tasks/recent` of a browser, and the list `useTaskStream` keeps, of `ScreenLimit` tasks at most |

`Tick` is the interval up to the first await, `HealthAnswer`, `TasksAnswer`,
`TasksFail` and `TasksRefused` the ends of one request, `Delete` the route with
`purgeAgentTaskState`. `Import` puts an agent anywhere in the list, new, in place
of the stored one, or back after it was deleted. `Slice` is the sort and slice of
`getRecentTasks`, of `trimRecentTasks` and of `mergeTaskEvent`, with any choice
among tasks updated at the same time. `LoadArrives` is `setTasks`, which replaces
the list; a screen has one load under way at a time, and events and snapshots
reach it in the turn in which they are sent.

History variables: `haunted` are agents deleted while a run was about to contact
them, the exception of `NothingOutlivesAgent`. The code does leave a timer, or a
recorded task, of such an agent. `late` and `behind` are the exception of
`ScreenIsCurrent`: tasks recorded while the stream of a screen was down and not
in the snapshot it began anew with, and tasks recorded between the making of a
load response and its arrival.

`EveryAgentIsContacted` excepts agents that come and go without end, as the
cursor is an offset into a list that changes under it. With a page of one and
the list b, a: b is contacted and deleted, so that a moves to the first place;
the next page, the second, is empty and resets the cursor; b is imported again in
front of a; and so on, so that a is never contacted.

### WsTransport

`sock` is the `readyState` of each socket the client opened, with `broken` for a
connection whose loss it has not noticed; `current` is `this.socket`; `pending`
is the map of requests with a timer. `Connect` goes on whenever `this.socket` is
not open, so that two requests may open two sockets; `Opens` is `handleOpen`,
after which the caller sends; `CloseEvent` unsets `this.socket` and rejects all
that is pending, whichever socket it is of. On the server's side, `Receive` and
`Answer` are `handleRequest` before and after its await: the answer is dropped
unless the connection is open. An attempt to connect need not end: `connect`
sets no `handshakeTimeout` (`WsClient.ts:71`), and the timer of a request
(`:127`) starts only after it, so that an upgrade nobody answers hangs `request`
for ever. `EveryRequestSettles` is about the requests that got past it.
`crowded` is the history of overlap: sockets opened beside another one that was
opening, closing, broken or left behind, and those others. `NoOrphanSocket`
excepts them, since two requests that connect at a time do leave one connection
behind.

### ClientCalls

A call has a wrapper (`fetchWithRetry` or `fetchWithPolicy`), which decides what
is tried again. `Post` is an attempt, `Fails` a timeout or a lost connection,
`Abort` the caller's signal; `PostAborted` is the attempt that finds the signal
aborted. A request the client has given up goes on in `server`. There, one
limiter counts it: `CountFixed`, `CountSliding`, or the Redis store command by
command (`RedisGet`, then `RedisFirst` and `RedisExpire`, or `RedisAgain`).
`Tick` moves the clock and lets Redis drop what expired. `raced` counts the
requests that met another one between get and incr, `lapsed` says that Redis was
left a counter without expiry. A counted request is a record of its call, its
attempt and its tick: `stamps` are those whose timestamps the sliding window
keeps, refused ones included, `admitted` those that passed in the last window.

## 3. The runs

| Run | Instance | States | Checks |
| --- | --- | --- | --- |
| `runtime` | 2 tasks, 2 JSON-RPC messages, 1 gRPC message, 1 push request, 2 artifacts | 61 349 (symmetric) | all of the task runtime, and that it implements `TaskContract` |
| `streams` | 1 task, a message/stream, a StreamMessage over gRPC, 2 of 2 subscribers and 1 resubscription | 276 111 | the safety of streams, and that accepted streams end |
| `idempotency` | 3 calls, 2 keys, 2 payloads | 224 579 (symmetric) | retries, replays, conflicts |
| `push` | 3 notifications, 2 URLs, 2 slots, 2 attempts, thresholds 2 and 2 | 161 178 | slots, queue, breakers, and that every notification settles |
| `async_tasks` | 3 calls, 1 stored and 1 new task, the three storages | 242 487 | lost updates, events, settling, and that the manager implements `SerialTasks` |
| `registry_store` | 1 agent with 2 possible records, 2 writers, 1 search of 3 kinds, the three clients | 395 952 (symmetric) | searches, index entries, deleted agents |
| `registry` | 2 agents, 1 screen of 1 task, 2 runs of health checks or 1 of polls, 1 or 2 recorded tasks | 306 504 | purging, screens, and that every agent is contacted |
| `ws` | 3 requests, 3 sockets | 463 356 | waiters, orphans, and that every request past its connect settles |
| `client_calls` | 2 calls of 2 attempts, limit 2, window 2, 2 ticks, both wrappers, the three stores | 3 774 400 (symmetric) | attempts, window limit, counters |
| `artifact_extensions`, `sse_gauge`, `idempotency_overlap` | one to three requests | a violation in at most 8 steps | section 5 |

**Why the bounds are enough for what the runs ask.**

- A property of the task runtime relates one task to the requests on it: two
  processors that race and a third request suspended in its validation meet in
  every order with three requests; the second task shows that nothing leaks
  from one to another. One of the requests comes over gRPC: it creates its task
  and takes no further message, so one is enough to meet the others.
- Streams need one task, as no stream concerns two, a stream of each kind, and
  enough subscribers (`MaxJoining` bounds those that join) for a broadcast to a
  client that is already there.
- Idempotency needs the call that stored, the one that overlaps it and the one
  that comes after both.
- Push delivery needs more notifications than slots, so that some wait;
  thresholds of two, so that every counter has a value strictly between its
  ends; and a second URL to see that breakers do not share anything.
- Three calls (`Calls`) of the asynchronous manager are one to be lost, one to
  overlap it and one that fails or removes the task; every pair of methods meets
  on a stored task and on one created meanwhile.
- The registry's index entries of one agent do not touch those of another, so one
  agent is enough; it may be stored from the start, so that two writers are enough
  to overlap on it, or to be one that breaks off and one after it. The records
  differ in tenant, visibility and MCP; the queries read the tenant and the public
  index with a status, the exclusion by MCP, and the public index alone.
- Two agents with a page of one make the health cursor wrap while agents come
  and go under it, with two runs at a time (`Overlap`); polls take a page of two
  in chunks of one, so that a run waits with an agent still to contact. With
  `MaxRecents` 1 and 2 over a `ScreenLimit` and a `SnapshotSize` of 1, the server
  records more than a screen shows and a snapshot sends, or each new task drops
  another. One version (`MaxVersion`) is enough to be missed.
- Three requests and three sockets (`Socket` is a bound): two that are opened
  beside each other and one after a close.
- Two attempts are a first and a last; `MaxTime` 2 is the end of one window and
  the begin of the next. Two calls of two attempts are more requests than the
  limit of two admits in a sliding window and in the burst where one fixed
  window follows another (one request, one more, and two at its end), and enough
  to meet between get and incr.
- `MaxArtifacts` bounds the artifacts of one `handleTask`.

Nothing else is capped: requests, calls and notifications are finite sets each
member of which acts once. The proofs of section 4 hold without these bounds.

Symmetry is used only in runs without liveness properties, over sets whose
members no definition tells apart; in `MCTaskRuntime` the gRPC request is left
out of it.

`CHECK_DEADLOCK FALSE`: every system here comes to rest when all the requests of
the instance are served.

**Fairness.** Only that settled promises run their continuations, timers fire,
and what the code gives a timeout ends: URL validations (DNS), webhook POSTs and
the registry's requests (`FairSpec` of `PushDelivery`, `AsyncTasks` and
`RegistryServer`), and in `WsTransport` the timer of a request, but no attempt to
connect. The statements and callbacks of the asynchronous storage settle. The
registry's intervals fire until `stop()`. That `handleTask` settles is a
requirement on adapters, since the runtime sets no timeout: `AcceptedStreamEnds`
rests on it. Nothing is assumed of clients, connections, servers or webhooks: a
peer may stay or leave, an answer may be a failure or never come, a connection
may never open. `EveryAgentIsContacted` excepts an agent whose heartbeats never
cease, as each puts its health check off, which the code means it to, and a list
of agents that never ceases to change, which may starve one (section 2).

**Mutants.** For every property of every passing run there is an operator next
to the definition it changes, marked `Mutant:`, that alters the code the way a
plausible bug would; with it the run fails.

## 4. The proofs

The first part of `TaskProofs`, about `TaskRuntime` alone, from
`RuntimeAssumption` (a finite set of tasks; requests,
push requests and `None` are distinct; adapters move tasks to open states):

| Theorem | Property |
| --- | --- |
| `TypeCorrect` | `TypeOK` |
| `ClosedTasksAreFrozen` | `TerminalFrozen` |
| `OneAuthorPerOutcome` | `OutcomeHasOneAuthor` |
| `NothingIsAbandoned` | `NoAbandonedWork` |
| `NegotiationFollowsHistory` | `NegotiationMatchesHistory` |
| `CountersAgree` | `CountersMatchStore` |
| `RuntimeKeepsContract` | `KeepsContract` (the refinement of `TaskContract`) |

None of the invariants is inductive alone. `IInv` adds

- `Wiring`: a suspended request, a processor and a pending push request hold a
  task that exists, and a processor belongs to an accepted request. Without it
  a continuation could write to a task that is not there.
- `Provenance`: a processor works on a message its task holds, and a task that
  does not exist holds none. It is what lets `Settle` of the contract find the
  message its results answer.

`CountersAgree` also needs `Fresh`, that a task with no message is not WORKING,
so that its first message counts as a start, and the library's facts about
cardinality for "one more task in this state, one fewer in that". For the
refinement, `ContractNext` maps each action to one of the contract or to a
stutter, with one lemma for the part all message requests share
(`ContractProceed`).

`GrpcSends` is the lemma for a gRPC call, which is an `Accept` of a request that
negotiates nothing (`Negotiated`), so that all invariants treat it as a message.

The second part of `TaskProofs`, from `StreamAssumption` (finite, disjoint sets
of streams) on top of the theorems about the runtime, all of `StreamSpec`:

| Theorem | Property |
| --- | --- |
| `StreamsTyped` | `StreamTypeOK` |
| `OpenStreamsAreCurrent` | `StreamsAreCurrent` |
| `EndedStreamsToldTheEnd` | `EndedStreamSawOutcome` |
| `GaugeCounts` | `GaugeIsExact` |

A step of the runtime keeps what a stream relies on: its task goes on existing
(`ExistsStays`), its request stays accepted (`AcceptedStays`), a task that does
not change keeps its snapshot (`TaskKept`), and a closed one never changes
(`Frozen`, from `ClosedTasksAreFrozen`'s step). `Placed` says where a stream
stands: it has a stored task, and it opened late only after its close event.
`NotifyInv` then is the step of the runtime with its observers, `StreamStepInv`
a step of the streams themselves. For the gauge, every step is shown to change
the sets `Counted` and `Attached` by exactly what it adds to or takes off the
gauge, as cardinalities of finite sets.

`IdempotencyProofs`, from `IdempotencyAssumption` (`None` is no call, key or
payload): `TypeCorrect` proves `TypeOK`, and `RetriesAreSafe` proves
`AnsweredNeverRunsAgain`, for any number of
calls, keys and payloads. The inductive part is `Recorded`: the key of every
answered call whose record was not forgotten has a record, perhaps another
call's, from the moment it is answered. So a later look-up never misses.
`ReplaysAreReal` proves `ReplaysAndConflictsAreReal`: `Real` adds that a record
is that of a call with its key whose method returned, and that what a call is
about does not change once its method returned (`ReturnedIsKept`).

`PushDeliveryProofs`, from `PushAssumption` (finitely many notifications;
positive limit, attempts and thresholds): `TypeCorrect` (`TypeOK`, with what a
breaker's counters may be in each of its states), `NoSlotIsLost`
(`SlotsAndQueue`), `CircuitsProtect` (`OpenCircuitIsQuiet`). The invariant is
that active slots are the notifications in flight, that the queue has distinct
members, those queued, and a dispatcher while it has any, and that a
notification not settled has an attempt left. The heart is `Dispatches`: one
turn of the dispatcher takes a prefix of the queue whose length is that of the
free slots or of the queue, and by a bijection the slots taken are as many as
the notifications that leave.

`AsyncTasksProofs`, from `StorageAssumption`: `TypeCorrect` (`TypeOK`),
`ManagerIsSerial` (`TakesEffectAtOnce`, the refinement of `SerialTasks`),
`AnswersAreKept` (`AnsweredUpdatesLast`) and `EventsAreHistory`
(`EventsTellCommittedHistory`). The invariant: the operation at work
heads the queue, so there is one (`QueueIsServed`); a SQLite transaction is open
exactly while such an operation has one (`TransactionIsHeld`); what it read is
still what is stored, and what it wrote differs from the backup by its own
effect (`WorkIsFresh`, with `Effect`); identifiers are fresh when they are
created (`CreatesAreFirst`); a log names only operations that wrote
(`LogsAreWritten`). Then COMMIT, or the write of a storage without transactions,
is an `Apply` of the abstract object, a rejection or a crash a `Refuse`, and all
else a stutter; the call of a bare operation is its `Announce`, its first write a
`Start`, and the second, or its end, a `Finish` (`SerialStarts`, `SerialFinishes`,
`SerialRejects`). `Lasts` carries an answered update through every later one: it
is in the log exactly once, in what is stored and in what a rollback would
restore, until the task is removed. For the events, `Tells` follows a snapshot
from the write to the emission: what is about to be told (`ToTell`) is what is
stored, and goes on from every event of its task so far; every event told is a
prefix of the stored log and of the one a rollback would restore (`Told`); and
between the end of an operation and its event no other operation is at work
(`OneResolved`), so that nothing stored overtakes it.

`RegistryStoreProofs`, from `RegistryStoreAssumption`: `TypeCorrect` (`TypeOK`),
`IndexesAreTruthful` (`StaleOnlyByOverlap`), `NothingIsResurrected`
(`DeletedStaysDeleted`) and `SearchesMissNobody` (`SearchFindsSteady`). The first
two invariants are per agent: while no two writes of it overlapped (`Settled`),
its one writer still has the record it read and takes every entry out before it
goes on. Searches need more, since overlap must not lose an agent either:
`Complete` says that an agent is listed under all the terms of its record unless
some writer still owes those entries or broke off in adding them, whether writes
overlap or not, and `SearchInv` that a search keeps whoever has matched so far:
one that is visible by the public index alone may be missing between the read of
the tenant's index and the public one, which is then still to come (`Awaited`).

`RegistryServerProofs`, from `RegistryServerAssumption`: `TypeCorrect`
(`TypeOK`), `DeletedAgentsAreForgotten` (`NothingOutlivesAgent`) and
`ScreensAreCurrent` (`ScreenIsCurrent`). The types carry facts of their own: no
agent is listed twice (`InsertedAt`, `RemovedAt`), a chunk is no larger than the
concurrency (`ChunkIs`), no more tasks are recorded than `maxRecent`
(`TrimmedIs`), or shown than `ScreenLimit` (`SliceIs`). `NoTrace` is what makes
`NothingOutlivesAgent` inductive: no run is about to contact an agent that is
neither stored nor `haunted`, so that no answer still to come can bring its
timer or its task back. `LoadIsCurrent` says of a response on its way what
`ScreenIsCurrent` says of a screen, but for `late`. That cutting a list to its
newest tasks keeps it current is `SliceAgrees`. The run has one request in
flight at a time for each run of an interval; the proofs are for any
concurrency, in which the answers of a chunk come in any order.

`WsTransportProofs`, from `None \notin Socket`: `TypeCorrect` (`TypeOK`),
`WaitersAreAttached` (`NoWaitOnClosed`) and `LoneSocketIsInUse`
(`NoOrphanSocket`). `Attached` relates promises to the pending map and to live
sockets; `AloneOrCrowded` says that of two live sockets both are crowded, so the
close event that unsets `this.socket` is that of the one open connection or the
others are marked.

`ClientCallsProofs`, from `ClientCallsAssumption`: `TypeCorrect` (`TypeOK`),
`CountersEnd` (`CounterHasEnd`) and `LimitHolds` (`WindowLimit`). What has to be
added to the types is that a call that was not made has made no attempt. For the
limit, `Windows` says of a sliding window that all who passed have their
timestamps kept, and of a counter that some request x opened it (`Opened`): of
those in the span of one window, the ones since x fit the count, the ones before
x fit what the counter before it left, and the raced ones of Redis are shared
between the two. A counter ends a window after x at the earliest, so that x has
left the span by then (`CounterEnds`) and less than `MaxRequests` are left for
the next counter to start with (`Opens`).

Only model-checked:

- liveness (`AcceptedStreamEnds`, `EveryNotificationSettles`, `EveryCallSettles`,
  `EveryAgentIsContacted`, `EveryRequestSettles`): TLAPS does not reason about
  fairness and `ENABLED`.

Every other property a passing run checks is the statement of a theorem.
No module of the project uses a RECURSIVE operator.

## 5. Where the code and its documentation disagree

- `artifact_extensions`: the handler hands `processTask` the copy of the task it
  fetched before it stored the negotiated extensions, so `normalizeArtifacts`
  writes an empty `appliedExtensions` for a new task, or that of an earlier
  message; `A2AServer.test.ts:605` expects the task's extensions there.
- `sse_gauge`: a connection that closes during the awaits of its handler is
  added to the gauge and never taken off, though the documentation calls it the
  "Current active SSE connections". `GaugeIsExact`, which holds, says exactly
  what the gauge does count.
- `idempotency_overlap`: two calls with one key that overlap both run, and the
  second is not rejected if its payload differs: the look-up reserves nothing.

Without a run of its own: `AsyncTaskStorage.ts:30` asks a transaction to "roll back
if it throws or rejects", and that of `SyncTaskStorageAdapter` (`:89`) does not.
A callback of the application that writes and then throws is rejected with its
write in the storage: `AsyncTasks` has that behaviour (`BatchThrows` over the
adapter, `pc` = `torn`), and `SerialTasks` does not hide it, it admits a refused
operation with a part of its effect for what was announced as bare. Without that
exception the refinement fails. The manager itself writes once, last, in each
callback, so that its own mutations are whole.

## 6. Not modelled

- A `res.write` that throws, heartbeats of streams, and `A2AServer.stop`. The
  replay of a stored message/stream result over SSE: one turn that opens, writes
  and ends a response and changes nothing else.
- Status messages, timestamps, context identifiers and listings of tasks. The
  runtime model has the synchronous in-memory storage, which cannot fail.
- Of the asynchronous storages: work a callback starts and does not await; a
  removal under a storage without transactions, which nothing in the repository
  makes; listings, counts and `clear`.
- Of the registry store: the JSON-array indexes of a Redis client without set
  commands, the look-ups by skill, tag and name (one more term each), and
  `summarize`. Of the server: authentication, origins and metrics, the stream of
  agent events, and two imports that both find one URL missing and store it
  twice; two loads of one screen at a time, whose responses may come in the
  wrong order, and events delayed on their way to a browser; a stream that
  authenticates after `stop()` stays open in the model as in the code, and
  nothing is said of it. A heartbeat is one step in `RegistryServer`, where the
  storage is in memory, and split in `RegistryStore`.
- `WsServer.start`, `stop` and protocol errors; `GrpcClient`, serialization, and
  the bind and close of the gRPC server.
- Of the client: streaming calls and `eventSourceReader`, interceptors, discovery
  and the address rules of `OutboundPolicy`; of the limiter, get and incr calls
  that fail, after which nothing has changed. The guard in front of each attempt is
  modelled (`Post`, `PostAborted`), and no property repeats it.
- Authentication and card signing: cryptography and I/O. Wherever a request can
  be refused, the models let it be refused.
- Adapters, bridges, demo: they use the runtime as any client or adapter does.
- The rest of the repository is most of its lines: build and release scripts, the
  CLI, OpenAPI and JSON schemas, type declarations, scaffolding templates, test
  doubles and the rendering of the registry UI. They hold no state of the
  protocol and run one thing at a time, so a model would say only what their
  text says.

`PROJECT.json` names every part with its status and reason.

## 7. Plan

Done, in this order because everything else rests on it: `TaskLifecycle`,
`TaskContract`, `TaskRuntime`; `TaskStreams`; `Idempotency`; `PushDelivery`;
`SerialTasks`, `AsyncTasks`; `RegistryStore`; `RegistryServer`; `WsTransport`;
`ClientCalls`; gRPC in the runtime and its streams; the proofs of section 4.

Next theorems: the safety that the runs check is proved. What is left are facts
no run states: that `TaskStreams` implements an abstract observer of
`TaskContract`, and that the answers `Idempotency` gives are those of a server
that runs each key once, as long as calls with one key do not overlap.

Next models, if the code grows there: term look-ups in `RegistryStore` as one
more part of a query, and `GrpcClient.streamMessage`, whose queue hands events
out in order.
