# A TLA+ model of nanogate

nanogate is a multi-tenant gateway for nanobot agents: one Docker container per
tenant, chats carried to it and back by Redis lists and streams, and webhooks sent
from a consumer group. This directory models it in TLA+, checks the models with TLC
and proves the safety properties of every part with TLAPS.

## 1. Inventory

| Part | State it keeps | Operations | Talks to |
|---|---|---|---|
| Gateway chat routes (`gateway/routes/chat.py`) | none; one SSE generator per open stream | `POST /chat`, `POST /chat/async`, `GET /chat/stream/{id}` | registry, bus |
| RedisMessageBus (`nanogate/bus.py`) | in Redis: a list per tenant, a stream per session, one global stream with a consumer group, session state keys | publish/consume request, publish/subscribe events, consumer group, session state | Redis |
| Agent bus listener (`agent/server.py`) | the request in hand; the workspace | BRPOP, run, progress, done or error, save | bus, nanobot |
| WebhookDispatcher (`gateway/webhook_dispatcher.py`) | the entry in hand, attempts, stop event | read, POST with retries, acknowledge, stop | bus, callback URLs |
| DockerManager (`gateway/docker_manager.py`) | cache `_tenants`; in Redis one `TenantState` per tenant; `config.json` on disk; containers | get, provision, stop, touch, prune (own thread), reload, shutdown | Redis, Docker, disk |
| AgentRegistry (`gateway/registry.py`) | none | `get_or_create` | DockerManager |
| Tenant routes (`gateway/routes/tenant.py`) | none | configure, proxy | registry, agents over HTTP |
| Gateway approval route (`gateway/routes/approval.py`) | none | broadcast or direct approval, `touch` | agents over HTTP |
| Agent approval route and exec tool (`agent/routes/approval.py`, `sample/tools/gateway_exec.py`) | pending approvals in memory | execute (park), `run_approved`, resume the turn | nanobot |
| Session persistence (`agent/session_persistence.py`) | session file in the workspace, copy in Redis | load before, save after a turn | bus, disk |
| Agent direct chat (`agent/routes/chat.py`) | none | `POST /api/chat`, async variant | nanobot |
| Agent loop, plugin loader, context | construction at start-up | - | nanobot |

What makes it hard: requests are popped before they are handled (a crash loses
them); events are matched to requests by position in a stream; one final event is
two XADDs; several gateways share a consumer group, the Docker daemon and the Redis
state of a tenant; the pruner thread runs `stop_tenant` beside the HTTP thread with
no lock; every Redis or Docker call may raise with or without its effect, and most
exceptions are logged and swallowed. `PROJECT.json` lists the hazards line by line.

What makes each part correct:

* chat path: a client gets its own answer, and gets it; requests of a tenant are
  handled in the order of acceptance; a turn's events are progress, then one final
  event; a request is lost only at the price of a failure;
* dispatcher: one dispatcher per event, bounded attempts, duplicates and lost
  webhooks only at the price of a failure, no endpoint blocks the others;
* container lifecycle: no leaked container, Redis never points back to an old
  container, Redis, config.json and the container agree on the configuration but for
  what the gateway adds or replaces, a saved configuration is never replaced by none
  while Redis answers, idle tenants are stopped and active ones are not;
* approvals: a command runs at most once, stays pending until an approval takes it,
  is filed under the session and announced in the answer of the turn that wanted it,
  and every approval is answered;
* session state: sessions do not share memory, a turn sees what was saved before it,
  a saved conversation only grows, and a turn that ended well survives restarts.

## 2. Modules

| Module | What it is |
|---|---|
| `ChatBus` | the chat path: gateway handler, inbound list, listener, both streams, SSE readers, container stops |
| `WorkQueue` | what the bus promises about a tenant's requests; `ChatBus` implements it |
| `ChatBus_proofs` | theorems about `ChatBus`: types, order, shape of turns |
| `ChatBusDelivery_proofs` | theorems about `ChatBus`: losses, answers, the refinement of `WorkQueue` |
| `WebhookDispatcher` | the dispatchers of several gateways on one consumer group |
| `WebhookDispatcher_proofs` | theorems about `WebhookDispatcher`, its refinement of `EventDelivery` among them |
| `EventDelivery` | what the group promises about an event; `WebhookDispatcher` implements it |
| `ContainerLifecycle` | DockerManager for one tenant, the threads of several gateways interleaved |
| `ContainerLifecycle_proofs` | theorems about `ContainerLifecycle` |
| `Approvals` | the exec tool, the agent's approval route and the turns beside them |
| `Approvals_proofs` | theorems about `Approvals` |
| `SessionState` | nanobot's sessions, their files and their copies in Redis |
| `SessionState_proofs` | theorems about `SessionState` |
| `Counting` | lemmas about the size of finite sets, for the properties that count |
| `MC*` | instances for TLC: model values and constant functions |

An operator named *Mutant* in a comment is a plausible bug; no specification uses it.
It documents which change of the code a property detects.

### ChatBus and WorkQueue

| In the model | In the code |
|---|---|
| `Normalize`, `GatewayKey`, `AgentKey` | both `_normalize_session` functions, one applied to the other's result |
| `ResolveTenant`, `PublishRequest(Raises)` | `POST /chat`: `get_or_create`, then `publish_request` |
| `inbound`, `PushInbound`, `PopInbound` | `LPUSH` / `BRPOP` on `nanogate:tenant:{id}:inbound`, head first |
| `pc`, `cur`, `prog` | position and locals of `bus_listener_loop` |
| `PublishProgress` ... `SaveSession`, `PublishFinalRaises`, `Backoff` | the loop body and its three exception handlers |
| `outbound`, `trimmed`, `AddToSession` | a session stream; the index of an entry is its id, `trimmed` is what approximate MAXLEN has removed |
| `OpenStream`, `ReadBatch`, `DeliverEvent`, `Disconnect` | `stream_chat` over `subscribe_events`: a batch per XREAD, one event per yield |
| `ContainerGone`, `Provision` | what the lifecycle does to a listener, whenever it likes |
| `ticket`, `pushed`, `popped`, `answer`, `seen` | history: order of acceptance, and what clients have received |

A message that is empty is rejected by the gateway and skipped by the listener; it
is left out. A progress event that cannot be published is swallowed by the code, so
it is a turn with one event less.

`WorkQueue` has a line per tenant, the fate of each request and a count of troubles.
The refinement reads `inbound` from its tail, counts container ends and raising calls
(`stops + faults`) as troubles, and takes a request for `finished` once a final event
of it is on the global stream, else for `handled` while a listener has it, else, when
it has been popped, for `lost`.

### WebhookDispatcher and EventDelivery

Entries of the global stream are numbers. The group is its last-delivered id and its
pending set; since only `>` is read, consumer names do not matter. The program
counter `st` follows `start` and `_process_event`: `got` is the test of the stop
event and of the callback URL, `ackDone` the XACK after a 2xx, which is inside the
`try` of the attempt (so an XACK that raises is a failed attempt), `ackGaveUp` and
`ackNone` the two others. `Stop` sets the stop event, `Exit` is the end of the
process at any time after it (the task gets five seconds, then it is cancelled),
`Crash` ends it without notice. The refinement maps an event to `held` while a
dispatcher has it, `abandoned` when it is pending in nobody's hands and unsettled,
`settled` when its fate is decided, `trimmed` when Redis dropped it before anybody
read it, which `EventDelivery` permits once `StreamMaxLen` newer events are published.
A call of `start` that raises, its effect done or not, ends the task (`ReadRaises`);
the dispatcher is then deaf (`Deaf`) until its gateway process ends and starts again.

### ContainerLifecycle

Tenants share nothing but the pruner's list, so one tenant is modelled. A thread's
step is one access to Redis, Docker, the disk or `_tenants`. `stop_tenant` is
`pop .. removeCtr` and returns to whoever called it; `provision_tenant` continues at
`truncate`; `get_tenant` and the reload at start-up are the same steps `load`,
`probe`, `mark` with different ends. `config.json` is truncated and then written; a
read in between fails and counts as no configuration. Docker admits one container of
a name, so there is one `ctr`, and ids are numbered. Time is kept as ages that
saturate one above the timeout, so the clock needs no bound.

A configuration has a name and two fields for what the gateway does to it. `host` is
whether its workspace is a path on the host: `write_config` replaces it in the very
dictionary that is saved, while the container mounts it (`Written`, `NewCtr`). `env` is
its `gateway.env`: after config.json is written, `provision_tenant` adds `TENANT_ID`,
`REDIS_URL` and `OPENAI_API_KEY` to it (`Added`, docker_manager.py:355-370), so a
non-empty one, as in `sample/tenant_config.json`, goes to Redis with variables that
config.json has not. An empty or missing one gives way to a fresh dictionary, which
only the container sees.

Steps merged because nothing else can tell them apart: `containers.get` with the
`stop` or `remove` that follows it (either way a vanished container is NotFound), and
`containers.run` with the assignment to `_tenants` (a `pop` between them returns the
same `None` as one before both).

### Approvals

One agent. A turn is a message's, of the listener (`BusTurn`) or of the agent's own
routes (`OwnTurn`), or resumed by an approval. What matters about a context variable
is which turns share it: asyncio copies the context for each request's task, while
the listener's task has one for all its turns, so `active` and `ctxId` are indexed by
`Ctx(t)`.

| In the model | In the code |
|---|---|
| `active`, `ctxId` | `ACTIVE_SESSION`, `APPROVAL_REQUEST_ID` |
| `StartChat`, `TurnEnds`, `TurnFails` | `_run_chat` before and after `process_direct`, and what its callers do with an exception |
| `ActiveSession`, `Park`, `Execute` | `GatewayExecTool.execute` when approval is required; the uuid is the command's number |
| `Post` | the gateway's hunt for the `request_id`; that it gives up after 120 s changes nothing in the agent, so a repeated request is another `Post` |
| `Take`, `StartCommand`, `TimeOut`, `EndCommand` | `run_approved`: the lookup of the route and the `pop` have no await between them, the token provider and the command do |
| `EndCommand`, `EndResume` | the rest of the route: `autoResume`, the exit code, the `sessionId` check, the resumed turn |
| `Restart` | the container stops, crashes or is provisioned again: pending commands are in memory only |
| `filed`, `by`, `asked`, `epoch`, `ran` | history: where a command came from, and how often it was started |

### SessionState

A conversation is the set of its turns; a file and a Redis value hold one. Session
keys are sequences of characters, because which names collide is what the properties
are about: a Redis key replaces `:`, a file name `:` and `/`, and the fallback of the
save takes any file whose name contains the pattern. nanobot is seen through its
files: it reads a session's file when it does not have the session in memory, and
writes it after each turn. Its files end in `.json` as the code expects, or not
(`suffix`), and the code's comment at session_persistence.py:38 allows for both. The
properties that have `Sound` among their conditions rest on the suffix `.json`; nanobot
is outside the repository, which cannot confirm it.

| In the model | In the code |
|---|---|
| `Take`, `Load`, `RunEnds`, `RunFails`, `Publish`, `Save` | the body of `bus_listener_loop` |
| `Loaded` | `load_session_state_from_redis`, `get_session_state` |
| `ToSave`, `Fallback` | which file `save_session_state_to_redis` picks; the order of `iterdir` is arbitrary |
| `BeginAside`, `EndAside`, `FailAside` | turns of the agent's chat routes and resumed turns, which load and save nothing |
| `Restart(d)` | the container comes back, with directory `d` as its workspace (`write_config` may change it) |
| `unloaded`, `upset`, `beside`, `told` | history: what the properties charge a missing turn to |

## 3. Runs

Bounds are named in the modules and valued in the `.cfg` files.

| Run | What it asks | Instance |
|---|---|---|
| `chat_fair` | own answers, and answers at all | two tenants, two turns of one session (its id spelt in two ways), streams trimmed to two entries, one reconnection |
| `chat_faults` | order, shape and losses under failures, refinement of `WorkQueue` | one tenant, three requests in two sessions, two raising Redis calls, one stop or provisioning |
| `chat_shared_session` | violated: `AnswerFromOwnTenant` | clients of two tenants without a session id |
| `webhook` | exclusive work, bounded attempts, charged losses and duplicates, refinement, every event settled, abandoned or trimmed while some dispatcher lives | two dispatchers, three events, two attempts, one end of a gateway, two raising calls (enough to end both dispatchers), a stream trimmed to one entry |
| `webhook_lost` | violated: the class comment's guaranteed delivery | two events, one end |
| `tenant_one` | leaks, Redis pointing back, agreement and survival of configurations, pruning, shutdown | one gateway (two threads), three requests, a configuration with a host workspace and `gateway.env` beside the default one, one end, two failing calls of any kind |
| `tenant_two` | leaks and configuration between gateways | two gateways (four threads), two requests, one end, one failing Docker call |
| `tenant_active_pruned` | violated: only idle tenants are pruned | one gateway, two requests, no failure |
| `tenant_stale_cache` | violated: the cache agrees with Redis | one gateway, two requests, no failure |
| `approvals` | at most one execution, filing and announcing, pending until taken, refusals, answers | two messages in two sessions, two commands, two approvals, one restart |
| `sessions` | own history, load before run, saved history kept, survival | two sessions, the name of one in the name of the other, four turns, two directories, two restarts, one raising call |
| `sessions_resumed` | violated: conversations survive restarts | four turns, resumed ones among them, one restart, no failure |

Why the bounds are enough: order and mix-ups need two requests in a session and one
beside them; two raising calls are what it takes to fail a `done` and the `error`
that replaces it; a trimmed stream of two entries is shorter than a turn; two
attempts have a first and a last; two dispatchers or gateways race as well as more;
two approvals of one command are a repeated one, and two commands are one parked by a
message's turn and one by the turn that its approval resumes; four turns are one to
save, one that is lost on the way, one after a restart and one beside them.
The conditions in the properties of `ContainerLifecycle` (`NoFaults`, `ends = 0`) are
on history counters, so the same run also explores the states they exclude.

All runs set `CHECK_DEADLOCK FALSE`: requests are bounded, and when they are used up
and nothing is left to prune or to read the system really has nothing to do.

Fairness. `ChatBus`: listeners, the gateway's handlers and open SSE generators are
tasks of running event loops, and a nanobot run ends (by result or exception);
clients need not post, nor do containers have to fail. `WebhookDispatcher`: a
dispatcher takes its next step (its POSTs have a timeout) and a gateway that ended is
started again. `ContainerLifecycle`: threads take their next step, time passes, the
pruner looks every minute, a gateway that ended is started again; requests need not
come. `Approvals`: a handler's task goes on, the timeout of `run_approved` runs off
and a turn of the engine ends; a command need not exit, and clients need not approve.
Nothing assumes that a POST succeeds or that a failure happens or stops.

## 4. What the violated runs show

* `chat_shared_session`: the stream key has no tenant in it, and `api:direct` is
  everybody's default. That is the only way: `AnswersFromOwnTenant` proves the property
  for tenants whose requests never share a stream key.
* `webhook_lost`: pending entries are never read again, neither after a crash nor
  after a clean stop.
* `tenant_active_pruned`: `get_tenant` updates `last_activity` in memory, the pruner
  reads the copy in Redis.
* `tenant_stale_cache`: between the pruner's `pop` from the cache and its save of
  `stopped`, a request finds `running` in Redis and caches the tenant again. The
  container is then removed and nothing ever looks: chats queue up for nobody.
* `sessions_resumed`: the turn that an approval resumes is not saved, and after a
  restart the state saved before it is loaded over its file.

`CacheFollowsRedis` fails in a second way, which TLC shows too: the pruner's late save
of `stopped` lands on the `running` of a container that the HTTP thread has provisioned
meanwhile. Redis then has the previous configuration and hides the container from the
pruner; unless another request makes the gateway stop or provision the tenant, it runs
for ever, though nothing failed.

Some of the passing properties name a case that they except, and the case happens:
`ShutdownStopsAll` a pruner that has a tenant in hand when its process exits (the
container keeps running); `IdleIsPruned`, where it speaks of the container, one that
the late save above has hidden, and failures (`stopped` is saved before Docker is asked
to stop, so a crash in between, or a stop that raises, leaves the container up for
ever: without failures only is the mark in Redis more than a mark);
`EventuallySettled` the case that exceptions have ended all dispatchers for good: a
single gateway and one Redis outage are enough, nobody restarts `start`, and nobody
delivers the events that are on the stream (without the condition TLC finds this);
`ConfigsAgree` the workspace and the variables that the gateway adds; `HonestMismatchIsCharged` a command that a resumed turn
parks (filed under `api:direct`, so its own client gets a mismatch after the command
has run); `HistoryIsOwn` sessions whose names collide; `SavedHistoryKept` a session
that was in memory without having been loaded, because the load failed or a turn
beside the listener opened it first; `AnswerIsOwn` and `EveryClientAnswered` are checked without
failing Redis calls, because an LPUSH that took effect and raised makes a client read
an older turn's event (events carry no request id).

## 5. Proofs

`ChatBus_proofs` proves, for every set of tenants and requests, every assignment of
session ids and every bound, from `ChatBusAssumption` alone:

* `TypeCorrect`: `Spec => []TypeOK`. `TypeOK` alone is not inductive: the listener
  uses `cur` as a request and a reader indexes a stream with its own counter, so
  `TypeInv` adds that a listener outside `idle`, `backoff` and `down` handles a
  request, and that a batch lies on its stream.
* `InboundIsFifo`: `QueueInv` adds to `FifoOrder` that requests not yet pushed have
  ticket 0 and others a ticket in `1 .. pushed`, and that tickets of a tenant differ:
  without it a second push could repeat a ticket.
* `TurnsStayInOrder`, `TurnsAreWellShaped`: `StreamInv` adds that an event's request
  was popped (so anything popped later has a greater ticket) and that the request in
  hand has no final event yet, or only the one its program counter says.
* `GlobalIsOnSession`: `GlobalInv` adds that at `done2`/`err2` the event about to go
  global is on its session stream.
* `NormalizeIdempotent`: gateway and agent compute the same key.

`ChatBusDelivery_proofs`, from `ChatBusAssumption` alone as well:

* `LossesAlwaysCharged`: `LossInv` bounds the set of lost requests by the failures and
  adds that a listener at `save`, which forgets its request without a failure, has
  finished it. Each step then loses nothing, or one request and pays for it.
* `AnswersAreOwn`: `[](InTurns => AnswerIsOwn)`. `InTurns` says that clients post in
  turns, resume from what they have seen, and that no Redis call has raised: the
  conditions of `chat_fair`, but with any number of tenants, container ends, dropped
  connections and any trimming. Events carry no request id, so the answer is matched by
  position alone, and the invariant is about positions: `AgentInv` says that
  a request's final event is its last and that the request in hand has none yet,
  `ClientInv` that one request of a session is in progress at a time, that the others
  are not posted or ended, and that what ended lies before what the client has seen,
  behind which every reader opens. A reader can then meet one request's final event
  only. A raising LPUSH breaks it (section 4), so the condition is needed.
* `AnswersFromOwnTenant`: without any condition on clients or failures, the answer is
  of the session of the request (`SessionInv`), so it is of its tenant unless two
  tenants share a stream key. That hypothesis is the theorem's own.
* `BusImplementsWorkQueue`: `Spec => ImplementsWorkQueue`. Every step changes the fate
  of one request at most and is a step of `WorkQueue` (`PushIsAccepted`,
  `PopTakesFirst`, `GlobalMayFinish`, `ForgetMayLose`) or leaves fates and lines alone.
  `WorkInv` joins what the mapping needs: tickets number the list, `SavedIsFinished`,
  and that what is finished was popped.

`WebhookDispatcher_proofs` proves, for every set of gateways and every bound, from
`DispatcherAssumption` alone:

* `DispatcherTypeCorrect`: `TypeInv` adds that a dispatcher outside `off`, `reading`
  and `ended` holds an entry that was delivered, any other holds none, and that it
  only sleeps before an attempt it may still make.
* `OneDispatcherAlways`: `HoldsFreshOrKeeps` says that an entry comes into a hand only
  by a read, which delivers what was never delivered.
* `AckedMeansSettledAlways`: `SettleInv` adds that a dispatcher about to acknowledge
  has settled its entry. That makes it independent of who holds what.
* `AttemptsAlwaysBounded`, `DuplicatesAlwaysCharged`: `CountInv` ties the POSTs of an
  entry to the attempts of the one dispatcher that holds it, starts them at zero for
  an entry never delivered, and says that a dispatcher which will POST again has seen
  a mishap for each time the endpoint took the entry so far.
* `DispatcherImplementsDelivery`: with `OnlyDelivered` (only delivered entries are
  pending or settled) the status of an event follows from `was`, `Held` and `fate`,
  and `StatusMoves` checks the step of each event. `NoneSkipped` (the group passes over
  trimmed entries only) and `TrimsTheOld` show that an event is trimmed late enough.
* `AbandonedAlwaysCharged`: a stop pays for two events before it costs any, the one in
  the dispatcher's hand and the one it reads after. The bound on the abandoned events
  is therefore not inductive; `ChargeInv` bounds a table that lists beside them what
  each stopped dispatcher can still abandon: one event while it runs, one more while it
  is between two attempts.

`ContainerLifecycle_proofs`, from `LifecycleAssumption` alone, for any number of
gateways unless the property says otherwise:

* `LifecycleTypeCorrect`: `TypeInv` adds that Redis and the threads only know ids of
  containers that were created.
* `ContainerAlwaysKnown`: `KnownInv` says which thread has the container in hand at
  each program counter; `PrunerStops` says that a pruner is only ever in
  `stop_tenant`, so that provisioning is done by main threads alone.
* `RedisAlwaysNamesNewest`: `NewestInv` says that Redis names no running container
  while its gateway replaces one, and that what `touch` saves is still the newest,
  since it runs in the thread that provisions.
* `ConfigsAlwaysAgree`: `AgreeInv` says that `config.json` is written only while Redis
  names no running container, that what provisioning or `touch` then saves is the
  configuration on disk with the gateway's variables added (`Added(disk)`), and that the
  newest container was made with that but for its workspace. The two configurations are
  not equal, and the theorem says where they differ.
* `ConfigurationsNeverErased`: `CfgInv` says that whatever leads to a save of
  `stopped` (a cached tenant, a running one, an idle one) comes after a configuration
  was saved, so that the last resort of `stop_tenant`, Redis, has one.
* `ShutdownAlwaysStops`, an action property of a gateway alone in which nothing fails:
  `StopInv` says up to the end of the first process that a running container is in the
  cache, in the hands of a thread that will stop it, or about to be removed by its name;
  `LeavingInv` that a process that leaves has emptied its cache and does not fill it
  again. When it exits and its pruner has no tenant in hand, nobody is left, so nothing
  runs.

`Approvals_proofs`, from `ApprovalsAssumption` alone:

* `CommandsRunAtMostOnce`: a command is pending, or one handler has it, or it was
  answered for; the invariant counts its starts in each of these.
* `ParkedUntilTaken`, `AnswersAnnounceTheirOwn`, `FiledUnderOwnSessionAlways`,
  `HonestMismatchAlwaysCharged`: what a context says of the turn that runs in it
  (one bus turn at a time has the listener's), and where each parked command came from.

`SessionState_proofs`, from `SessionsAssumption` alone, for every set of session keys:

* `KeyDeterminesName`: keys that coincide in Redis coincide as file names, so that two
  sessions apart on disk are apart in Redis.
* `SessionsShareNoMemory`: files of a session whose names are apart hold its turns
  only, whichever file the fallback picks.
* `TurnsSeeWhatWasSaved`, `SavedHistoryAlwaysKept`: `SeenInv` says that what Redis has
  of an open session is in memory, and that the file is the memory when the listener
  has run its turn and is about to save.
* `ListenerTurnsAlwaysSurvive`: `SurviveInv` says that every turn of the listener that
  ended well is in Redis, but for the one that it is about to save.

Each follows the pattern `Init => Inv`, `Inv /\ [Next]_vars => Inv'`, `Inv => P`,
one step per action; the last step is temporal.

`Counting` holds the lemmas that the counting proofs share: what a bound on a finite
set becomes when an element comes, goes, or is exchanged, and that a set mapped one to
one into another is no larger.

Every safety and action property that a passing run checks is stated by a theorem.
Only model-checked is liveness, because fairness and ENABLED are beyond the prover
here: `EveryClientAnswered`, `EveryRequestFinished`, `QueueDrains` (`ChatBus`),
`EventuallySettled` (`WebhookDispatcher`), `IdleIsPruned` (`ContainerLifecycle`),
`ApprovalsFinish` (`Approvals`).

## 6. Not modelled

nanobot, the LLM and Docker itself (external, seen through their calls); building the
image, ports, the values of environment variables (that the gateway adds some to
`gateway.env` is modelled), tool and script mounts, `setupCommands`; the
DockerManager branches without Redis or without Docker; HTTP bodies and status codes
other than what changes state; logging; construction of the agent loop and plugin
discovery at start-up; the direct execution of commands that need no approval, which
keeps no state. What a command does to the world, and that it goes on after
`run_approved` timed out, is not observable in the code. A `CancelledError` that the
engine itself lets out of a turn would end the listener at agent/server.py:103 as a
shutdown does; whether nanobot can do that is not visible here, and it is left out.

## 7. Plan

1. Done: `ChatBus` with `WorkQueue`, `WebhookDispatcher` with `EventDelivery`, `ContainerLifecycle`,
   `Approvals`, `SessionState`, each with proofs of its safety properties.
2. `TenantService`: an abstract specification of a tenant (absent, running with a
   configuration, stopped with it) that `ContainerLifecycle` implements when threads
   do not overlap.
3. Composition: lifecycle, bus and listener in one module, so that `ContainerGone` of
   `ChatBus` is exactly what stopping, pruning and crashing do.
4. Proofs: that `ContainerLifecycle` implements `TenantService`, and the properties of
   the composition.
