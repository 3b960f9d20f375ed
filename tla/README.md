# Verification of inverter-dashboard-go

TLA+ models, TLC runs and TLAPS proofs for the dashboard server in this
repository: a Go program that collects telemetry of a Victron installation,
shows it to browsers over WebSocket, sends commands back and delivers Web Push
notifications; and for the code that runs in the browsers: the pages that show
the telemetry, the service worker that displays the notifications, and the
acceptance suite that tests them.

## 1. The system

| Component | State it keeps | Operations | What makes it correct |
|---|---|---|---|
| Source arbitration (`internal/mqtt`, `internal/gateway`, `main.go`) | `gatewayMode`, `mqttSession`, `pushGeneration`, keepalive loop, poll loop | connect, lose, resubscribe, poll, acknowledge, fail over, probe, switch back | only the current owner writes the state; old sessions leave no native banner, notify nothing and authorise nothing |
| Cerbo reducer (`cerbo.go`, `water.go`, `ev_ess.go`) | device leaves, portal, freshness of water modes | apply a native message, overlay, expire | a reading disappears with the device or session that owned it |
| Notification slots (`notifications.go`) | slot table, banners, alarm cache | slot updates, raw alarms, reset | a slot shows one incident; an acknowledged one disappears |
| Controller commands (`controller_commands.go`, `state/controller_commands.go`) | observed override, readiness | publish, await acknowledgement | success means the controller really took the command |
| Gateway client (`internal/gateway`) | poll loop, connected flag, command mutex | poll, post a command, await an override, stop | no late snapshot after Stop; commands are not replayed |
| Command buffer (`command_buffer.go`) | bounded queue, worker | enqueue, drop oldest, publish, retry, drain | bounded, in order, drained at shutdown (`PublishCommandAsync` has no caller today) |
| Broadcast and hub (`client.go:triggerHandler`, `internal/websocket`) | coalescing flags, connections | trigger, build a frame, send, connect, close | no change is lost, one writer per socket, no dead connection stays registered |
| Push processor (`push/processor.go`) | latches per incident, armed state | reset, observe | one notification per incident, none invented by a restart |
| Push store (`push/store.go`) | subscriptions, deliveries, seen keys, on disk | register, delete, enqueue, finish, reset | memory and disk agree; a failed save changes nothing; what was saved can be opened again |
| Push dispatcher (`push/sender.go`) | attempts, due times, in-flight send | pending, deliver, finish | a deleted or superseded delivery is not sent; retries are bounded |
| Home Assistant client (`internal/homeassistant`) | overlay of entity states | poll, replace overlay, actions | the overlay is the newest poll |
| Settings (`internal/settings`) | settings file, applied settings | load, apply, replace | a crash leaves the old or the new file |
| Start-up policy (`config/connection_policy.go`) | none | choose a source | MQTT preferred, IGW as fallback |
| Notification service worker (`vue-ui/notifications-sw.js`) | delivery settings and event claims in IndexedDB | push, claim, show, release, prune, enable, disable | an event is displayed once, and not by a delivery that a Disable met between its two looks at the settings; a claim is not lost while it is needed |
| Server-rendered page (`static/js/dashboard.js`) | sockets, timers, merged state, update button | connect, reconnect, heartbeat, merge a frame, update | the indicator tells the truth, frames are applied in the order they were sent, the page comes back |
| Vue page transport (`vue-ui/assets`) | socket, poll, indicator, pending command | connect, poll, receive, send a command | newest telemetry on display, every command settled |
| Acceptance suite (`scripts/browser-*.cjs`) | mocked server, script | route, broadcast, wait, assert | a correct page passes, whatever the timing |
| Updater, tracing, logging, metrics, TLS, auth, HTML | - | - | outside the protocol core |
| Release tooling (`scripts/`, `.github/`) | release receipts, version plan | Python programs run by CI | separate from the server |

How they interact: paho calls message callbacks and connection handlers in
goroutines of its own; the gateway client polls in one goroutine and applies an
override acknowledgement from the goroutine of the command; both write the one
state guarded by `gatewayMu` and `stateMu`, then trigger a broadcast and a push
observation. Push writes its store and wakes the dispatcher. Browsers send
commands over WebSocket, which go to MQTT or to the gateway. In the browser,
socket events, timers, fetches and IndexedDB transactions interleave, and several
tabs share one service worker, which the browser may end at any moment.

What is hard here: callbacks that were routed before a reconnect and run after
it; connection handlers that overlap the reconnect; source switches made of
several critical sections; resets done after the lock was released; snapshots
applied by two goroutines; crashes between a send and its record; retries.
`PROJECT.json` lists each hazard at its line.

## 2. Modules

### TelemetrySource

`TelemetrySource.tla` models who owns the dashboard state.

| Variables | Code |
|---|---|
| `broker`, `subscription`, `republish`, `losses`, `refusals`, `lostPc` | paho: the open connection, the session of its subscriptions, the snapshot a full keepalive asked for, refused topics, the lost handler |
| `subscriptionsEnabled`, `mqttSession`, `keepalive`, `subscribePc`, `subscribeSession` | `mqtt.Client` and the calls of `Subscribe` in progress |
| `gatewayMode`, `gatewayConnected`, `gatewayPublish` | guarded by `gatewayMu` |
| `pushGeneration`, `pushSource`, `pushConnected` | guarded by `pushMu` |
| `cb` | message callbacks: progress, and the session and generation they captured |
| `cancelled`, `polls`, `pollOk`, `gwPc`, `gwGeneration` | `gateway.Client`: context, poll loop, acknowledgement |
| `starter` | `main.go`: start-up, then `mqttRecoveryProbe` |
| `banners`, `native`, `controller` | the state, each part reduced to the source (session number, or 0 for IGW) that wrote it; a banner is native or not |
| `pushSeen`, `lostSession`, `mishaps` | history variables for the properties |

One action is one critical section or one atomic access. A callback holds the
read side of `gatewayMu` over two actions (`Commit`, `Observe`), so every
writer's guard contains `GatewayMuFree`. paho and the broker are external:
connections come and go, messages arrive on live subscriptions.

paho starts the lost handler in a goroutine and does not wait for it, so each of
its four steps may come before the reconnect or after any part of it; every run
has all these orders. `SubscribeBind` may fail on an open connection, with some
topics bound or none, and then no keepalive loop is started. `mishaps` notes
that one of the two befell the connection's latest session.

`banners` holds what is on display: a notification of `inverter/notifications`
is by default the controller's and survives `resetNativeNotifications`; native
slots and raw alarms, and a message that calls itself native, do not. A push
observation is of the whole list, so the notifications that survive are seen
again by the next generation; `pushSeen` records whose message caused it.

`PushFollowsSource`, `PushEpochPure` and `ControllerAuthority` are about state
that is changed in several critical sections; their comments say between which
steps they may not hold.

### PushDelivery

`PushDelivery.tla` models `internal/push`: the store (`store.go`), the
dispatcher (`sender.go`) and the service that opens and closes them
(`service.go`).

| Variables | Code |
|---|---|
| `data`, `disk` | `Store.data` and `state.json`, both a `diskState` |
| `files` | the data directory: new, `writer.lock` alone, or both files |
| `failed`, `up`, `stopping` | `Store.failed`, an open service, a cancelled dispatcher context |
| `batch` | what is left of the slice that `pending` returned to `run` |
| `wk` | the goroutines of `deliver`: progress, item, cancellation, answer |
| `expired` | events older than five minutes |
| `regs`, `admitted`, `forgotten`, `sends`, `used` | history variables |

`mutate` is the code's: compute the next state, save it, adopt it, cancel the
requests whose delivery is gone. A save fails before the rename (the old file
stays) or after it (the new one is there). `Register`, `Delete`, `QueueTest`,
`Reset`, `Enqueue`, `Tick` and `Finish` are the operations that call it;
`DeliverCheck`, `DeliverRegister`, `DeliverSend` and `DeliverAnswer` are the
steps of one request, which read the store in critical sections of their own.
`Crash`, `CloseDispatcher`, `CloseStore` and `Open` end and start the process.
`FirstSave` is the very first start, which creates `writer.lock` and then saves an
empty state: it ends with both files or, after a crash or a failed save, with the
lock alone, and `Open` (`OpenStore`) refuses that for ever.

Abstractions: event keys, endpoints and payloads are model values; the
preferences are one category, wanted or not; clocks are actions (`Expire`,
`BackoffElapses`, `MinutePasses`); the queue is a set, in which a delivery also
carries the registration and the admission it came from (history); `finish`
and the return of its goroutine are one action. Left out: the refusal of a known endpoint
with other keys (nothing changes) and the counter of refused admissions.

### Broadcast

`Broadcast.tla` models how a change reaches the browsers: `triggerHandler`
(`internal/mqtt/client.go`) and the hub (`internal/websocket/handler.go`).

| Variables | Code |
|---|---|
| `version` | the state, reduced to the number of changes made to it |
| `trigger` | goroutines in `triggerHandler`, and the value of the flag they loaded |
| `pending` | `broadcastPending`: 0 idle, 1 running, 2 run again |
| `pc`, `resume`, `frame`, `peers` | the goroutine of the trigger and the one of each connection: progress, frame built, peers still to be written |
| `holder` | `writesMu` |
| `clients`, `closed` | the registry, the closed sockets |
| `built`, `shown`, `best` | history: the runner's last frame, the last and the newest frame of each client |

A frame is the `version` it was built from. Load and compare-and-swap of the
flag are actions of their own; a broadcast is build, lock, one write per peer,
unlock. A connection is accepted, gets its first frame under the lock, then
reads requests, each of which may broadcast on its way, may be answered and
broadcasts at its end. Every write may fail, and a peer may go at any time.

### ControllerCommands and CommandOutcome

`ControllerCommands.tla` models a command from `PublishCommand` to its answer,
over MQTT (`controller_commands.go`) and over IGW (`gateway/client.go`), and
the controller's status that comes back. `CommandOutcome.tla` is the abstract
specification of the answer: success of a setpoint override means that the
controller took an override with that request ID and value.

| Variables | Code |
|---|---|
| `source` | the pair (`pushGeneration`, `mqttSession`) that a call captures and compares |
| `open`, `gatewayMode`, `gatewayPublish`, `gatewayConnected`, `cancelled` | as in TelemetrySource; `open` is `IsConnectionOpen` |
| `todo` | critical sections that a source change has still to go through |
| `view`, `receipt` | the controller's part of the state: availability, override status, observations younger than 30 seconds; `overrideReceipt` |
| `call` | the calls: progress, command, captured source and receipt, passed deadline, fetched snapshot |
| `wire`, `ctl`, `frames` | external: commands sent, the controller's status, its frames on the way |
| `taken`, `seen` | history: overrides the controller took, calls whose readback came live after they were sent |

`Begin`, `Capable`, `Route`, `SendPlain`, `PublishDone` and `Acknowledge` are
the critical sections of a call over MQTT; `Preflight`, `Post`, `PostDone`,
`Fetch`, `Compare` and `Apply` those of `PostCommand` and `awaitOverride`.
`Receive` is a controller callback, with the four kinds of frames the code
tells apart. The source changes are those of TelemetrySource, each reduced to
what a command can see of it: the captured source is retired in one step, and
the authority of the old status is revoked in a later one. The lost handler
runs before the reconnect here.

Abstractions: a `plain` command stands for the generic controller actions
(`toggle`, `dry_run`, `setpoint`, ...); payloads are a request ID and a value; the
gateway's snapshot carries the controller's status of that moment, and whether
it has the capability and is fresh enough is open. A call may find its deadline
passed from the moment something looks at it.

### NotificationWorker

`NotificationWorker.tla` models the service worker. `settings`, `claims` and
`expires` are what it keeps in IndexedDB; one transaction is one action, since
the browser serializes them, and between two of them anything may happen. `job`
is what each push handler is doing: `Push` (normalizedEvent), `ReadSettings`,
`ClaimEvent` (with `pruneEvents`), `Recheck`, `Show` or `ShowFails` and
`ReleaseClaim`. `tab` is the Enable and Disable protocol of the dashboard's
tabs, with the generation each last saw; its steps are read from the bundle.
`WorkerEnds` is the browser ending the worker: IndexedDB stays, the handlers are
gone. The event's fields other than its key and timestamp are left out; both
timestamps are one.

The history variables say why a claim is gone (`evicted`, `lapsed`), which
deliveries were given up after their claim (`dropped`), which saw a Disable
between their two looks at the settings (`crossed`), and whose Enable was
overtaken.

### Dashboard

`Dashboard.tla` models `dashboard.js`. The page keeps one `ws` but never waits
for an old socket to close, and its handlers do not ask which socket they run
for, so the model has several: `ws` names the current one, the others are
orphans that still fire. A handler or timer callback is one action. `retry` is
the timer in `reconnectTimer`, `strays` are the pending timers no variable
refers to any more. A frame is its number; `source` says for each field which
frame it came from, since `Object.assign` keeps the fields a frame omits.
`inbox` is external: the server sends a first frame and later ones
(`Publish`), and a connection may be refused, lost or silently `cut`. Frames are
numbered in the order they are sent: `BroadcastState` may send a frame after one
that was built later (finding 4, in Broadcast), and what the page can be asked
for is to apply them in the order in which they were sent.

### VueTransport and BrowserAcceptance

`VueTransport.tla` models the function of the Vue bundle that keeps the page
supplied: socket, poll, indicator and pending command. It leaves the server's end
open (`calls`, `inbox`, `outbox`, `hangups` are what travels).
`BrowserAcceptance.tla` composes it with the mocked server of
`browser-acceptance.cjs` and with its script, which runs concurrently with both:
`step` is the next line of the script, `Do` acts on mock or page, `Await` is
`eventually` or a Playwright wait (each condition of `waitForHydratedDashboard`
is satisfied when it was once observed), `Assert` looks once. The mock's state
is three values: the state of charge, the camera topic, the visibility of the
loads. A `page.evaluate` is a step of its own: the page may reconnect by itself
between `Resume` (the mock is back) and `ComesOnline` (the page hears of it).

Not in it: the `onerror` handler (the mock's sockets fire none), form
validation, focus, theme, layout and diagnostics.

### Proof modules

`TelemetrySource_proofs.tla`, `PushDelivery_proofs.tla`, `Broadcast_proofs.tla`,
`ControllerCommands_proofs.tla`, `NotificationWorker_proofs.tla`,
`Dashboard_proofs.tla` and `BrowserAcceptance_proofs.tla` (which covers
VueTransport), section 5.

## 3. Runs

| Run | Configuration | Properties | Result |
|---|---|---|---|
| source_switch | `SourceSwitch.cfg` | GatewayRetired, PushFollowsSource, ReconnectLive, StopReturns, ResubscribeCompletes | holds, with fairness |
| source_session | `SourceSession.cfg` | SourceFence, BannersCurrent, PushEpochPure, ControllerAuthority | holds |
| source_refresh | `SourceRefresh.cfg` | RefreshRuns | violated, finding 1 |
| source_resumed | `SourceResumed.cfg` | MQTTResumed | violated, finding 2 |
| push_requests | `PushRequests.cfg` | RetiredCancelled, AdmittedOnce, SendBound | holds |
| push_drain | `PushDrain.cfg` | QueueAllowed, AnswersOwnRegistration, SavedStateLoads, QueueDrains | holds, with fairness |
| commands | `ControllerCommands.cfg` | AckAfterDispatch, RetiredNotAccepted, MeansTaken | holds |
| broadcast | `Broadcast.cfg` | NoLostChange, OneWriter, NoGhostClient, ChangesReachClients, RequestsFinish | holds, with fairness |
| broadcast_current | `BroadcastCurrent.cfg` | CurrentStateShown | violated, finding 4 |
| worker | `NotificationWorker.cfg` | ShownOnce, LapsedIsStale, NoShowAcrossDisable, ClaimAccounted, EvictsOnlyWhenFull, DisableRetiresEnable | holds |
| dashboard | `Dashboard.cfg` | LiveTruthful, UpdatingBounded, DisplayAdvances, Reconnects, CutNoticed | holds, with fairness |
| acceptance | `BrowserAcceptance.cfg` | ShowsLatest, LiveHasEvidence, TargetsLive, CommandUnderway, SuitePasses | holds, with fairness |

Each property is stated above its definition; `PROJECT.json` names for each one
a change of the modelled code that breaks it (`Bug...` in the modules).

### Bounds, and why they are enough

* TelemetrySource: one callback in flight is enough for a race between a
  callback and everything else, since callbacks do not wait for each other; the
  proofs cover any number. One loss lets an old session meet a new one at every
  point of start-up, failover, probe and service, with its handler in any order
  to the reconnect; the `OnConnect` handler, the probe and start-up call
  `Subscribe` without bound. A poll, good or failed, and acknowledgements, any
  number of them, overlap each other, the probe and the stop. `MaxUpsets = 1` lets
  one behaviour have a loss, a refused topic or a poll, not two of them; their
  combinations, and more of each, are covered by the proofs of the same
  invariants, but not for `StopReturns` and `ResubscribeCompletes`. `Kinds`
  selects which parts of the state a run follows: source_switch none,
  source_session all three.
* PushDelivery: `PushRequests` has two requests at once, a notification and a
  test, one stop and one epoch change, so one of them may be retired while the
  other is being sent, and a crash and a failed save meet both; workers are
  symmetric. `PushDrain` has one notification, two epochs, one stop and two
  registrations, so that a late answer meets a new registration, and a list of
  keys that is always full, so that a forgotten event is admitted again
  (`MaxAdmits`), also while its first delivery is still queued: the queue of two
  then holds one ID twice. Both begin with a new data directory. Lists of any
  length, and several deliveries that compete for the slots, are covered by the
  proofs, the latter not for `QueueDrains`.
* ControllerCommands: one call is enough, since calls meet only in the
  controller and in the view, and another dashboard (`Others`) may have any
  override taken before the call's, with its request ID and value included
  (`MaxOthers` lets it do so once); the proofs cover any number. Two source changes let a
  connection be set up and lost, or the gateway come, go and be replaced, at
  every point of the call. Two receipts are one before and one after it was
  sent.
* Broadcast: two writers race for the flag, and one connection, with the runner,
  makes two broadcasters; two changes and two requests let an old frame meet a
  new one. A connection that closes is not used again, as in the code.
* NotificationWorker: two deliveries, for one event or for two; two tabs; a store
  that holds one claim, so that the second event meets a full store; a clock of
  three instants, a retention of two and a maximal age of one, so that claims
  expire after their events do (`WorkerAssumption`: 30 days against five minutes
  and 30 seconds); three generations, the last being the limit.
* Dashboard: one current socket and one orphan (a further connect waits until the
  orphan has closed); two frames, the second without a field of the first and sent
  again without end, as a server that goes on publishing does; queues of two
  frames (`MaxInbox`); three
  upsets (refusals, losses, cuts, browser events), so that a loss can follow an
  overlap that an event made; two chart points, so that the limit is passed.
* BrowserAcceptance: two sockets, the whole script, one upset (a silence, a
  time-out or a failed poll, at any point). `MaxReveals` is 0: a
  page made visible while its socket closes is finding 10, for which
  `LiveHasEvidence` does not hold; the other invariants were also checked with 1.
  `SuitePasses` says nothing once an upset happened: the script's waits are for
  an undisturbed page.

Where a behaviour is cut off by a bound or by its end the runs do not look for
deadlocks, and the liveness properties say what must go on; the worker and the
page never stop, so their runs do.

### Fairness

* Goroutines run on: weak fairness of their steps.
* `gatewayMu` is a `sync.RWMutex`, which lets a waiting writer in before new
  readers, and `writesMu` is a `sync.Mutex`, which hands the lock to a waiter
  that has starved: strong fairness of the steps that take them.
* A cancelled gateway request returns, a push request ends within ten seconds,
  a WebSocket write within two (its deadline), and retry delays run out.
* Nothing makes the broker, a peer, a ticker, a message or a stop happen.
* In the browser, timers fire, queued events are handled, a closing socket
  closes and a connection attempt succeeds or fails (after `MaxUpsets` failures:
  it succeeds). The server need not publish and the user need not act.
* BrowserAcceptance: the mock handles what reaches it and the script goes on when
  it can. Polls are strongly fair: each failed attempt to connect aborts the poll
  under way, but there are 2 s between two attempts and the mock answers at once.

## 4. Findings

1. **A late lost handler stops the new keepalive loop** (`client.go:133`).
   paho starts `ConnectionLost` in a goroutine of its own. If it runs after
   `OnConnect` has subscribed, `stopKeepalive` ends the loop that the new session
   has just started; `docs/operations.md:35` promises a refresh every 20 seconds
   (run source_refresh). When it runs after `SubscribeAdvance` the harm is worse:
   `advanceMQTTSession` retires every subscription of the open connection, and
   `invalidateCerbo` disconnects push and clears the readings, until the next
   reconnect. `ReconnectLive` and `ResubscribeCompletes` except this order
   (`mishaps`), and the one in which a topic is refused on an open connection
   (`client.go:473`), which leaves earlier topics bound without a keepalive loop.
2. **The snapshot of the recovered session is dropped** (`cerbo.go:875`). The
   probe subscribes, and asks for the one full publication, while the gateway is
   still the source; the fence drops what arrives before `DisableGatewayMode`,
   and later keepalives suppress republication. Readings of the gateway stay on
   display until their paths change.
3. **The test limit of an endpoint is lost with its subscription**
   (`store.go:292`). Unsubscribing and registering again allows a second test
   within the minute, against `docs/web-push.md:99`. No run states it: it is the
   guard of `QueueTest` and the reset of `recent` in `Unregistered`.
4. **An older frame may be the last one** (`handler.go:566`). The frame is built
   before `writesMu` is taken, so a broadcast that waits there overwrites a newer
   one, until the next broadcast.

Findings 1, 2 and 4 are runs. Modelling the browser code showed further
behaviours, which its properties name as exceptions:

5. **A late close of a replaced socket disconnects the page in name**
   (`dashboard.js:75`). `onclose` does not ask whose close it is: it shows
   "Reconnecting..." and stops the heartbeat although the current socket is open
   (`lateClose` in `LiveTruthful`). `onerror` of an orphan closes the current one.
6. **Two sockets may deliver at once** (`dashboard.js:57`). `connect()` replaces a
   socket that is still connecting, so an older frame may overwrite a newer one
   (`doubled` in `DisplayAdvances`).
7. **An update that was found is forgotten with the next frame**
   (`dashboard.js:360`). Every frame carries `latest_version`, which is always
   empty: nothing but tests calls `SetLatestVersion` (`handler.go:541`); `main.go`
   records the version elsewhere.
8. **"Full state replacement"** (`dashboard.js:89`) is a merge: fields a frame
   omits keep their old values. `mqttConnected` is set by the first frame and
   never cleared.
9. **A quiet server is taken for a dead one** (`dashboard.js:114`). Frames are
   sent when something changes; after 15 s without one the page closes a healthy
   connection and opens another.
10. **The Vue page made visible while its socket closes** replaces it; the
    indicator, the heartbeat and a pending command carry over to the new socket
    (`LiveHasEvidence` fails with `MaxReveals = 1`). The command is settled by its timer.
11. **`waitForHydratedDashboard` may be satisfied by the REST poll** before the
    socket is open (`browser-readiness.cjs:6`). A scenario that then saves a setting
    finds the command channel closed and fails (`Refused` in `SuitePasses`).
12. **Enable in one tab and Disable in another** may leave the first tab showing
    "Enabled" with the server's registration deleted; the worker's own settings
    stay consistent (`DisableRetiresEnable`).

Three more are exceptions that properties name:

13. **A first start that fails is final** (`store.go:86`). `OpenStore` creates
    `writer.lock`, then saves the first `state.json`. After a crash or a failed save
    in between, every later start finds the lock without the state and refuses
    ("initialized push state is missing"), although nothing was ever initialized:
    `files = "locked"`, which `SavedStateLoads` tells from a saved state.
14. **A forgotten event can be queued twice under one ID** (`store.go:343`). Its key
    was pushed out of the list while its delivery was still queued; the file that
    is saved then is refused by `validDiskState` at the next start
    (`Repeated` in `SavedStateLoads`).
15. **An orphan keeps a dead socket alive** (`dashboard.js:87`). `onmessage` does not
    ask whose frame it is: as long as an orphan delivers, the heartbeat does not
    notice that the current socket is cut (`OrphanDelivers` in `CutNoticed`).

## 5. Proofs

The theorems hold for every value of the constants that satisfies the
assumption of the module (`SourceAssumption`: bounds are naturals, there is a
poll loop; `BroadcastAssumption`: the runner and the free lock are not
connections; `CommandsAssumption`: the calls' values are values, and no payload
stands for none; `WorkerAssumption`: limits are naturals, a claim is kept longer
than an event is accepted, and there are finitely many keys; `PushAssumption`:
limits are naturals, and no event key is a test key; `DashboardAssumption` and
`VueTransportAssumption`: no socket stands for none, bounds are naturals, and a
frame carries fields the page knows). The number of callbacks, writers,
connections, calls, deliveries, requests, tabs, sockets and frames is arbitrary.

**TelemetrySource_proofs.** No property is inductive by itself. That the
gateway writes only while it owns the state depends on how far `main.go` has
come, so the invariant has `StarterMode` (the mode is a function of the
starter's progress) and `GatewayLife` (the client starts after the mode is
enabled, and is cancelled and joined before it is disabled). With them,
`SourceFence`, `PushFollowsSource` and `BannersCurrent` are inductive
(`CoreInvariant`). The properties about the past need more
(`HistoryInvariant`): `SessionOrder`, nothing carries a session that has not
begun; `SeenCurrent`, as long as the current session can still deliver, push
has seen nothing but that session; and `ControllerOwner`, a usable controller
status came from the owner and not from before the last loss.

`ReconnectLive` is proved for every order of the handlers. Its invariant,
`Sessions`, follows the calls of `Subscribe`: they exclude each other, a
subscription ends with its connection, and as long as no mishap has befallen the
session, one that is not the current session's, has no keepalive loop or is not
connected for push has a call on its way that will make it so. The hard case is a
call by `main.go` that a loss and a reconnect overtake: it binds a retired
session, and the `OnConnect` handler of the new connection is then waiting
behind it (`Overtaken`).

| Theorem | Establishes |
|---|---|
| TypeCorrect | TypeOK |
| FenceHolds | SourceFence |
| GatewayHolds | GatewayRetired |
| PushSourceHolds | PushFollowsSource |
| BannersHold | BannersCurrent |
| PushEpochHolds | PushEpochPure |
| ControllerHolds | ControllerAuthority |
| ReconnectHolds | ReconnectLive |

**Broadcast_proofs.** `NoLostChange` needs to know what the flag means:
`RunnerFlag` (zero exactly when no runner is alive; a runner goes round again
only because of 2) and `SwapSeen` (a swap starts from 0 or 1). `OneWriter`
follows from `LockHeld` (the lock belongs to the goroutine between lock and
unlock), `NoGhostClient` from `ConnStates`.

| Theorem | Establishes |
|---|---|
| BroadcastTypes | TypeOK |
| ChangesKept | NoLostChange |
| WritersApart | OneWriter |
| NoGhosts | NoGhostClient |

**ControllerCommands_proofs.** The properties speak of finished calls, so the
invariant says what must be true of a call on its way. `Honest`: every status
without an error that is held anywhere (by the controller, in the view, in a
frame, in a snapshot) names an override that was taken. `ReadBack`: a fresh and
matching status with a newer serial than the call's is its own readback; it
survives every frame because a frame that carries a status also decides its
freshness, and every source change because the captured source is then behind
(`Routed`). `Routed` also says that no call waits over MQTT while IGW is the
source, so snapshots of IGW are never taken for a readback. The refinement maps
a call to what the browser sees of it (`Answer`): `Begin` is `Ask`, a success
is `Settle`, a failure is `GiveUp`, everything else is `Accept` or a stutter.

| Theorem | Establishes |
|---|---|
| CommandTypes | TypeOK |
| AckHolds | AckAfterDispatch |
| RetiredHolds | RetiredNotAccepted |
| CommandsImplement | MeansTaken: ControllerCommands implements CommandOutcome |

**NotificationWorker_proofs.** `ShownOnce` counts displays, so the invariant
says who may still display: `Ownership`, an event that is being delivered or was
displayed is claimed, and two deliveries hold one key, or a delivery holds a
displayed one, only if the claim was pruned. `NoShowAcrossDisable` follows from
`JobGenerations` (a delivery that a Disable crossed has an older generation than
the stored one, which `Recheck` then refuses), `DisableRetiresEnable` from
`TabGenerations` (the same for tabs). `LapsedIsStale` needs `Dated`: a delivery's
event was acceptable when it began, so a claim made later, which is kept for
longer than `MaxAge + Skew`, outlives its event. `EvictsOnlyWhenFull` is a fact
about one prune: a claim that has not expired goes only after all that have, so
the count of deletions was the excess.

| Theorem | Establishes |
|---|---|
| WorkerTypes | TypeOK |
| ShownOnceHolds | ShownOnce |
| ClaimsAccounted | ClaimAccounted |
| DisableStopsDeliveries | NoShowAcrossDisable |
| OvertakenEnableRetired | DisableRetiresEnable |
| LapsedEventsStale | LapsedIsStale |
| EvictionStopsAtLimit | EvictsOnlyWhenFull |

**PushDelivery_proofs.** The invariant has a part for the store alone (`Sound`,
of the state in memory and of the one on disk) and one for what the rest of the
system still holds of it. `Sound`: the limits, distinct keys, a queue that may be
sent (`Allowed`), belongs to the latest registration of its endpoints (`Owned`),
comes from admitted events and drawn test keys (`KnownQueue`), and has one
delivery per ID unless the event came back (`UniqueQueue`). A lemma per operation
(`RegisteredSound`, `WithEventSound`, `FinishedSound`, ...) says that it makes a
sound state of a sound state and what it does to each ID; `StoreStep` then covers
the three outcomes of a save at once, so that crash and failed save are not
separate arguments. Memory and disk are equal until a save fails (`InSync`).

`RetiredCancelled` needs `OneRequest`, no two goroutines work on one ID: `finish`
changes only its own ID, and every other operation removes all of an ID or
nothing of it. `AdmittedOnce` needs `Remembered`, the key of an admitted event is
on disk or was pushed out. `AnswersOwnRegistration` needs `TakenOwned`, what is in
flight and what is queued under its ID are for one registration. `SendBound`
needs `Budget`: the requests sent for a queued delivery are its counted attempts
and at most one more, which is under way; a test may repeat that one after each
stop, an event is dropped by the new epoch.

Three properties except `Repeated` events, those admitted a second time, and
`AdmittedOnce` says which these can be: only events whose key MaxDedupe newer
keys pushed out. The exception is real. Such an event can be queued twice under
one ID, which `validDiskState` refuses (finding 14); the code's limits (4096 keys,
deliveries given up after five minutes) make it unlikely and not impossible.
`SavedStateLoads` excepts only the distinctness of the IDs, and only for them;
every other check holds of whatever is in `state.json`. `FirstStart`, proved
beside the invariant, says that the service never runs, and nothing was
registered, queued or remembered, before the first save (finding 13).

| Theorem | Establishes |
|---|---|
| PushInvariant | Inv, the inductive invariant, and FirstStart |
| PushTypes | TypeOK |
| PushRetired | RetiredCancelled |
| PushAdmittedOnce | AdmittedOnce |
| PushQueueAllowed | QueueAllowed |
| PushLoads | SavedStateLoads |
| PushOwnRegistration | AnswersOwnRegistration |
| PushSendBound | SendBound |

**Dashboard_proofs.** `UpdatingBounded` and `LiveTruthful` are inductive given the
types: `close()` never makes a socket connect or open, and takes an open one to
closing, which the indicator may still show (`ClosingSound`). `DisplayAdvances` is
about two states, and needs three facts about the frames on their way.
`OneSpeaker`: as long as `connect()` replaced no socket that was connecting, only
the current socket is open or may become so, because an open one is never
replaced. `InOrder`: every queue is in the order in which frames were sent and
nothing on display was sent after the last one, so that the first frame of a new
connection is no step back. `NotStale`: what an open socket has still to deliver
was sent no earlier than any field on display.

| Theorem | Establishes |
|---|---|
| DashboardInvariant | Inv, the inductive invariant, types included |
| DashboardLive | LiveTruthful |
| DashboardUpdating | UpdatingBounded |
| DashboardAdvances | DisplayAdvances |

**BrowserAcceptance_proofs.** The page, the mock and what travels between them;
the order of the script's steps is not used. `Wiring` relates the two ends of a
socket: the server knows nothing of a new one, only the current one connects or
is open, and a tracked one has no close on its way, has its open event to come
first while it connects, and its callback once the page closed it. `TargetsLive`
follows. `Latest`, for `ShowsLatest`: the newest telemetry on its way is the
server's state, or there is none on its way, the state is displayed, and a poll
that is already answered carries that state. It is kept because telemetry aborts
the poll and every change of the state is broadcast. `Command` has the command,
or a verdict, on its way on the open socket; only a disturbance makes the
heartbeat close that socket (`Links`). `Evidence` needs that the connect timer is
pending only without a current socket, and `reveals = 0`: finding 10 is the
exception. Lemmas say what handling the first event of a queue and sending one
more do to these facts (`TailFacts`, `SentFacts`, `BroadcastFacts`).

| Theorem | Establishes |
|---|---|
| AcceptanceInvariant | Inv, the inductive invariant, types included |
| AcceptanceLatest | ShowsLatest |
| AcceptanceTargets | TargetsLive |
| AcceptanceCommand | CommandUnderway |
| AcceptanceEvidence | LiveHasEvidence, while no closing socket was replaced |

Only model-checked: the liveness properties `StopReturns`,
`ResubscribeCompletes`, `QueueDrains`, `ChangesReachClients`, `RequestsFinish`,
`Reconnects`, `CutNoticed` and `SuitePasses`. They need fairness, which the proof
system does not handle. Every invariant and action property of a passing run is
stated by a theorem.

## 6. Not modelled

Decoding and formatting of messages, authentication, TLS, logging, metrics,
tracing, templates, the configuration, the update check and the release
scripts: none has state that the protocols above depend on. Of the browser's
code: the views, computed values and charts, the theme, `notificationclick`, and
the vendored and minified bundles apart from the two functions named above. The
command buffer has no caller. The other open parts are in the plan.

## 7. Plan

The core of the server and of the browser side is modelled. What is left, in
this order:

1. **Proofs**: the safety half of the liveness properties (what they rest on in
   every state, such as that a pending delivery always has a timer or a request).
2. **Push processor**: priming, latches, transitions and resets of `Observe`;
   at most one notification per incident and none from a restart. Composes with
   PushDelivery's `Enqueue` and `Reset`.
3. **Commands, the rest**: the decoding of browser requests (`handleMessage`),
   payload validation, and the ESS, water and alarm commands, which have
   readiness rules of their own.
4. **Notification slots and Cerbo readings**: the slot table, the alarm cache,
   and the leaves of a device that disappears.
5. **Home Assistant overlay**: the poll loop and the browsers' commands fetch
   and replace it concurrently; what is on display after an older response.
6. **Settings**: replacement of the file, failures and crashes.
7. The command buffer and the release scripts, if they become part of the
   running system.

The set of runs is kept small: a run for a new component takes the place of one
whose properties are by then proved.
