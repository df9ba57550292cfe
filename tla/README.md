# VenueFlow: a verification project

TLA+ models of VenueFlow, the TLC runs that check them and the proofs that TLAPS
checks. VenueFlow is a set of Node.js and Python services around Kafka, Redis,
PostgreSQL and TimescaleDB, a React Native app for attendees, and a React dashboard for
staff. Nearly all of its difficult behaviour has one shape: an `async` handler reads
something, awaits, and writes something else, while other handlers, messages, timers
and failures run in between. The models therefore split every handler at its awaits,
keep every guard and early return, and reduce data to what the properties distinguish.

Paths are relative to the repository. `PROJECT.json` maps every definition to the
lines it stands for.

## 1. Inventory

### Components, their state and what makes them correct

| Component | State it keeps | Operations that change it | Hard behaviour | Correct when |
|---|---|---|---|---|
| IoT gateway (`services/iot-gateway`) | Map of sensors with the time of their last reading | a reading arrives; `check()` every 10 s | overlapping checks that await Kafka, readings in between, failed sends | no live sensor is accused, none is dropped unreported, silence is reported |
| Heatmap engine (`services/heatmap-engine`) | window of sums, Kafka offset, Redis hash and channel | consume, flush, HSET, PUBLISH, commit | crash with a window in memory, replay from the offset, one failed Redis call of two | a reading is counted once; what is published is stored |
| Entry router, recommendations (`services/entry-router`) | `gate_assignments`, `attendeeConnections` | recommend, IDENTIFY, close, red-zone message | concurrent message handlers, stale rows, reconnecting sockets | a push is no older than its transition; a red gate is left |
| Entry router, scans | `entry_events` under UNIQUE(ticket_id) | scan, face-scan | the same ticket at two gates | one entry per ticket |
| Kiosk service | `orders.status` | create, change of status, notification | SELECT, check, UPDATE without the condition; lost notification | stages in order; a ready order is announced |
| Rewards service | events, balance, redemptions | award by Kafka or HTTP, redeem | redelivery, racing calls, failure between statements | each event credited once; no overdraft |
| Auth service | users, `refresh_tokens` | register, login, refresh, delete account | rotation by four statements, deletion in between | a token is exchanged once; deletion revokes |
| Mobile app, API client | tokens in MMKV, refresh queue | request, 401, refresh, login | several 401 at once, kill during a refresh | no request waits longer than the one refresh; the held token is good |
| Mobile app, offline signals | `sync_queue`, connectivity | submit, queue, replay | kill at any await, lost answers, refusals | a queued signal is kept, and sent in the end |
| Mobile app, pre-event sync | tables of graph, ticket, exits; flags | seven steps, retry timer | partial replacement, two syncs at once, kills | what is called complete is on the device; an incomplete sync is retried and completes |
| Mobile app, BLE receiver | `ble_mesh_seen`, `ble_mesh_payloads` | receipt of an advertisement | two receipts at once, kill between mark and show | one notification per alert |
| Live channels (`useWebSocket` of app and dashboard, `ws/gateway.ts`) | sockets, timers, subscriptions | connect, close, reconnect, publish | late close events, change of channel | one live socket, of the current channel |
| Notification service | SMS timers, clients | dispatch, acknowledge, broadcast | acknowledgement against timer | an SMS exactly for what was not acknowledged |
| Emergency coordinator | audit log, `medical_sos`, active evacuations | SOS, evacuate, dispatch, resolve | retries, restart, failure between statements | nothing broadcast without an audit row; resolved stays resolved |
| Incident service, staff management | `incident_reports`, `incident_assignments`, locations, shifts | report, assign, resolve | two services answer the same operation on two tables | an incident is owned by one person until resolved |
| Event service | `event_sessions.status` | create, change of status | as for orders | the status follows its transitions |
| Threat detection | alerts in Redis, windows of movements and alerts in memory | transition, entry, resolve | none concurrent (the Redis client blocks); limits of windows | alerts are stored before they are published; at most ten a minute and zone |
| Vendor intelligence, compliance | stock, transactions, orders; audit rows, consents | one or two statements a request | a failure between the two | stored before announced; prices and limits are right |
| Sponsor analytics | keys set with NX, offers and zones in memory | proximity, offers, zones | the key is set and the publication fails | an offer reaches an attendee at most once while its key lives |
| Queue predictor, external integration | hashes and caches in Redis | prediction cycle, polling timers | a failed source | waits are ordered as their causes |
| ML pipeline, simulation | registry and results in memory | retrain, run | none concurrent | the active model is the best; plans grow with the event |
| Wayfinding engine, analytics service, shared types | none (pure or read-only) | | | cheapest paths, frames without gaps |
| Dashboard and the screens of the app | what was last received | fetch, poll, push, optimistic update | answers that overtake one another, lost answers | an older answer does not replace a newer one; a poll catches up |
| Infrastructure | configuration | | | |

### How they interact

    sensors --MQTT--> IoT gateway --Kafka sensor.readings--> heatmap engine
                          |                                     | HSET + PUBLISH heatmap:{venue}
                          +--Kafka sensor.failures (no consumer) v
    dashboard, app <--WebSocket-- gateway <--Redis pub/sub-- Redis --> entry router --WebSocket--> app
    app --HTTP--> entry router, kiosk, rewards, auth, emergency, incidents
    kiosk --HTTP--> notification service --Redis--> gateway
    app --sync_queue (SQLite)--> /emergency/sos, /incidents (after a reconnection)
    gamification.events (no producer) --Kafka--> rewards

Services share no memory. They share Redis keys and channels, Kafka topics, and in two
places (incidents and staff, compliance and incidents) the names of tables or routes.

## 2. Modules

| Module | Models | Used by |
|---|---|---|
| `HeartbeatMonitor` | `heartbeat/monitor.ts`, `mqtt/handler.ts`, `kafka/producer.ts` | run `heartbeat`; `SensorsToGatesProofs` |
| `HeatmapEngine` | `consumer.py`, `aggregator.py`, `classifier.py`, `store.py` | run `heatmap`; `CrowdPipeline`, `ConservationProofs` |
| `EntryRouter` | `routes/entry.ts` (recommendation), `gate/scorer.ts`, `redis/redzone-subscriber.ts` | run `router`; `CrowdPipeline`, `SensorsToGatesProofs` |
| `CrowdPipeline` | engine and router over one Redis hash and channel | run `crowd_red_gate`; `CrowdPipelineProofs` |
| `OrderLifecycle` | abstract: what the kiosk promises of an order | `KioskOrders` |
| `KioskOrders` | `routes/orders.ts` of the kiosk service | run `orders`; `KioskOrdersProofs` |
| `PointsAccount` | abstract: what the rewards service promises of an attendee's points | `RewardsLedger` |
| `RewardsLedger` | `kafka/consumer.ts` and `index.ts` of the rewards service | run `rewards`; `ConservationProofs` |
| `SignalOutbox` | abstract: what the app promises of a signal it could not send | `OfflineSync` |
| `OfflineSync` | three screens, `storage/db.ts`, `sync/connectivityManager.ts` | run `offline_sync`; `OfflineAppProofs` |
| `Sessions` | `api/client.ts` of the app and `routes/auth.ts` of the auth service | run `sessions`; `AppConnectionsProofs` |
| `LiveChannel` | `hooks/useWebSocket.ts` of app and dashboard | run `live_channel`; `AppConnectionsProofs` |
| `AlertDelivery` | `delivery/dispatcher.ts`, `delivery/channels.ts`, `ble/BleMeshReceiver.ts` | run `alert_delivery`; `AlertDeliveryProofs` |
| `PreEventSync` | `sync/preEventSync.ts`, the tables of `storage/db.ts` it fills, the flags of `mmkv.ts` | run `pre_event_sync`; `OfflineAppProofs` |
| `Statements` | the kinds of awaited calls a handler is made of, and what the code does when one throws | `Handlers` |
| `Handlers` | what it means that requests, polls, failures and restarts interleave over such programs | run `handlers`; `VenueProofs` |
| `ServiceRoutes` | the routes of the services as programs, 21 groups of them, with the life cycles of their rows | `PageRoutes` |
| `PageRoutes` | what the pages of the dashboard and the screens of the app load, poll, write and are pushed | `Venue` |
| `RouteFinding` | `graph/dijkstra.ts`, against all simple paths | `Venue` |
| `ScoringRules` | priority, redeployment, wait prediction, pricing, model promotion | `Venue` |
| `GuardRules` | flood guard, movement score, both permission matrices, fire limits, BLE advertisements | `Venue` |
| `CrowdSimulation` | forecasts and staff plans, the crowd simulator of the dashboard, replay frames | `DashboardPanels` |
| `DashboardPanels` | what the panels of the dashboard derive from zones, alerts, staff and gates; the timer and buttons of the crowd animation | `Venue` |
| `Venue` | all subjects together, the statuses and roles of the shared types, and which rule belongs to which subject | run `handlers`; `VenueProofs` |

The proofs of two components share a module where the components meet: the two ends of the
crowd pipeline (`SensorsToGatesProofs`), the two that add things up (`ConservationProofs`),
the two connections of the app (`AppConnectionsProofs`), what it keeps on the phone
(`OfflineAppProofs`), the programs and the rules they answer by (`VenueProofs`). For that their specifications have names of their own (`EntrySpec`,
`HeatmapSpec`, `SessionSpec`, `PreSyncSpec`, with `...Init` and `...Next`).

Each `MC...` module only gives constants a value that a `.cfg` cannot write. A line
"A variant ..." above a definition marks a plausible bug: it is not part of the model,
it stands before the definition it would replace, and the property it violates shows
that the property depends on that definition.

### From code to model

*Handlers.* A handler that awaits `n` times is `n + 1` steps of one activation. An
activation is a record in a function over a finite set (`handler`, `calls`, `replay`,
`request`, `call`) or, where activations have no identity, an element of a set
(`EntryRouter!handlers`) or a function of their age (`HeartbeatMonitor!checks`). Between
two awaits a Node process runs nothing else, so each piece is one atomic action.

*Statements.* A PostgreSQL, SQLite or Redis statement is atomic and takes effect when it
is answered. Nothing in the modelled services uses a transaction across statements. A
statement that fails has no effect, and the model follows the code's `catch` from there.
A kiosk handler has no `catch`: under Express 4 the rejection is unhandled and Node ends
the process, which `KioskOrders!Crash` models.

*Answers.* An HTTP answer may be lost after the server has acted; `OfflineSync` and
`Sessions` have a step for each side.

*Programs.* A handler that keeps no state of its own between its statements does not get a
module: it is a sequence of statements, and `Handlers` runs any such sequence. Components
whose difficulty is in their own state (a queue, a map of timers, a refresh) have a module
of their own.

*Time.* Only `HeartbeatMonitor` and `HeatmapEngine` count it, in ticks of the timer that
drives them. Elsewhere a timeout is a failure that may happen at any time.

*History variables* (`reported`, `furthest`, `overlapped`, `credited`, `lost`, `unsure`,
`parent`, ...) record what happened and are read by properties only, never by a guard.
`faults` and `kills` are bounds and are read by the guards of faults only.

### Correspondence, module by module

**HeartbeatMonitor.** `tracked` and `age` are the Map `sensors`; `checks[e]` is the
`check()` that began `e` ticks ago with its list `stale` and the sensor whose `onFailure`
it awaits. `Tick` is the interval timer, which does not wait for the previous check.
`EmitThenScan` and `EmitThenRemove` are the continuation after an acknowledged failure
event, with and without a further stale sensor; `EmitFails` is the rejection that
`start` swallows. `ReadingArrives`, `ReadingSent`, `ReadingFails` are the MQTT handler,
which calls `update()` only after Kafka acknowledged the reading.

**HeatmapEngine.** `topic`, `uncommitted`, `hasOffset` are the Kafka log from the
consumer's position, what it has read since the last auto-commit, and whether its group
has an offset (without one it starts at the end). `Consume` adds a reading and, when the
window is over, flushes it into `batch`; `StoreZone` and `PublishZone` are the two Redis
calls per zone, `StoreFails` and `PublishFails` the exceptions that are logged.
`ClassifyDensity` is integer arithmetic on percentages.

**EntryRouter.** `Recommend`, `StoreAssignment`, `AssignmentFails` are one request;
`ScoreGates` chooses among the best gates. Snapshots carry no capacity and no caller
passes a distance, so the score orders gates by their count. `Identify` and `CloseSocket`
are the registration and its close listener. `OnMessage`, `SelectAssigned`, `ReadHash`,
`PushReassignment`, `QueryFails` are one activation of the message callback, split where it
awaits the SELECT and HGETALL; several run at once, each in a slot of `handlers`, and the rows,
the hash and the sockets may change before a push. `told` and `abandoned` record what the
last step pushed or gave up; `lately` what was true while a transition was in progress.
`EngineUpdate` is an environment that publishes what the subscriber expects; no code of the
repository does.

**CrowdPipeline.** Every step of one service leaves the variables of the other unchanged;
`heatmap` and `channel` are shared.

**KioskOrders.** `AcceptStatus` is the SELECT and the validation, `UpdateStatus` the
UPDATE, `Announce` and `AnnounceFails` the POST to the notification service.

**RewardsLedger.** `InsertEvent` is the INSERT with its UNIQUE key, `CreditPoints` the
UPSERT of the balance, `TakePoints` the conditional UPDATE of a redemption,
`RecordRedemption` its INSERT, `CallFails` a failure between the two. `Worth` holds one
map of points per path, because the consumer and the endpoint have different ones. `Costs` is
what clients send as `pointsCost`, of either sign: the endpoint refuses only what is falsy.
`dropped` records the costs of redemptions that failed before their row; `MaxRedemptions`
bounds a run, in which a cost below zero could otherwise add points for ever.

**OfflineSync.** `screen` is one submission; `queue` the row in `sync_queue`; `replay` the
activations of `handleReconnect` with the statement or request each awaits. `SetRow` has
no effect on a row that is gone, as an UPDATE has not. `Kill` may fall between any two
steps; the table survives and everything in memory does not. The constant `Accepts` says
which signals the endpoint takes: it stands for the comparison of the fields of a
screen's payload with the `MISSING_FIELDS` guard of its endpoint.

**Sessions.** Tokens are issued in pairs numbered in order of issue; `lapsed` says up to
which number access tokens are older than 15 minutes. `Unauthorized` is the response
interceptor, `Answer` and `Refuse` the continuation of the refresh with the queue it
releases, `SelectToken` ... `InsertToken` the statements of the refresh handler, which
runs on when the app that called it is gone. An answer may also never arrive over a connection
that fell silent: the refresh goes through the global axios, which has no timeout
(`client.ts:72`; the 15 s of line 18 are those of `apiClient`), and then waits on (`Unheard`).

**LiveChannel.** A line is the chain of sockets and timers that one call of `connect` starts:
`connecting`, `open`, `closing` (the hook called `close`, the event is still to come),
`waiting` (3 s timer). `wsRef`, `timerRef`, `mounted` are the refs, `connected` the state
of the page. A chain, not a socket, is the unit because the close event of a socket that a
cleanup closed arrives after the next effect has set `mountedRef`, and starts a timer whose
closure dials the *old* channel. `Cleaned` is the cleanup, `Connect` the dial with the
offline guard of the app (`aware`), `ChangeChannel` both in one flush, as React runs them. The
effect of the app's hook also runs again when `onMessage` is another function, so there
`ChangeChannel` may stay on its channel; the hook of the dashboard keeps its handler in a ref.

**AlertDelivery.** `sms[n]` is a dispatch up to its SMS, `pending` the one entry the Map holds
for the attendee, which `Published` overwrites and `Fires` deletes whichever timer it
belongs to. `run[r]` is one activation of `processBLEAdvertisement` with the statement or
notification it awaits; `seen` and `cached` are the tables that survive `Killed`. The
dispatcher is modelled with an SMS provider, which its constructor allows and
`index.ts` does not pass.

**PreEventSync.** `run[r]` is one call of `runPreEventSync`: the step it is in and the request
or statement it awaits (`get`, `delete`, `insert`, `save`), the rows left to insert, and
whether a step has failed. `Downloaded`, `DeleteRows`, `InsertRow`, `SaveTicket`, `SaveKey` are
the continuations after each await; `Advance` is the end of `attempt`, `Fails` its `catch`,
`Finish` everything after the last answer, which the code runs without an await. The order of
the rows of a download is left open, the two tables share one action, and the 30 s of the
timer and the distance to the event are choices: a retry fires at any moment, the warning
is set or not.

**Statements, Handlers.** A behaviour is about one `subject`: a service, or a page together
with the routes it calls. `rows` is its table, or its Redis hash, one status an item;
`memory` the Map a service keeps or the state a page shows; `calls` the requests. A route is
a sequence of statements. `Perform` executes the one a request stands at, `Refuse` is an
early return (the input does not pass a `check`, or the row is not in a status of
`needs`), and the `Fails` actions follow what the code wraps around the call: a `catch` that
answers 500 (`answer`), an empty one (`ignore`), or none (`crash`: under Express 4 the
rejection is unhandled, and every request in flight ends with the process). A call that
fails may have taken effect: its answer is lost. `keeps` is what the handler puts into
its Map *as it issues* the call, which is where `emergency.ts:87` sits. `SingleService` is a
Python service whose handlers call a blocking Redis client, so one request runs at a
time. `Insert` is a unique key, `Update` is followed by a look at the row count, `Overwrite`
is not. `Expire` deletes a key that Redis holds for a time only (`expires`: offers, for 24 hours,
and the caches of the external integration, for minutes); the claims on it are no more, and
`renewed` records what had been announced by then. It does not happen to a key whose handler is
between two statements, which takes milliseconds.

**ServiceRoutes, PageRoutes.** One sequence per route, named after it. Statements that only
read for the answer are `Ask`; a statement whose result decides is `ReadIn`. The flows are
the life cycles of the rows: where the code keeps a table of transitions it is that table,
elsewhere every change that a single request can make. A page has `Fetch` and `Show` for
the two ends of a load, `Abort` where `useApi` aborts the one before, `push` for a message
of its channel (it carries the row as it was when it was sent), and `optimistic` for a
button that changes the page first and does not look at the answer. The rows of a page
are those behind the address it calls; several addresses of the dashboard are served by
nothing yet, and there the server side is what another page or service writes. A polling
page repeats its poll in a `Timers` slot until a status in `stops` is shown.

**RouteFinding, ScoringRules, GuardRules, CrowdSimulation, DashboardPanels.** Functions of the code as functions
on integers (each definition says how it scales), each rule with the inputs it is
evaluated on. `Search` is the loop of `computeRoute` as a recursive function over its turns; Infinity
is the constant `INFINITY`, a number longer than every path. The flood guard keeps the places of
the alerts it let through instead of their times. The crowd simulator is in tenths of a percent, so that a
zone has the colour of its unrounded density and the percentage of the rounded one, as in the
code. The panels are sets of small records and the functions each panel applies to them; the
board of alerts is folded over every sequence of up to three pushes and clicks, the animation
over every sequence of up to five frames, timers and buttons. The rules are constant formulas:
`MCHandlers` assumes them (`ScoringRulesHold`, `GuardRulesHold`, `PanelRulesHold`,
`SharedTypesHold`), so TLC refuses to run when one is wrong, and only the flood guard and the
routes are invariants of the run (`AlertsAreNeverFlooded`, `RoutesAreCheapest`), for the subject
that answers by them.

## 3. Runs

| Run | Instance | Shows | Bounds, and why they suffice |
|---|---|---|---|
| `heartbeat` | 2 sensors, interval 2 ticks, checks last up to 2 ticks | no live sensor accused; a silent one dropped only after an acknowledged event; it leaves the Map once Kafka accepts | three checks overlap, and both sensors can be in all of them; ages are capped where every running check finds the sensor stale |
| `heatmap` | 2 zones, counts 1 and 2, capacity 3, window 1 tick | readings counted once until a crash, never inflated after one; published snapshots are stored | at most 3 heads per zone reach every class; one undelivered message |
| `router` | 1 attendee, 1 socket, 3 gates, 2 concurrent handlers, messages about two gates or the third | a push is out of date by no more than its transition; a red gate is left | attendees share only the message; the third gate makes the choice of an alternative matter; the socket closes and opens again; two handlers give every overlap |
| `crowd_red_gate` | 1 attendee, 1 socket, 2 gates, one reading of 2 heads | no red gate is ever left (finding) | the shortest pipeline |
| `orders` | 2 orders, 3 requests | no stage skipped (refinement of `OrderLifecycle`), serial requests follow the transitions, ready orders announced | an order has three transitions, so three requests hold every pair of stale validations |
| `rewards` | 3 calls, 3 actions whose points differ between the paths, costs 1, 2 and -1, 4 redemptions | each event credited once, balance accounted for, redemptions add up, awards settle; all of it refines `PointsAccount` | three calls: two duplicates and a redemption, or two redemptions and an award; with a cost below zero the balance has no bound of its own, and four redemptions are enough to take, give, fail and take again |
| `offline_sync` | 3 signals, one of them refused for ever, 2 replays, 2 faults | queued signals kept; duplicates only after a loss; acceptable signals sent in the end; all of it refines `SignalOutbox` | two replays would overlap if the flag let them; two faults reach a kill during the recovery from a kill |
| `sessions` | 2 requests, 2 refresh handlers, 3 pairs of tokens, 1 kill | one exchange per token; the held token is good; every request settles unless the one refresh is never answered | three pairs: a login, its refresh, and a second generation |
| `live_channel` | 2 channels, 3 lines, both hooks | a mounted page has a line for its channel, live means a socket, and the page is connected again and again unless a dial was refused offline | three lines: the wanted one, a stray of the other channel and a stray of the same one after a change back |
| `alert_delivery` | 2 notices, 1 payload, 3 receipts | an acknowledgement stops a timer that ran alone; repeats are bounded by overlap; silence has a cause | two notices share the one entry; three receipts overlap before and after the mark; `MaxShown` 4 leaves room for one more repeat than the bound |
| `pre_event_sync` | 2 calls at once, 2 rows a table | complete means cached, unless calls overlapped or were killed; an incomplete sync has a retry; retries settle | two calls meet at every pair of awaits; two rows let a table be replaced in part; nothing counts, so no other bound |
| `handlers` | 43 subjects, 2 items, 2 requests and 2 polls, 1 fault | nothing announced unrecorded; keys claimed once; the announced evacuation is the active one; life cycles kept by all but overtaken requests; loads shown in order; polls catch up; routes cheapest; alerts of a zone bounded | two requests interleave at every pair of statements, a second item shows what is kept per item; one fault falls at every statement; all graphs of four places with 0 to 2 ways on five of the edges, six sets of red zones |

`CHECK_DEADLOCK FALSE` is set where the modelled part really may stop: a heatmap topic
exhausted by its bound, an order collected, all rewards claimed, both requests of `handlers`
answered.

### Fairness

Only steps that the code or its platform completes are fair.

* Statements and HTTP requests are answered or time out (pg and Redis clients reject,
  `apiClient` has a timeout of 15 s, kafkajs gives up after its retries): weak fairness of the
  disjunction of success and failure, never of success alone. Two requests have no timeout.
  Of the refresh of a session nothing is assumed in `Sessions`, and `RequestsSettle` excepts
  requests that wait for a refresh nobody will ever answer; `OfflineSync`, `PreEventSync` and the
  polls of `Handlers`, whose requests join that wait when they are answered 401, assume that it
  ends. The POST of the kiosk to the notification service (`orders.ts:131`) is assumed to be
  answered or to break, which is about the network between the services.
* `setInterval` keeps firing: weak fairness of `Tick`.
* Redis and Kafka deliver what is in the channel: weak fairness of `OnMessage`, `Consume`.
* `OfflineSync` assumes strong fairness of an accepted POST, per signal: an endpoint that is
  asked again and again, on each reconnection, answers 201 in the end. That assumption
  is about the network, and the property is vacuous of signals the endpoint refuses.
* `LiveChannel`: timers fire and a close handshake ends (weak fairness); a server that is
  dialled again and again answers in the end (strong fairness of `Opens`, because closes
  interrupt it). That is an assumption about the network, not about the code.
* `PreEventSync`: a request or statement is answered or fails, and the retry timer fires
  (weak fairness).
* `Handlers`: what was begun is answered, fails or is given up (weak fairness of each request's
  step). The interval of a polling page fires again and again while it is not cleared
  (strong fairness of `Poll`: the polls in flight use up its slots now and then). Faults are
  bounded, so in the end answers arrive.
* Premises that name the environment are in the property: `KafkaRecovers`,
  `KeepsReconnecting`, `Undisturbed`.

No fairness is assumed of users, sensors, failures, kills, reconnections.

## 4. Proofs

TLAPS proves the theorems below for every value of the constants that satisfies the named
assumptions of the modules: that "none" is not one of the things it stands in for, that bounds,
intervals, counts and points are naturals, that the thresholds are in order, and, for
`Handlers`, the shape of the programs (and that, where keys expire, no handler relies on one it
has found: `FoundKeysMayExpire`). TLC evaluates every assumption in the run of its
module (`Named`, which says that gates are not called like fields and counts are numbers, is
a hypothesis of its theorem). No theorem uses a bound of a run. Every safety property that the
runs check is proved; of the rules that `MCHandlers` assumes, those that do not need induction.
The type invariants of the entry router and of the sessions are not in a run, since they are
theorems.

**SensorsToGatesProofs**, the heartbeat monitor: `TypeCorrect`; `NoFalseAccusation`
(`[]CollectedWasSilent`); `DropsOnlyReported` (`SilentDroppedWasReported`). The inductive
invariant `Collected` adds that the sensor a check awaits is in its list, and that every other
one in the list was reported or heard since; the step that needs care is `Tick`, in which
every check grows older together with every age. The entry router: `RouterTypes`
(`[]EntryTypeOK`); `PushedInTime` (`PushIsNotOutOfDate`). The inductive invariant `InDate`
follows a transition through its awaits: once it has its rows they were assigned to the gate
at some moment that is remembered, and once it has an alternative that was better at one. The
steps that need care are the two answers (`ScoredGates`: what `ScoreGates` returns is red only
if nothing better is known) and the others, which must not forget while a transition waits
(`RememberGrows`).

**ConservationProofs**, the rewards ledger: `TypeCorrect`; `CreditOnce` (`[]CreditIsExclusive`,
inductive once typing is known: the UNIQUE key excludes a second call); `NoOverdraft`;
`BalanceIsTheSum` (`[]BalanceAccountsForCredits`); `RedeemedAddsUp` (`[]RedemptionsAddUp`); all of
them for costs of either sign.
`ImplementsAccount` (`Spec => AccountIsKept`): the ledger implements `PointsAccount`, whose `total` is
the balance and whose `counted` are the credited events. An award counts at the UPSERT and a
redemption at the UPDATE, and the other statement of each is a stutter, so a failure between the two
leaves no half of an award on the account. That a key counts once is `CreditIsExclusive`; that it counts for
what one of the paths says it is worth needs `PointsAreWorth`, about calls between their
statements. `BalanceIsTheSum` and `RedeemedAddsUp` are about sums over finite sets, and `SumInv` adds that the sets are finite,
because a step adds at most one element. The heatmap engine: `ReadingsCountedOnce`
(`[]EachReadingOnce`); `SnapshotsNotInflated` (`[]SnapshotNotInflated`); `StoredBeforePublished`
(`PublishedIsStored`). `EachReadingOnce` speaks of engines that never crashed, so it cannot
carry anything over a crash. `EngineBounds` can: what is on the topic, in the window and in the
batch is at most what was transmitted, and so is what is uncommitted together with the topic,
which is what a crash puts back. `EngineInv` is both, the types, and that what is about to be
published is in the hash (`EngineStored`).

Both rest on lemmas about sums. That the fold of the community modules does not depend on the
order of its set is proved without induction over an operator: if `SumPick` failed for a finite
set it would fail for one that has no smaller counterexample inside it (`WFMin` of the library,
which takes no operator), and of two elements of that set either can be taken first. From there `SumWith`
and its like, and for sequences `CountAppend`, `CountConcat`, `CountHead`.

**CrowdPipelineProofs**: `ImplementsEngine`, that the composition of engine and router implements
the engine's own specification (`Spec => Engine!HeatmapSpec`; a message received by the router is
`Deliver`, and nothing else of the router touches the engine), so the engine's theorems hold
with the real router attached. And `NoRedGateIsEverLeft`, the finding of section 5 for all constants:
nobody is ever told to leave a gate. Its invariant is that no transition is ever handled, because
what is published has the fields `zone`, `count`, `status` and no gate is called that (`Named`). The
router's own theorems are about `EntrySpec`, whose environment publishes what the subscriber was
written for; of the composition they would say nothing.

**AppConnectionsProofs**, the live channels: `TypeCorrect`; `PageHoldsItsChannel`
(`[]WantedIsHeld`); `LiveMeansASocket` (`[]LiveIsBacked`). The cleanup closes what two shared
refs point at, which need not be the wanted line, so the argument is not about the refs: a
change of channel always dials the new channel itself, and a line of a mounted page ends only
where `connect` refuses. The session: `SessionTypesCorrect` (`[]SessionTypeOK`);
`TokenExchangedOnce` (`[]ExchangedOnce`); `TokenIsGood` (`[]HeldTokenIsGood`). `ExchangedOnce` is
about pairs that have been exchanged; `SessionInv` adds the handlers that are about to
(`UsedOnce`: at most one handler holds a pair, and none holds one that was exchanged, unless the
app was killed while it refreshed), and the pair from which the app may start the next exchange
(`Unused`: nobody holds it and it has no successor).

**KioskOrdersProofs**: `TypeCorrect`; `NoPrematureAnnouncement`; `NoStageSkipped`, that the
latest stage each order has been in implements `OrderLifecycle`;
`SerialRequestsFollowTransitions`. `StageInv` says that a pending update aims at most one
stage past the furthest: several stale requests together still cannot skip a stage,
because each was validated against a stage the order had reached. `SerialInv` says that
an order without overlap has at most one pending update, validated against the
present row.

**OfflineAppProofs**, the offline signals: `TypeCorrect`; `QueuedSignalsKept`; `NoNeedlessDuplicate`. The invariant
`SyncInv` is the conjunction of: one replay at a time (`OneReplay`), what a replay holds
agrees with the table (`ReplayView`), a row belongs to a queued signal (`RowsAreQueued`), a
queued signal without a row was received (`QueuedIsKept`), and a signal the server
has while a row remains is one whose receipt the app could not know (`KnownReceipt`). Neither
property is inductive alone: each needs to know why a row can be gone or be
posted again. `ImplementsOutbox` (`Spec => OutboxIsKept`): screens, table and replays implement
`SignalOutbox`. The app owes the signals that have been in the table and that the server has not
seen (`Owed`); several may be taken in one step, since a kill ends all that is in flight. With
`SyncInv`, a row is made once (`RowsAreQueued`), is deleted only after the server took the signal
(`ReplayView`), and what is under way has not been taken or is in doubt (`KnownReceipt`; lemma
`UnderWay`).
The pre-event sync: `SyncTypesCorrect`; `CompleteMeansCached` (`[]CompleteIsCached`);
`RetryIsNeverForgotten`. `CompleteIsCached` is silent about the middle of a call, so it needs
`Progress`: a call that runs alone and has not failed has stored what all its earlier steps
are for, and of the table it replaces everything but the rows it has yet to insert. At
`EndSync` that is the whole of it; `Distracted` says that a call which does not run alone is
remembered in `muddled`. No number of rows or calls is assumed.

**AlertDeliveryProofs**: `TypeCorrect`; `AckCancelsALoneTimer`; `RepeatsAreBounded`;
`SilenceHasACause`. `AckedIsNotSent` rests on three facts that the Map does not state: timers
that run together are recorded as such, a timer that runs alone has the entry, and so an
acknowledgement has cleared it. The bound on repeats is a counting argument over the
receipts past the check: a payload surfaced once is in the table, so nobody joins them
any more, and each notification removes one of them.

**VenueProofs**, the programs: `TypeCorrect`, and every safety property of `Handlers`, for any subjects, items
and number of requests, failures and restarts. What the programs of the services have in common
is in `SubjectAssumption`, one predicate on program texts for each property; TLC evaluates them
on all 43 subjects in the run `handlers`. They are statements about the order of the calls in a
handler; the theorems are about interleaved executions of many.

| Theorem | What the programs must look like | What the invariant adds |
|---|---|---|
| `AnnouncementsAreRecorded` (`[]AnnouncedIsRecorded`) | `RecordsFirst`: what is published was written before, by a statement whose failure is not ignored | `RecordedSoFar`: a request has recorded all it has passed, except what its code lets fail silently |
| `ClaimedOnce` (`[]OnceOnly`) | `ClaimsFirst`: an INSERT refuses an existing key, no statement deletes a row, an offer follows the INSERT of its key and is pushed once | `OnceInv`: what a request has claimed has a row, nobody else has passed the same INSERT since the key last expired, and no offer is out since then before its pusher has done it |
| `LastEvacuationIsActive` (`[]ActiveIsAnnounced`) | `KeepsWhatItAnnounces`: an evacuation is put into the Map as it is published, and nothing else touches the Map | `EvacuationInv`: without a failure the Map holds only what was announced |
| `LifecyclesAreKept` (`LifecycleIsKept`) | `KeepsFlow`: each write is a step of the life cycle from any status its guards let through, and the row is read once; `CreatesAlone`, `FoundKeysMayExpire` | `FlowInv`: rows and what was read of them are of the life cycle, and a row that a request will create is not there |
| `PagesShowInOrder` (`ShownInOrder`) | `Aborts`, `LoadsAndShows`: a load aborts the one before, asks, and shows | `ShownInv`: at most one load is on its way, what it has read lies between what is shown and the row |

`ShownInOrder` is about the pages in `AbortingPages`: those that abort (`useApi`) and whose rows
never come back to a status they left (`Onward`); for other life cycles "earlier" has no meaning.
"Leads to" is closure under the flow, stated with all closed sets of statuses, because a
path would need induction. Each failure action is a step of its own in these proofs: a caught
failure ends the request, an ignored one goes on, an uncaught one ends all at once.

The routes: `DijkstraIsExact` and `RoutesAreAlwaysCheapest` (`[]RoutesAreCheapest`), for any set of
venue graphs, red zones and needs of access, and whichever of several nearest nodes the loop
takes. Assumed are finitely many nodes, lengths in natural numbers (`GraphAssumption`) and that no
simple path is as long as Infinity (`LengthAssumption`). `SearchInv` is the invariant of the loop: what
is settled is reached and no farther than what is not (`FrontierInv`), the source comes first
(`SourceInv`), no node is farther than by way of a settled one (`RelaxedInv`), what was reached was
reached from a settled one (`TreeInv`), and each was settled after the one it was reached from
(`InTurn`, a rank without which the walk back might go round in circles). At the end `RelaxedInv` bounds
every path from below (`NothingShorter`), and `TreeInv` makes the walk back a path of that length
(`WayFound`). The search and the walk back are recursive functions of the number of turns; where a
proof on paper would use induction on it, a counterexample of the least number is refuted
(`SmallestIn`, `Iterates`).

The rules, for every input, where TLC lists some: `NeverFlooded` (the list of the guard
holds what passed in the last minute, because times do not go back, so what was dropped stays
dropped: `IsGuarded`), from which `FloodsAreAlwaysBounded` (`[]AlertsAreNeverFlooded`) follows once the
bursts of the run are seen to rise (`BurstsRise`), `PrioritiesAreOrdered`, `WaitsAreAlwaysOrdered`, `SurgeIsAlwaysBounded`
(roundings are divisions, and `QuotientGrows` carries an order through them),
`CapacityAlertsAreAlwaysMonotone`, `AdvertisementsAlwaysRoundTrip` (a zone id holds no zero byte, as UTF-8
text without NUL), `PlansAreAlwaysOrdered`, for the simulated crowds of the dashboard `CrowdsAlwaysFit` and
`DriftAlwaysFits`, and `BestIsAlwaysActive` (a retraining keeps `BestActive`, and so does any number of them).

### Only model-checked

* Liveness, which is outside the proof system's reach here (fairness, ENABLED): `SilentLeavesTracking`,
  `RedGateIsLeft`, `ReadyAnnounced`, `AwardsSettle`, `AcceptableIsSent`, `RequestsSettle`,
  `Redials`, `RetriesSettle`, `ScreenCatchesUp`.
* The assumptions of `MCHandlers` as a whole. They enumerate inputs, and some rules fold over sequences
  and sets (movement score, redeployment, the patterns of the simulation, panels): what a fold computes
  for every input needs induction over data, whose theorems take an operator that no installed
  prover can instantiate. Those are evaluated on the listed inputs; of the others the theorems above
  are stated. `BestIsAlwaysActive` speaks of the registry after each run instead of a fold: a first
  run after which it fails would contradict that a retraining keeps `BestActive`.

## 5. Findings

The run `crowd_red_gate` finds a behaviour of the code that contradicts a sentence of the
repository:

1. *No reassignment ever follows a red gate* (`crowd_red_gate`; `redzone-subscriber.ts:51`). The
   engine publishes one flat snapshot, the subscriber expects `{zoneId: {status}}`.

Further disagreements met while reading, without a run of their own:

* A silence may never be reported (`monitor.ts:69`; Requirement 7.3,
  `.kiro/specs/venueflow-platform/requirements.md:140`): a reading recorded while `check()` awaits
  Kafka is deleted with the silence it ended; the sensor is no longer watched, and the next
  silence emits nothing. `CollectedWasSilent` and `SilentDroppedWasReported` say what remains true.
* An order can go back from `ready` to `preparing`: the UPDATE does not repeat the status
  that was validated (`orders.ts:123`). `SerialStatusFollows` excepts exactly the orders whose
  requests overlapped.
* "For any app that has completed a pre-event sync, the following items must be retrievable"
  (`.kiro/specs/venueflow-platform/design.md:564`) is not so: after a completed
  sync, a call that is killed or overlaps another leaves a table part-empty with
  `sync.complete` still true, which stops the retry (`preEventSync.ts:196`); that is why
  `CompleteIsCached` excepts `muddled`. `SaveTicket` clears the ticket's key until step 4. The
  warning is never cleared (`preEventSync.ts:181`), and nothing in the repository calls
  `runPreEventSync`.
* Zones whose sensors fall silent stay as they are: nothing calls `mark_stale_zones`
  (`store.py:41`; Requirement 2.7). A window is flushed only when a message arrives
  (`consumer.py:55`), so the last readings of a burst wait for the next one.
* A late close of an old socket unregisters the attendee's new one
  (`redzone-subscriber.ts:24`).
* The kiosk posts to `/notifications/order-ready` (`orders.ts:131`); the notification service
  serves `/notify` and `/broadcast`, by default on another port. As deployed, `Announce`
  never happens.
* `POST /rewards/:id/redeem/:rewardId` takes `pointsCost` from the body and refuses only a falsy
  one (`rewards-service/src/index.ts:72-79`). A cost below zero passes `total_points >= $1`, and the
  redemption adds points. The model has such costs: the balance is still the credited points less
  what redemptions took or added, and never below zero, but nothing says that a reward was paid for.
* "Deliver at most once per event" (`offers.py:3`, `offers.py:51`): the key lives for 24 hours
  (`offers.py:13`), so an event that lasts longer, or begins before and ends after, sees the same
  offer again. `OnceOnly` says at most once before the key expires.
* The refresh of a session has no timeout (`client.ts:72`): if its connection falls silent,
  `isRefreshing` stays set, every later 401 joins `refreshQueue`, and all of them wait until the
  app is killed.
* `sendSensorFailure` has no consumer and `gamification.events` no producer in the repository.
* The points map of `POST /rewards/:id/award` lacks actions of the consumer's, so the path
  decides how much an action is worth.
* The INSERT of an event and the UPSERT of the balance are two statements (`consumer.ts:45`):
  if the second fails, the event is recorded, the points are not, and a retry is discarded
  as a duplicate; `AwardsSettle` excepts exactly these events (`lost`).
* The payload of an SOS lacks `eventId`, which `/emergency/sos` requires (`SOSScreen.tsx:72`,
  `emergency.ts:28`), and a report lacks `venueId` and `eventId`: such a row is answered 400 on
  every replay. `AcceptableIsSent` shows that it does not hold up the others.
* A row left `processing` by a kill is never selected again (`db.ts:111`). The app calls
  `/emergency/sos` idempotent (`connectivityManager.ts:132`), its handler is not. A medical SOS is
  queued as `sos_signal` and replayed to `/emergency/sos`. When the INSERT fails, the SOS screen
  still says "Help is on the way" (`SOSScreen.tsx:95-100`).
* A wrong password is answered 401 and goes through the refresh interceptor, so the user
  reads "Session expired" (`client.ts:45`). A refresh that began without a session and is
  refused after a login clears the new session (`client.ts:90`). Login and registration
  answers lack the `userId`, `email`, `role` that the screens store (`LoginScreen.tsx:53`).
* The hooks connect to `/{channel}`; the gateway reads the query parameter `channel`, and
  wraps each message, which the hooks do not unwrap.
* The app's hook is announced with "auto-reconnect and offline awareness" (`useWebSocket.ts:2`), but
  a dial refused while offline schedules nothing and the hook does not listen to
  connectivity: the page stays down until its channel changes (`refused` in `LiveChannel`).
  A stray line of an old channel feeds the page's handler next to the wanted one.
* "Mark seen before surfacing to prevent races" (`BleMeshReceiver.ts:172`): two receipts that
  overlap before the mark both surface the alert. A kill between the mark and the
  notification silences it for good.
* `acknowledgePushDelivery` "cancels pending SMS fallback" (`dispatcher.ts:69`) only of the timer set
  last; an earlier one still sends, and deletes the other's entry when it fires.
* The gateway greets with `{type: 'connected'}`, which `HeatmapScreen` takes for an update without
  zones.
* Deleting consents writes the raw attendee id to the audit table (`compliance-service/src/index.ts:151`)
  under a comment that says it never does.

* `logAuditEvent` does not write `session_event_id` (`audit.ts:34`), by which the compliance
  report (`compliance-service/src/index.ts:94`) and the analytics report (`reports.py:54`) count
  SOS signals and evacuations: both counts are always 0.
* "Consecutive snapshots guaranteed <= interval_seconds apart" (`replay.py:25`): a bucket without
  rows has no frame, so `FramesCover` promises that of the stub frames only. `MAX(status)`
  (`replay.py:37`) takes the last status in the alphabet: `green` hides `amber`, and
  `unavailable` hides `red`.
* A resolved medical case is dispatched again (`medical.ts:95`), a resolved incident assigned again
  (`incident-service/src/index.ts:115`), each with its time of resolution kept. The flows
  contain both, since no document excludes them.
* The face scan stores another ticket id than the QR scan of the same attendee (`entry.ts:143`), so
  `OnceOnly` is about ticket ids, not attendees.
* Two statements withdraw a consent (`compliance-service/src/index.ts:141`): when the second fails,
  the withdrawal has no audit row.
* Seven routes of the staff service have no `catch` (`staff-management/src/index.ts:28-89`): a
  failed query ends the process.
* Comments of `App.tsx` say STAFF, ADMIN and EMERGENCY open `/threats` (`App.tsx:158`) and
  `/medical/triage` (`App.tsx:172`); the matrix of `useAuth.ts:47-63` denies the first to EMERGENCY and
  the second to STAFF. ADMIN opens the emergency panel, while `rbac.ts` grants
  `trigger_evacuation` to EMERGENCY only and the handler of the evacuation asks neither matrix
  (`emergency.ts:68`). `AccessDiffersOnce` states this exception and that there is no other among
  the eight pages for which `rbac.ts` has an action.
* `EmergencyPage.tsx:127`: starting a hold twice overwrites the reference to the first interval.
  `cancelHold` then stops only the second, and the first, once five seconds have passed, clears the
  second's reference and triggers the evacuation every 50 ms. The hold is one event in the
  model (`triggerEvacuation`).
* The moving average of the queue predictor is never used: the confidence is 0.65 or 0.85, the
  threshold 0.6 (`predictor.py:19`). Two gates of one zone are each forecast all its
  attendees (`simulator.py:43`). Two retrainings in one second share a version id, and both are
  active; `BestIsActive` says exactly that. An order that is never fulfilled never breaches
  its SLA (`sla.ts:61`). `SimulationLive.tsx:76` divides by zero when all zones are
  unavailable.
* The end of a simulation clears no timer, and a restart overwrites the reference to the running
  one (`SimulationLive.tsx:19`): the old timer of 100 ms outlives Stop and the component.
  `ViewStops` excepts views in which a simulation has run to its end. `Stadium3D` changes colour
  at 25, 50 and 75 percent, the other panels at 50 and 80, so only the red ones agree; and the
  demonstration data of `LiveMapPage.tsx` call 78 percent red.
* The Kafka producer of the emergency coordinator is never connected; `registerGraph`,
  `StaffRadioBridge`, `createOrder` and `recordOrderFulfillment` are called by nothing;
  `gdpr_consents` is never inserted into. The navigation screen keeps its step number when a
  new route arrives; pages of the dashboard call addresses that no service serves.

## 6. Not modelled, and why

* Password hashing, RS256 and JWT parsing, SHA-256 (taken as correct).
* Layout, charts, styling, demonstration data; the display of the simulation pages beyond the
  controls and tiles of the crowd animation; voice commands, deep links, local search and the
  theme: they change nothing another part reads.
* The socket registry of the gateway (`ws/gateway.ts`): `LiveChannel` models its clients.
  `segmented.ts`, the relay part of `bleMesh.ts`, and the two functions of `sla.ts` named above,
  which nothing calls.
* The SQL aggregates of analytics and reports are `Ask`: what they return is not compared with
  the rows. The adapters of the external integration answer with random or fixed data.
* Floating point: the rules are in fixed-point numbers, so rounding errors are not covered.
* Of the shared types, everything but the statuses, roles and kinds that the models use
  (`DeclarationsAreMet`): the rest are shapes of records. Infrastructure (configuration).
* Some hazards are described in section 5 only, because no state of the model tells them apart:
  the hold timer, `mark_stale_zones`, the medical SOS queued as `sos_signal`.

## 7. Plan

The core (the modules up to `PreEventSync`) was planned first, because their state is the
hardest; then `Handlers` took in the safety desk, entry gate, events and screens as programs
instead of one module each, and the pure functions became the four rule modules.

Next, in this order:

1. **Gateway** (`LiveGateway`): the server side of `LiveChannel`, its subscriptions and fan-out, and
   the order of pushes on one socket.
2. **Proofs**: an abstract specification of a session (a client holds one live token) that
   `Sessions` implements, and one of the alert fallback that `AlertDelivery` implements, with their
   refinement mappings as theorems.
3. **Composition**: `OfflineSync` with the emergency routes of `Handlers` as its server, so that the
   audit row of a replayed SOS is part of the property.
