# A verification project for the F1 strategy engine

TLA+ models of the concurrent core of this repository, backend and clients, the
TLC runs that check them on small instances, and proofs by TLAPS. Paths are
relative to the repository root (`src/` in `PROJECT.json`).

## 1. Inventory

The backend is a FastAPI process and a Celery worker (one `--pool=solo`
process) that share Redis and PostgreSQL; in production the worker is a Fly
machine that sleeps, in `infra/docker/docker-compose.yml` API, worker and beat
are containers of their own. Scripts run as processes beside them. Three React
clients, `web/`, `desktop/` (Tauri) and `mobile/` (Expo), talk to it over HTTP
and a WebSocket. Most of their code is views over queries; four parts keep state
of their own that requests, timers, socket events and the user change in any
order, and those are modelled.

| component | state it keeps | operations | hard part | what makes it correct |
|---|---|---|---|---|
| Simulation quota (`services/simulation_quota_service.py`, `apis/v1/strategy.py`) | two Redis counters per UTC day | `reserve`, `refund`, the simulate route | optimistic transaction, refund after midnight, lost replies | limits never passed; both counters or neither |
| Demo replay and live race arbitration (`services/demo_service.py`, `workers/race_detection_worker.py`, `services/live_race_detection.py`, `scripts/_replay_common.py`) | `f1:demo:replay:state`, the trigger key, gaps keys, processes | start, stop, status; the Beat poll; guard and signal handler of the replay | four kinds of actors on one key, signals at any phase, lost workers | a live race stops the replay it can reach; one replay, which the key names; the slot is freed; a claimed race is ingested |
| Single-flight cache (`services/cache_service.py`) | `<key>`, `<key>:last_good`, `<key>:lock` | `cacheable`, `cache_set`, `cache_invalidate_session` | lock auto-expiry, slow holders, invalidation racing a computation | one computation per miss; answers never go back in time; every call returns |
| Worker lifecycle (`core/fly_machines.py`, `workers/idle_shutdown.py`, `workers/celery_app.py`) | machine state, broker queue, watchdog clock | `ensure_worker_started`, `task_started`, `task_finished`, `check`, warm shutdown, redelivery | check-then-act between API and machine | a queued task is run, and again only after a crash; an idle worker stops |
| Undercut alerts (`services/alert_service.py`, `workers/alert_worker.py`) | dedup keys, alert rows, subscriptions | `evaluate_threats`, `dispatch_alert` | claim before dispatch, stale scores | one alert per claim; a threat that lasts is alerted |
| Live ingestor (`scripts/ingest_live_session.py`) | per-car gap state, laps seen, ranking; stints, sector accumulators | snapshot, TimingData differences, ranking, gaps keys; reconnects | differences in any order, lost ones, two ranking sources | the standings settle on the running order; final standings once the winner has finished |
| Live telemetry WebSocket (`apis/v1/telemetry.py`) | broadcaster registry, viewers, gauge | acquire, release, listen, fan-out | last leaver racing a joiner, a listener that dies, a subscription that fails | connected viewers are on the registered broadcaster; one listener; no lap is skipped |
| Strategy simulator screen (`pages/SimulatorPage.tsx`, `app/simulator.tsx`, `hooks/useStrategy.ts`, `hooks/useRaceSession.ts`, `hooks/useResolvedSession.ts`) | the four steps' state, the polled task, two timers | pick a driver, fill in, plan, run, poll, try again, export | answers of requests, polls and session queries in any order; two presses of Run | screen and task agree; nobody waits for ever; what was typed stays |
| Live timing feed, clients (`hooks/useWebSocket.ts`, `hooks/useLiveTelemetry.ts`, mobile's `LiveTelemetryBridge.tsx` and store) | a socket, its timer, laps by driver | connect, reconnect, clean up, collect, publish | late events of a closed socket, session and token changing under a timer, a replay of a race also shown as completed | one connection, for the session of now; no foreign laps; silence noticed; the feed comes back |
| Client login session (`api/client.ts`, `stores/authStore.ts`, `hooks/useAuth.ts`) | two tokens and the user; the profile in the query cache | the interceptors, the shared refresh, login, logout, profile, mounts, restart | several 401s at once, answers and a cached profile of the session before, another device | tokens and user of one login; every request settles; a superseded client is logged out |
| Alerts screen, clients (`app/(tabs)/alerts.tsx`, `pages/AlertsPage.tsx`, `stores/alertStore.ts`) | the list in the backend, in the query cache, in the store; a selection | open, refetch, mark one, mark a selection | a list read before a mark arrives after it; partly failed bulks | nothing unread is shown read; what was marked stays marked; lost answers heal |
| Accounts (`services/user_service.py`, `core/security.py`, `apis/v1/auth.py`) | user rows, refresh token hash | register, login, refresh, logout | several devices on one hash | the backend's side of the login session |
| Circuit map, alert subscriptions form, other client screens | view state | draw, one form | (section 5) | not modelled |
| Lap pipeline (`workers/telemetry_worker.py`, `workers/prediction_worker.py`) | lap, stint and prediction rows | `process_lap`, `record_tire_stint`, `run_strategy_prediction`, `run_race_simulation` | redelivery, a lap not yet stored | not modelled |
| Replay playback (`scripts/replay_playback.py`) | timeline, pointers | `play`, `tower_gaps`, `advance_positions` | interpolation over recorded laps | not modelled |
| Strategy, race, driver, circuit and telemetry services | caches over database reads | read endpoints | staleness | covered by the cache model |
| ML (`services/ml/`), training and backfill scripts, persistence, plumbing, deployment | model files, declarations | train, predict, Monte Carlo | numeric | not modelled |

How they interact. The API queues Celery tasks (simulations, predictions) and,
on Fly, starts the worker's machine; the worker writes results to PostgreSQL and
Redis and publishes on Redis channels that the API fans out over WebSockets.
The demo replay and the live ingestor are processes that write the same gaps
key; the API, the Beat poll of the worker and the replay itself arbitrate
between them through two more Redis keys, pids and signals. Read endpoints sit
behind the single-flight cache. Most of the backend's hard behaviour is two or
more of these actors meeting on one Redis key between two round trips; most of
the clients' is an answer, a timer or a socket event that belongs to something
the screen has left meanwhile. The simulator screen spends the quota and polls
the task the worker runs; the live feed is a viewer of the telemetry WebSocket;
every request of a client goes through the login session's interceptors.

## 2. The modules

| module | models | composed of / with |
|---|---|---|
| `QuotaLedger` | the abstract promise of the quota: one indivisible decision per request | refined by `SimulationQuota` |
| `SimulationQuota` | `reserve`, `refund`, the simulate route | `INSTANCE QuotaLedger` |
| `LiveArbitration` | replay control, the poll, the replay's and the ingestor's lives | one module for the four parts, as their steps interleave |
| `SingleFlightCache` | `cacheable`, its hand-rolled variant, invalidation | |
| `WorkerLifecycle` | API, Fly machine, broker, worker, watchdog | |
| `UndercutAlerts` | prediction workers judging and alerting | |
| `LapBroadcast` | WebSocket handlers, registry, listen task | |
| `LiveRanking` | the ingestor's standings, with the race and F1's feed | |
| `SimulatorPage` | the simulator screen of the three clients with its hooks, and what the backend's validation makes of a request | |
| `LiveFeed` | a live component of a client: session, socket, laps, panels | |
| `ClientSession` | a client's login with the backend's one refresh token per account | client and backend in one module |
| `AlertsScreen` | the Alerts screen with the backend's list, the query cache and the store | client and backend in one module |
| `SimulationQuota_proofs`, `SingleFlightCache_proofs`, `LapBroadcast_proofs`, `LiveFeed_proofs`, `ClientSession_proofs` | theorems (section 4) | each extends its module |
| `LiveRace_proofs`, `Simulation_proofs`, `Alerts_proofs` | theorems (section 4) | extend two components each: `LiveArbitration` and `LiveRanking`, `SimulatorPage` and `WorkerLifecycle`, `AlertsScreen` and `UndercutAlerts`; this is why the second of each pair prefixes its standard names (`RankingSpec`, `WorkerInit`, `UndercutTypeOK`) |
| `MC*` | model values for TLC | each extends its module |

In every module one action is one indivisible step of the code: a Redis round
trip, a database transaction, a signal, the code between two `await`s of a
coroutine, one handler of the ingestor's single feed thread, or, in a client,
one event with the React effects that run in the commit of the change it makes.
Effects that are passive and visible apart (mobile's publication of laps to its
store, the alert list's copy from cache to store) are actions of their own. A
process or request has a place (`pc`, `at`, `phase`), named for what it does
next; values it read earlier and acts on later are variables of their own
(`seen`, `held`, `val`, `read`, `fetch.list`). An operator that stands just before
a definition, under a similar name and used by no specification, is a plausible
bug in it; it exists to see that a property notices.

**Conditions on the surroundings.** Where the code breaks a promise in some
behaviours, the model has those behaviours, and the property says which they are.
`LiveArbitration` and `ClientSession` keep history variables for it (`late`, `missed`,
`overtaken`, `lingering`): each is set by the one step that causes the exception, so
that the property holds, or fails, through everything else that overlaps.
`SingleFlightCache` states what the cache relies upon without enforcing it as a set
`Assumptions`: `assumed`, chosen initially, says which hold in a behaviour, a step that
would break one is possible only where it is not assumed, and each property names those
it needs. `Scenarios` gives the combinations to explore.

### SimulationQuota (`simulation_quota_service.py`, `apis/v1/strategy.py`)

`userUsed` and `globalUsed` are the two counters by day, `expired` the days
whose keys are gone. A request goes through `watch`, `readUser`, `readGlobal`
and `exec`, one Redis command each; a change of a watched key sets `dirty` and
EXEC then aborts, up to `MaxAttempts` passes. It publishes, and refunds when
the publish raises, on the day it reserved on. A publish that raises may have
reached the broker all the same, so that a refunded simulation may run; such
simulations are what `QueuedWithinLimits` leaves out. `Midnight` and key expiry
may come between any two steps.

### LiveArbitration (`demo_service.py`, `race_detection_worker.py`, `live_race_detection.py`, `_replay_common.py`, `replay_playback.py`)

The state key holds nothing, the claim sentinel `Pending` or the pid of a replay
(named by the start that launched it). Starts scan the gaps keys and the trigger key,
claim with SET NX, launch, store the pid; stops and status probes read, signal and
delete; polls claim a race, read the key, signal, delete, launch. A replay process
boots, checks for a live race, installs its handler, loads, plays and cleans up;
SIGTERM reaches it in any of these phases. Every step of every caller may overlap every
other's. Each Redis call and each `Popen` may raise, its effect done or not, and the
process making it may die (`StartLost`, `PollLost`, `ClearKey`'s second case); nothing
retries.

What the code does not promise is in the model, not assumed away:

| behaviour | how it is modelled | the exception it makes |
|---|---|---|
| a stop or a status probe deletes a key that was written after its GET (`demo_service.py:330`, `:491`) | `ClearKey` deletes whatever is there and sets `late` | `SingleReplay`, `PlayingIsTracked` and `LiveHasPriority` say nothing once that has happened: a third start may play beside the second, and a kill-switch finds no key |
| the kill-switch's signal reaches nobody, as in `docker-compose.yml`, where API and worker have a pid namespace each | `ForceKill`'s second case, open at every poll; the replay, if it was playing, is `missed` | that replay plays on beside the race, untracked |
| the key is still the sentinel, though the child is past its guard | `ForceRead` adds that child to `missed` | the same |
| a call of the poll raises, or its worker dies, after the claim | `PollLost` | `ClaimedRaceIsIngested` says that only then does a claimed race go without an ingestor; it does for the trigger's 4 h |

What is left is what the two scans, the claim, the guard of the child and the
kill-switch do achieve between them: no replay *begins* to play beside an
auto-launched ingestor in any interleaving, one that a signal reaches does not go on,
and without a late DELETE two never play at once.

An ingestor started by hand sets the gaps key only, which lapses in any lull of its
feed; a start's and a guard's scan of the gaps keys may therefore find anything. The
properties are about auto-launched ingestors. A second SIGTERM may cut the `finally`
block; the gaps key itself, which then lingers until its TTL, is not modelled.

### SingleFlightCache (`cache_service.py`, `race_service.py`)

One key, its `:last_good` copy and its lock, and the version of the data it is
computed from. A call looks the key up, waits for the lock, looks again, computes,
stores both copies and releases; a failed computation serves the copy. The lock
lapses under a slow holder (unless `lockOutlives`), waiters give up, processes
die, both keys expire. `handRolled` is the variant of `get_current_race`, with a
cached "not found" and no copy. `allowance` counts the computations for which
there is a reason: the key went missing, or a computation failed or was lost.
Without `redisAnswers` the RedisError of `lock.acquire()`, which is not guarded,
reaches the caller; without `storesWhole` a half-stored result lets the copy be
older than the entry; without `neverInvalidated` a computation that began before
an invalidation stores old data after it (`cache_invalidate_session` is called by
tests only).

### WorkerLifecycle (`fly_machines.py`, `idle_shutdown.py`, `celery_app.py`)

One machine, one `--pool=solo` worker. Requests queue a task and then list,
and perhaps start, the machine; the worker takes `Prefetch` messages, runs one
task at a time and acks it when it has ended; the watchdog reads the clock under
its lock and signals after releasing it; a warm shutdown gives messages back; a
crash is restarted by Fly; the broker gives back what is not acked for
`Visibility` ticks. `task_reject_on_worker_lost` has no effect with the solo pool
and kombu's loss of a message in flight is not modelled. `anyoneLater` says
whether further visitors come: a simulation queued while the worker has already
decided to stop waits for one. A later visitor lists the machines and asks for the
start in two steps, as every request does, and either may fail; its own task is left
out, since only the machine it starts matters to the tasks that wait.

### UndercutAlerts (`alert_service.py`, `prediction_worker.py`)

Several prediction workers (they scale out, `infra/k8s/worker-scaledobject.yaml`)
commit a score for a driver, then judge every pair of neighbours in the database
order, claim a pair in Redis, write the alert rows in one commit and publish.
`Predict` is the score and its commit in one. `ReadDatabase` takes the scores and the
stored laps with their order, which is the order of the pairs where there is no live
one; `ReadOrder` is the live standings' key, a round trip later. The race goes on meanwhile: cars overtake, suppressions begin and end, claims expire.
Latest scores were computed against the car that was ahead then, so after an
overtake an alert may name another car: `ThreatIsAlerted` is about threats that
last.

### LapBroadcast (`apis/v1/telemetry.py`)

One session. A connection's handler is rejected or accepted, takes the registry's
lock, registers with the registered broadcaster or starts a new one, and on
disconnection takes the lock again and, if it was the last, cancels the listen
task, awaits it and unsubscribes before it releases the lock. The listen task
reads a message, copies the viewers and sends to one at a time. With
`redisMayFail`, chosen initially, subscribing, unsubscribing and listening may
raise. The lock is shared by all sessions; other sessions only delay this one.

### LiveRanking (`ingest_live_session.py`)

The race is part of the model: cars cross the line in an order the road allows,
overtake, are lapped, stop and go on. `told` is what F1 last said of each car on
this connection; a message says of some of the cars whose line changed what
changed in it, and names Position only if `streams`. `heard`, `position`,
`lapSeq`, `lapsSeen` are the ingestor's tables; `gaps` and `final` the two keys.
`Connect` is the snapshot, which updates the tables without a ranking or a look at
completed laps; `TimingData` is the whole handler. A gap in seconds is place times
`spread`. The race distance, which the code learns from the LapCount topic of the
snapshot, is known from the first `Connect` on. `OrderSettles` is about the first
ranking source, the Position that F1 streams; of the second, the order by gaps,
see "Disagreements" below.

### SimulatorPage (`SimulatorPage.tsx` of web and desktop, mobile's `simulator.tsx`, `useStrategy.ts`, `useRaceSession.ts`, `useResolvedSession.ts`, `simulate_schema.py`)

`platform` is chosen initially; where the clients differ there is an operator for
each (`WebSession`, `DesktopSession`, `MobileSession`). `answered` says which of the
session queries have resolved, `fields` whose lap the driver's fields were filled
in from and whether the user has edited them since. `requests` are the presses of
Run: the button stays enabled while a request is in flight, so two can be, and
each acceptance takes over `taskId` and moves the screen to step 3 wherever the
user is. `Accepted`, `PollAnswered` and `HandleReset` contain the effects of
`useSimulationResult` (its timers are `waited`: none, started, 10 s, 180 s) and of
the page. What is sent is checked as `SimulateStrategyRequest` checks it, and a
422 leaves the screen where it is. A row's compound and label are data; its lap is
in range or not, as no form bounds it. On the web the screen may open with the
race page's session, which `sessionStore` still names while the user navigates.
Only mobile's picker can be set back to no driver.
`Reopen` is the user leaving and coming back with a request in flight: its answer
goes nowhere. Desktop's CSV export is a flag, as it reads the results only.

### LiveFeed (`useWebSocket.ts`, `useLiveTelemetry.ts`, `useResolvedSession.ts`, `LiveTelemetryBridge.tsx`, `useSharedLiveTelemetry.ts`, `RaceContextPanel.tsx`)

`inputs` are what the component depends on: the current race, the race to fall back
to, the replay, the user's choice, the token, the network. Whatever changes them
recomputes `url` in the same action and, if it changed, runs the effect's cleanup
and connects again. `sockets` holds the component's connection and those that were
cancelled and whose close event is still to come (`ClosedLate`, which sets
`readyState` as the code does). A connection is `waiting` between its close and
its reconnection. Web and desktop arm the 30 s timer of `staleConnection`; mobile
keeps one subscriber, keyed by session and replay, that writes a store when its
effect runs (`Publish`), and its screens take laps from the store only if it names
their session. Messages may still be delivered by mobile's socket after `close()`.
A lap is what was shown when it arrived; lap numbers are left out.

### ClientSession (`api/client.ts`, `authStore.ts`, `useAuth.ts`, `user_service.py`, `security.py`, `auth.py`)

An access token is `[login, number]`, a refresh token the login it came from: the
backend never rotates it, and holds one per account (`sessionOf`), which a later
login from anywhere replaces. `requests` are what is under way, each with the token
it was sent with; a refused one joins `refreshing` or starts it, is sent once more,
and a second 401 rejects it. A place of `requests` only bounds how many are under way,
so a new one takes the first that is free. On the web `/login` can be reached over a session (the
browser's back), and a login then replaces it.

`profile` is the data of `meQuery`, kept by the query cache beside the store. It is
written by the query's answer and, on web and mobile, by `updateProfile`
(`ProfileUpdated`). `Mount` is the effect on `[meQuery.data]`, which runs again
whenever a component that uses `useAuth` is mounted, the login page included, and sets
the user to whatever profile is cached. Only a logout removes that query
(`LogoutSettled`); a refresh that was refused clears the store and leaves it
(`NotGranted`). A fetch of the profile that is under way at a logout goes on, but sets
nothing (`forgotten`). A restart empties the cache.

Two histories name what the code lets through. `overtaken`: a login or a logout came
while a refresh was under way, whose answer is applied to the store all the same.
`lingering`: the accounts of sessions that ended without their logout (a refused
refresh, a login over a session), and those whose profile was still to come at a
logout; either may be written to the user of a later session.
`StoreAgreesWithLogin` says that without the first the two tokens are of one login and
the user is its account, or one of the second, and never any other. Faults (a lost
answer, a wrong password, another device, a restart) are bounded together by
`MaxFaults`.

### AlertsScreen (`alerts.tsx`, `AlertsPage.tsx`, `RecentAlertsFeed.tsx`, `alertStore.ts`, `alert_service.py`)

The same list in three places: `server`, `cache` (the query's data, with the request
`fetch` that may hold an older one) and `store`, which the screen and the badge show.
`setAlerts`, the effect that copies one to the next, is an action of its own. Marking
is a PUT per alert, one by one (`MarkRead`, `MarkedRead`) or by mobile's selection
(`markSelectedRead` to `MarkedSelectedRead`); a PUT may be carried out and its answer
lost. Invalidation cancels the request under way and asks again; mounting and focus
join it. One row's PUT is at most once under way; garbage collection of the query
and the banner that counts failures are left out.

## 3. Runs

TLC with two workers takes from a quarter of a minute to three minutes for each; the largest
are `simulator` (669,592 states), `client_session` (593,893) and `arbitration` (413,892).

| run | bounds | shows |
|---|---|---|
| `quota_safety` | 3 requests of 2 accounts, one midnight, 1-2 scenarios, limits 2 and 3, 2 passes | no counter passes its limit; the counters are what live reservations add up to; what is queued is within the limits; the transaction implements the ledger |
| `arbitration` | 2 starts, 1 stop, 1 status probe, 2 polls, all of which overlap and fail | no replay plays beside an auto-launched ingestor but one the kill-switch found playing and missed; two replays, or one the key does not name, only after a late DELETE (or a miss); the slot is freed; a claimed race is ingested unless its poll fails |
| `cache` | 3 calls where all is assumed or only the stores may be cut, 2 calls otherwise; 2 versions | one computation per reason; no answer goes back in time; every call returns |
| `worker` | 2 tasks, 1 crash, idle limit 2, visibility 3, a failing API, with and without later visitors, whose requests may fail too | a second run needs a crash; the worker stops when idle; with later visitors every task runs |
| `alerts` | 2 cars that change places, 2 users, 2 workers, 1 failure | one alert per claim; a lasting threat is alerted |
| `broadcast` | 2 viewers, 2 broadcasters, 3 laps, Redis fails or not | connected viewers are on the registered broadcaster; one listener; no lap is skipped; while Redis answers every viewer who stays is sent every lap |
| `ranking` | 3 cars, 2 laps, 1 overtake, 1 car that may stop, Position streamed or not | the standings settle on the running order; the final ones are written at the finish |
| `simulator` | 2 drivers, up to 3 scenarios and 1 pit stop, quota 0, 1 or none; one user edits the race's state and presses Run once, another designs plans and presses it twice | the screen and the polled task agree; nobody is left on the spinner; what was typed stays |
| `simulator_session` | the same | refuted: "their latest lap in this session" (finding 1) |
| `live_feed` | 1 driver, 2 tokens, 2 changes of replay, choice or network, the replay being of the race fallen back to | one connection, for the session of now; mobile shows no foreign laps and lets a replay's go; silence is noticed; the feed comes back |
| `client_session` | 2 requests at once, logins as alice and then bob, 2 access tokens per login, 1 fault | the store is of one login, but for an overtaken refresh and the user of a session that ended without its logout; every request settles; a superseded client is logged out |
| `alerts_screen` | 2 alerts of 2 types, 1 fault | nothing unread is shown read; what was marked stays marked; lost answers heal |

Why these bounds are enough to be interesting: races between check and act need
two actors on one key and usually a third that disturbs (three requests, two
starts and a poll, three callers: a holder, a waiter and a late arrival); limits
are chosen so that two requests fit and the third does not; two passes reach both
the retry and the exhausted loop; one midnight separates a reservation from its
refund; one crash is enough for a second run; the visibility timeout is longer
than the idle limit as 1 h is to 10 min; two viewers are the last leaver and the
joiner, three laps are one in hand, one in the inbox and one to come; two laps
and three cars let one car be lapped while the others are not. On the clients:
two presses of Run are one in flight and one that overtakes it, and the two
visits keep the field edits from multiplying with the plans, which no code path
relates; two requests are the one that refreshes and the one that waits, or that
comes late with the old token; two access tokens separate the refused one from
the renewed; logging in as somebody else needs two accounts; two alerts are a
bulk one of whose PUTs fails; two changes start and stop a replay, or drop and
restore the network. Where a liveness property waits for the last fault
(`faults = MaxFaults`), an earlier fault has had its effect. Runs disable the
deadlock check because every module's calls are finitely many and the system
then rests.

Fairness is weak, with the one exception below, and only on what the code's schedulers guarantee:
the event loop resumes a coroutine whose reply is in, a worker goes on with its
task, timers and TTLs elapse, Fly sees an exit, F1 in the end sends what changed.
In the clients: timers fire (`Clock`, `StaleTimer`), a socket opens or closes and
is retried, effects run, a request is answered or times out and its answer is
taken up. Nothing obliges users, visitors (except where `anyoneLater` says so),
crashes, failures, cars, laps, the network, the answer of a poll of a simulation, or
a component to be mounted (`Mount`: that it is not stands for the cache having dropped
unused data). The exception is strong: where later visitors keep coming, the Machines
API does not fail every one of them (`VisitorStarts`).

### Findings

1. `simulator_session`: the auto-fill's guard (`web/src/pages/SimulatorPage.tsx:390`)
   compares the driver only, so fields filled in from one session's laps stay
   when the screen moves to another session. In the run web's page opens for the
   session of the race page the user comes from, the driver picked there is filled in
   from that session's laps, and then a session query answers and the page moves to the
   live race (or the last ingested one): the fields are still those of the first
   session. The comment at 381-382 says "once picked, default Current
   Lap/Compound/Tyre Age from their latest lap in this session".

### Disagreements noticed without a run of their own

Read in the code while modelling; the models contain the behaviour, and the
properties are stated so that they are about the rest.

- Arbitration: in `infra/docker/docker-compose.yml`, the stack that runs the poll, API
  and worker have a pid namespace each, so that `os.kill` of the stored pid reaches
  nobody (or a stranger), the key is deleted and the replay plays on untracked beside
  the ingestor (`race_detection_worker.py:121`, against 98-103 and
  `demo_service.py:10-12`). A poll that meets the claim sentinel deletes it and signals
  nobody; "clearing the key is enough" (`race_detection_worker.py:101-103`) is untrue of
  a child that is already past its guard. A stop or a status probe deletes whatever
  the key holds by then; a third start then plays beside the second
  (`demo_service.py:330`, `:491`, against 5-7). An exception after the claim
  (`race_detection_worker.py:110`, `:126`, or of `Popen` at 130) leaves the race claimed
  for 4 h with no ingestor, though the worker survives.
- Backend: `ensure_worker_started` trusts the listed state of a machine whose
  worker is already stopping, so the task waits for the next visitor
  (`fly_machines.py:94`, against `docs/runbook.md:302`). An exception ends the listen
  task while its broadcaster stays registered: viewers stay connected, and join,
  and receive nothing (`telemetry.py:238`). A car that takes the lead keeps its last
  gap, so without Position it is ranked among the cars with a gap
  (`ingest_live_session.py:982`, comment at 957-960). After an overtake an alert may
  name another car than the one its score was computed against
  (`alert_service.py:407`). A RedisError of `lock.acquire()` is not guarded
  (`cache_service.py:285`).
- Live feed: the close event of a cleaned-up socket sets `readyState` to closed after
  the next socket has opened (`useWebSocket.ts`, web 38, desktop 52, mobile 51), so
  banner and silence timer are off until the next change. Web and desktop keep the
  laps of the session shown before (`useLiveTelemetry.ts:25`).
- Login: a refresh answered after a logout stores an access token again
  (`web/src/api/client.ts:31`), without a refresh token; answered after a login, it
  leaves the tokens of two logins. A refused refresh clears the store and not the query
  cache (`client.ts:34`): the login page mounts, the effect of `useAuth.ts:22-26`
  writes alice's cached profile back, and bob, who then logs in, is shown as alice until
  his own profile arrives, and again at a later mount while the cache still holds
  alice's. Fetching a user that is missing, which `useAuth.ts:14-15` relies on, does not
  happen, as the user is not missing. Only logout removes the query (`useAuth.ts:55`).
- Simulator: leaving the screen loses the id of a task that was accepted and paid for.
- Alerts: on the web a list under way when the screen is reopened is joined, and may
  bring an alert just marked back as unread until the next refetch. The bulk's "They're
  still unread" is untrue where only the answer was lost; a bulk that ends clears a
  selection begun after Cancel; mobile's empty list cannot be pulled to refresh
  (`alerts.tsx:628`); desktop's badge is a 30 s poll of its own.

## 4. Proofs

TLAPS proves, for every value of the constants allowed by the modules'
assumptions:

| module | theorem | says |
|---|---|---|
| `SimulationQuota_proofs` | `TypeCorrect` | `Spec => []TypeOK` |
| | `LimitsHold` | `Spec => []WithinLimits` |
| | `CountersMatchHolds` | `Spec => []CountersMatchReservations` |
| | `QueuedWithinLimitsHolds` | `Spec => []QueuedWithinLimits` |
| | `TransactionImplementsLedger` | if a limit is configured, `Spec` implements `QuotaLedger` |
| `LiveRace_proofs` | `TypeCorrect` | types, and only who acts on a payload holds one |
| | `SingleReplayHolds` | `Spec => []SingleReplay` |
| | `TrackedHolds` | `Spec => []PlayingIsTracked` |
| | `LivePriority` | `Spec => []LiveHasPriority` |
| | `RankingTypeCorrect` | `RankingSpec => []RankingTypeOK` |
| | `OrderSettlesHolds` | `RankingSpec => []OrderSettles` |
| `SingleFlightCache_proofs` | `TypeCorrect` | `Spec => []TypeOK` |
| | `StampedeHolds` | `Spec => []StampedeComputesOnce` |
| | `ReadsHold` | `Spec => []ReadsNeverGoBack` |
| `LapBroadcast_proofs` | `TypeCorrect` | types, and the gauge stays between 0 and the number of viewers |
| | `RegistrationHolds` | `Spec => []ViewersAreRegistered` |
| | `ListenersExclude` | `Spec => []OneListener` |
| | `NoLapSkippedHolds` | `Spec => []NoLapSkipped` |
| `Simulation_proofs` | `TypeCorrect` | `Spec => []TypeOK` |
| | `ScreenMatchesTaskHolds` | `Spec => []ScreenMatchesTask` |
| | `EditsSurvive` | `Spec => EditsSurvivePolls`, an action property |
| | `WorkerTypeCorrect` | `WorkerSpec => []WorkerTypeOK` |
| | `RunsAgainOnlyAfterCrashHolds` | `WorkerSpec => []RunsAgainOnlyAfterCrash` |
| `LiveFeed_proofs` | `TypeCorrect` | `Spec => []TypeOK` |
| | `OneFeedHolds` | `Spec => []OneFeed` |
| | `MobileShows` | `Spec => []MobileShowsItsSession` |
| `ClientSession_proofs` | `TypeCorrect` | `Spec => []TypeOK` |
| | `StoreAgreesWithLoginHolds` | `Spec => []StoreAgreesWithLogin` |
| `Alerts_proofs` | `TypeCorrect` | `Spec => []TypeOK` |
| | `ShownReadHolds` | `Spec => []ShownReadIsRead` |
| | `UndercutTypeCorrect` | `UndercutSpec => []UndercutTypeOK` |
| | `OneAlertPerClaimHolds` | if a claim outlives its dispatch, `UndercutSpec => OneAlertPerClaim`, an action property |

They rest on the named `ASSUME`s of the modules only, which TLC evaluates in
every run.

*Quota.* `WithinLimits` is not inductive: EXEC adds to counters that were read
two steps earlier. The invariant `IInv` adds `SnapshotCurrent` (what a transaction
that is not dirty has read is still what the keys hold, and one that reached EXEC
found room in both counters), `AttemptsLeft` (a pass is begun only while one is
left) and `DaysOpen` (a running request's day has not expired). Only `Charge`
changes counters, and it dirties exactly the transactions watching them; from that,
lemma `ChargeKeepsSnapshots`. The refinement maps a request's place to the answer
the ledger has given it; a refusal takes effect when the counter that causes it is
read, one step before the request notices (`Doomed`). Each action is shown to be
one ledger step or a stutter. The limits are any integers, so the theorems cover
the case of one limit switched off, which no run instantiates. What a set of requests
asks for is the cardinality of a set of pairs of a request and a number up to its
scenarios, so that sums need no induction: `SizeMonotonic`, `SizeSame` and `SizeAdds`
say all that the steps need. On them rests `QInv`: the counters of an open day are the
sizes of the requests charged on it (a request's two counters change in one EXEC, in
either direction), what was ever charged on a day fits the limits also when its
counters have expired (`ChargedWithin`), and what was queued was charged
(`QueuedAreCharged`). `QueuedWithinLimits` follows from the last two by monotonicity.

*Arbitration.* `TInv` are the types and which places of a start go with which states of
its process. `IInv` is three parts. `Stored`: the key, and whatever a call read from
it, names a start that stored its pid, and a stop or a probe is at its DELETE only when
the replay it read has ended. Without a trigger no poll is at work and no ingestor of a
poll runs (`Unclaimed`). And without a late DELETE, `Orderly`: two replays never play
at once; at most one start holds the slot, and the key is its own (`Owned`), or a race
has been claimed since and only missed replays play (`Disarmed`); and a poll about to
signal holds the pid of whatever plays and was not missed, and one past it, or with an
ingestor, is disarmed (`Aimed`). The three theorems follow from `Orderly`.

*Cache.* `SInv`: only the lock's owner is between the second look and the release,
whoever still has to store finds the entry missing, and a missing entry that nobody
computes leaves room for exactly one computation. `RInv`: entry and copy are no
older than the newest answer given (`KeysFollow`), nor is what a running call
carries (`CallFollows`).

*Broadcast.* The invariant is `Shapes` (types), `HolderWorksAlone` (whoever starts
or tears down a broadcaster holds the lock, and nothing is registered meanwhile),
`ListenerIsKnown` (a listening broadcaster is the registered one or the one being
stopped), `StartedIsNew` (a broadcaster being started does not listen yet) and the
property itself. `OneListener` follows as both listeners would be that one
broadcaster. `TInv` adds that the gauge is the number of counted viewers.
`NoLapSkipped` needs `LInv`: a subscription holds the laps after the one its task has
taken, in order and up to the last published (`Feeding`); a viewer that is still there
is sent laps by the registered broadcaster only, and one not yet registered has
received nothing (`Audience`); who has received a lap has received the one taken last,
or is still among those it is being sent to (`CaughtUp`).

*Simulator.* `ScreenMatchesTask` is inductive over `TypeOK`: an acceptance sets task
and screen together, a poll opens the results only with the SUCCESS it brings, and
nothing else leaves step 3 with a task. `EditsSurvivePolls` follows step by step from
the guard `Unfilled`.

*Worker.* `WorkerInv`: a task is in the queue or unacked, and what the worker holds is
unacked, in one place, and younger than `Visibility` (`Custody`); without a process
nothing is held, the machine is startable only then, and the watchdog counts the one
task being run (`Process`); a task waiting for a run has had no more runs than there
were crashes (`RunsCounted`). The watchdog and a warm shutdown leave only tasks that
were never started, or that are acked.

*Live feed.* `OneFeed` is inductive over the types (which need that an expired token
can still be replaced within the bound): every change of `url` passes the cleanup.
`MobileShows` rests on `LapsOfSession`: the subscriber's sockets and laps are of the
session shown, and the store's laps of the session it names.

*Login.* `StoreAgreesWithLogin` is strengthened by `RequestsOK` and `LoginsOK` (what a
request under way carries, one login at a time, every login has minted a token) and by
`OfOneLogin`: without an overtaken refresh, the refresh is of the store's login, and the
user, the cached profile and every profile a request under way may still bring are of
the session's account or of a lingering one (`Shown`, `Tells`).

*Alerts.* `AnswersAreTrue`: every list under way, cached or shown has and marks read only
what the backend has, and a PUT is done only for an alert read there; the backend
never takes a mark back.

*Undercut.* `ClaimInv`: a worker about to commit holds its pair's claim, no other worker
is about to commit that pair, and the pair has had no alert under this claim; a pair
without a claim is owed one. `SET NX` gives the second and third part, `Expire` may
break the first. Hence the hypothesis `ClaimOutlives`, that the claim (one minute)
outlives the dispatch it was taken for: nothing in the code enforces it, and
without it a second alert is possible.

*Standings.* `RankInv`: while connected, what was heard of a car is what F1 told, for its
flags and, where that streams, for its Position (`HeardAsTold`); the published
standings are those of the positions (`Shown`); and once Position has streamed, the
cars F1 tells are running stand in the order told, unless the messages so far give two
of them one place (`ToldOrder`). `OrderSettles` is what is left of it when nothing is
under way. Underneath are lemmas on operators: lexicographic order is a strict total
order on keys of one or five integers (`_rank_by_position`, `_rank_by_gaps`), to count
predecessors is to rank without ties, and the renumbering of laps, which keeps the
model finite, keeps their order and at most one number more than there are cars.

Only model-checked: the liveness properties, as fairness and `ENABLED` are outside the
prover's reach, and the session run's `FilledFromThisSession`, which is violated. Every
invariant of a passing run is proved. No hypothesis but `ClaimOutlives`, and a
configured limit for the refinement, is made beyond the modules' assumptions; the
exceptions described in section 2 are part of the properties themselves.

## 5. Not modelled

*Circuit map.* Its hooks interpolate cars between timestamped samples: floating-point
animation over wall-clock time, read by nothing else. Seen while reading: the effect on
`[x, y]` adds no sample while a car stands still; the "last 2" samples need three;
`Date.now()`, which mobile uses, may go back; buffers keep the samples of the session
before.

*Alert subscriptions form.* One GET and one PUT. Seen: if the first GET fails, Save
sends empty `team_ids` in spite of the comment at `AlertSubscriptionsForm.tsx:125-126`;
a refetch on focus after the PUT overwrites the form; toggles made while saving are
lost.

*Other client screens.* Pages, charts and panels show the answers of queries and keep
no state beyond a render. They are most of the clients' lines (JSX, charts, styles), and
modelling them would be restating layout; this is why the modelled share of the
TypeScript is small though the parts that keep state are modelled. Code that exists
three times, once per client, is mapped at one place unless the clients differ.
Desktop's `useUndercutNotifications` never deletes a key it has notified for (comment
at 51-54); its tray, overlay and notifications otherwise follow the session of
`LiveFeed`.

*Backend.* The FCM bridge and the subscription rows; the ingestor's dispatch of laps
and stints and its connection threads (`stop()` may fall between the loop's test and
the clearing of `_closed`); `process_lap` and `run_strategy_prediction`; registration
and profile changes, which are single transactions; what a replay publishes, a function
of one race's data. Machine learning and the race simulator are floating point; the read
services, schemas, middleware and configuration keep no state that interleaves with
anything; backfill scripts run alone, by hand, over finished sessions.

## 6. Possible extensions

In the order of what they would add:

1. `IngestorConnection`: `start`, `stop`, the opened and closed events, backoff and
   the stop that falls between the loop's test and `_closed.clear()`.
2. `LapPipeline`: laps dispatched by the ingestor (laps seen, driver mapping,
   stints, tyre age over a restart), `process_lap`'s idempotent insert and its
   publication of duplicates, `run_strategy_prediction`'s four retries for a lap
   not yet stored; composed with `LapBroadcast`'s channel. Abstract: every
   completed lap of a known driver is stored once.
3. `ReplayPlayback`: `build_events`, `build_tower`, `advance_positions` as functions
   over a bounded race, against a reference definition.
4. Alert delivery: the FCM bridge and duplicate subscription rows.
