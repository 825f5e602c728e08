# GEKTOR: a TLA+ model of the radar and its alert path

GEKTOR ("APEX") watches the trade streams of Bybit futures, turns them into
liquidity anomalies and tells a human operator about them over Telegram. It
places no orders. What the operator relies on is therefore short: an alert that
is raised arrives, it arrives once, it says something true of the tape, and when
the radar goes blind he is told. These modules state that and check it.

All source paths below are relative to `src/src/` of the repository, except
`main.py`, which lies beside it.

## 1. Inventory

### The path main.py runs

```
 Bybit WS ──► bybit_ws_ingestion ──► radar_pipeline._process_message
 (one reader per      │                  │
  180 symbols)        │ connect          ├─► conflation.DollarBarEngine ─► vpin_engine (per symbol)
                      └── clears the     ├─► liquidity_detectors (per symbol)
                          open bars      │        │
                                         ▼        ▼
                              cooldowns, dispatch ──► outbox_alert_sink ──► SQLite outbox
                                         ▲                                      │
            partial-blindness watchdog ──┤ notify_manual                        ▼
                                         └──────────► telegram_notifier ◄── outbox_relay
                                                      queue + debouncer
```

| Component | Keeps | Operations | Interacts by | Hard | Correct when |
|---|---|---|---|---|---|
| Outbox and relay: `application/outbox_relay.py`, `outbox_alert_sink.py` | the SQLite table `outbox_events` (priority, status, created_at, execute_after, payload); the relay's batch in memory | INSERT by the sink, `fetch_pending`, `notify`, `mark_delivered`, `mark_failed_for_retry` | the table is shared by the sink and every relay; the relay awaits the network inside a batch | crash between claim and delete, answers lost after the message was shown, errors inside the error handler, two relays | no row is deleted unseen; a copy too many has a failure to blame; a healthy relay delivers everything |
| Feed and bars: `infrastructure/bybit_ws_ingestion.py`, `application/radar_pipeline.py`, `domain/conflation.py` | one connection and task per 180 symbols (`MAX_SYMBOLS_PER_WS`), backoff, open bar of each symbol, thresholds, cooldowns | connect, subscribe, read, aggregate, dispatch, `reset_state` | all readers share one bar engine; a dispatch awaits the database in the middle of a message | outages with missed trades, a reader suspended between two trades of one message, messages that raise | no bar bridges a gap; no trade is counted twice or in a later bar |
| VPIN: `domain/vpin_engine.py` | two ring buffers (flows with prices, VPIN history), three running sums, decay clock, rebuild counter | `process_bar`, `reset_o1` | called with every closed bar of its symbol | laps of two rings of different length, decay, rebuild and reset in any order | sums equal the arrays; verdicts are those of a plain sliding window |
| Detectors: `domain/liquidity_detectors.py` | current run, minute buckets, last alert per kind | `process_tick` of three detectors | called with every trade | tumbling windows, cooldown against accumulated state, bounded deque | each alert is genuine; a sufficient burst is heard |
| Blindness watchdog: `application/watchdog.py`; queue, worker and debouncer of `infrastructure/telegram_notifier.py` | `_already_alerted` flag, bounded queue, type-keyed debounce | watch tick, `notify_manual`, worker take/post | the queue is shared with every other notice | a silence that ends or begins while a notice is on its way, a full queue | no silence overlooked; the operator's screen tells the truth, and if not, for a known reason |
| Adaptive thresholds: `infrastructure/adaptive_threshold.py` | symbol -> threshold cache | refresh every so often, lookup | read by the bar engine between two trades | a refresh in the middle of a bar | a bar closes under whatever threshold is current; see RadarFeed |
| Composition root: `main.py` | the tasks | start, shut down, hot reload; systemd restarts it | | a task that ends is not started again | (part of the modules above) |

### Components beside that path

`AUDIT_REPORT.md` counts these among the earlier versions of the system: they are in the
repository, with tests, but the advisory version starts none of their work (`main.py` starts the ingestion
buffer, into which nothing it runs pushes a statement).

| Component | Keeps | Hard | Correct when |
|---|---|---|---|
| L2 multiplexer `infrastructure/gektor_l2/ws_multiplexer.py`, `resync_gate.py` | shard workers, one connection epoch, one resync queue for all shards, books and their states | a drop of one shard invalidates requests of another; REST answers that arrive after a reconnect or a delta | a book is usable only with a live feed and without a hole; a resync ends |
| L2 book `nd_orderbook.py` | update number, levels, delta ring, readiness | overwritten frames, snapshots older than deltas, cross-asset reads used after an await | a snapshot that passes for consistent says what the books say, or said when it was taken, with nothing but deltas since |
| Operator gate `application/operator_gate.py`, `domain/tilt_breaker.py`, `intent_capsule.py`, `intent_ledger.py` | the operator's tilt state, capsules with session, generation and nonce, intents with a version | heartbeats, unlocks, rotations, revocations between issue and click; a click brings capsule and version, and nothing ties them | what executes is what the operator saw; nothing executes in a lock; a capsule is spent once; what was revoked is over |
| Schrödinger ledger `domain/schrodinger_ledger.py`, `application/reconnect_reconciler.py` | confirmed positions and orders that may or may not have been executed | fills that race REST answers, orders that arrive late | a fill counts once; the shadow covers the exchange |
| Ingestion buffer `infrastructure/database/connection.py` | Redis list, processing list, spill queue, file | crash between commit and acknowledgement, a sweep of a stale list, renames over files, lines cut off in the middle | at least once from Redis on; elsewhere lost only with the place it was in, or in a line that was not its own any more |
| Event bus `infrastructure/event_bus.py` | queue, tasks, rows and the queue of the thread that writes them | crash or stop between any two of these | no acknowledgement before delivery; what is queued is handled |
| Bybit order book feed `infrastructure/bybit.py`, `application/microstructure.py` | socket, queue, a sequence guard per symbol | frames of a dead connection meet the guards of the next; a close that ends after the next connection is up; a consumer that raises; a full queue; stop in the middle of a connect | a book whose guard is synced was shown every update; the feed settles after faults; a stop ends |
| Training bars, labels and features `domain/dollar_bars.py`, `domain/triple_barrier.py`, `infrastructure/feature_store.py` | ring of bars, slots of open intents, memory-mapped file with an index | a trade that closes many bars, labels before features, compaction, restart with ids from 0 | bars hold what was traded, labels are what the tape says, features and label belong together |
| State healers, supervisor, kill switches | earlier versions' recovery code | the two state healers disagree with the recorder they read | not modelled |
| Numeric research code, exchange clients, presentation, telemetry, configuration, backups, build scripts | | no concurrency of their own, or formulas over floats | not modelled |

`PROJECT.json` lists every component with its sources, its status and the
reason, and every hazard at the line where it bites.

## 2. The modules

### AlertDelivery: what the alert path promises
Each alert has a stage (`new`, `owed`, `settled`, `refused`) and the number of
times it was shown. The promise: only an owed alert is shown, and an alert is settled only after
it was shown at least once. A refused alert is lost for good.

### OutboxRelay: how the code keeps it
| Model | Code |
|---|---|
| `status`, `stamp`, `due` | the row's `status`, its `created_at`, and whether its `execute_after` has passed; `Before` is the order of the SELECT |
| `StampAlert`, `InsertRow`, `InsertFails` | the sink: the time stamp is taken before the INSERT is awaited, so a later row may be visible earlier |
| `Select`, `Claim` | the two statements of `fetch_pending`; another task may run between them. `Claim` is the `UPDATE ... WHERE id IN (...) AND status = 'PENDING'`, after which the code returns the **first n rows of its SELECT**, n being the number it updated |
| `SendOk`, `SendRefused`, `SendErrs`, `FormatFails` | one attempt of `notify` (external: Telegram), its three outcomes, and a payload that the formatter cannot print. `SendErrs` may still have shown the message |
| `MarkDelivered`, `MarkFailed` and their `...Fails` | DELETE; back to PENDING with a later `execute_after`; either may fail, and may have committed when it did |
| `Stop`, `Leave`, `Interrupt`, `Restart` | shutdown between batches or within one, a crash or cancellation at any point, systemd's restart |
| `copies`, `losses`, `disturbed` | history variables: messages shown, failures that can explain a copy, failures that can explain a stranded row |

### RadarFeed: from the wire to bars and dispatches
Trades of a symbol are numbered as the exchange makes them. A connection is down,
open or up, its inbox holds messages, each a run of trades that ends well or ends in an
entry that raises. A reader awaits inside a message only where the code awaits:
in the callback that hands a closed bar on, and in the alert dispatch. `Aggregate` is `process_trade` with the
close, the deletion and the opening of a bar, in the code's order. `Connect` clears the bars of **all** symbols, since
every feed calls the same `reset_state`. `Miss` is a trade made while nobody is
subscribed. Detector and VPIN verdicts are left open (any symbol in `Loud` may raise).

### BlindnessWatch: silence and the notice about it
`silent` is what the comparison of `_last_tick_ts` with the clock gives, `awake` the end of the
grace period. `TickBlind` and `TickCleared` are the watchdog's tick; `Put` is
`put_nowait` on the bounded queue; `Take`, `Post`, `PostFails` are the worker with
the debouncer, whose entries `CoolDown` lets expire. `screen` is the last blindness
notice the operator saw.

### SlidingVpin and VpinEngine
`SlidingVpin` keeps the last `WindowSize` bars and the last `HistorySize`
VPINs as sequences and says what verdict the next bar deserves. `VpinEngine` is the code: both rings, their indices and fill flags, the running
sums, `Decayed`, `Rebuilt`, `Absorbed` and `Reset`. Values are integers: the decay
factor is one half with truncation, the ratio of the two sums is kept as their
numerator over the constant volume of a window. Floating-point drift, the reason the
code rebuilds at all, does not exist in the model; that a rebuild changes nothing
does.

### LiquidityDetectors
One symbol's three detectors over a tape of trades with whole-second time stamps.
`run` is the sweep detector's accumulation, `buckets` the deque of the flow
detector, `alerted` every alert's time (the code keeps the last). `tape` is a
history variable against which the alerts are judged; the properties never read
the detectors' own state when they can read the tape.

### L2Book and L2Resync
`L2Book` holds the decisions of `ingest_delta` and `ingest_snapshot` as operators on a
record. The exchange numbers the updates of a symbol; instead of price levels a book
`holds` the set of updates its levels reflect, so that a missed update shows as a hole.
`L2Resync` is the multiplexer around it:

| Model | Code |
|---|---|
| `link`, `feed`, `next` | a shard's connection, and what it sends next for a symbol: a snapshot, then deltas in order. A delta may hold several updates |
| `Connect`, `Drop` | `_shard_worker` from the dial to the subscription, and its `finally`: epoch, queue and states in one step, since nothing in it awaits before the close |
| `SnapshotFrame`, `DeltaFrame` | `_ingest_ws_payload` in each `BookState` |
| `Take`, `Proceed`, `Serve`, `Complete` | the pump: the entry leaves the queue (in a task of its own, as `wait_for` does), first epoch check, the exchange answers, second epoch check and ingestion |
| `RateLimited`, `Requeue`, `FetchErrs`, `AskAgain` | the gate's sleep before the exception, the pump's own sleep after one |
| `ranged` | the symbols whose deltas carry `U`: the code makes it optional, so each behaviour chooses |
| `orphaned`, `late`, `excused` | history: requests another shard voided; updates that overtook a REST answer; books that took such an answer |

With `U` a usable book has no hole, whatever else happens. Without `U` nothing in the book notices
one, so the multiplexer has to prevent it. `HoleOnlyByRace` says exactly when it does not: a delta
overtakes the REST answer and is not in the ring. The comment at `ws_multiplexer.py:205` has all deltas
buffered during a resync; `ingest_delta` buffers them only if the book is empty.

### CrossAssetSnapshot
Extends L2Resync by the signal engine's snapshot of all books (`nd_orderbook.py`, `take_with_retry` and
`is_consistent_msq`): `TakeShot`, `Retry`, `TimeUp`, and the predicate `Passes` for a snapshot that is used
after an await. An update near the top sets a level or, with quantity 0 (`Removals`), takes it away; `Standing` is what is left of
the levels, and `Msq` the cost by what it depends on. A book notes in `moved` whether its `read_epoch` has grown since it was read. An applied
delta changes and removes levels (`nd_orderbook.py:564-567`) and leaves `read_epoch` alone, although the docstring at `:777` and the
comment at `:868` say otherwise, so a snapshot that passes may lack what came since, and count on a level that is gone by now.
`PassesOnlyWhatWas` is what the check does guarantee: the snapshot costs what the book costs now, or what this same book cost when the
snapshot was taken, the deltas since then included in it and no reset or new anchor between; and an unusable book passes only if it is
the multiplexer's state that makes it so.

### CognitiveSentinel and OperatorGate
`CognitiveSentinel` holds the tilt breaker as operators on a record: what a heartbeat does to the three
detectors (`Reacted`, `Clicked`, `Erred`), the composite score in 400ths, and the phases of `_evaluate`
(`Resolved`, `Judged`). `OperatorGate` is everything around a click: `IssueCapsule`, `Click` (the
validator's cascade, the nonce, then the intent ledger), `EmitIntent`, `Revoke`, `RotateSession`,
`ForceUnlock`, `CheckBlind`, `IngestHeartbeat`. Each handler runs in one piece; what interleaves is the time
between showing a capsule and its click. A capsule is signed over its nonce, session, generation and time; the version of an intent is
not in it (`intent_capsule.py:187`), but an argument of its own of `validate_execution`. `shown` keeps the version that stood beside a
capsule on the screen, and a click may carry any version that was ever given out. A rejected click changes counters only and is no step.
`outdated`, `superseded`, `named`, `lockEnds`, `spent` and `pushed` are history: what was shown before the latest change of tilt state or session,
or of intent, the version the latest strike was clicked with, when the latest lock ends, the nonces consumed, the revocations pushed.

### SchrodingerLedger and ReconnectReconciler
`SchrodingerLedger` holds the ledger's methods as operators on `[confirmed, purgatory]`.
`ReconnectReconciler` puts it between an exchange (`Arrive`, `Execute`, `Kill`: external), the stream
(`Hear`), a connection that drops, and `reconcile`: one order query after the other, each of them an answer
(`ServeOrder`) and its arrival (`Answer`, `QueryFails`), then one position query per symbol (`ServePosition`, `Arbitrate`,
`ArbitrationFails`), then the event (`Publish`). `early` and `short` are history: orders settled for less than they executed,
or while they still could execute; symbols whose position was asked for while it was short.

### IngestionBuffer
| Model | Code |
|---|---|
| `PushToRedis`, `PushToSpill`, `PushTwice` | the branches of `push_query`; the third is an LPUSH that took effect and whose reply was lost |
| `Take`, `Execute`, `Ack`, `DeadLetter` and their failures | `_process_queue`: LMOVE to the processing list, the statement, LREM, the dead letters |
| `SweepLists`, `SweepReclaims`, `SweepSkips` | `_active_sweeper`, whose list may be stale when it acts |
| `TakeBatch`, `OpenFile`, `WriteLine`, `SpillWriteFails` | `_spill_to_disk_daemon` and the thread of `_write_batch_sync`: the lines of a batch go out one by one, and a disk error or a crash (`WriteEnds`) ends them before, in the middle of, or just before the newline of any line |
| `Reestablish`, `DrainBegins`, `DrainToRedis`, `DrainDirectly`, `DrainSkips`, `DrainFails`, `DrainEnds` | `_spillover_sentinel` with its two renames, the removal, and the line it cannot parse |
| `Line`, `Put` | a line is `whole`, lacks its newline (`open`) or more (`cut`), or has the next batch's first line glued to it (`corrupt`) |
| `writer` | the file the thread has open: a handle follows the file through a rename, so a line may be written into what the sentinel is just reading (`late`: met whole or in two halves) or into a removed file |
| `RestartBuffer` | a crash or a stop, then `start` with `_recover_stranded_tasks` |
| `reached`, `forgotten`, `spoilt` | history: statements that got into Redis; statements in a place that was lost whole; statements in a line that was cut off, glued to one that was, or written into a file the sentinel had taken |

### EventBus
`Publish` puts an INSERT into the queue of the writer thread and the event into the bus's own; `Write` and
`WriteFails` are that thread, `Consume` the loop, `Process` a task with all handlers, `Start` the
recovery, `Stop` with `StopEnds` the orderly end, `Restart` a crash as well. Events declared with slots
cannot take the mark of their row, so their publisher gets an exception after the INSERT was queued, and the recovery marks their
rows CORRUPTED.

### BybitFeed
`pc` is where the task of `start()` is; `Frame` and `FrameDropped` are `_on_ws_message`. The drain works on a frame in two steps: `Handle`
moves the sequence guard, or kills the socket, and `Delivered` is the end of `on_snapshot`, which returns or raises; `_process_batch` logs the exception and goes on.
`KillAtOnce` is `_force_kill_socket` with a peer that answers the close frame. A half-open link answers nothing: `KillBegins` then waits in `close()`,
the task of `start()` meets the closed socket, backs off and connects again, and `KillEnds` sets `_ws` to None and clears the guards whatever `_ws` is by then. `held` says
whether `_ws` is the socket of the reading task; a connection that is read and not held is `Orphaned`. A delta carries instead of its number
only whether updates are missing in front of it. `book` is what the books behind `on_snapshot` are worth: exact, short of an update they were not shown, or
short of one they refused. Trades, which share the queue and only feed the clock of the watchdog, are left out.

### DollarBars, TripleBarrier, FeatureStore and TrainingSet
The first three hold the methods of one class each as operators on a record: `Ingested` closes as many bars
as a trade fills, `Scanned` resolves the open intents of a closed bar, `Registered` evicts when all slots are
taken, `Appended`, `Labelled`, `Compacted` and `Rebuilt` are the file and its index. `TrainingSet` composes them as
the docstring of `feature_store.py` describes: a trade closes bars, bars make labels, labels go to records, and
the process may die between any two of these, in an append or in a compaction. `tape` is history; bars and labels
are judged by it and not by the engine's state.

### The modules of proofs
| Module | Holds the theorems about |
|---|---|
| `RadarOutboxProofs` | RadarFeed, OutboxRelay |
| `MarketDataProofs` | VpinEngine, BybitFeed, LiquidityDetectors |
| `OperatorProofs` | OperatorGate, BlindnessWatch |
| `PersistenceProofs` | EventBus, IngestionBuffer |
| `ReconnectReconcilerProofs` | ReconnectReconciler, SchrodingerLedger |
| `CrossAssetSnapshotProofs` | CrossAssetSnapshot, L2Resync, L2Book |
| `TrainingSetProofs` | TrainingSet, DollarBars, TripleBarrier, FeatureStore |
| `FiniteSums` | lemmas about sums over finite sets and about numbers, for the others |

Each extends what it is about. Where it extends several specifications, the names of one of them carry a prefix: `RelaySpec`,
`FeedSpec`, `DetectorSpec`, `WatchSpec`, `BufferSpec` and so on beside the plain `Spec` of the other. The modules `MC...` only give
constants their values.

## 3. What the runs check

| Run | Instance | Shows |
|---|---|---|
| `outbox_one_relay` | 3 alerts, two of them urgent and one of these unprintable, batches of 2, 2 attempts; 1 database error, 1 crash, 1 lost answer per alert | `NeverDeletedUnseen`, `NoUnexplainedDuplicate`, `StrandedOnlyByFailure`, `SendsOnlyClaimedRows`; the relay implements `AlertDelivery`; an undisturbed relay delivers every printable alert (`EventuallyDelivered`) |
| `radar_feed` | 2 connections; one symbol with 3 trades, the other's connection only comes and goes; 2 thresholds | `NoGapInBar`, `BarsInOrder` |
| `watch` | queue of 2, two other notices, a network that may always fail | `SilenceNoticed`, `ScreenIsLastToldUnlessHeld` |
| `vpin` | window 2, history 3, three imbalances and two prices, pauses anywhere, one reset | `SumsMatchArrays`; the rings implement the sliding window (`ImplementsSliding`) |
| `detectors` | tapes of 5 trades, 2 sides, 2 sizes, gaps of 0 to 2 s | `AlertsAreGenuine`, `BurstIsHeard` |
| `l2_resync` | 2 shards of one symbol; 3 updates of one symbol, in deltas of any size, with or without `U`, or malformed; a ring of 1; 2 losses of its connection and 1 of the other, 1 REST failure; one snapshot without a second attempt, 1 update that sets the best level and 1 that removes it | `HoleOnlyByRace`, `UsableOnlyConnected`, `StuckOnlyByForeignDrop`, `PassesOnlyWhatWas`, `Recovers` |
| `operator_gate` | 2 capsules, 2 intents, 2 heartbeats of 3 kinds, 1 unlock or rotation, a nonce cache of 1, 3 clicks with any version, 3 s | `ReplayOnlyAfterEviction`, `NoStrikeDuringLock`, `SeenIsStillTrue`, `RevokedNeverStrikes` |
| `reconciler` | 3 orders (a buy of two and a sell of one in one symbol, a buy of another), 2 attempts per query, 1 connection loss | `ConfirmedIsExecuted`, `ShadowCoversExchange`, `ArbitratedIsSettled`, `ReconciliationEnds` |
| `buffer` | 2 statements, a spill queue of 1 and so batches of one line, which may be cut off, glued or written late; any 2 faults | `AtLeastOnceFromRedis`, `VanishesOnlyWithItsPlace`, `RedisIsWorkedOff` |
| `event_bus` | 2 signals, 1 slotted and 1 plain event, a queue of 2, 2 starts | `NothingVanishes`, `NotAcknowledgedUnhandled`, `QueuedIsHandled` |
| `bybit_feed` | 2 symbols, a queue of 2 with the frame in work, any 3 faults; closes that end late and consumers that raise at any time | `SyncedMissesNothing`, `SettlesAfterFaults`, `StopEnds` |
| `training` | 2 trades that close up to 3 bars, or are worth less than a unit of volume, a ring of 4, 3 intents on 2 slots, a file of 2 records, 2 lives | `BarsAreExact`, `LabelsArePessimistic`, `UnlabelledIsOpenOrEvicted`, `PairsMatch` |

Every property has a mutant of the code in `PROJECT.json` that violates it. The type invariants are not among the runs' properties:
they are proved, that of VpinEngine as a part of `VpinInv`.

**Why the bounds are enough.** A batch of two among three alerts has a
row that waits, a row that is overtaken and a row that is put back between them; a
second crash or a second lost answer per alert only repeats the first from a state that is already
reachable. Three trades with a threshold of two or three close a bar, miss a trade and
open the next; the second connection exists to clear the bars while the first is
suspended in a dispatch, for which it needs no trades. A queue of two is full
while the worker holds a packet. Rings of two and three slots are lapped at
different times, with a rebuild at every fourth bar between them. Of three updates the first is in the
snapshot of the connection, and the other two are two deltas: they overflow a ring of one, or are a hole and a delta behind it. A longer ring is replayed frame by frame under the same decisions,
and `HolesOnlyByRaces` holds for any length; the second shard matters to the first only by its loss. Five trades hold
two runs with a cooldown between them, and enough minutes for the deque to
forget one. Two capsules on a cache of one make a nonce forgotten and used again; three seconds hold
a heartbeat that locks, its cooldown with blindness or an unlock inside it, and a click on either side; blindness comes after one second without a heartbeat. Two intents let an old
capsule come with the newer version. A bought and a sold order of one symbol make its position
long, flat or short when it is asked for; the other symbol's query may fail beside it. Two losses of one connection let an answer that was
asked for in the second outage meet the snapshot of the third connection. Two faults combine an outage with a restart, a lost reply with a sweep, a disk
error with a full queue; two statements fill the spill queue and overflow it,
and make a line with another glued to it; that the rest of a longer batch is lost with its line is covered by the theorem, which is for any queue. Three faults in the book feed are a
loss, a stall and a short back-off between them, a stalled link's kill needs one of them, and a queue of two holds a frame in work and one left over from a dead connection, or overflows. Three bars lap a ring of four with the trade after them, an intent more
than slots evicts one, and a second life meets the first one's file.

**Fairness.** OutboxRelay: `Work(w)` is weakly fair, because the relay is a task on an
event loop that nothing blocks; `FallDue` is weakly fair, because the clock moves; `SendOk` is strongly
fair, which says that a network tried for ever answers once. It is an assumption about Telegram,
and without it no delivery can be promised. Nothing is assumed of `Restart`:
`EventuallyDelivered` speaks of rows of an undisturbed, running relay.
BlindnessWatch: the watchdog's tick, the worker and the debouncer's
clock are weakly fair; nothing is assumed of the network or the trades.
L2Resync: the pump is weakly fair, which includes that a REST call ends; nothing is assumed of
connections or frames. ReconnectReconciler: `Rest` is weakly fair, since every call has a timeout; nothing is
assumed of the exchange. IngestionBuffer: its tasks are weakly fair and Redis comes back; the sweeper's
reclaiming is strongly fair, since what stays in the processing list is overdue at some sweep; a sweep that races the worker counts as
a fault, because sweeps are 300 s apart. EventBus: the writer thread and the tasks are weakly fair. BybitFeed: the tasks are weakly
fair, which includes that a connection attempt and `close()` end (both have a timeout) and that a consumer returns or raises, and frames of every symbol strongly, which says that every symbol goes on trading. RadarFeed, VpinEngine, LiquidityDetectors,
OperatorGate and TrainingSet are checked for safety only: they are called, and promise nothing until they are.

**Deadlock** is checked except where the system or its bounded traffic ends: all alerts settled, the tape at its bound
(detectors, training), all updates made (L2), the clock at its bound (gate), all orders done (reconciler), everything executed (buffer, bus),
the ingestor stopped (book feed).

### What the code does and its documentation does not say

These were met while modelling. The runs check what does hold, so each of them appears above as an exception in a property
or as a state the model reaches.

* `outbox_relay.py:99`: `fetch_pending` returns `rows[:claimed_count]`, the leading rows of its SELECT, not
  the rows its UPDATE transitioned. Relay 1 selects row 1, row 2 is inserted, relay 2 selects both, relay 1 claims row 1; relay 2's
  UPDATE transitions row 2 and it returns row 1. Both hold row 1, row 2 stays PROCESSING. `main.py` starts one relay;
  `tests/regression/test_outbox_sqlite.py:136` and the docstring at `:64` promise more. `OutboxRelay` has several relays, and the theorems that need one say so.
* `bybit_ws_ingestion.py:118`: any first message resets the backoff, the reply to the
  subscription too; the docstring at `:77` says only a trade does.
* `telegram_notifier.py:171`: the debouncer knows the type of a notice and not its episode. The second warning within five minutes is
  swallowed and the operator left reading "recovered" while the radar is blind (`held` in `ScreenIsLastToldUnlessHeld`).
* `vpin_engine.py:115`: `reset_o1` clears the sums and keeps the arrays. Only the
  constructor calls it today, where the arrays are zero; `SumsMatchArrays` excepts the time from a reset to the next rebuild.
* `ws_multiplexer.py:494`: the loss of any shard's connection voids the resync requests of all shards,
  but only its own books are marked DESYNCED. A book of another shard stays RECOVERING
  until its own connection is lost (`StuckOnlyByForeignDrop`). The retry after an error is made under the epoch of that
  later moment, so a book can become SYNCED while its shard is disconnected (`UsableOnlyConnected`).
* `ws_multiplexer.py:204`: the snapshot with which a new connection begins is dropped while the book is RECOVERING. If the request was asked
  again during the outage and answered before the connection came back, the older answer is ingested after it, and the deltas
  that go on from the dropped snapshot do not fit. It is the second way to a hole in `HoleOnlyByRace`.
* Operator gate: only an unlock ends BLIND; CRITICAL is never entered; each heartbeat moves the generation and voids every capsule shown;
  a strike does not consume its intent; an intent that replaces another pushes no REVOKE for it. The version a click carries is not bound to its
  capsule (`operator_gate.py:187`, `intent_capsule.py:187`): an old capsule that is still in its time and generation strikes with the version of a newer intent.
  `SeenIsStillTrue` therefore speaks of the intent only where the click names the version that was shown.
* `nd_orderbook.py:777` and `:868` let a reader think that `read_epoch` tells every change of a book. An applied delta does not move it, also one that removes a level: a snapshot
  passes as consistent and counts on what is gone (`PassesOnlyWhatWas`). `write_frame` (`:90`) keeps 50 levels of each side of a buffered delta without a word.
* Reconciler: an order missing from the history is rolled back without a look at the position (`reconnect_reconciler.py:190`), also if it
  is still on its way; the first partial fill settles the whole order; a cancelled order's executed part is dropped.
  These are the `early` orders of `ShadowCoversExchange`.
* `reconnect_reconciler.py:263`: the size of a position is read without its side, so a short position passes for the execution of a
  BUY whose fate is unknown, and `confirmed` grows by what was never bought. `ConfirmedIsExecuted` excepts the symbols in `short`.
* Ingestion buffer: "At-Least-Once" (`connection.py:19`) holds from Redis on. Before, a rename may replace a newer spill file (`:197`) or a
  left-over `.recovering`, a disk error is swallowed, and memory is lost at a restart: `VanishesOnlyWithItsPlace`. A write that is cut off (`:149`) leaves a line without its
  end, the next batch's first line is glued to it, and the drain skips both as one corrupt line and removes the file (`:181-192`); a thread that has the file open when the sentinel
  renames it (`:174`) writes into what is being read, or removed. LPUSH with LMOVE LEFT
  makes the queue a stack. A start without Redis never starts the sweeper.
* Event bus: publishing an event declared with slots raises after its INSERT was queued; the recovery skips or corrupts every row it finds, so it
  re-queues nothing, and an event is acknowledged although its handlers raised (`event_bus.py:241`).
* Book feed: `stop()` during a connect leaves a socket that is read for ever (the exception in `StopEnds`). `_force_kill_socket` awaits `close()` (`bybit.py:432`) before it sets `_ws` to
  None: with a half-open link that may take ten seconds, in which `start()` opens the next connection, and the late end takes `_ws` and the guards from that one. No kill and no
  `stop()` finds it any more, and its books get no new snapshot (`Orphaned` in `SettlesAfterFaults` and `StopEnds`). An exception of `on_snapshot` is swallowed (`bybit.py:581`) after
  the guard has moved (`:619`), so the guard stays synced over a book without that update (`refused` in `SyncedMissesNothing`). Without a bound on back-offs
  shorter than the drain, left-over frames may kill connection after connection.
* Training: an evicted intent never gets its label; ids start at 0 again after a restart, so a label without features of its own goes to an
  old record (`strays` in `PairsMatch`); `get_bar_row` hands out the zeroed oldest row of a full ring (the exception in `BarsAreExact`); an intent
  is judged by prices of the open bar from before its registration; the vertical barrier holds one bar more than `max_bars`. A single trade that
  closed as many bars as the ring has slots would have the labeler read the zeroed row, in which every long intent is at its stop;
  `dollar_bars.py:151` rules such trades out by the exchange's limits, and `SmallTrades` says so.
* An alert whose INSERT fails is lost although its cooldown was taken (`radar_pipeline.py:260`); one flapping connection clears everybody's bars
  (`conflation.py:110`); `run()` of the relay ends on an exception outside its `try` and nothing starts it again; the VPIN divides by the
  base threshold while bars close at the adaptive one; a sweep that straddles the end of a tumbling window can be
  missed, which is why `BurstIsHeard` asks for more than the detector's minimum.

## 4. What is proved

TLAPS checks the theorems below for every value of the constants, under nothing but the named assumptions of the
modules they are about; TLC evaluates these in every run. In the outbox `RelaySpec` may have several relays, and four theorems assume
`OneRelay`, without which the first observation of section 3 refutes them. Nearly every property needed more than itself to
be inductive; the invariants that were not evident were checked by TLC on the instances of section 3 before they were proved.
Every invariant and every action property of the runs is proved, and both refinements.

### RadarOutboxProofs

RadarFeed (`FeedAssumption` of that module)

| Theorem | States | Argument |
|---|---|---|
| `TypeCorrect` | `TypeOK` | inductive by itself |
| `NoGapBridged` | `NoGapInBar` | `FeedInv`. A trade is in the bars, in the message a reader works on, or in its connection's buffer; read in this order the trades of a symbol have no hole up to the last one executed while the connection reads (`InLine`, `Linked`, `Reaches`), and a connection that is about to read has a symbol without an open bar (`Fresh`). A gap can only arise while it is down, and reading begins with a reset |
| `ClosedInOrder` | `BarsInOrder` | `Ascending`, a part of `FeedInv`: what is still to be added lies behind the bar closed last, also while the reader waits for an alert in the middle of a message |

OutboxRelay (`OutboxAssumption`)

| Theorem | States | Argument |
|---|---|---|
| `RelayTypeCorrect` | `RelayTypeOK` | inductive by itself |
| `DeletionSafe` | `NeverDeletedUnseen`, for any number of relays | `UnseenInv`: a relay about to delete a row has shown it (`ShownBeforeDelete`). `NeverDeletedUnseen` is not inductive alone: nothing in it says why the row may be deleted now |
| `SendsClaimed` | `SendsOnlyClaimedRows` | `BatchInv`: rows seen by the SELECT are still PENDING at the UPDATE (`SeenPending`), so all of them transition and the returned prefix is the whole selection; rows held are PROCESSING (`HeldClaimed`) |
| `DuplicatesExplained` | `NoUnexplainedDuplicate` | `CopiesAccounted`: the copies of a row by where it stands. At most `losses` copies wherever it can be sent again, one more where it only remains to be deleted |
| `StrandingExplained` | `StrandedOnlyByFailure` | `Idle` and `HeldClaimed`: a row in PROCESSING is in the batch of the relay or something has disturbed it |
| `RelayImplementsDelivery` | the specification implements `AlertDelivery` | initial states map to initial states; each of the actions maps to `Accept`, `Refuse`, `Show`, `Settle` or a stutter, using `BatchInv` where a step is allowed only once |

### MarketDataProofs

VpinEngine (`EngineAssumption`)

| Theorem | States | Argument |
|---|---|---|
| `VpinSumsMatchArrays` | `SumsMatchArrays` | `VpinInv`: the shape of both rings, and that the running sums are theirs whenever the engine is `rebased`. A bar changes one slot of a ring, and the sum of a function that is changed in one place changes by the difference (`SumWithOneChanged`); `_o1_rebuild` sums afresh whatever was there. Before the first reset the scores lie in front of slots that hold zeros (`ScoresInFront`), which the refinement needs |
| `VpinImplementsSliding` | the specification implements `SlidingVpin` | each bar maps to the abstract one. A ring is unrolled from its index, oldest first; that the next bar drops the oldest is a renaming of the summands. The z-score is compared without a division: the code's `n * sum of squares - square of the sum` is `n` times the sum of squared deviations of the abstract module (the variance identity, proved by summation over subsets) |

BybitFeed (`FeedAssumption` of that module)

| Theorem | States | Argument |
|---|---|---|
| `FeedTypeCorrect` | `FeedTypeOK` | inductive by itself; nothing is connected unless the task reads |
| `FeedSyncedMissesNothing` | `SyncedMissesNothing` | a guard becomes synced only by a snapshot and stays so only by a delta without a hole; between the guard and the end of `on_snapshot` the frame in hand has none (`NoHoleInHand`), whatever clears the guards meanwhile. What is lost in front of a frame travels with it. The book was shown every update; the one its consumer raised at it may lack |

LiquidityDetectors (`DetectorAssumption`)

| Theorem | States | Argument |
|---|---|---|
| `DetectorTypeCorrect` | `DetectorTypeOK` | inductive by itself; the deque stays within `HistoryBuckets` |
| `RunCorrect` | the types with `RunInv` | the run is the last trades of the tape, of one side, in one window, and no sweep yet (`RunIsOnTape`); and it began where a sweep or its cooldown, the other side, or the end of a run that was too small left off (`RunBegan`) |
| `BurstsAreHeard` | `BurstIsHeard` | at the last trade of an unheard burst the run cannot have begun before the burst, or it would be a sweep; by `RunBegan` it began at the burst's first trade or where the window of an earlier run was over, and of `2 * MinTrades - 1` trades one of the two parts has `MinTrades` |
| `AlertsGenuine` | `AlertsAreGenuine` | sweeps from `RunInv`. For pulses `DequeInv`: the deque ascends, holds of each bucket the sums the tape gives, and what it lacks is older than all it has while it is full. The median is a number that enough of the sequence does not exceed (`RankedIs`), so that a pulse above `K` medians stands out of half of what is known |

### TrainingSetProofs

TrainingSet (`BarAssumption`, `LabelerAssumption`, `StoreAssumption`, `TrainingAssumption`, `SmallTrades`)

| Theorem | States | Argument |
|---|---|---|
| `TypeCorrect` | `TypeOK` | a part of `TrainInv` |
| `RowsPairRightly` | `PairsMatch` | `TrainInv`: the index leads from each id to the last record with it (`Leads`), labels wait only for ids without a record (`Waiting`), a record's label is its own, or of a stray (`Paired`), and a record of this run is whole, the one its id leads to, and not due any more (`Fresh`) |
| `LabelsAreNotLost` | `UnlabelledIsOpenOrEvicted` | the same invariant: an intent whose features are due has a slot, lost it, or its label waits (`Owed`), so that its record is accounted for from the moment it is appended (`Accounted`) |
| `BarsHoldTheirTrades` | `BarsAreExact` | `BarsInv`: count and rest are the volume of the tape (`Counted`), the open bar shows the trades that fell into it (`InWork`), each row of the ring those of its bar (`RingExact`). Rows and trades are numbered by a division with rest whose uniqueness is proved (`SameRest`, `SameRestApart`), also across the lap of the ring |
| `LabelsAreByTheTrades` | `LabelsArePessimistic` | `LabelsInv` over `BarsInv`: no closed bar since its entry has touched an open intent (`OpenUntouched`), and a label given stays right, because closed bars get no more trades (`ClosedBarsStay`). `SmallTrades` keeps the rows the labeler reads away from the zeroed one |

The functions that run through the bars of a trade and through the labels of a call are handled by a lemma each which says that
a function of single steps exists and that two of them agree (`BarsRunExists`, `BarsRunAgree`, `LabelsRunExists`,
`LabelsRunAgree`); everything else about them is then an invariant of a step (`Handled`, `Put`).

### OperatorProofs

BlindnessWatch (`WatchAssumption`)

| Theorem | States | Argument |
|---|---|---|
| `WatchTypeCorrect` | `WatchTypeOK` | with `QueueSize` as the bound of the queue |
| `ScreenIsTrue` | `ScreenIsLastToldUnlessHeld` | the watchdog's latest notice is the rearmost of queue, worker and screen that holds one (`RearmostIsLatest`, `WorkedOffIsShown`), unless it was dropped or held back |

OperatorGate (`SentinelAssumption`, `GateAssumption`)

| Theorem | States | Argument |
|---|---|---|
| `TypeCorrect` | `TypeOK` | with the numbering of capsules (`CapsulesNumbered`) |
| `SpentOnce` | `ReplayOnlyAfterEviction` | `CacheIsTail`: the cache holds the nonces spent last |
| `LockIsKept` | `NoStrikeDuringLock` | `LockHolds`: a lock that has not run out is kept by the tilt state or covered by BLIND, through every phase of `_evaluate` |
| `StrikesWhatIsSeen` | `SeenIsStillTrue` | `StaleShows`: a capsule shown before the latest change of operator or session can be told by session or generation (`OutdatedShows`), one shown before the latest change of intent by the version beside it or by the revocation (`SupersededShows`) |
| `RevokedIsOver` | `RevokedNeverStrikes` | `PushedIsOver`: what was pushed as revoked is an older version or marked, so no click that names it strikes, with whatever capsule |

### PersistenceProofs

EventBus (`BusAssumption`)

| Theorem | States | Argument |
|---|---|---|
| `TypeCorrect` | `TypeOK` | inductive by itself |
| `AcknowledgedOnlyDelivered` | `NotAcknowledgedUnhandled` | an UPDATE is queued or written only for a handled event |
| `PublishedIsAccounted` | `NothingVanishes` | `BusInv`: an event is in one place at a time (`Once`), the writer meets the INSERT of a row before its UPDATE (`Ordered`), and a handled event whose row is or will be PENDING has its UPDATE queued (`Owed`) |

IngestionBuffer (`BufferAssumption`)

| Theorem | States | Argument |
|---|---|---|
| `BufferTypeCorrect` | `BufferTypeOK` | inductive by itself |
| `DeliveredAtLeastOnce` | `AtLeastOnceFromRedis` | `CommittedIsApplied`: a statement is acknowledged only after the database executed it; every transaction on the lists keeps what they hold but that one |
| `NothingElseVanishes` | `VanishesOnlyWithItsPlace` | `ReadIsElsewhere`: the lines of the file that the sentinel has read are in Redis or executed already, so the file may be deleted at its end, and an interrupted drain be repeated; or they are accounted for as `forgotten` or `spoilt`. `LateIsSpoilt`: a line that went into a file the sentinel had taken counts as spoilt, whether the reader met it whole or not. What a write leaves of the lines before it is a lemma about `Put` |

### CrossAssetSnapshotProofs

L2Book, L2Resync and CrossAssetSnapshot (`BookAssumption`, `ResyncAssumption`, `SnapshotAssumption`)

| Theorem | States | Argument |
|---|---|---|
| `TypeCorrect` | `TypeOK` | `Types`: the shape of the pump's request, feeds follow their connections, the ring of a book holds frames that were sent and only while the book is empty |
| `UsedOnlyConnected` | `UsableOnlyConnected` | `Requests`: no request is younger than the epoch, and during an outage none is asked for unless REST failed (`OutageIsQuiet`) |
| `StuckOnlyByOthers` | `StuckOnlyByForeignDrop` | `WaitingIsAskedFor`, and what `pending` suppresses is on its way (`PendingIsUnderWay`) |
| `HolesOnlyByRaces` | `HoleOnlyByRace` | `Places`: with `U` no book has a hole, whatever its state; without it the feed goes on where the book or its ring ends (`GoesOn`), and an answer that nothing overtook fits the ring (`Fits`). The replay of the ring is the function of L2Book; lemmas about it are proved over the least position that fails |
| `PassedWasSo` | `PassesOnlyWhatWas` | `HeldIsKept`: a book whose `read_epoch` did not grow goes on from the one the snapshot was computed from, so that its levels then are those of its updates up to there. It needs `BooksEnd`: a book takes nothing beyond its `u`, and a later frame closes no hole behind it |

### ReconnectReconcilerProofs

SchrodingerLedger and ReconnectReconciler (`LedgerAssumption`, `ReconcilerAssumption`)

| Theorem | States | Argument |
|---|---|---|
| `TypeCorrect` | `TypeOK` | `LedgerInvariant`, below |
| `CountedOnce` | `ConfirmedIsExecuted` | `ConfirmedBelow`: no more is confirmed than the **settled** orders bought. With all orders in place of the settled ones the invariant is not inductive: it would not say that the order which a report, an answer or a position now settles was not counted before |
| `ShadowIsSafe` | `ShadowCoversExchange` | `ConfirmedAbove`, and `PositionIsTrue`: what is known of a position from its answer to its use, whatever is executed and reported in between |
| `NothingLeftBehind` | `ArbitratedIsSettled` | itself with `OnePerSymbol`, the rule of one order per symbol, by which the fold of `_arbitrate_position` has one order to settle |

### FiniteSums

The ledger sums over the orders of a symbol, the engine over rings, the detectors and the bars over trades. That an element can
be taken out, that one changed summand changes the sum by the difference, that a larger summand makes a larger sum, that two parts
add up, that summands can be renamed, and the variance identity are proved here from the library's definition of its fold: of
all subsets for which a statement fails, a smallest one is considered (`SubsetInduction`). The same argument over the least number
that fails stands for induction in the other modules (`LeastNumber`).

### What the proofs found

* `HoleOnlyByRace` had excused only books whose answer a delta overtook. The proof asked what else
  can happen between an answer and its ingestion, and the dropped snapshot of a new connection was the case that was missing. It takes two
  outages, and the instance now has them.
* `ConfirmedIsExecuted` held on an instance without a symbol that is both bought and sold. The proof of the arbitration step
  failed where the position is negative; with a buy and a sell in one symbol TLC finds the behaviour, which is the code's.
* The action that continues a reconciliation had overlapping CASE guards, so that its value was not determined by the definition.
* `BarsAreExact` took every trade at which the running volume lies inside a bar for one of that bar. Its proof failed for a trade worth
  less than one unit, which `ingest_trade` ignores (`dollar_bars.py:165`), so that the row need not show its price. `TradesOf` leaves such
  trades out, and the instance has one now.
* `LabelsArePessimistic` is false where one trade closes as many bars as the ring has slots (section 3); the proof needs
  `SmallTrades`, and the step that needs it is the one at which the labeler would read a row of zeros.
* Sorted sequences and folds over them say nothing to the prover. The loops of the labeler and the store are functions with
  one step as an operator of its own (`AfterBar`), a place in an order is the element with so many before it (`NthSlot`,
  `NthPlace`), and the median is of ranks and not of a sorted sequence (`Ranked`).

### Only model-checked

* Every liveness property (`EventuallyDelivered`, `SilenceNoticed`, `Recovers`, `ReconciliationEnds`, `RedisIsWorkedOff`, `QueuedIsHandled`,
  `SettlesAfterFaults`, `StopEnds`): fairness and ENABLED are out of the prover's reach. TLC checks them on the instances of
  section 3, under the fairness stated there.
* That each mutant violates its property, which is a question about one instance.

## 5. What is abstracted or left out

* Payloads, texts and formatting; that a payload may be impossible to format is kept.
* Clocks: an interval is an action that may happen (`FallDue`, `CoolDown`, `FallSilent`), except in
  LiquidityDetectors and OperatorGate, where times decide and are numbers.
* Floating point: integers, as said above.
* The file-based recovery phase of the notifier, which nothing calls; the outbox repository of
  `infrastructure/sqlite_outbox.py`, which nothing uses; hot reload but for the restart it is.
* How a threshold follows from a day's turnover.
* The sequence lock around the L2 ring: its writer and its reader run in one thread. The `seq` check of
  `ingest_delta`: a feed's `seq` grows with its `u`, so it rejects nothing the other checks let pass.
  A restart of the exchange's numbering. Prices and quantities, but for whether an update near the top sets or removes its level; the 50 levels per side to which `write_frame` cuts a buffered
  delta (a larger one, replayed, would leave a hole in the levels that no sequence number shows); the age of the data and the circuit breaker of a snapshot.
* That orders are dispatched only when `is_strike_allowed` says so: it is the ledger's documented contract with its caller, which `record_dispatch` (`schrodinger_ledger.py:162-193`) does not
  enforce, and ReconnectReconciler assumes.
* The hot swap of the multiplexer (`hot_swap_processors`), which nothing calls: a command is lost when a frame is ready at the same
  moment (`ws_multiplexer.py:435`), an acknowledgement that fails ends it half-way, and a reconnect subscribes the initial
  symbols only. It multiplies the state of L2Resync by its queues and layouts and is the first candidate if the code starts to use it.
* Cryptography (a signature binds the fields it signs), prices and the audit trail of the ledger, the circuit breaker around single statements and the DDL of the
  database manager, the healer, pings and trades of the book feed, `bybit.py`'s REST client and private stream, averages and profits of the training code.
* The state healers: `application/state_healer.py` does not await the coroutines of the flight recorder it calls, so most of what follows is never reached;
  supervision, kill switches and the rest of section 1's last rows.

## 6. Plan

The invariants, action properties and refinements of the modules are proved. What could follow is model:

1. `hot_swap_processors` of the multiplexer, if the code starts to call it: its command queues and acknowledgements beside L2Resync.
2. The dead man's switch and the quarantine (`application/dead_mans_switch.py`, `quarantine.py`), if a later version starts them again.
3. Several relays over one table, once `fetch_pending` returns the rows its UPDATE transitioned: the four theorems that assume
   `OneRelay` should then hold without it.
