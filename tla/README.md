# A formal model of TickScope

TickScope collects live ticks from several MetaTrader 5 terminals, orders them
by the time they were received and compares the brokers' quotes. This directory
holds TLA+ modules of the program, the TLC configurations that check them on
small instances, and theorems about the core with proofs checked by TLAPS. Paths
below are relative to the repository's `src/`.

## 1. Inventory

| Part | State | Operations | Hard behaviour |
|---|---|---|---|
| Collector EA (`mt5/TickCollector.mq5`, `SocketClient.mqh`) | session id, next sequence, tick cursor, pending batch, phase, settings | collect ticks, send batch, poll acknowledgement, warm up, heartbeat, reconnect, load settings | lost acknowledgements, resends, restarts, many ticks in one millisecond |
| Wire decoder (`protocol/codec.rs`, `packet.rs`) | byte buffer, consumed prefix | push, next frame | frames cut anywhere, defects |
| Receiver (`transport/tcp.rs`) | generation, clock sample, decoded frames, activity timer | accept, read, persist, submit, acknowledge, report progress, close | one clock sample per read, blocking submission, failures in the middle of a read |
| Router (`transport/router.rs`) | generations, active sockets, threads | handshake, take over, spawn, unregister, idle progress, stop | overlapping connections of one broker |
| Runtime (`runtime/coordinator.rs`, `state/snapshot.rs`) | bounded channel, engine lock, wake flag, snapshot, running flags | start, submit, receive, signal, build, publish, stop, join | back-pressure, lost wake-ups, shutdown |
| Tick engine (`tick/engine.rs`) | per broker: connection, generation, watermark, queued frames, byte counter, ledger, session, offset; quote tables; everything below it feeds | on_ingress_item, merge, overflow drain, process_frame, reset, replay entry points | several feeds, slow feeds, reconnects |
| Sequence ledger (`tick/ledger.rs`) | expected number, exact window | observe, reset | retransmission, eviction, saturation |
| Time (`tick/normalize.rs`, `config/timezone.rs`, `core/civil_date.rs`) | active offset, verified flag | normalise, detect the offset, daylight saving, calendar | candles of a provisional offset, season changes |
| Charts' series (`tick/candle.rs`, `tick_candle.rs`, quote path of `engine.rs`) | slots, bars, points | fold a tick, prune, view, rebuild | late ticks, merged points, times of a seek |
| Pair analysis (`tick/matcher.rs`, `metrics/lead_lag.rs`, `price_diff.rs`) | anchors, cooldowns, waiting events, points | observe a quote, match, expire | events out of order, several candidates |
| Projection (`tick/projection.rs`, `metrics/burst.rs`, `consensus.rs`, `spread.rs`) | health states, recent events and ticks | build what the screen shows | stale and disconnected feeds |
| Behaviour of a broker (`metrics/persistence.rs`, `fingerprint.rs`, `hypothesis.rs`) | durations, open leads, counters | record, expire, evaluate | answers after the window, little data |
| Statistics of the program (`metrics/latency.rs`, `diagnostics.rs`) | rings, sample channel, CSV rows | record, percentile, summarise, stop | a full channel, the last interval |
| Log writer and reader (`storage/*`) | command queue, byte budget, fault, files | append, append durably, flush, finish, read back | worker failure, budgets, cut-off files |
| Replay (`replay/*`) | virtual clock, arbiter's memory, partitions, stream cursor, pump | play, pause, seek, follow TickReplay's messages | a seek during a pass of the pump, missing months |
| Terminals, deployment (`runtime/terminal_manager.rs`, `deploy/*`, `main.rs`) | resolved paths, last scan, stop threads; files and their times | poll, launch, stop; write sources and map, compile | processes that come and go, a crash between two files |
| Dashboard (`ui/dashboard/*`, `ui/settings.rs`) | pair, visible brokers, order, targets, settings, time zone, dirty flag, saved file | edit, save, load, reconcile | edits against the engine's pair, another configuration at the next start |
| Price axis of the charts (`ui/chart/scale.rs`) | anchor, latch | follow the quotes | the same quotes drawn again and again |
| Drawing, command line, configuration loading | - | - | not modelled |

How they interact: an EA sends one batch at a time over TCP. The receiver thread
of its broker (or a thread per routed connection) samples the clock once per
read, decodes, writes the raw frame to the log, submits the frame to the bounded
ingress channel and acknowledges it. The engine worker takes the items of all
brokers from that channel and calls the engine under its lock; the engine feeds
candles, detectors and metrics. The publisher takes the same lock to build the
snapshot that the dashboard draws. In replay a WebSocket thread follows TickReplay
and a pump calls the engine instead of the receivers. At start-up TickScope deploys
the EA and may start the terminals.

What makes the core correct: no tick is processed twice or lost silently
(ledger, acknowledgements, log); frames of all brokers are processed in receive
order (merge); memory stays within the configured budgets; the engine's view of a
connection follows the connection's life; a seek shows the state of its target and
nothing else; what is drawn is computed from live, comparable quotes; nobody waits
for ever.

## 2. What is modelled

### Ingress and merge

`SequenceLedger` is the ledger as data: `Classify`, `Observed` and `GapBefore`
are the three results of `observe`. `LedgerSession` drives one ledger with
numbers in any order and counts, per number, how often it was let through as new
and how often it was reported in a gap. `ChangeSession` is the reset of
`process_frame` when a frame of another session arrives. `MaxSequence` stands for
`u64::MAX`, so the saturation of `record_new` is reached.

`TickMerge` is the engine's `on_ingress_item_at`, and everything it calls as far as
the channels and the quote tables go. Its loops are steps of their own
(`ForceDrain`, `MergeFront`), with `phase` telling where the handler is; no item is
taken until `phase` is `"idle"` again, which is the engine lock. A frame is a record
of broker, receive time, wire length, warm-up flag and what its payload does to the
quote tables. `Mergeable` and `Precedes` are the merge key. The code's key also has
the generation and the frame index of the front frame, which never decide because
two fronts have different broker ids. What else `process_frame` feeds does not feed
back into the merge and is in the modules below.

`IngressChannel` is what every thread shares: the clock, the bounded channel
(`MaxPendingFrames` times the number of brokers, as the coordinator makes it) and
the worker. `DirectIngest` adds one receiver thread per broker
(`mt5.auto_deploy` off). A read and its clock sample are one step (`Read`), the
submission of each frame another (`SubmitFrame`), so everything may happen in
between. `CloseConnection` is every way `handle_connection` returns. Persistence and
acknowledgement are left out here: a failure of either is a `CloseConnection` in the
middle of a read. The receive clock never reads 0, its origin: the merge gives
warm-up frames the key 0.

`RoutedIngest` is the same pipeline behind the shared router (`mt5.auto_deploy` on).
The connection threads of one broker overlap: a takeover (`Route`) registers the new
connection and shuts the old one's socket, the old thread ends when it gets to it. The
router's idle progress (`StartProgress`, `RouterSample`, `RouterProgress`) visits
every broker, connected or not, and the map of receivers in any order. `Route` is
one step although the code takes the registry lock and then spawns: in between,
only guards of older generations can touch the registry, and they leave it alone.
`CloneOutcomes` and `SpawnOutcomes` say which failures are explored. With
`try_clone` failing, the next takeover has no socket to shut and
`OneOpenConnection` does not hold; the runs leave that failure out and explore
failing threads.

### From the EA to the ledger

`StopAndWait` is the way of one broker's ticks from the EA to the ledger. The EA's
side is its pending batch (`Collect`, `Send`, `PollAndCommitAck`, `AckTimeout`), its
socket (`Connect`, `ConnectionLost`) and its reload (`ReloadEA`); each connection has
two channels and a receiver thread that reads, persists, submits and acknowledges one
batch at a time. A connection breaks at any time, with what it carries or not, and
a thread that holds a batch goes on with it: that is how resent batches and late
ones come about. `RestartTickScope` kills TickScope, of which only the raw log
survives; the new start has a new epoch, which the EA reads with its settings
before it connects and answers with a new numbering (`PerformWarmup`). Epochs are
different because `main.rs` takes them from the clock, in seconds, whenever it
deploys the connection map (`mt5.auto_deploy`). `ingress` stands for the channel and
the broker's queue together, because the merge keeps one broker's frames in order;
`ObserveTick` is the ledger, one tick a step. `ack_mode` is "on": with "off" the EA
never gets an acknowledgement and reconnects every two seconds.

`TickStream` is what the pair promises: ticks are processed one by one in the order
they were collected, none twice and none left out. `ImplementsTickStream` is the
refinement, with the EA's numbered ticks as `collected`.

`TickCursor` is below `Collect`: how the EA walks the terminal's history, which it can
only address by the millisecond. History grows, with several ticks a millisecond,
loads while a warm-up asks for it (`HistoryLoaded`), and `Collect` is
`CollectAndStreamTicks` with its batch limit, its scan limit and its retries of empty
answers. MetaTrader's history and `CopyTicks` are external.

`StreamingDecoder` receives a stream of frames cut into chunks at any place: a byte is a
cell that knows its frame and its place in it, so what the decoder makes of the bytes
can be compared with what was sent. `Push` and `NextFrame` keep the buffer, its
consumed prefix and the compaction; the header's and payload's tests are one defect
each. There is no resynchronisation in the code: an error ends the connection.

`AsyncLogger` is producers calling `try_append`, `append_durable` and `flush` of the
raw log writer, step by step as `try_enqueue` does it (look at the fault, reserve
bytes, send, give the bytes back), and the worker thread with every failure it
handles. A broker's log is the sequence of its records over all its files, and
`synced` the part that is on stable storage: buffered records are lost with the
machine. When the worker ends, the commands left in the channel are dropped: a durable
append whose command is dropped returns with an error, because its only reply sender
went with the command, but `flush` keeps the sender it cloned and is never answered.
`Finish` waits for the producers, as `wait_for_shutdown` does. `LogFile` is
one file read back after a crash has cut it anywhere or a byte was damaged.

### The runtime

`Runtime` has the threads of `RuntimeCoordinator` from start to shutdown: receiver
threads (their submission with its test of `running`, its time-outs and the raw log
they append to), router and connection threads, the engine worker (`WorkerTests`,
`WorkerTakes`, `WorkerSignals`), the publisher with the wake flag and its time-out, and
the steps of `stop` and `wait_for_shutdown`. What an item does to the engine is
`TickMerge`'s business; here the engine is the number of items it has processed.

### Replay

`VirtualClock` is the clock of `clock.rs` as data. `ReplaySession` has the threads of a
replay: the WebSocket thread, whose rebuild of the state on a seek is split at every
lock and every write that another thread can see (`BumpEpoch`, `FreezeClock`,
`ResetState`, `WarmUp`, `UnlockEngine`, `SeekStream`, `SetClock`), the pump, one step
for each thing it reads (`PumpReadsClock`, `PumpPops`, `PumpRechecks`,
`PumpDispatches`), the publisher and `stop`. The merged history is a constant.

`SyncArbiter` is what one message of TickReplay does: trade overlay, direct quote, the
decision between a seek and a playback update, the clock's phase. TickReplay plays,
pauses, seeks with or without a new epoch and reloads; a unit of time is about 250 ms.
`ReplaySources` is where the merged history comes from: monthly partitions that may be
missing or unreadable, each source's cursor with its receive delay, and the merge.

### Terminals and deployment

`Deployment` writes the EA's sources and the connection map file by file, truncating
and writing as two steps, compiles, and may be killed between any two; the EA reads
the map at the same time. `TerminalManager` polls, launches and stops, with the stop
thread in its steps, while terminals end and are started, and executables installed
and removed, without it. The system may refuse each call of the stop thread: a null handle of
`OpenProcess`, a failed wait and a failed `TerminateProcess` all end the thread without a
word and leave the terminal running (`"refused"`), and the stop may be asked for again.

### Analysis and charts

Sequential components under the engine lock; each is one action per operation, fed
with inputs in any order the engine can give them, and keeps as history what it was
fed, so that its state can be compared with a definition of what it should be.

* `EventMatcher`: the move detectors and the one-to-one matcher of the active pair.
* `PairDifference`: the difference series, with the engine's choice of the two quotes.
  Ticks come with any receive times, because a frame forced out of an overflowing queue is
  processed before earlier ones of the other broker; the check of `tick/engine.rs:916`
  keeps a quote younger than the tick out. Connections end, the pair is exchanged, a seek
  resets.
* `BrokerBehaviour`: quote durations, open leads, fingerprint and hypotheses of one
  broker; frequencies are pairs of counters.
* `Consensus`: median, outliers and crossing of the quotes, in integers.
* `MarketView`: the engine's health states and recent events, and what the projection
  makes of them: freshness, the comparable pair, burst and breadth, tick rate.
* `CandleBook`, `TickCandles`, `QuotePath`: the three series that the charts draw.
* `TimeAlignment`: a broker's offset, from rule, heartbeat or ticks, and the candles that
  were made with it. `CivilTime`: the date conversions and daylight-saving rules against
  a calendar walked day by day.
* `LatencyMetrics`, `Diagnostics`: rings and percentiles; the sample channel, the worker
  and its CSV rows.
* `Dashboard`: the choices that outlive a run: edits, frames that save, the next start
  with the same or another configuration. The charts' time zone has two setters, the quick
  settings, which mark it (`ChooseTimezone`), and the clock badge, which does not
  (`ClickClock`); a frame's comparison leaves it out. `clock_clicked` remembers, for the
  property alone, that the clock was clicked since the last save. `ChartScale`: the fixed
  price axis, frame by frame.

## 3. Runs

| Run | Checks | Instance | Result |
|---|---|---|---|
| `direct_order` | `TypeOK`, `BytesWithinBudget`, `FramesWithinBudget`, `NothingOvertaken`, `MergeInReceiveOrder` | `DirectIngest`, `HandlerSpec`: 2 brokers, 1 connection each, 2 frames per read, warm-up and live, sizes 1 and 3, byte budget 2, time 1..2 | pass |
| `direct_reconnect` | `EngineAgreesWithReceiver`, `PendingEventuallyDrained` | 2 brokers, 2 connections each, fairness | pass |
| `direct_quotes` | `DisconnectedHasNoQuote` | 2 brokers, frames with quotes | violated |
| `routed_liveness` | `TakeoverCorrect`, `SupersededEventuallyEnds` | 1 broker, 2 connections, `try_clone` succeeds, a thread may fail to start, fairness | pass |
| `routed_generation` | `GenerationNeverRegresses` | 1 broker, 2 connections | violated |
| `routed_order` | `MergeInReceiveOrder` | 2 brokers, 1 connection each | violated |
| `async_logger` | `TypeOK`, `BytesAccountedFor`, `LogHasNoHole`, `ConfirmedIsSafe`, `FlushCoversAccepted`, `AcceptedIsWritten`, `CallsReturn` | 2 producers, 2 calls each, sizes 1 and 2, byte budget 2, channel of 1, 2 days | pass |
| `async_logger_flush` | `FlushesReturn` | the same instance | violated |
| `threads` | `StopAndWait`: `TypeOK`, `CommittedIsAccepted`, `CommittedIsDurable`, `AcknowledgementsMatch`, `ImplementsTickStream`; `RuntimeCorrect`, `ReplayCorrect`, `NothingWaitsForEver` | see below, fairness | pass |
| `components` | a property for each component or group of components, see below; `ResetsAreCaused`, `EpochsGrow`, `ExplicitPathIsUsed` | see below | pass |
| `stop_and_wait_reload` | `GapsWereNotObserved` | 2 sessions, 2 connections | violated |
| `replay_seek` | `NoTickFromTheFuture` | 3 ticks of 2 brokers, 2 seeks | violated |

`HandlerSpec` of `DirectIngest` and of `RoutedIngest` runs each handler call to completion
before anything else moves; the runs of the two modules use it. That is sound for every property here: the handler's steps touch
engine variables only and no other step reads them, so they commute with all other
steps. `CHECK_DEADLOCK FALSE` is set wherever the bounds make the bounded system stop.

`MCComponents` and `MCThreads` put components into one run each. The initial state
chooses one, which then runs alone: their state spaces are added, not multiplied.
`MCComponents` extends the components whose one property is theirs alone, with their own
variables and the bounds of the .cfg; while another one runs they rest in an initial
state. The others are instances that take turns with the variables `v1` to `v11`. In
`MCThreads`, where fairness names each part's variables, every part has its own;
`replay_seek` is the same module with the replay alone. The properties are conjunctions
of the invariants of the modules, and contain each module's type invariant:

| Property | Invariants |
|---|---|
| `LedgerCorrect` | `LedgerSession`: `AcceptedAtMostOnce`, `EveryNumberAccountedOnce`, `WindowConsistent`, `DuplicatesWereDelivered` |
| `TakeoverCorrect` | `RoutedIngest`: `OneOpenConnection`, `ConnectedChannelHasOwner` |
| `ArbiterCorrect` | `SyncArbiter`: `RebuiltForEverySeek`, `PausedClockAgrees`, `OverlayShowsTrades`, `DirectQuoteIsCurrent` |
| `SourcesCorrect` | `ReplaySources`: `PlayedInOrder`, `NothingLost`, `PlayedFromTarget` |
| `CollectorCorrect` | `TickCursor`: `StreamIsTheHistory`, `BlockedOnlyByBurst` |
| `DeploymentCorrect`, `ManagerCorrect` | `Deployment`: `ReportedEaIsCurrent`; `TerminalManager`: `StopHitsOwnTerminal`, `StopTakesEffect` |
| `MatcherCorrect` | `EventMatcher`: `NoPairLeftWaiting`, `MatchedOnce`, `LeaderMovedFirst`, `EventsAreSpaced` |
| `DecoderCorrect`, `LogFileCorrect` | `StreamingDecoder`: `FramesSurviveChunking`, `OnlyDefectsRefused`, `BufferIsBounded`; `LogFile`: `WholeRecordsReadBack` |
| `CandlesCorrect` | `TickCandles`: `BarsConnect`, `OnlyLastIsUnconfirmed` |
| `OffsetCorrect` | `TimeAlignment`: `OneOffsetPerBook`, `OnlyVerifiedCandles`, `FoundOffsetIsTheServers` |
| `ChartsCorrect` | `PairDifference`: `SeriesIsSynchronized`; `CandleBook`: `SlotsFoldTheirTicks`, `VisibleWindowKept`, `OnlyLastIsRunning`; `QuotePath`: `PathSorted`, `ConsensusIsMedian`, `PointsShowTheirTime`; `ChartScale`: `FollowedIsInSight`, `NarrowQuotesStandStill`; `Dashboard`: `PairIsUsable`, `SavedIsShown`, `TimezoneIsSaved` |
| `FiguresCorrect` | `MarketView`: `DisconnectedContributesNothing`, `AnalysedIsShownLive`, `BreadthWithinFeeds`, `BurstIsComplete`, `TickRateIsExact`; `Consensus`: `OutliersAreAMinority`, `CrossedAsTheRangesSay`; `CivilTime`: `ConversionsMatchCalendar`, `DstMatchesCalendar`, `ReplayAgreesWithLive`; `LatencyMetrics`: `RingHoldsMostRecent`, `PercentileIsNearestRank`; `Diagnostics`: `EverySampleAccountedFor`, `NothingHeldAtTheEnd`; `BrokerBehaviour`: `DurationsAreLifetimes`, `LeadsAnsweredOnce`, `HypothesesAreNested` |
| `ResetsAreCaused`, `EpochsGrow`, `ExplicitPathIsUsed` | steps of `SyncArbiter`, `Deployment` and `TerminalManager` |
| `RuntimeCorrect` | `Runtime`: `LostOnlyAfterStop`, `SleeperIsCurrent`, `LoggerOutlivesThreads` |
| `ReplayCorrect` | `ReplaySession`: `EngineHoldsOneSession`, `NothingSkipped`, `ShownWhenDue` |
| `NothingWaitsForEver` | `StopAndWait`'s pending batch, `Runtime`'s shutdown, `ReplaySession`'s due ticks |

### Bounds

Two brokers are the least for which the merge has a choice, and its properties compare
pairs of brokers. A frame budget of 1 makes the overflow path and a full channel (two
items) ordinary events. The order properties compare two times, so two instants give a
frame that is late, and one that overtakes it. With frames of 1 and 3 bytes the
frame budget and the byte budget of 2 are each exceeded alone. Two connections cover
the overlap of an old and a new one. `direct_reconnect` fixes the clock at its first
instant, which the connections do not depend on; a frame still waits for the other
broker's watermark to come up to that instant. The ledger has capacity 2 and numbers
0 to 8: evictions happen after three ticks, and a resend may come after the eviction.

For `StopAndWait`, three connections let a batch be held by the threads of two broken
connections while it is sent over a third; a ledger of capacity 1 has evicted the first
number of a batch of two when the batch is seen again. Safety is checked with two ticks
in batches of up to two, liveness with single ticks and a second session of the EA. For
`AsyncLogger` the channel of one record and the byte budget of two make both limits
bind, alone and together. `Runtime` has one receiver, direct or routed: the threads of
several brokers meet only in the channel, and one receiver, a worker that takes batches
of two and a channel of one already give a sender that waits while the worker sees an
empty channel. `ReplaySession` in `threads` has two ticks and two sessions, three ticks
of two brokers in `replay_seek`.

The other bounds are in `components.cfg` and in `MCComponents` at each instance: rings, windows and batches of
one to four elements, so that each of them fills and evicts, one more tick, event or
edit than that, and times on both sides of every threshold. The calendar is walked for
800 days from five dates: before the epoch, at a leap century, at a century that is no
leap year, and now. `MaxConnections`, `MaxEpoch`, `MaxSession`, `MaxCalls`, `MaxDay` and
the constants named `Max...` or `Last...` of the other modules bound what the code leaves
unbounded; faults of `StopAndWait` are only taken while a connection is left, so the
last one is faultless. The matcher has two waiting events a side and five quotes, so that a move meets
several candidates and one is pushed out.

### Fairness

The worker thread always runs and the clock advances (weak). A thread in
`submit_ingress_item` stays registered with the channel while it waits, and each
item the worker takes wakes one waiting sender, so its turn comes although others
fill the channel up again (strong). A waiting accept or read times out every
progress interval, so `IdleSample` is weakly fair. Nothing is assumed about peers:
no connection need ever come, deliver a frame or close, except that a read of a
socket that was shut down returns. In `StopAndWait` the EA's timer runs its handlers
and threads go on with what they hold (weak); nothing says when a connection breaks,
but their number is bounded. In `AsyncLogger` every thread is scheduled (weak) and no
call need ever be made; retries end because each producer makes finitely many calls.
In `Runtime` every thread and the thread that stops the others are scheduled (weak);
the submission's and the wait's time-outs are steps of their threads. In
`ReplaySession` the pump and the WebSocket thread are scheduled (weak), with a stop once
it joins; TickReplay sends what it likes, the clock advances when it likes.

## 4. What the violated runs show

* `direct_quotes`: a disconnected broker's queued frames are processed later, under
  another broker's item, and put its quotes back (`tick/engine.rs:846`);
  `tests/replay_test.rs:544` expects a disconnected broker to have none.
* `routed_generation`: `Connected` of a superseded connection may be handled after
  its successor's (`tick/engine.rs:420`), and its `End` then disconnects the live
  one; `tests/transport_test.rs:553-557` expects the order of the generations.
* `routed_order`: the router's idle progress passes a frame that a connection thread
  has sampled and not submitted (`transport/router.rs:108`); the merge then releases
  frames out of order without the overload that `tick/engine.rs:642-643` gives as the
  only exception. In `DirectIngest` the same thread takes both samples, and the order
  is proved.
* `async_logger_flush`: the worker fails while a flush is in the channel. `flush`
  (`storage/tlog_writer.rs:525`) sends a clone of its reply sender and keeps the first
  one while it waits, so dropping the command does not end the wait, and the error it has
  for this case, "Logger worker stopped before flush completed", is never returned. Every
  other call returns (`CallsReturn`, in `async_logger`).
* `stop_and_wait_reload`: a batch of the EA's previous session, held by the thread of a
  superseded connection, is submitted after a batch of the new session and resets the
  ledger (`tick/engine.rs:698`). The next batch resets it again, and a gap is reported
  for ticks that were processed; numbers seen before would be taken as new. Without a
  reload (`threads`) the same late batches are harmless.
* `replay_seek`: a seek raises the session number before it freezes the clock
  (`replay/driver.rs:274`). A pass of the pump that starts in between has the new number
  and the old time; its two re-checks pass, and it puts ticks from after the target
  into the rebuilt engine. `ReplayCorrect` holds for every session no such pass straddled.

### Other observations

Met while modelling, not stated as properties of a run:

* `replay/sync_client.rs:48`: `stop()` joins a thread whose inner loop does not test
  `running`; it returns only after the WebSocket closes (`ReplayStopReturns`).
* `storage/tlog_reader.rs:90`: a file cut inside a record's length field is taken to end
  cleanly.
* `replay/arbiter.rs`, `clock.rs`: a drift beyond the snap limit is never corrected by
  `sync_phase`; malformed position data are remembered as applied; pausing drops the time
  since the clock was written.
* `replay/merge_stream.rs:52`: a broker whose next month is empty is passed over, so its
  ticks may come after later ones of other brokers (`PlayedInOrder` excludes such months).
* `replay/parquet_source.rs`: seeking into a month that is missing keeps the old
  partition; the merged stream's `load_for_utc_ms` stops at the first unreadable source.
* `tick/engine.rs:728-757` takes a broker's offset from its last live tick, which after a
  market pause is an old one (`FoundOffsetIsTheServers` is about offsets found from recent ones).
* `tick/engine.rs:975-1050`: a warm-up point of the quote path shows the other brokers'
  current quotes; `PointsShowTheirTime` is about live and replayed points.
* `ui/chart/scale.rs:201`: when two quotes are further apart than the stationary zone is
  wide, following one edge puts that quote on the zone's border, where it is not out any
  more; the next frame follows the other edge, and the axis alternates at every frame. The
  latch is there "to prevent jitter!" (`scale.rs:640`); `NarrowQuotesStandStill` is about
  quotes that lie closer together, and about the median.
* `ui/chart/common.rs:244`: a click on the clock badge of a replay toggles the persisted
  time zone without marking the state, and the comparison at the end of a frame
  (`ui/dashboard/mod.rs:852`) leaves the time zone out. Until something else is marked or the
  program ends in order the choice is not saved, and a process that dies loses it.
  `TimezoneIsSaved` says that a click is the only way to that.
* `tick/projection.rs`: a disconnected broker keeps the freshness `Live`.
* `OneToOneEventMatcher::advance_watermark`, `CandleBook::advance_utc` and the events of
  `RepricingPersistenceTracker` have no caller, `record_tick` is always told that the tick
  is neither stale nor an outlier, and `eval_spread_first_response` never has evidence.
* `ui/dashboard`: the pickers of the pair offer hidden brokers; deselecting every MT5
  target is undone at the next start (`ui/settings.rs:423`).

## 5. Proofs

Every theorem holds for all values of the constants under the named assumptions: for
the threads what `AppConfig::validate` enforces (`CapacityAssumption`,
`BudgetAssumption`, ...) and a finite, non-empty set of broker ids, for the other
components the operator `...Limits` of the module, which TLC evaluates for the instances
it checks. The numbers of connections, sessions, calls, days, ticks and edits are
arbitrary too. Every safety invariant and action property of a passing run is proved:
`ChartsCorrect` and `FiguresCorrect` one component at a time, because as conjunctions
they belong to the instances of `MCComponents`.

`Shared_proofs` has what several proofs use. tlapm's induction theorems take an operator
as a parameter, which the provers cannot instantiate; lemma `Induction` says the same for
a set of numbers, and follows from the well-foundedness of finite sets. With it come
`LeastExists` and the lemmas on `TotalOf`, the sum of a sequence of sizes as a recursive
function, when an element is added or taken out. The lemmas on the ledger say what
`Classify` and `Observed` do to one whose two copies of the exact window agree
(`WellFormed`); the components and `StopAndWait_proofs` use them.

### Ingress and merge

* `TickMerge_proofs`: how each step of the handler changes the queues, and a submission
  the channel; used for both pipelines. `FramesWithinBudget` needs `BudgetInv`: in the
  overflow phase only the current item's broker may be over its budget, and in the merge
  phase nobody. For `BytesWithinBudget` the engine's byte counter is followed through every
  push and pop as the total of the queue's wire lengths.
* `DirectIngest_proofs`: `TypeCorrect`, `BudgetKept`, `BytesKept`, `EngineAgrees`,
  `NothingIsOvertaken` and `ReceiveOrder` for the pipeline. `EngineAgreesWithReceiver`
  speaks of an empty channel; `AgreeInv` says what holds
  while items are under way. An `End` comes after the `Connected` of its own connection,
  in the channel or as the last one handled (`EndFollowsConnected`), so the handler's
  test of the generation never rejects it; the last such item in the channel says what
  the receiver is doing now (`LastIsCurrent`); where there is none the engine knows it
  (`EngineKnows`).
  For the receive order, `OrderInv` follows a receive time along its whole way, from the
  clock through the thread's sample, the channel and the queue: samples never exceed the
  clock, a broker's items enter the channel in the order of their times, its watermark is
  a lower bound for everything of its own still to come (`SampleLast`, `ChannelSorted`,
  `WatermarkIsLeast`), frames only follow a `Connected` item (`FramesAfterConnect`,
  `FramesWhileConnected`), so that a broker without a watermark in the minimum has no
  frame on its way. Lemma `NothingOlder` combines them when the merge releases a frame.
* `RoutedIngest_proofs`: `TypesAreCorrect`, `BudgetKept`, `BytesKept`,
  `OneConnectionIsOpen`, `ConnectedChannelsEnd`, and `TakeoverIsCorrect`, which is the
  property of the run. The takeover needs `TakeoverInv`: a connection that is neither
  ended nor shut is the registered one, and it is registered with its socket, for which
  `try_clone` must succeed (`CloneOutcomes = {TRUE}`; where it fails the next takeover
  has nothing to shut). Threads may fail to start. `OwnerInv` follows a connection from
  its `Connected` item on: while that item is in the channel, or its generation is the
  engine's, its `End` is still to be submitted or behind it in the channel. That a thread
  still to come has no past (`ThreadInv`) keeps `Route` from reviving one.

### From the EA to the ledger

`StopAndWait_proofs` has three invariants, each needing the ones before it.

* `WaitInv` gives `AckIsForPendingBatch` and `CommittedTicksAreDurable`, neither of
  which is inductive. It says where the pending batch of the live connection
  is (`OneInFlight`: on the way, with the thread, answered, or nowhere, and only one of
  them), that what the thread has written is logged under the epoch the EA will commit
  it for (`LoggedBeforeAck`), and that a batch of an older session cannot be pending on a
  connection (`PendingIsOfSession`). Threads of other connections disturb none of it
  (lemma `OldThreadKeepsInv`).
* `TypeInv` gives `TypesAreCorrect`; besides the types it says that a batch is a run of
  consecutive numbers, wherever it is.
* `DeliveryInv` gives `CommittedTicksAreAccepted`. A copy of a batch may be with the
  threads of many broken connections, so it speaks of all copies: none is of a later
  session or of numbers not collected yet (`CopiesInv`); what is queued of this session
  has every earlier number of it before it, accepted or queued (`QueueInv`); the
  ledger refuses no number that was not processed (`LedgerInv`).
* `StreamInv` - what is processed is 0, 1, 2, ..., and a ledger of the current session
  expects the next one - gives the refinement, `ImplementsStream`: every step of the EA, of the
  threads, of the engine and of a fault is a step of `TickStream` or changes nothing
  there. It has the hypothesis `SessionsInOrder`: no batch of an earlier start of the EA
  is taken after one of a later start. Without it the refinement is false, for the
  reason the run `stop_and_wait_reload` shows: the late batch resets the ledger, and the
  next one of the current session opens a gap over ticks that were processed.
  `OneStartImplementsStream` discharges the hypothesis where the EA is not reloaded, as
  in `threads`; `GapsAreTrue` shows that nothing else makes a gap untrue.
  With two sessions and the hypothesis TLC finds the refinement to hold too, in
  287 492 states.

### The raw log writer

`AsyncLogger_proofs`: `TypesAreCorrect`, `LogsHaveNoHole`, `ConfirmedRecordsAreSafe`,
`FlushesCoverAccepted`, `AcceptedRecordsAreWritten`, from `LoggerInv`;
`BytesAreAccountedFor`, with totals over the channel and over the producers.

* A record carries its producer and the number of the call, so it is accepted once
  (`AcceptedOnce`), and a place in the order of acceptance is an index: the argument
  compares indices and needs no induction over the sequences.
* `QueueIsTheRest`: while the worker works, the accepted records of a broker are the
  written ones, then the one the worker holds, then the queued ones, in order, with
  nothing between them. `WrittenInOrder` keeps the first part after the worker has
  ended; `NothingLeft` is the end without a failure; `EndsForAReason` says that it ends
  on a failure or with the producers gone and the channel empty.
* `FlushIsBehind`: what a flush must cover is written, with the worker, or before it in
  the channel. `OneWaiter`: a producer waits for one answer at a time.
* `AnsweredIsSafe`: a record is safe from the answer on, before its producer has read
  it; what is safe is never lost (`ConfirmedIsSafe`).

### Components

`Components_proofs`, one section per component:

* The ledger of one session after another: `TypeCorrect`, `Accounting`, `AtMostOnce`,
  `WindowBounded`, `DuplicatesDelivered`, together `LedgerIsCorrect`.
  `EveryNumberAccountedOnce` alone is not inductive: `LedgerInv` needs the exact window to
  hold only numbers below the expected one (or the last number, where the addition
  saturates) that were delivered, and the two copies of the window to agree, for which the
  eviction queue must have no repetitions.
* The runtime: `NothingLostBeforeStop`, `NoLostWakeup`, `LoggerEndsLast`, together
  `RuntimeIsCorrect`, for any number of receivers, channel and batch sizes. `RuntimeInv`
  has a part for each: a frame accepted in time is processed or in the channel
  (`ChannelKeeps`) until the worker, which looks at the channel after the flag, leaves it
  empty (`WorkerLeaves`); with the wake flag clear the publisher's steps from projection
  to sleep have seen what was signalled last (`WakeFlag`); once the router has joined its
  connection threads and the coordinator the others, no step starts one again
  (`ThreadsEnd`).
* The replay: `ReplayIsCorrect`. A pass of the pump that belongs to the current session and
  began before its rebuild was over is known as early, and has strayed once it has taken
  ticks. `ReplayInv` says of every other current pass that its time was reached and that the
  ticks it holds follow the ones in the engine; the theorem is about all sessions that no
  pass strayed into, and `replay_seek` shows the others.
* `ArbiterIsCorrect` and `EngineResetsHaveACause`: where the last message was no seek, the
  position and the epoch the arbiter remembers are TickReplay's, but for the steps TickReplay
  has played since (`ArbiterInv`); the next message is compared with those.
* `SourcesAreCorrect`: `SourcesInv` puts what was played behind the cursors and what is
  ahead of a sought source at or after the target, and lets the next tick of every broker
  come after the latest one played. The limits are what the loader gives: sorted months that do
  not overlap, ticks of their month, and no retention longer than a month. `PlayedInOrder` has a
  hypothesis, that no readable month is empty: `peek` enters one partition at a time and
  finds nothing in an empty one, so the merge passes over that broker, and its later ticks come
  out of order, although `merge_stream.rs:52` promises the next tick of all sources.
* `CollectorIsCorrect`: the cursor stands for a place in the history (`CursorInv`: the ticks
  of its millisecond it has seen are the first ones), and what is streamed is the history
  up to there. That a place in a sorted history is found by counting needs `Induction`.
* `DeploymentIsCorrect` and `EpochNeverFallsBack`: the files a start has passed hold its
  release; a compiled EA was built from the content of every source that is not newer, and
  files written now are newer than any compilation (`DeployInv`).
  `ManagerIsCorrect` and `ExplicitPathAlwaysWins`: a process number belongs to the executable
  it was started from for good, and what the last scan says of a broker is a process of the
  broker's executable (`ManagerInv`). A stop whose calls succeed leaves no process, also
  after an earlier one of the same process was refused; a refused call leaves it running, and
  nothing more is claimed of it.
* `MatcherIsCorrect`: a detector's anchor and cooldown are those of its last event
  (`DetectorInv`); the waiting events and the matches are of numbers that were given, each
  waiting event once (`QueueInv`).
* `DecoderIsCorrect` and `LogFileIsCorrect` speak about strings of cells: what is in the
  buffer, or was read of the file, is a piece of the frames put one behind the other, found
  through the ends of the frames (`DecoderInv`, `LogInv`, `ReaderInv`). Joining and cutting
  strings is a section of its own, by `Induction`.

### Figures

`Figures_proofs`, one section per component:

* `CandlesAreCorrect`: a bar is only reused while it is the last one and has not moved
  (`CandlesInv`).
* `DiagnosticsAreCorrect`: where the worker is says what the interval, the windows and the
  channel may still hold (`DiagnosticsInv`), so that the samples recorded are those in the rows,
  in the interval, in the channel and counted as dropped.
* `OffsetIsCorrect`: only with a fixed rule is an offset found, and it stays until the rule
  changes (`OffsetInv`). A server's offset is of whole hours, which the code rounds to.
* `PairIsCorrect`: the stored points are the last of those offered, every one of them made of two
  quotes received at or before its tick, not too old and in step; the one before them was dropped
  for its age or for the number. Nothing is assumed of the receive times of the two brokers
  against each other. The order of the points needs each broker's own ticks in order
  (`in_order`), which the queues give: then one of the two quotes is not older than the last
  point (`PairInv`), and by the check of `tick/engine.rs:916` no later point lies before it.
* `BookIsCorrect`: every slot is the candle of the ticks that fell into it, and a tick without a
  slot is older than the cutoff (`BookInv`). First and last, highest and lowest of the ticks of
  a slot are followed through every new tick. The ticks are of 1970 or later and a slot is kept
  beyond the retention (`BookLimits`; the code keeps five).
* `ViewIsCorrect`: what a detector or tracker has dropped is outside its window for good,
  because the clock does not go back (`ViewInv`).
* `ScaleIsCorrect`: after a frame the anchor is where the median, or the edges with the
  latch, put it (`ScaleInv`). `Deadzone <= Half`, and prices at least
  `Deadzone`, so that no anchor looks like the value for none.
* `CalendarIsCorrect`: the two conversions are inverse on every day, not only on walked
  ones: in Rust's truncating arithmetic, era by era, year by year. `CivilInv` says that the
  walk is where the conversion is, with the weekday and the Sundays counted so far.
* `BehaviourIsCorrect`: a price stands since the time it was first heard, so the stored
  durations are the last differences of those times (`BehaviourInv`). The hypotheses nest
  because a median over a threshold stays over a smaller one; the thresholds are in order
  as the defaults are (30, 100 and 250 ms).
* `LatencyIsCorrect`: cell by cell the ring is the end of the list of samples (`RingInv`),
  and the value at a place of the ascending order has as many values at or below it as its
  place says.
* `ConsensusIsCorrect`: with a multiplier of at least 2 (the code has 3.0) half of the
  deviations are at or below the median deviation, so fewer than half are beyond it; the
  proof counts places of the ascending order, no quote is from the future (`QuotesInv`).
* `DashboardIsCorrect`: reconciling what was reconciled changes nothing, and a choice not yet
  saved leaves the state dirty (`DashboardInv`). The time zone is saved or marked too,
  unless the clock was clicked since the last save (`ZoneKept`). The places that
  `cycle_pair` computes are those of two different visible brokers, for any number of
  brokers.
* `PathIsCorrect`: every point shows the prices of its time and their median, wherever it
  was put in, merged or rebuilt (`PathInv`). The rebuild is a fold over the replayed ticks, which come
  sorted (`MergeStream::get_warmup_ticks` sorts them): `Induction` over it says what is
  drawn after each tick.

`Aggregates` tells an ascending order by counting the places of its elements: of n values
with keys exactly one stands at each place, which the section on it proves from
cardinalities.

### Invariants checked first

TLC checked the invariants above on small instances: `DeliveryInv` on 343 208 states
(two sessions, three connections, batches of two), `LoggerInv` on 2 272 012 (two
producers with two calls, two brokers, a channel of two), `AgreeInv` on 2 412 205
(two brokers, three connections each), `TakeoverInv` and `OwnerInv` on 1 006 020 (one
broker, three connections, failing threads), `RuntimeInv` on 6 601 066 (two receivers, a
channel of two).

### Only model-checked

Liveness and everything that needs ENABLED are outside the prover's reach:
`PendingEventuallyDrained`, `SupersededEventuallyEnds`, `CallsReturn` and
`NothingWaitsForEver` are checked on the instances of the runs alone. So is the refinement of
`TickStream` with more than one start of the EA, whose hypothesis `SessionsInOrder` the
program does not keep. That the components agree with each other where one feeds another,
which no module composes (`process_frame` as a whole), is neither checked nor proved.

## 6. Plan

Done: every component of the inventory but drawing, the command line and the loading of the
configuration has a module, every module its run, every safety property its theorem.
Worth doing next: one module for `process_frame` that composes the merge with the tables it
feeds, so that the histories the charts assume (quotes in receive order, offsets before
candles) are the merge's; the refinement of the routed pipeline to the direct one where no
two connections of a broker overlap; the two hazards no property covers, for which the EA's
`ack_mode` and the closing of TickReplay's socket would have to be modelled.

## 7. Not modelled

Drawing, layout, fonts, colours and the window (`ui/*` but for the choices of
`Dashboard` and the axis of `ChartScale`): presentation. Parsing of the command line and
of the configuration, logging. CRC and field layouts of the protocol: a defect is one
place where a frame can be refused. Floating-point arithmetic: prices are integers, and
means, spreads and scores that nothing else depends on are left out. The partition cache
and Parquet's column format. Windows' reuse of process numbers.
