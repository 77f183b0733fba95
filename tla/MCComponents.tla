----------------------------- MODULE MCComponents -----------------------------
(***************************************************************************)
(* Components that are checked for safety alone, for TLC, in one run: one of *)
(* them runs in a behaviour.  The modules whose theorems are proved are      *)
(* extended, with their own variables and the bounds of the .cfg, and rest   *)
(* in an initial state; the others are instantiated with their bounds and    *)
(* take turns with the variables v1 to v11, so that a state costs as much as  *)
(* its component's.  Nothing here models code.                               *)
(***************************************************************************)
EXTENDS LedgerSession, SyncArbiter, TickCursor, Deployment, TerminalManager,
        EventMatcher, ReplaySources, StreamingDecoder, LogFile, TickCandles, TimeAlignment

CONSTANT Idle    \* what a variable the component does not need holds

VARIABLES
  component,   \* the component that runs
  v1, v2, v3, v4, v5, v6, v7, v8, v9, v10, v11

\* Terminals: one broker has a configured executable and another one discovered.
ExplicitExes == <<"a", "no exe">>
DiscoveredExes == <<"b", "b">>

ASSUME ArbiterWithinLimits == ArbiterLimits
ASSUME CursorWithinLimits == CursorLimits
ASSUME DeploymentWithinLimits == DeployLimits
ASSUME TerminalsWithinLimits == ManagerLimits
ASSUME MatcherWithinLimits == MatcherLimits
ASSUME SourcesWithinLimits == SourcesLimits
ASSUME DecoderWithinLimits == DecoderLimits
ASSUME LogFileWithinLimits == LogFileLimits
ASSUME CandlesWithinLimits == CandlesLimits
ASSUME OffsetWithinLimits == OffsetLimits

\* Two brokers' recorded ticks: a month is missing, one file is not readable, and
\* two ticks share a time.
Partition(month, ticks, readable) ==
  [begins |-> 3 * month, ends |-> 3 * (month + 1), ticks |-> ticks, readable |-> readable]

ReplayHistory ==
  << <<Partition(0, <<1, 2>>, TRUE), Partition(1, <<3, 5>>, TRUE), Partition(2, <<7>>, FALSE)>>,
     <<Partition(0, <<1, 1>>, TRUE), Partition(2, <<6, 6>>, TRUE)>> >>

ReplayDelay == <<0, 1>>

\* Warm-ups of a seek, in the order get_warmup_ticks gives them.
Tick(b, t, m) == [broker |-> b, at |-> t, mid |-> m]

ReplayedTicks ==
  { << >>, <<Tick(1, 1, 1)>>,
    <<Tick(1, 1, 1), Tick(2, 1, 2), Tick(2, 4, 1), Tick(1, 5, 2)>>,
    <<Tick(1, 1, 1), Tick(1, 2, 2), Tick(2, 2, 1)>> }

\* Firsts of a month before the epoch, at a leap century, now, and at a century
\* that is no leap year.
CalendarStarts ==
  { [day |-> -25567, date |-> <<1900, 1, 1>>, weekday |-> 1],
    [day |-> -92, date |-> <<1969, 10, 1>>, weekday |-> 3],
    [day |-> 10957, date |-> <<2000, 1, 1>>, weekday |-> 6],
    [day |-> 20454, date |-> <<2026, 1, 1>>, weekday |-> 4],
    [day |-> 47482, date |-> <<2100, 1, 1>>, weekday |-> 5] }

\* One to three frames: good ones of two lengths, one with a bad payload, one with
\* a bad header, one too long.
AFrame(length, defect) == [payload_length |-> length, defect |-> defect]

SentStreams ==
  UNION {[1 .. n -> {AFrame(1, "none"), AFrame(2, "none"), AFrame(2, "status"),
                     AFrame(1, "header"), AFrame(3, "none")}] : n \in 1 .. 3}

Latency == INSTANCE LatencyMetrics WITH
  RingCapacity <- 4, Stamps <- {0, 1, 2, 4}, MaxRecords <- 6, ring <- v1,
  samples <- v2
Profile == INSTANCE Diagnostics WITH
  StageCount <- 2, SampleCapacity <- 2, MaxSamples <- 5,
  sampleChannel <- v1, dropped <- v2, windows <- v3,
  interval <- v4, rows <- v5, summarizer <- v6, stopRequested <- v7,
  recorded <- v8
Difference == INSTANCE PairDifference WITH
  PairPrices <- {1}, PairStale <- 2, MaxSkew <- 1, Visible <- 1,
  MaxPoints <- 2, LastReceived <- 3, MaxOffered <- 3, pair_quotes <- v1,
  ring_buffer <- v2, offered <- v3, in_order <- v4
Book == INSTANCE CandleBook WITH
  Period <- 2, TickTimes <- {0, 1, 2, 3, 5, 12}, Prices <- {1, 2}, Slots <- 1,
  Slack <- 1, MaxNow <- 6, MaxBookTicks <- 3, slots <- v1, latest_slot <- v2,
  utc_now <- v3, folded <- v4
Path == INSTANCE QuotePath WITH
  QuoteBrokers <- {1, 2}, MidPrices <- {1, 2}, PathTimes <- {1, 2, 4},
  MergeDistance <- 1, Stale <- 2, VisibleTicks <- 2, RebuildMax <- 3,
  RebuildWindow <- 2, Warmups <- ReplayedTicks, MaxPathTicks <- 2,
  realtime_quote_history <- v1, path_quotes <- v2, pathTicks <- v3
Scale == INSTANCE ChartScale WITH
  ScaleBrokers <- {1, 2}, ScalePrices <- {10, 14, 18, 24}, Half <- 5,
  Deadzone <- 4, scale <- v1, follow <- v2, chart_anchor <- v3,
  margin_edge_latch <- v4, candidates <- v5, drawn <- v6
View == INSTANCE MarketView WITH
  Feeds <- {1, 2}, MaxMono <- 3, StaleAfter <- 1, Skew <- 0, BurstWindow <- 1,
  RateWindow <- 1, MaxMerged <- 2, mono <- v1, connected <- v2, latest <- v3,
  last_live <- v4, recent_events <- v5, recent_ticks <- v6, merged <- v7
Middle == INSTANCE Consensus WITH
  Panel <- {1, 2, 3, 4}, Bids <- {1, 4}, Spreads <- {0, 1}, StaleAge <- 0,
  LastTick <- 1, MadMultiplier <- 3, quotes <- v1, at <- v2
Calendar == INSTANCE CivilTime WITH
  Starts <- CalendarStarts, Walk <- 800, day <- v1, civil <- v2,
  weekday <- v3, sundays <- v4, walked <- v5
Behaviour == INSTANCE BrokerBehaviour WITH
  QuotePrices <- {1, 2}, LastHeard <- 3, MaxQuotes <- 3, MaxMoves <- 1,
  Spans <- {0, 3}, MaxHistory <- 2, RepricingWindow <- 1, MinFollows <- 1,
  MinSamples <- 2, StickyAfter <- 1, AggregatedAfter <- 2, FilteredAfter <- 3,
  clock <- v1, persistence <- v2, durations <- v3, repricing <- v4,
  fingerprint <- v5, delays <- v6, heard <- v7
Dash == INSTANCE Dashboard WITH
  KnownBrokers <- {1, 2, 3}, DefaultPair <- <<2, 5>>, ConfigPair <- <<1, 2>>,
  MaxEdits <- 2, MaxStarts <- 2, brokers <- v1, up <- v2, app <- v3,
  state_dirty <- v4, frame_drawn <- v5, file <- v6, engine_pair <- v7, edits <- v8,
  starts <- v9, chart_timezone <- v10, clock_clicked <- v11

ASSUME InstancesWithinLimits ==
  /\ Profile!DiagnosticsLimits /\ Difference!PairLimits /\ Book!BookLimits
  /\ Scale!ScaleLimits /\ View!ViewLimits /\ Calendar!CivilLimits
  /\ Latency!LatencyLimits /\ Middle!ConsensusLimits /\ Behaviour!BehaviourLimits
  /\ Dash!DashboardLimits /\ Path!PathLimits

-----------------------------------------------------------------------------
\* The component that runs needs none of the variables from the k-th on: they hold
\* Idle (IdleK) and keep it (SameK).
Idle11 == v11 = Idle
Idle10 == v10 = Idle /\ Idle11
Idle9 == v9 = Idle /\ Idle10
Idle8 == v8 = Idle /\ Idle9
Idle7 == v7 = Idle /\ Idle8
Idle6 == v6 = Idle /\ Idle7
Idle5 == v5 = Idle /\ Idle6
Idle4 == v4 = Idle /\ Idle5
Idle3 == v3 = Idle /\ Idle4
Idle1 == v1 = Idle /\ v2 = Idle /\ Idle3

Same11 == UNCHANGED v11
Same10 == UNCHANGED v10 /\ Same11
Same9 == UNCHANGED v9 /\ Same10
Same8 == UNCHANGED v8 /\ Same9
Same7 == UNCHANGED v7 /\ Same8
Same6 == UNCHANGED v6 /\ Same7
Same5 == UNCHANGED v5 /\ Same6
Same4 == UNCHANGED v4 /\ Same5
Same3 == UNCHANGED v3 /\ Same4
Same1 == UNCHANGED <<v1, v2>> /\ Same3

ProvedVars ==
  <<vars, arbiterVars, cursorVars, deployVars, managerVars, matcherVars, sourcesVars,
    decoderVars, logFileVars, candleVars, offsetVars>>

\* The extended components: all but the one that runs rest.
Others(c) ==
  /\ IF c = "ledger" THEN TRUE ELSE UNCHANGED vars
  /\ IF c = "arbiter" THEN TRUE ELSE UNCHANGED arbiterVars
  /\ IF c = "cursor" THEN TRUE ELSE UNCHANGED cursorVars
  /\ IF c = "deployment" THEN TRUE ELSE UNCHANGED deployVars
  /\ IF c = "terminals" THEN TRUE ELSE UNCHANGED managerVars
  /\ IF c = "matcher" THEN TRUE ELSE UNCHANGED matcherVars
  /\ IF c = "sources" THEN TRUE ELSE UNCHANGED sourcesVars
  /\ IF c = "decoder" THEN TRUE ELSE UNCHANGED decoderVars
  /\ IF c = "log" THEN TRUE ELSE UNCHANGED logFileVars
  /\ IF c = "candles" THEN TRUE ELSE UNCHANGED candleVars
  /\ IF c = "offset" THEN TRUE ELSE UNCHANGED offsetVars

\* While they rest, one of their initial states is as good as another.
AnyInit ==
  /\ Init /\ ArbiterInit /\ CursorInit /\ DeployInit /\ ManagerInit /\ MatcherInit
  /\ SourcesInit /\ DecoderInit /\ LogFileInit /\ CandlesInit /\ OffsetInit
  /\ component # "arbiter" => features = [epochs |-> TRUE, revisions |-> TRUE, quotes |-> TRUE]
  /\ component # "cursor" => ~loading
  /\ component # "terminals" => installed = {}
  /\ component # "decoder" => stream = <<AFrame(1, "none")>>
  /\ component # "offset" => rule = "Fixed" /\ ~auto_utc_offset /\ ~summer /\ ~utc_verified

MCInit ==
  /\ \/ /\ component \in {"ledger", "arbiter", "cursor", "deployment", "terminals", "matcher",
                            "sources", "decoder", "log", "candles", "offset"}
        /\ Idle1
     \/ component = "latency" /\ Latency!LatencyInit /\ Idle3
     \/ component = "diagnostics" /\ Profile!DiagnosticsInit /\ Idle9
     \/ component = "difference" /\ Difference!PairInit /\ Idle5
     \/ component = "book" /\ Book!BookInit /\ Idle5
     \/ component = "path" /\ Path!PathInit /\ Idle4
     \/ component = "scale" /\ Scale!ScaleInit /\ Idle7
     \/ component = "view" /\ View!ViewInit /\ Idle8
     \/ component = "consensus" /\ Middle!ConsensusInit /\ Idle3
     \/ component = "civil" /\ Calendar!CivilInit /\ Idle6
     \/ component = "behaviour" /\ Behaviour!BehaviourInit /\ Idle8
     \/ component = "dashboard" /\ Dash!DashboardInit
  /\ AnyInit

LedgerRuns == component = "ledger" /\ Next /\ Others("ledger") /\ Same1
ArbiterRuns == component = "arbiter" /\ ArbiterNext /\ Others("arbiter") /\ Same1
CursorRuns == component = "cursor" /\ CursorNext /\ Others("cursor") /\ Same1
DeployRuns == component = "deployment" /\ DeployNext /\ Others("deployment") /\ Same1
TerminalsRuns == component = "terminals" /\ ManagerNext /\ Others("terminals") /\ Same1
MatcherRuns == component = "matcher" /\ MatcherNext /\ Others("matcher") /\ Same1
SourcesRuns == component = "sources" /\ SourcesNext /\ Others("sources") /\ Same1
DecoderRuns == component = "decoder" /\ DecoderNext /\ Others("decoder") /\ Same1
LogRuns == component = "log" /\ LogFileNext /\ Others("log") /\ Same1
CandlesRuns == component = "candles" /\ CandlesNext /\ Others("candles") /\ Same1
OffsetRuns == component = "offset" /\ OffsetNext /\ Others("offset") /\ Same1
LatencyRuns == component = "latency" /\ Latency!LatencyNext /\ Same3 /\ UNCHANGED ProvedVars
ProfileRuns == component = "diagnostics" /\ Profile!DiagnosticsNext /\ Same9 /\ UNCHANGED ProvedVars
DifferenceRuns == component = "difference" /\ Difference!PairNext /\ Same5 /\ UNCHANGED ProvedVars
BookRuns == component = "book" /\ Book!BookNext /\ Same5 /\ UNCHANGED ProvedVars
PathRuns == component = "path" /\ Path!PathNext /\ Same4 /\ UNCHANGED ProvedVars
ScaleRuns == component = "scale" /\ Scale!ScaleNext /\ Same7 /\ UNCHANGED ProvedVars
ViewRuns == component = "view" /\ View!ViewNext /\ Same8 /\ UNCHANGED ProvedVars
MiddleRuns == component = "consensus" /\ Middle!ConsensusNext /\ Same3 /\ UNCHANGED ProvedVars
CalendarRuns == component = "civil" /\ Calendar!NextDay /\ Same6 /\ UNCHANGED ProvedVars
BehaviourRuns == component = "behaviour" /\ Behaviour!BehaviourNext /\ Same8 /\ UNCHANGED ProvedVars
DashRuns == component = "dashboard" /\ Dash!DashboardNext /\ UNCHANGED ProvedVars

MCNext ==
  /\ UNCHANGED component
  /\ \/ LedgerRuns \/ LatencyRuns \/ ProfileRuns
     \/ ArbiterRuns \/ SourcesRuns \/ CursorRuns \/ DeployRuns
     \/ TerminalsRuns \/ MatcherRuns \/ DifferenceRuns \/ BookRuns
     \/ CandlesRuns \/ PathRuns \/ ScaleRuns \/ ViewRuns
     \/ MiddleRuns \/ CalendarRuns \/ OffsetRuns \/ BehaviourRuns
     \/ DecoderRuns \/ LogRuns \/ DashRuns

MCVars ==
  <<component, ProvedVars, v1, v2, v3, v4, v5, v6, v7, v8, v9, v10, v11>>

MCSpec == MCInit /\ [][MCNext]_MCVars

-----------------------------------------------------------------------------
\* The charts and the user's choices.  The difference series holds the newest points at
\* which both quotes were fresh and in step, in order (price_diff.rs); a slot folds the ticks that
\* fell into it whatever order they came in, the visible window is kept, only the last
\* slot runs (CandleBook); quote points stay sorted, their consensus is the median, and a
\* point shows the prices of its time (append and rebuild_quote_history, engine.rs); what
\* a fixed price axis follows is in sight and rests on quotes that stand still (scale.rs);
\* two brokers stay visible, the engine analyses the pair that is shown, and with nothing
\* left to save the next start shows what this one does, the time zone too unless the
\* clock was clicked since the last save (DashboardApp, settings.rs).
ChartsCorrect ==
  /\ component = "difference" => Difference!PairCorrect
  /\ component = "book" => Book!BookCorrect
  /\ component = "path" => Path!PathCorrect
  /\ component = "scale" => Scale!ScaleCorrect
  /\ component = "dashboard" => Dash!DashboardCorrect

\* The figures.  A disconnected feed contributes to none, the pair is analysed only while
\* it is shown live, a burst's breadth counts every feed once, a burst holds every event
\* of its window and the tick rate is the last second's (projection.rs, burst.rs,
\* spread.rs); fewer than half of the quotes are called outliers (consensus.rs); the
\* conversions of dates agree with the calendar day by day (civil_date.rs, timezone.rs,
\* driver.rs); the latency ring holds the most recent samples and its percentile is the
\* nearest rank (latency.rs); the profiler accounts for every sample (diagnostics.rs);
\* durations are the lifetimes of prices, a lead is answered at most once and the
\* hypotheses nest (persistence.rs, fingerprint.rs, hypothesis.rs).
FiguresCorrect ==
  /\ component = "view" => View!ViewCorrect
  /\ component = "consensus" => Middle!ConsensusCorrect
  /\ component = "civil" => Calendar!CalendarCorrect
  /\ component = "latency" => Latency!LatencyCorrect
  /\ component = "diagnostics" => Profile!DiagnosticsCorrect
  /\ component = "behaviour" => Behaviour!BehaviourCorrect
=============================================================================
