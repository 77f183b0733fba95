CONSTANTS
  Capacity = 2
  MaxSequence = 8
  LastTime = 3
  LastEpoch = 2
  LastTrade = 2
  HistoryMax = 1
  Deadband = 1
  Forward = 1
  Drift = 1
  BatchSize = 2
  MaxSameMsScan = 4
  ZeroRetries = 2
  LastMs = 3
  MaxTicks = 5
  SourceNames = {"ea", "protocol"}
  MaxVersion = 2
  MaxEpoch = 3
  Explicit <- ExplicitExes
  Discovered <- DiscoveredExes
  MaxPid = 2
  Mids = {1, 2, 3}
  LastReceive = 3
  MaxQuotes = 5
  Trigger = 1
  Cooldown = 1
  MatchingWindow = 2
  PendingCapacity = 2
  History <- ReplayHistory
  Delay <- ReplayDelay
  LastUtc = 8
  Retention = 3
  MaxSeeks = 2
  Streams <- SentStreams
  HeaderLength = 2
  MaxPayload = 2
  MaxChunk = 3
  EnvelopeLen = 2
  PayloadLens = {1, 2}
  MaxRecords = 3
  BarPrices = {1, 2, 3}
  BarTimes = {59, 60}
  MaxCandles = 2
  Threshold = 1
  MaxTickCount = 6
  Rules = {"NyClose", "Fixed", "Jst"}
  Configured = 8
  Server = 12
  Ages = {0, 1, 3, 5}
  Idle = Idle
SPECIFICATION MCSpec
CHECK_DEADLOCK FALSE
INVARIANTS
  LedgerCorrect ArbiterCorrect SourcesCorrect CollectorCorrect DeploymentCorrect ManagerCorrect
  MatcherCorrect DecoderCorrect LogFileCorrect CandlesCorrect OffsetCorrect ChartsCorrect
  FiguresCorrect
PROPERTIES
  ResetsAreCaused EpochsGrow ExplicitPathIsUsed
