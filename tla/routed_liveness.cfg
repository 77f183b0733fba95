CONSTANTS
  Brokers = {1}
  MaxPendingFrames = 2
  MaxPendingBytes = 2
  WireLens = {1}
  Payloads = {"none"}
  WarmupFlags = {FALSE}
  MaxTime = 2
  MaxGeneration = 2
  MaxFramesPerRead = 1
  MaxReads = 1
  CloneOutcomes = {TRUE}
  SpawnOutcomes = {TRUE, FALSE}
SPECIFICATION HandlerFairSpec
CHECK_DEADLOCK FALSE
INVARIANT TakeoverCorrect
PROPERTY SupersededEventuallyEnds
