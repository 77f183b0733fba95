CONSTANTS
  Brokers = {1}
  MaxPendingFrames = 2
  MaxPendingBytes = 2
  WireLens = {1}
  Payloads = {"none"}
  WarmupFlags = {FALSE}
  MaxTime = 1
  MaxGeneration = 2
  MaxFramesPerRead = 1
  MaxReads = 1
  CloneOutcomes = {TRUE}
  SpawnOutcomes = {TRUE}
SPECIFICATION HandlerSpec
CHECK_DEADLOCK FALSE
PROPERTY GenerationNeverRegresses
