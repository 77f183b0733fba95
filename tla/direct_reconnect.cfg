CONSTANTS
  Brokers = {1, 2}
  MaxPendingFrames = 1
  MaxPendingBytes = 2
  WireLens = {1}
  Payloads = {"none"}
  WarmupFlags = {FALSE}
  MaxTime = 1
  MaxGeneration = 2
  MaxFramesPerRead = 1
  MaxReads = 1
SPECIFICATION HandlerFairSpec
CHECK_DEADLOCK FALSE
INVARIANT EngineAgreesWithReceiver
PROPERTY PendingEventuallyDrained
