CONSTANTS
  Brokers = {1, 2}
  MaxPendingFrames = 1
  MaxPendingBytes = 2
  WireLens = {1}
  Payloads = {"quote"}
  WarmupFlags = {FALSE}
  MaxTime = 2
  MaxGeneration = 1
  MaxFramesPerRead = 1
  MaxReads = 1
SPECIFICATION HandlerSpec
CHECK_DEADLOCK FALSE
INVARIANT DisconnectedHasNoQuote
