CONSTANTS
  Brokers = {1, 2}
  MaxPendingFrames = 1
  MaxPendingBytes = 2
  WireLens = {1, 3}
  Payloads = {"none"}
  WarmupFlags = {FALSE, TRUE}
  MaxTime = 2
  MaxGeneration = 1
  MaxFramesPerRead = 2
  MaxReads = 1
SPECIFICATION HandlerSpec
CHECK_DEADLOCK FALSE
INVARIANTS TypeOK BytesWithinBudget FramesWithinBudget NothingOvertaken
PROPERTY MergeInReceiveOrder
