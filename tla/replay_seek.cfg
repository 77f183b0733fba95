CONSTANTS
  Parts = {"replay"}
  Idle = Idle
  Capacity = 1
  MaxSequence = 1
  BatchCount = 1
  IngressCapacity = 1
  RawCapture = FALSE
  MaxConnections = 1
  MaxEpoch = 1
  MaxSession = 1
  Receivers = {1}
  ChannelCapacity = 1
  BatchMax = 1
  MaxFrames = 1
  Ticks <- RecordedTicks
  MaxTime = 2
  LastSession = 2
  MinBatch = 1
  MaxBatch = 2
  ForwardSlack = 1
  SnapLimit = 1
SPECIFICATION MCSpec
CHECK_DEADLOCK FALSE
INVARIANT NoTickFromTheFuture
