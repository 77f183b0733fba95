CONSTANTS
  Parts = {"batches", "ack", "runtime", "replay"}
  Idle = Idle
  Capacity = 1
  MaxSequence = 2
  BatchCount = 2
  IngressCapacity = 1
  RawCapture = TRUE
  MaxConnections = 3
  MaxEpoch = 2
  MaxSession = 1
  Receivers = {1}
  ChannelCapacity = 1
  BatchMax = 2
  MaxFrames = 1
  Ticks <- RecordedTicks
  MaxTime = 2
  LastSession = 2
  MinBatch = 1
  MaxBatch = 1
  ForwardSlack = 1
  SnapLimit = 1
SPECIFICATION MCSpec
CHECK_DEADLOCK FALSE
INVARIANTS
  TypeOK CommittedIsAccepted CommittedIsDurable AcknowledgementsMatch
  RuntimeCorrect ReplayCorrect
PROPERTIES
  ImplementsTickStream NothingWaitsForEver
