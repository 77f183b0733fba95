CONSTANTS
  Producers = {p, q}
  Brokers = {b}
  MaxQueueRecords = 1
  MaxQueueBytes = 2
  Sizes = {1, 2}
  MaxCalls = 2
  MaxDay = 2
SPECIFICATION FairSpec
CHECK_DEADLOCK FALSE
PROPERTY FlushesReturn
