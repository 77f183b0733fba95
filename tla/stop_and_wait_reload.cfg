CONSTANTS
  Capacity = 1
  MaxSequence = 2
  BatchCount = 1
  IngressCapacity = 1
  RawCapture = FALSE
  MaxConnections = 2
  MaxEpoch = 1
  MaxSession = 2
SPECIFICATION Spec
CHECK_DEADLOCK FALSE
INVARIANT GapsWereNotObserved
