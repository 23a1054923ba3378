SPECIFICATION FairSpec
CONSTANTS
  a = a
  b = b
  d1 = d1
  d2 = d2
  e = e
  NoWorker = NoWorker
  NoGroup = NoGroup
  Job = {e}
  Worker = {a, b}
  LaneOf <- MCLaneOf
  GroupOf <- MCGroupOf
  OrderOf <- MCOrderOf
  Concurrency = 2
  LeaseTicks = 2
  RetryTicks = 1
  Skew <- BFast
  MaxClaims = 2
  MaxFaults = 1
INVARIANTS Inv AtMostOneHolder
PROPERTIES ImplementsContract EveryJobFinishes
CHECK_DEADLOCK FALSE
