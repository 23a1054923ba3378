SPECIFICATION FairSpec
CONSTANTS
  a = a
  b = b
  d1 = d1
  d2 = d2
  e = e
  NoWorker = NoWorker
  NoGroup = NoGroup
  Job = {d1, d2}
  Worker = {a}
  LaneOf <- MCLaneOf
  GroupOf <- MCGroupOf
  OrderOf <- MCOrderOf
  Concurrency = 2
  LeaseTicks = 2
  RetryTicks = 1
  Skew <- NoSkew
  MaxClaims = 2
  MaxFaults = 1
INVARIANT GroupOrderKept
PROPERTY EveryJobFinishes
CHECK_DEADLOCK FALSE
