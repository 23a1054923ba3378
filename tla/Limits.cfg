SPECIFICATION LimitsSpec
CONSTANTS
  a = a
  b = b
  c = c
  Caller = {a, b, c}
  RefillLimit = 2
  IntervalMs = 3
  Burst = 2
  Quota = 3
  WindowMs = 2
  Cap = 1
  MaxTime = 5
  MaxSetBacks = 1
INVARIANTS LimitsInv LimitsHold
