SPECIFICATION Spec
CONSTANTS
  a = a
  b = b
  t1 = t1
  t2 = t2
  t3 = t3
  Exec = e
  Thread = {t1, t2}
  Replica = {a, b}
  Upgraded = {}
  Metering = "reserved"
  Faults = {}
  MaxFaults = 0
  MaxAsks = 1
  MaxEpoch = 2
SYMMETRY Chains
PROPERTIES SweepSparesLiveRuns
CHECK_DEADLOCK FALSE
