SPECIFICATION Spec
CONSTANTS
  a = a
  b = b
  t1 = t1
  t2 = t2
  t3 = t3
  Exec = e
  Thread = {t1, t2, t3}
  Replica = {a}
  Upgraded = {}
  Metering = "reserved"
  Faults = {"crash"}
  MaxFaults = 2
  MaxAsks = 1
  MaxEpoch = 4
PROPERTIES EveryExecutionSettles
CHECK_DEADLOCK FALSE
