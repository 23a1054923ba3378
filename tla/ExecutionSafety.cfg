SPECIFICATION Spec
CONSTANTS
  a = a
  b = b
  t1 = t1
  t2 = t2
  t3 = t3
  Exec = e
  Thread = {t1, t2}
  Replica = {a, b}
  Upgraded = {b}
  Metering = "reserved"
  Faults = {"crash", "store", "lease"}
  MaxFaults = 1
  MaxAsks = 1
  MaxEpoch = 2
SYMMETRY Chains
INVARIANTS Inv AtMostOneCall UsageTruthful AcknowledgedIsSettled
PROPERTIES KeepsLeaseContract
CHECK_DEADLOCK FALSE
