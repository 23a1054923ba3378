SPECIFICATION Spec
CONSTANTS
  e1 = e1
  e2 = e2
  p = p
  a = a
  s1 = s1
  s2 = s2
  NoJob = NoJob
  NoSlot = NoSlot
  Event = {e1, e2}
  Endpoint = {p}
  Replica = {a}
  Slot = {s1, s2}
  Volatile = {e1}
  MaxAttempts = 2
  Happenings = {"crash", "store", "lease", "edit"}
  MaxHappenings = 1
INVARIANTS Inv SelectionComplete DeliveredJobsClosed
PROPERTIES LogStands InOrder EveryEventDelivered
CONSTRAINT InTurn
CHECK_DEADLOCK FALSE
