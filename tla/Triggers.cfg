SPECIFICATION Spec
CONSTANTS
  a = a
  b = b
  p = p
  q = q
  Event = {a, b}
  Worker = {p, q}
  DeliveryMode = {"polling", "push"}
  Happenings = {"again", "expiry", "fault", "crash", "delete"}
  MaxHappenings = 2
INVARIANTS Inv PastIsAccounted
PROPERTIES EveryMessageSettles
CHECK_DEADLOCK FALSE
