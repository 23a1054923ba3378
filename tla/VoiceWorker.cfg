SPECIFICATION Spec
CONSTANTS
  t1 = t1
  t2 = t2
  s1 = s1
  s2 = s2
  x = x
  y = y
  NoOne = NoOne
  NoCall = NoCall
  NoTurn = NoTurn
  Kind = {"chat", "media"}
  Turn = {t1, t2}
  Input = {x, y}
  Slot = {s1, s2}
  MaxCalls = 2
  MaxLog = 16
  Happenings = {"crash", "outage", "interrupt", "stop", "again"}
  MaxHappenings = 3
INVARIANTS Inv UnansweredIsPending
PROPERTIES ImplementsLog MediaEnds
CHECK_DEADLOCK FALSE
