SPECIFICATION Spec
CONSTANTS
  e1 = e1
  e2 = e2
  e3 = e3
  k = k
  m = m
  f = f
  g = g
  NoExec = NoExec
  Exec = {e1, e2, e3}
  Key = {k, m}
  KeyOf <- Keyed
  Flusher = {f, g}
  RetryDelay <- Doubling
  Saturation = 2
  Strict = FALSE
  Rejected = {}
  Happenings = {"cloud", "expiry", "store", "crash", "drain"}
  MaxHappenings = 1
INVARIANT Inv
PROPERTY EveryDispatchCounted
CHECK_DEADLOCK FALSE
