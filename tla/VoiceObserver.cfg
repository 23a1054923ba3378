SPECIFICATION Spec
CONSTANTS
  a = a
  b = b
  NoOne = NoOne
  Observer = {a, b}
  Selected = {"turn", "end"}
  Wanted = TRUE
  PageSize = 1
  RetryLimit = 2
  MaxLog = 3
  Happenings = {"fault", "crash", "lease", "boot", "late", "slow"}
  MaxHappenings = 3
INVARIANTS Inv CompletedIsWhole GrantDies GivenUpForAReason
PROPERTIES NothingTakenBack Settles
CHECK_DEADLOCK FALSE
