SPECIFICATION Spec
CONSTANTS
  execution = execution
  selection = selection
  c1 = c1
  c2 = c2
  Job = {execution, selection}
  Client = {c1, c2}
  Follow <- Pair
  Retried = {execution}
  Stores = {TRUE, FALSE}
  MaxHappenings = 1
  MaxBehind = 1
INVARIANTS Inv ClosedLeavesNothing FollowUpAdmitted
PROPERTIES ShutdownCompletes EverySubmissionSettles
CONSTRAINT InTurn
CHECK_DEADLOCK FALSE
