SPECIFICATION FairSpec
CONSTANTS
  Note = {n1, n2, n3}
  Url = {u1, u2}
  Limit = 2
  MaxAttempts = 2
  FailureThreshold = 2
  SuccessThreshold = 2
INVARIANTS TypeOK SlotsAndQueue
PROPERTIES OpenCircuitIsQuiet EveryNotificationSettles
CHECK_DEADLOCK FALSE
