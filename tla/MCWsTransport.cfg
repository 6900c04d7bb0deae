SPECIFICATION FairSpec
CONSTANTS
  Request = {r1, r2, r3}
  Socket = {s1, s2, s3}
  None = None
INVARIANTS TypeOK NoWaitOnClosed NoOrphanSocket
PROPERTIES EveryRequestSettles
CHECK_DEADLOCK FALSE
