SPECIFICATION FairSpec
CONSTANTS
  None = None
  Task = {t1, t2}
  Stored = {t1}
  Calls = 3
  Storages = {"sqlite", "adapter", "plain"}
INVARIANTS TypeOK AnsweredUpdatesLast EventsTellCommittedHistory
PROPERTIES TakesEffectAtOnce EveryCallSettles
CHECK_DEADLOCK FALSE
