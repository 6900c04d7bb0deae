SPECIFICATION FairSpec
CONSTANTS
  Agent = {a1, a2}
  Screen = {c1}
  Overlap <- MCOverlap
  PageSize <- MCPageSize
  Concurrency <- MCConcurrency
  MaxRecents = {1, 2}
  SnapshotSize = 1
  ScreenLimit = 1
  MaxVersion = 1
INVARIANTS TypeOK NothingOutlivesAgent ScreenIsCurrent
PROPERTIES EveryAgentIsContacted
CHECK_DEADLOCK FALSE
