SPECIFICATION Spec
CONSTANTS
  Call = {c1, c2}
  MaxAttempts = 2
  MaxRequests = 2
  Window = 2
  MaxTime = 2
SYMMETRY Symmetry
INVARIANTS TypeOK WindowLimit CounterHasEnd
CHECK_DEADLOCK FALSE
