SPECIFICATION Spec
CONSTANTS
  None = None
  Call = {c1, c2, c3}
  Key = {k1, k2}
  Payload = {p1, p2}
SYMMETRY Symmetry
INVARIANTS TypeOK AnsweredNeverRunsAgain ReplaysAndConflictsAreReal
CHECK_DEADLOCK FALSE
