SPECIFICATION Spec
CONSTANTS
  None = None
  Call = {c1, c2}
  Key = {k1}
  Payload = {p1, p2}
INVARIANT OneRunPerKey
CHECK_DEADLOCK FALSE
