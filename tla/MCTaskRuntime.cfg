SPECIFICATION Spec
CONSTANTS
  None = None
  Task = {t1, t2}
  Req = {r1, r2, g1}
  GrpcReq = {g1}
  PushReq = {p1}
  AdapterStates = {"WAITING_ON_EXTERNAL"}
  MaxArtifacts = 2
SYMMETRY Symmetry
INVARIANTS TypeOK OutcomeHasOneAuthor NoAbandonedWork NegotiationMatchesHistory CountersMatchStore
PROPERTIES TerminalFrozen KeepsContract
CHECK_DEADLOCK FALSE
