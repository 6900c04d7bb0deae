SPECIFICATION Spec
CONSTANTS
  None = None
  Task = {t1}
  Req = {r1}
  GrpcReq = {}
  PushReq = {}
  AdapterStates = {}
  MaxArtifacts = 1
INVARIANT ArtifactsListNegotiated
CHECK_DEADLOCK FALSE
