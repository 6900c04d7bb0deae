SPECIFICATION StreamSpec
CONSTANTS
  None = None
  Task = {t1}
  Req = {r1}
  GrpcReq = {}
  PushReq = {}
  AdapterStates = {}
  MaxArtifacts = 0
  Sub = {s1}
  StreamReq = {}
  Resub = {}
  MaxJoining = 1
INVARIANT GaugeCountsConnections
CHECK_DEADLOCK FALSE
