SPECIFICATION FairStreamSpec
CONSTANTS
  None = None
  Task = {t1}
  Req = {r1, g1}
  GrpcReq = {g1}
  PushReq = {}
  AdapterStates = {}
  MaxArtifacts = 1
  Sub = {s1, s2}
  StreamReq = {r1, g1}
  Resub = {x1}
  MaxJoining = 2
INVARIANTS StreamTypeOK StreamsAreCurrent EndedStreamSawOutcome GaugeIsExact
PROPERTIES AcceptedStreamEnds
CHECK_DEADLOCK FALSE
