SPECIFICATION Spec
CONSTANTS
  None = None
  Agent = {a1}
  ta = ta
  tb = tb
  Tenant = {ta, tb}
  Records <- SomeRecords
  Query <- SomeQueries
  Writer = {w1, w2}
  Search = {s1}
  Clients = {"memory", "multi", "sets"}
SYMMETRY Symmetry
INVARIANTS TypeOK SearchFindsSteady StaleOnlyByOverlap DeletedStaysDeleted
CHECK_DEADLOCK FALSE
