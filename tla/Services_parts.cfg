SPECIFICATION FairSpec
CONSTANTS
  Ids = {i1}
  MaxChanges = 1
  MaxDrops = 1
  MaxFails = 1
  Providers = {a, b}
  None = None
  Kinds = {"ROUNDROBIN", "WEIGHT", "FAIR"}
  Weights = {1, 2}
  MaxCounted = 1
  MaxUpdates = 2
  Requests = {r1, r2, r3}
  N = 2
  Width = 3
  OneThread = TRUE
  MaxAge = 1
  MaxNow = 4
  Fibers = {f1, f2, f3}
  Owner = f1
  Batch = 2
  Vectors = {1}
  Orderly = TRUE
  MaxCalls = 4
CHECK_DEADLOCK FALSE
INVARIANTS  GetFindsValid StatsExact TokensKept
PROPERTIES  CallsReturn
