SPECIFICATION Spec
CONSTANTS
  Timers = {1, 2}
  Recurring = {1}
  Threads = {1}
  Periods = {1}
  StartTime = 2
  MaxTime = 3
  Hour = 1
  MaxTimeout = 2
  IntLimit = 3
  MaxTickles = 1
  StepBack = TRUE
  BaseSize = 2
  MaxNodes = 3
  Byte = {0, 1}
  Junk = 2
  Group = 3
  Half = 4
  Users = {1, 2}
  Conns = {"c1", "c2"}
  MaxRequest = 2
  MaxCalls = 2
  MaxConn = 1
  MaxTrans = 3
  Sizes = {0, 1, 3}
  MaxFrames = 2
  MaxPings = 1
  MaxMessage = 4
  LruKeys = {0, 1, 2, 3}
  LruVals = {0}
  Bucket = 2
  MaxSizes = {0, 1, 2}
  Elasticities = {0, 1}
  Keys = {0, 1}
  Vals = {0}
  Lives = {0, 1, 2}
  MaxNow = 2
  MaxSize = 1
  Elasticity = 1
  Streams = {1, 2}
  Nodes = {1, 2}
  Domains = {1, 2}
  NsKeys <- OneCmd
  Weights = {1, 2}
  Queries = {1}
  MaxRegs = 3
  MaxEdits = 0
  Notifies = FALSE
CHECK_DEADLOCK FALSE
INVARIANTS TypeOK RoundTrips ResponseIsOwn MessagesIntact TransactionIsOwn
INVARIANTS NoDangling RegistryExact
PROPERTIES SetBackDelayBounded ImplementsBytes EvictsOldest
