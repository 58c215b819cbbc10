SPECIFICATION Spec
CONSTANTS
  Fds = {1}
  Uses <- BothWays
  Workers = {w1, w2}
  Cancels = FALSE
INVARIANT NoAssertFails
CHECK_DEADLOCK FALSE
