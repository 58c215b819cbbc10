SPECIFICATION FairSpec
CONSTANTS
  Ops = {"read"}
  MaxCalls = 1
  MaxData = 0
  Steals = FALSE
  Timeouts = {TRUE}
  Single = {FALSE}
  Closes = FALSE
  Ioctls = {}
CHECK_DEADLOCK FALSE
PROPERTY CallReturns
