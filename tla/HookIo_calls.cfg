SPECIFICATION FairSpec
CONSTANTS
  Ops = {"read", "connect", "sleep"}
  MaxCalls = 3
  MaxData = 2
  Steals = TRUE
  Timeouts = {TRUE, FALSE}
  Single = {TRUE, FALSE}
  Closes = TRUE
  Ioctls = {TRUE, FALSE}
CHECK_DEADLOCK FALSE
INVARIANTS TimeoutIsOwn WokenOnce 
PROPERTY CallReturnsAlone
