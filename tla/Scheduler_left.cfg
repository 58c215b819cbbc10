SPECIFICATION Spec
CONSTANTS
  w1 = w1
  w2 = w2
  w3 = w3
  Fibers = {f1}
  Workers = {w1, w2, w3}
  Crews <- NoCaller
  Caller = w1
  Pins = {}
  MaxCalls = 2
  Readies = FALSE
INVARIANT StopLeavesNothing
