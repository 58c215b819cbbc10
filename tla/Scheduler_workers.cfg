SPECIFICATION Spec
CONSTANTS
  w1 = w1
  w2 = w2
  w3 = w3
  Fibers = {f1, f2}
  Workers = {w1, w2, w3}
  Crews <- OneOrTwo
  Caller = w1
  Pins = {w2}
  MaxCalls = 2
  Readies = TRUE
INVARIANTS ExactlyOneWakeUp StopLeavesNothingAlone
PROPERTY ImplementsTaskLife
SYMMETRY FiberSymmetry
