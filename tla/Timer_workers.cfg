\* Two timers, two workers, a clock that only advances.
SPECIFICATION FairSpec
CONSTANTS
  Timers = {1, 2}
  Recurring = {1}
  Threads = {w1, w2}
  Periods = {1, 2}
  StartTime = 2
  MaxTime = 3
  Hour = 1
  MaxTimeout = 1
  IntLimit = 2
  MaxTickles = 1
  StepBack = FALSE
INVARIANTS CancelFindsTimer OneShotOnce NoOversleep
PROPERTY DueIsCollected
