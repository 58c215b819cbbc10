SPECIFICATION Spec
CONSTANTS
  Reqs = {r1}
  Msgs = {m1}
  AutoConnect = TRUE
  MaxBreaks = 2
  MaxSem = 2
  Closes = TRUE
INVARIANTS AnsweredOnce OneReaderOneWriter NoLostSend
