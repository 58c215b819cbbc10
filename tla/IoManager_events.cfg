SPECIFICATION FairSpec
CONSTANTS
  Fds = {1, 2}
  Uses <- TwoFds
  Workers = {w1, w2}
  Cancels = TRUE
INVARIANTS NoAssertFails PendingExact WaitersRegistered
PROPERTY ReadyIsTriggered
