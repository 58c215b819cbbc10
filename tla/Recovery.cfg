SPECIFICATION FairSpec
CONSTANT Caller = r
CHECK_DEADLOCK FALSE
PROPERTIES RequestReturns KeepsDialling ViewConverges ChecksConverge
