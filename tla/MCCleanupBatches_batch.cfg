SPECIFICATION FairSpec
CONSTANTS
  Jobs = {j1, j2, j3}
  BatchSize = 2
  Undeletable = {j1}
  MaxFaults = 1
  MaxRetries = 1
INVARIANT TypeOK
PROPERTY RetentionKept
PROPERTY BatchReaches
CHECK_DEADLOCK FALSE
