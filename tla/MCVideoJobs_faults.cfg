SPECIFICATION Spec
CONSTANTS
  MaxAttempts = 2
  StorageBackend = "object"
  Videos = {v1, v2}
  Workers = {w1, w2}
  Admins = {}
  Recoverers = {}
  NoRow = NoRow
  MaxQueue = 2
  MaxFaults = 2
  MaxRetries = 0
  MaxRequeues = 0
SYMMETRY Symmetry
INVARIANT TypeOK
INVARIANT OneRunner
INVARIANT RetriesAligned
INVARIANT NoFailedInLimbo
INVARIANT AttemptsWithinMax
PROPERTY CompletedIsKept
PROPERTY ImplementsLife
CHECK_DEADLOCK FALSE
