SPECIFICATION CFairSpec
CONSTANTS
  MaxAttempts = 2
  StorageBackend = "object"
  Videos = {v1}
  Workers = {w1}
  Admins = {a1}
  Recoverers = {}
  Cleaners = {c1, c2}
  RowDeleters = {c1}
  NoRow = NoRow
  MaxQueue = 1
  MaxFaults = 1
  MaxRetries = 1
  MaxRequeues = 0
INVARIANT CleanupTypeOK
INVARIANT RawIsNamed
PROPERTY CleanupConverges
PROPERTY DeletedIsForgotten
PROPERTY LinksMended
CHECK_DEADLOCK FALSE
