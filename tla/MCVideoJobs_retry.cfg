SPECIFICATION Spec
CONSTANTS
  MaxAttempts = 2
  StorageBackend = "local"
  Videos = {v1}
  Workers = {w1, w2}
  Admins = {a1}
  Recoverers = {}
  NoRow = NoRow
  MaxQueue = 2
  MaxFaults = 1
  MaxRetries = 2
  MaxRequeues = 0
SYMMETRY Symmetry
INVARIANT OutputsExist
INVARIANT RawBeforeQueue
INVARIANT RetryKeepsKeys
INVARIANT ProcessingIsTimed
CHECK_DEADLOCK FALSE
