SPECIFICATION Spec
CONSTANTS
  MaxAttempts = 2
  StorageBackend = "object"
  Videos = {v1}
  Workers = {w1, w2}
  Admins = {}
  Recoverers = {r1}
  NoRow = NoRow
  MaxQueue = 1
  MaxFaults = 0
  MaxRetries = 0
  MaxRequeues = 1
SYMMETRY Symmetry
INVARIANT CompletedHasKeys
CHECK_DEADLOCK FALSE
