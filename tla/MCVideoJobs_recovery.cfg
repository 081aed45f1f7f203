SPECIFICATION FairSpec
CONSTANTS
  MaxAttempts = 2
  StorageBackend = "object"
  Videos = {v1}
  Workers = {w1}
  Admins = {}
  Recoverers = {r1}
  NoRow = NoRow
  MaxQueue = 1
  MaxFaults = 1
  MaxRetries = 0
  MaxRequeues = 3
INVARIANT AssetsExist
PROPERTY SettlesUnlessUntimed
CHECK_DEADLOCK FALSE
