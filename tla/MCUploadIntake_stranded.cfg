SPECIFICATION FairSpec
CONSTANTS
  Requests = {r1, r2}
  k = k
  r3 = r3
  Keys = {k}
  NoKey = NoKey
  KeyOf <- MCKeyOf
  StorageBackend = "local"
  MaxQueueDepth = 1
  MinWorkers = 1
  Pending = Pending
  Refused = Refused
  MaxOthers = 0
  MaxWorkers = 1
  MaxDeaths = 0
PROPERTY AnsweredGoesOn
CHECK_DEADLOCK FALSE
