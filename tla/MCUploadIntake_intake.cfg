SPECIFICATION FairSpec
CONSTANTS
  Requests = {r1, r2, r3}
  k = k
  r3 = r3
  Keys = {k}
  NoKey = NoKey
  KeyOf <- MCKeyOf
  StorageBackend = "object"
  MaxQueueDepth = 1
  MinWorkers = 1
  Pending = Pending
  Refused = Refused
  MaxOthers = 1
  MaxWorkers = 1
  MaxDeaths = 1
INVARIANT TypeOK
INVARIANT SameJob
INVARIANT BacklogBounded
PROPERTY AnsweredGoesOn
CHECK_DEADLOCK FALSE
