SPECIFICATION FairSpec
CONSTANTS
  Reconcilers = {r1, r2}
  NoToken = NoToken
  Ttl = 3
  AcquireTimeout = 1
  Interval = 4
  LockEnabled = TRUE
  Oneshot = FALSE
  PassMax = 4
  MaxFaults = 2
INVARIANT TypeOK
INVARIANT MutualExclusion
PROPERTY OnePassPerHold
PROPERTY ImplementsLease
PROPERTY RecoversAgain
