SPECIFICATION FairSpec
CONSTANTS
  Videos = {v1, v2}
  MaxAttempts = 1
  None = None
  Sent = Sent
  Failed = Failed
  Polls = {p1, p2}
  MaxErrors = 1
INVARIANT PageTypeOK
INVARIANT OwnJobShown
PROPERTY StoppedIsStill
PROPERTY PageSettles
CHECK_DEADLOCK FALSE
