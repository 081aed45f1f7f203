SPECIFICATION Spec
CONSTANTS
  Requests = {r1, r2, r3, r4}
  r4 = r4
  c1 = c1
  c2 = c2
  ClientOf <- MCClientOf
  Limit = 1
  Window = 3
  MaxTime = 5
  MaxFaults = 1
SYMMETRY RequestSymmetry
INVARIANT TypeOK
INVARIANT WindowLimit
INVARIANT PunctualRateBounded
INVARIANT CountersExpire
CHECK_DEADLOCK FALSE
