SPECIFICATION FairSpec
CONSTANTS
  c1 = c1
  c2 = c2
  c3 = c3
  Caller = {c1, c2, c3}
  k1 = k1
  k2 = k2
  Key = {k1, k2}
  None = None
  TTL = 1
  ErrorTTL = 1
  MaxTime = 2
  MaxEpoch = 1
INVARIANT NoBorrowedAbort
PROPERTIES SharedAnswersAreCurrent SingleFlightSpec EveryCallAnswered
