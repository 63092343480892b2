SPECIFICATION FairSpec
CONSTANTS
  q1 = q1
  q2 = q2
  q3 = q3
  Run = {q1, q2, q3}
  N = 1
INVARIANTS NoLostWakeup AtMostNUnlessBarged KnownQueryStopped
PROPERTY EveryRunAnswered
