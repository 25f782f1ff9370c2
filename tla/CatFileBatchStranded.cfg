SPECIFICATION FairSpec
CONSTANTS
  q1 = q1
  q2 = q2
  q3 = q3
  Reqs = {q1, q2}
  Stops = {}
  Runners = {g1}
  None = None
  Answer <- MCAnswer2
PROPERTIES
  EveryRequestAnswered
CHECK_DEADLOCK FALSE
