SPECIFICATION FairSpec
CONSTANTS
  q1 = q1
  q2 = q2
  q3 = q3
  Reqs = {q1, q2, q3}
  Stops = {s1}
  Runners = {g1, g2}
  None = None
  Answer <- MCAnswer
INVARIANTS
  TypeOK
  OneRunner
  ExactlyOnePlace
  NoLostWakeup
  ReplyIsForRequest
PROPERTIES
  StopAnsweredAfterExit
  TakenIsAnswered
CHECK_DEADLOCK FALSE
