SPECIFICATION FairSpec
CONSTANTS
  r1 = r1
  r2 = r2
  r3 = r3
  r4 = r4
  r5 = r5
  r6 = r6
  Requests = {r1, r2, r3, r4, r5, r6}
  Fragments <- MCFragments
  Malformed = {}
  MaxRPCSize = 2
  MinRPCSize = 2
  ConcurrentHandlers = 1
  SocketBuffer = 2
  NoRequest = NoRequest
INVARIANTS
  TypeOK
  OneReply
PROPERTIES
  RequestsAnswered
  GoroutinesEnd
CHECK_DEADLOCK FALSE
