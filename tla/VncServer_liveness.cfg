CONSTANTS
  Socks = {s1, s2}
  NoSock = NoSock
  Keys = {k}
  Policies <- DefaultPolicies
  CoreMayFail = FALSE
SPECIFICATION FairSpec
PROPERTIES
  ClosedIsRemoved
  QueryIsAnswered
CHECK_DEADLOCK FALSE
