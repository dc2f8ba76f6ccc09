CONSTANTS
  Socks = {s1, s2}
  NoSock = NoSock
  Keys = {k}
  Policies <- DefaultPolicies
  CoreMayFail = FALSE
SPECIFICATION Spec
INVARIANT
  KeysReleased
CHECK_DEADLOCK FALSE
