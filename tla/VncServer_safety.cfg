CONSTANTS
  Socks = {s1, s2, s3}
  NoSock = NoSock
  Keys = {}
  Policies <- AllPolicies
  CoreMayFail = TRUE
SPECIFICATION Spec
SYMMETRY SockSymmetry
INVARIANTS
  RemembersClients
  DesktopServesClients
PROPERTIES
  NeverSharedIsExclusive
  AdmittedByUser
CHECK_DEADLOCK FALSE
