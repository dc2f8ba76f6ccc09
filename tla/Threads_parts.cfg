CONSTANTS
  Callers = {tray}
  Dialog = dialog
  Ends = {"stop", "failure"}
  MaxTips = 2
  MaxCloses = 2
  Peers = {p, q}
  Listeners = {rfb, http}
  MaxEvents = 3
  Faults = {"listen", "add", "cancel", "rearm"}
  MaxSends = 2
SPECIFICATION ThreadsSpec
INVARIANTS
  NoLostWakeup
  TableHasAll
PROPERTIES
  KeepsMailbox
  CallsReturn
  StopEndsRun
  DestructorReturns
  PeersAreServed
CHECK_DEADLOCK FALSE
