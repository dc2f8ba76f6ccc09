CONSTANTS
  Callers = {tray}
  Dialog = dialog
  Ends = {"stop"}
SPECIFICATION FairSpec
PROPERTY
  KillEnds
CHECK_DEADLOCK FALSE
