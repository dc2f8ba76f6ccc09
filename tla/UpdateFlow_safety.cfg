CONSTANTS
  Width = 2
  Height = 1
  PollIncrementY = 1
  Colours = {black, white}
  Blank = blank
  Clients = {a, b}
  CopyClients = {a}
  Requests <- WholeRequests
  Unwritten <- PartWritten
  Moves <- StepMoves
  CompareSettings <- On
SPECIFICATION Spec
INVARIANTS
  UnmarkedIsShown
  CopiesAreValid
PROPERTY
  UpdateShowsPb
