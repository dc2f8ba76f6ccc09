CONSTANTS
  Width = 2
  Height = 1
  PollIncrementY = 1
  Colours = {black, white}
  Blank = blank
  Clients = {a}
  CopyClients = {a}
  Requests <- AnyRequests
  Unwritten <- AllWritten
  Moves <- RowMoves
  CompareSettings <- On
SPECIFICATION Spec
INVARIANT
  CopiesAreValid
