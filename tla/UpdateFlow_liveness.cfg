CONSTANTS
  Width = 1
  Height = 2
  PollIncrementY = 1
  Colours = {black, white}
  Blank = blank
  Clients = {a}
  CopyClients = {a}
  Requests <- WholeRequests
  Unwritten <- AllWritten
  Moves <- ColumnMoves
  CompareSettings <- On
SPECIFICATION FairSpec
PROPERTY
  Converges
