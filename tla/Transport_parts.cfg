CONSTANTS
  Sizes = {1, 2, 3}
  EncodingLists <- TheEncodingLists
  Supported = {"raw", "hextile", "ZRLE"}
  MaxQueue = 1
  Jobs <- TheJobs
  InSize = 5
  OutSize = 6
  MIN_BULK_SIZE = 6
  maxCutText = 8
  MAX_INT = 11
  Mistaken <- TheMistaken
  Texts <- TheTexts
  Flushes <- TheFlushes
  Rooms = {1, 3, 100}
  bufSize = 5
  w_size = 16
  MAX_MATCH = 6
  lit_bufsize = 8
  hash_size = 16
  hash_shift = 4
  TOO_FAR = 6
  Levels <- TheLevels
  Storing <- TheStoring
  Streams <- TheStreams
  Arrivals = {1, 4, 30}
  Items = {1, 2}
  fdSize = 24
  readSize = 3
  wsize = 10
  FastRoom = 5
  FastBytes = 10
  LFreqs <- TheLFreqs
  DFreqs <- TheDFreqs
  lDesc <- TheLDesc
  dDesc <- TheDDesc
  StoredLens = {9, 5000}
  blMaxLength = 4
  lBits = 3
  dBits = 2
  MANY = 48
  Handles = {h1, h2, h3}
  Sockets = {s1, s2}
  Callers = {c1}
  NoHandle = NoHandle
  NoCaller = NoCaller
SPECIFICATION TransportSpec
INVARIANTS
  ClientFollowsSize
  BytesKeepOrder
  SocketsAreOwned
  CompressedIsWritten
  InflatedIsSaid
  TreesAgree
CHECK_DEADLOCK FALSE
