CONSTANTS
  Width = 3
  Height = 3
  Arguments <- TheArguments
  Wide = 3
  High = 3
  Stride = 4
  Inks = {ink}
  Masks <- TheMasks
  MaxOps = 1
  Displays <- TheDisplays
  ClientFormats <- TheClientFormats
  Palettes <- ThePalettes
  Indexes = {0, 200, 255}
  Levels <- TheLevels
  Null = Null
  Pictures <- ThePictures
  PixelBytes = {1, 2, 3}
  HexTile = 2
  ZTile = 4
  MAX_SIZE = 5
  HashSize = 2
  LongRun = 3
  BufferPixels = {1, 7}
SPECIFICATION PicturesSpec
INVARIANTS
  RegionsAgree
  MemoryIsPicture
  ColoursShown
  DecodedIsPicture
CHECK_DEADLOCK FALSE
