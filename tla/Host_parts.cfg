CONSTANTS
  Clients = {c1, c2}
  NoClient = NoClient
  Keysym <- TheKeysyms
  Latin1 <- TheLatin1
  Shift_L = "Shift_L"
  Shift_R = "Shift_R"
  ISO_Left_Tab = "ISO_Left_Tab"
  Tab = "Tab"
  keysymToAscii <- NoAscii
  VkScanKeyMap <- TheVkScanKeyMap
  keymap <- TheKeymap
  VkShift = "VK_SHIFT"
  Buttons = {"left"}
  Mappings <- TheMappings
  Widths = {2, 3}
  MaxFailures = 3
  AddrBits = 3
  NoAddress = NoAddress
  Configs <- TheConfigs
  TakenPorts <- TheTakenPorts
  Peers = {1, 2}
  NoFilter = NoFilter
  threshold = 2
  initialTimeout = 1
  TimeoutBits = 2
  MaxTime = 6
  MaxTries = 5
  Chars = {"G", "X"}
  CR = "CR"
  LF = "LF"
  LineLen = 3
  Requests <- TheRequests
  Resources <- TheResources
  Dollar = "$"
  VarNames <- TheVarNames
  MaxVarName = 4
  Server <- TheServer
  IdleTimeout = 1
  MaxSent = 6
  FileLines <- TheLines
  MaxLines = 4
  Roots = {"HKEY_LOCAL_MACHINE"}
  HashOf <- TheHash
  DICTMINSZ = 2
  NoKey = NoKey
  NoSection = NoSection
  NULL = NULL
  TwoQuotes = TwoQuotes
  Blank = Blank
  Uninit = Uninit
  Instants <- TheInstants
  Edits <- TheEdits
  Formats <- TheFormats
  BufferSizes = {10, 1024}
  Bias <- TheBias
  DaylightBias <- TheBias
  DaylightDate <- TheDaylight
  StandardDate <- TheStandard
  LastYear = 2012
  MaxEdits = 2
  TIME_MAX = 1199999999
  Viewers = {v1}
  Browsers = {b1}
  NORMAL = "normal"
  AUTH = "auth"
  GONE = "gone"
  idleTimeout = 2
  MinimumAuth = 3
  Late = 2
  idleTimeoutSecs = 3
  Jumps <- TheJumps
  MaxJumps = 1
  MaxAgo = 7
  ClientVersions <- TheVersions
  ServerMinor = 8
  TypeLists <- TheTypeLists
  Passwords <- ThePasswords
  Challenges <- TheChallenges
  Stores = {"param", "nowhere"}
  SP <- TheSP
  Rounds = 4
  ObfuscationKey <- TheKey
  Numbers = {0, 57}
  NoNumber = NoNumber
  Comma = 16
  Colon = 17
  Star = 20
  WordNone = 21
  WordVncAuth = 22
  WordOn = 23
  WordOff = 24
  Everybody <- TheEverybody
  NotYet = NotYet
  Removed = Removed
  HostPatterns <- TheHostPatterns
  MaxHosts = 2
  PlainPasswords <- ThePlainPasswords
  StoredForm <- TheStoredForm
  LogWriters = {40, 41}
  Loggers = {50}
  NoLogger = NoLogger
  FirstRegistries <- TheRegistries
  PlatformNT = FALSE
  RfbDefault = 59
  HttpDefault = 58
  IdleDefault = 36
  MaxPageEdits = 2
  MaxSheets = 1
  Instances = {i1, i2, i3}
  CommandLines <- TheCommandLines
SPECIFICATION HostSpec
INVARIANTS
  OneServer
  NothingStuck
  DesktopIsWhole
  AdmittedAreNamed
  RetriesBackOff
  AnswersRequest
  RegistryIsFile
  TimeSurvives
  SilentAreClosed
  HandshakeAgrees
  SettingsSurvive
PROPERTIES
  TypingKeepsKeys
CHECK_DEADLOCK FALSE
