SPECIFICATION Spec
CONSTANTS
  NoItem = noitem
  QueueSize = 2
  MaxLogged = 2
  MaxFailed = 1
  Patterns <- MCPatterns
  MaxPadding = 6
  OffsetPeriod = 3
  LogSeconds = {1, 2, 5}
  PayloadSizes = {0, 2, 7}
  MaxFormatted = 2
  DayLength = 2
  RotationTimes = {0, 1}
  MaxSize = 3
  MaxFiles = {0, 1, 2}
  RecordSizes = {1, 3}
  MaxClock = 5
  MaxRecords = 3
  MaxFileErrors = 1
  MaxRestarts = 1
  Payloads = {"a", "b"}
  MaxSkip = 1
  RingSize = 2
  TraceSizes = {0, 2}
  MaxTraced = 5
  MaxThrown = 1
  FieldSpecs <- MCFieldSpecs
  Pieces <- MCPieces
  ArgLists <- MCArgLists
  MaxPieces = 2
  MaxPackedArgs = 3
  MaxInt = 400
  IntBits = 12
  IntNumbers <- MCIntNumbers
  IntSpecs <- MCIntSpecs
  Groupings <- MCGroupings
  FloatNumbers <- MCFloatNumbers
  FloatSpecs <- MCFloatSpecs
  GrisuPrecision = 3
  StoreSize = 4
  Literals <- MCLiterals
INVARIANTS
  AsyncLogTypeOK LoggerAlive WarnIsFlushed
  FilesKeepOrder FieldsInPlace FiltersLoseNothing FormatStringsAgree
  IntegerTextExact FloatTextExact
PROPERTIES Implements ReachesFile ShutdownEnds
CHECK_DEADLOCK FALSE
