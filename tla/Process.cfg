SPECIFICATION Spec
CONSTANTS
  Words <- MCWords
  MaxWords = 3
  DefaultPort = 9
  DefaultInterval = 1
  DefaultTime = 1
  PortSpace = 16
  Second = 25
  PacketSize = 2
  Kilo = 4
  MaxBits = 64
  MaxSeconds = 1
  UintSpace = 32
  MaxLate = 3
  RttTimes = 2
  Radix = 8
  BufSize = 40
  Sizes = {24, 30}
  Ids <- MCIds
  Times <- MCTimes
  MaxSends = 2
  WordSpace = 32
  Digits <- MCDigits
  MaxDigits = 4
  LineWidth = 8
  OPTION_LONGEST = 4
  DescGap = 1
  OptionLengths = {2, 5}
  MaxWordLength = 3
  MaxDesc = 11
  UnitStep = 4
  Decimals = 10
  Amounts <- MCAmounts
  Blank = " "
  Newline = "n"
  Return = "r"
  Letters = {" ", "n", "r", "a"}
  Separators <- MCSeparators
  MaxString = 5
  Threads = {t1, t2, t3}
  Files = {f1, f2}
  NoFile = nofile
  DbCallsMax = 2
INVARIANTS
  ProgramTypeOK CompactionKeepsUnread LastTextWins
  RateNotExceeded RateKept FinishOnTime ResultIsPrintable
  SocketDiscipline EndpointIsNamed
  RoundTrip SendBufferClean PatchedAsRebuilt
  IntegerExact WrapKeepsText PrintedIsMeant HelpersKeepText DatabaseIsOpen
PROPERTY EndsOrWaits
CHECK_DEADLOCK FALSE
