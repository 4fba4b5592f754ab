SPECIFICATION LSpec
CONSTANTS
  Programs <- MCPlain
  Trees <- MCNone
  MainLabel <- MCMain
  MainName <- MCMain
  Sources <- MCNone
  Names <- MCNames
  Prefixes <- MCPrefixes
  CYCLE_LIMIT = 10000
  Entered <- MCEntered
  Parsed <- MCParsed
  Meaning <- MCMeaning
  Computed <- MCComputed
  NotANumber = NaN
  Newline = Newline
  Poison = 77777
  RegsAmount = 4
  RamSize = 4
  MaxDepth = 40
  MaxNumber = 1000
INVARIANTS
  BackendTypeOK
  NoSharedLocation
  OpenUntilWritten
  EveryJumpHasOneLabel
  PrintsWhatItMeans
  StacksEmptyAtHalt
  EveryLineIsRead
PROPERTIES
  ProgramsHalt
CHECK_DEADLOCK FALSE
