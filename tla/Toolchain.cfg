SPECIFICATION TSpec
CONSTANTS
  Sources <- MCSources
  Names <- MCNames
  Prefixes <- MCPrefixes
  MainName = "main"
  CYCLE_LIMIT = 20
  Entered <- MCEntered
  Poison = 9
  RegsAmount = 1
  RamSize = 1
  MaxDepth = 4
  MaxNumber = 2
INVARIANTS
  FetchesInstructions
  EndsOnlyOffTheCode
PROPERTIES
  ReturnsToTheNextLine
  ForwardProgramsStop
CHECK_DEADLOCK FALSE
