SPECIFICATION ASpec
CONSTANTS
  Sources <- MCSources
  Names <- MCNames
  Prefixes <- MCPrefixes
  MainName = "main"
  CYCLE_LIMIT = 9
INVARIANT OnlyTrailingZerosRemoved
CHECK_DEADLOCK FALSE
