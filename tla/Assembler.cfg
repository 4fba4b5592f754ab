SPECIFICATION ASpec
CONSTANTS
  Sources <- MCSources
  Names <- MCNames
  Prefixes <- MCPrefixes
  MainName = "main"
  CYCLE_LIMIT = 9
INVARIANTS
  AssemblerTypeOK
  LabelledProgramFits
  EntryJumpResolved
  AssembledFaithfully
  ClosedByVoid
CHECK_DEADLOCK FALSE
