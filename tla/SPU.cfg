SPECIFICATION FairSpec
CONSTANTS
  Binaries <- MCBinaries
  Entered <- MCEntered
  Poison = 9
  RegsAmount = 1
  RamSize = 2
  MaxDepth = 3
  MaxNumber = 10
INVARIANTS
  TypeOK
  ReturnsBehindCalls
PROPERTIES
  JammedStackYieldsZeros
  StraightLineStops
CHECK_DEADLOCK FALSE
