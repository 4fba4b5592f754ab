SPECIFICATION MSpec
CONSTANTS
  NaN = NaN
  NotANumber = NaN
  Exprs <- MCExprs
  Envs <- MCEnvs
  Value <- MCValue
  Nodes <- MCNodes
  CallsOf <- MCCallsOf
  Size <- MCSize
  Computed <- MCComputed
  Zero <- MCZero
  One <- MCOne
  Numbers <- MCNumbers
  Positive <- MCPositive
INVARIANTS
  ValueKept
  CallsInOrder
  RefusedForCause
  FullySimplified
PROPERTIES
  PassShrinks
  OptimizeEnds
CHECK_DEADLOCK FALSE
