SPECIFICATION Spec
CONSTANTS
  a = a
  poison = poison
  zero = zero
  here = here
  there = there
  Values <- MCValues
  Poison <- poison
  Zero <- zero
  Garbage <- MCGarbage
  Sites <- MCSites
  StarterCapacities = {0, 2, 10}
  MaxCapacity = 10
INVARIANTS
  TypeOK
  SizeWithinCapacity
PROPERTIES
  ShrinkLeavesHalfFree
  FaultIsForever
  AlarmOnlyAfterFailure
  ImplementsAbstractStack
CHECK_DEADLOCK FALSE
