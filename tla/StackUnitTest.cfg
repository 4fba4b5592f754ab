SPECIFICATION TestSpec
CONSTANTS
  number = number
  zero = zero
  poison = poison
  here = here
  Values <- TestValues
  Poison <- poison
  Zero <- zero
  Garbage <- TestGarbage
  Sites <- TestSites
  StarterCapacities = {0}
  MaxCapacity = 10
INVARIANT
  UnitTest1Passes
CHECK_DEADLOCK FALSE
