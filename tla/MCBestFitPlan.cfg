\* A planner run ends, so the absence of a successor state is no error.
CHECK_DEADLOCK FALSE
SPECIFICATION Spec
CONSTANTS
  N <- McN
  Programs <- McPrograms
  MaxInt64 <- McMaxInt64
INVARIANTS
  TypeOK
  NoLiveOverlap
  ArithmeticInRange
  PlacedAligned
PROPERTIES
  ImplementsLayout
