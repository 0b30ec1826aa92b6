SPECIFICATION Spec
CONSTANTS
  Programs <- MCPrograms
  Taken <- MCTaken
  Undef = Undef
  Lowest = Lowest
INVARIANTS
  TypeOK
  AccessesSafe
  LoopsMatchTosa
CHECK_DEADLOCK FALSE
