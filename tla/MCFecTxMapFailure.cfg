\* The driver rests once the bounds on buffers and restarts are spent.
CHECK_DEADLOCK FALSE
SPECIFICATION Spec
CONSTANTS
  T = 8
  MaxFrags = 1
  MaxSkbDescs = 4
  MapFailures = "any"
  Erratum = TRUE
  MaxSkbs = 2
  MaxRestarts = 1
INVARIANTS
  OnlyQueuedReady
