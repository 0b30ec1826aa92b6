\* The driver rests once the bounds on buffers and restarts are spent.
CHECK_DEADLOCK FALSE
SPECIFICATION FairSpec
CONSTANTS
  T = 8
  MaxFrags = 1
  MaxSkbDescs = 4
  MapFailures = "never"
  Erratum = TRUE
  MaxSkbs = 3
  MaxRestarts = 1
PROPERTIES
  BuffersComeBack
  QueueWakesUp
