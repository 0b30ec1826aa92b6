\* The driver rests once the bounds on buffers and restarts are spent.
CHECK_DEADLOCK FALSE
SPECIFICATION Spec
CONSTANTS
  T = 7
  MaxFrags = 1
  MaxSkbDescs = 3
  MapFailures = "head"
  Erratum = TRUE
  MaxSkbs = 4
  MaxRestarts = 2
INVARIANTS
  TypeOK
  BuffersConserved
  MacReadsLiveData
  AwakeMeansRoom
PROPERTIES
  ImplementsOwnership
