SPECIFICATION Spec
CONSTANTS
  P = 101
  Scenarios <- MCScenarios
  Dyn <- MCDyn
  Beyond = 1000
  Text = 1001
INVARIANTS
  AgreesOnAnyData
CHECK_DEADLOCK FALSE
