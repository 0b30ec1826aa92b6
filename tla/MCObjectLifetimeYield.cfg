\* The analysed function returns, so the absence of a successor is no error.
CHECK_DEADLOCK FALSE
SPECIFICATION Spec
CONSTANTS
  Objects <- McObjects
  Values <- McValues
  Programs <- McYield
INVARIANTS
  ReadsOwnData
