SPECIFICATION Spec
CONSTANTS
  Failures <- MCFailures
  MaxTimeouts = 2
  MaxRestarts = 2
  MaxLeaks = 2
INVARIANTS
  PowerBalanced
  MdioHonest
  WaitIsServed
CHECK_DEADLOCK FALSE
