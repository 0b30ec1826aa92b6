SPECIFICATION Spec
CONSTANTS
  Failures <- MCMishandled
  MaxTimeouts = 2
  MaxRestarts = 2
  MaxLeaks = 2
INVARIANT PowerBalanced
