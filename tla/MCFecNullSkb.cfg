\* A fault of the kernel ends the behaviour.
CHECK_DEADLOCK FALSE
SPECIFICATION Spec
CONSTANTS
  a1 = a1
  Addrs <- McAddrs
  R = 3
  Budget = 2
  MaxFrames = 4
  MaxLinkEvents = 1
  MaxTimeouts = 0
  AnyCaller = TRUE
INVARIANTS
  NullSkbUntouched
