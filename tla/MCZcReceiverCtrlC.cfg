\* The application ends, or waits for a frame that may not come.
CHECK_DEADLOCK FALSE
SPECIFICATION FairSysSpec
CONSTANTS
  a1 = a1
  Addrs <- McAddrs
  Buffer = a1
  R = 2
  Budget = 1
  MaxFrames = 2
  MaxLinkEvents = 1
  MaxTimeouts = 0
  AnyCaller = FALSE
  Failures = FALSE
  AdminReopens = FALSE
PROPERTIES
  SafeExit
