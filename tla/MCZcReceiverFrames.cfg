\* The application ends, or waits for a frame that may not come.
CHECK_DEADLOCK FALSE
SPECIFICATION SysSpec
CONSTANTS
  a1 = a1
  Addrs <- McAddrs
  Buffer = a1
  R = 2
  Budget = 1
  MaxFrames = 3
  MaxLinkEvents = 2
  MaxTimeouts = 0
  AnyCaller = FALSE
  Failures = TRUE
  AdminReopens = FALSE
INVARIANTS
  AppTypeOK
  InStep
  FramesInOrder
  BufferOutlivesDma
