\* A fault of the kernel ends the behaviour, and a timeout work that outlives
\* the interface stops on napi_disable for good.
CHECK_DEADLOCK FALSE
SPECIFICATION FairSpec
CONSTANTS
  a1 = a1
  Addrs <- McAddrs
  R = 2
  Budget = 1
  MaxFrames = 2
  MaxLinkEvents = 2
  MaxTimeouts = 1
  AnyCaller = TRUE
INVARIANTS
  TypeOK
  NoLostWakeup
  NoDmaAfterFree
PROPERTIES
  ImplementsChannel
  FrameWakesReceiver
