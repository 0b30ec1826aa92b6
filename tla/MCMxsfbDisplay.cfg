SPECIFICATION FairSpec
CONSTANTS
    Modes <- MCModes
    BootMode <- Plain
    MemLen = 2
    Failures = {}
    WarmBoot = FALSE
    MaxOpen = 1
INVARIANTS
    TypeOK
    ModeInSync
    PowerInStep
    ClocksGuarded
    OverlayInStep
    StormNeedsTimeout
PROPERTIES
    PanServed
CHECK_DEADLOCK FALSE
