SPECIFICATION Spec
CONSTANTS
    Modes <- MCModes
    BootMode <- Plain
    MemLen = 2
    Failures = {"regulator", "rate"}
    WarmBoot = FALSE
    MaxOpen = 1
INVARIANTS
    TypeOK
    ModeInSync
    PowerInStep
    ClocksGuarded
    OverlayInStep
    StormNeedsTimeout
CHECK_DEADLOCK FALSE
