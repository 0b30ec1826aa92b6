SPECIFICATION Spec
CONSTANTS
    Modes <- MCModes
    BootMode <- Plain
    MemLen = 2
    Failures = {}
    WarmBoot = FALSE
    MaxOpen = 1
INVARIANTS
    OverlayClosesClocked
CHECK_DEADLOCK FALSE
