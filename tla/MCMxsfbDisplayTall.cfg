SPECIFICATION Spec
CONSTANTS
    Modes <- MCModes
    BootMode <- Plain
    MemLen = 2
    Failures = {}
    WarmBoot = FALSE
    MaxOpen = 1
INVARIANTS
    UnblankProgramsMode
CHECK_DEADLOCK FALSE
