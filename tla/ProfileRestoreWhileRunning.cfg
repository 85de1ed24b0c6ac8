CONSTANTS
    LegacyInstall = FALSE
    MaxFaults = 0
    MaxCrashes = 0
    MaxLaunches = 1
SPECIFICATION Spec
INVARIANTS
    RestoreAfterTf2Closed
CHECK_DEADLOCK FALSE
