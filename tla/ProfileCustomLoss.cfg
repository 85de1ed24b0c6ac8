CONSTANTS
    LegacyInstall = FALSE
    MaxFaults = 1
    MaxCrashes = 1
    MaxLaunches = 2
SPECIFICATION Spec
INVARIANTS
    CustomNeverLost
CHECK_DEADLOCK FALSE
