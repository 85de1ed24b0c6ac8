CONSTANTS
    LegacyInstall = FALSE
    MaxFaults = 0
    MaxCrashes = 1
    MaxLaunches = 1
SPECIFICATION Spec
INVARIANTS
    ClearedMeansRestored
CHECK_DEADLOCK FALSE
