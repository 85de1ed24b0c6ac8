CONSTANTS
    LegacyInstall = FALSE
    MaxFaults = 1
    MaxCrashes = 1
    MaxLaunches = 2
SPECIFICATION FairSpec
INVARIANTS
    TypeOK
    CfgNeverLost
    CustomKeptInCalm
    ClearedMeansReturned
    StageAlone
PROPERTIES
    LeaseSpec
    RecoveryCompletes
CHECK_DEADLOCK FALSE
