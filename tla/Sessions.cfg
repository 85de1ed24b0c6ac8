CONSTANTS
    Clips = {1, 2}
    Selections <- MCSelections
    MaxAttempts = 2
    MaxSessions = 2
    MaxFaults = 1
    MaxCrashes = 1
SPECIFICATION FairSpec
INVARIANTS
    TypeOK
    HalfCopyKeepsCapture
    IndexedExists
PROPERTIES
    CaptureNeverLost
    SessionsSettle
CHECK_DEADLOCK FALSE
