CONSTANTS
    Clips = {1}
    Selections <- MCSelections
    MaxAttempts = 3
    MaxSessions = 2
    MaxFaults = 0
    MaxCrashes = 0
SPECIFICATION Spec
PROPERTIES
    OldOutputKept
CHECK_DEADLOCK FALSE
