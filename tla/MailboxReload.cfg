CONSTANTS
    Slots = 2
    MaxActions = 1
    MaxReloads = 1
    MaxRepeats = 1
    MaxFaults = 0
SPECIFICATION Spec
INVARIANTS
    AckStillToCome
CHECK_DEADLOCK FALSE
