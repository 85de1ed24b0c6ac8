CONSTANTS
    Slots = 2
    MaxActions = 4
    MaxReloads = 1
    MaxRepeats = 1
    MaxFaults = 1
SPECIFICATION FairSpec
INVARIANTS
    TypeOK
    CursorsAgree
    AckComesUndisturbed
PROPERTIES
    ContractSpec
    EveryActionCompletes
CHECK_DEADLOCK FALSE
