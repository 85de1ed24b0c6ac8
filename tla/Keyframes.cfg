SPECIFICATION FairSpec
CONSTANTS
    Ticks = {1, 2}
    MaxActs = 3
    MaxRconActs = 2
    MaxBlanks = 2
    MaxUnread = 2
    MaxFaults = 1
INVARIANTS TypeOK SelectedIsShown PatientEditsHit DeliveredHonestly
PROPERTIES KeptWithoutDeletion MarkersConverge
CHECK_DEADLOCK FALSE
