SPECIFICATION FairSpec
CONSTANTS
    Ticks = {1}
    MaxActs = 2
    MaxRconActs = 2
    MaxBlanks = 2
    MaxUnread = 2
    MaxFaults = 0
PROPERTY GhostsGo
CHECK_DEADLOCK FALSE
