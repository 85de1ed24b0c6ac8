SPECIFICATION Spec
CONSTANTS
    Flush = 5
    Gap = 2
    Step = 3
    Second = 2
    Kills = {0, 2, 5, 9}
    Clips = 3
    Margins <- MCMargins
    Targets = {0, 2, 7}
    LastTick = 20
    MaxKeys = 3
INVARIANTS TypeOK OneAtATime FewestPasses NeverRefused
PROPERTIES AllTaken ShortHops NoSurpriseJump GetsReady
CHECK_DEADLOCK FALSE
