SPECIFICATION FairSpec
CONSTANTS
    Offered <- SearchAndSensitive
    MaxRounds = 4
    MaxCalls = 2
    MaxIterations = 3
    RepeatLimit = 2
    MaxInputs = 1
    MaxClicks = 2
    MaxModeSets = 0
INVARIANTS
    OwnApproval
    RepeatsBounded
PROPERTIES
    RunEnds
CHECK_DEADLOCK FALSE
