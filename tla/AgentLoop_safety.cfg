SPECIFICATION Spec
CONSTANTS
    Offered <- Approvals
    MaxRounds = 2
    MaxCalls = 2
    MaxIterations = 2
    RepeatLimit = 0
    MaxInputs = 2
    MaxClicks = 3
    MaxModeSets = 1
INVARIANTS
    AnswersTruthful
    NoFreeExecution
    ModelCallsBounded
CHECK_DEADLOCK FALSE
