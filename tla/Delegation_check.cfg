SPECIFICATION FairSpec
CONSTANTS
    c1 = c1  c2 = c2  c3 = c3
    NoCall = NoCall
    Calls <- ThreeCalls
    MaxTurns = 1
    MaxContext = 1
    MaxOthers = 1
    ClientRaises = TRUE
INVARIANTS
    NoSilentOutput
    NothingOutlivesBridge
    TurnsHandedOnce
PROPERTIES
    OnlyLatestAnswered
    CallsSettle
    HangupNoticed
CHECK_DEADLOCK FALSE
