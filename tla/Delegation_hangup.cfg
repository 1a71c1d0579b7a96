SPECIFICATION TalkingSpec
CONSTANTS
    c1 = c1  c2 = c2  c3 = c3
    NoCall = NoCall
    Calls <- TwoCalls
    MaxTurns = 2
    MaxContext = 1
    MaxOthers = 1
    ClientRaises = FALSE
PROPERTIES
    HangupCloses
CHECK_DEADLOCK FALSE
