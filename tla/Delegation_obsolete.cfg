SPECIFICATION Spec
CONSTANTS
    c1 = c1  c2 = c2  c3 = c3
    NoCall = NoCall
    Calls <- TwoCalls
    MaxTurns = 1
    MaxContext = 1
    MaxOthers = 1
    ClientRaises = TRUE
PROPERTIES
    ObsoleteDropped
CHECK_DEADLOCK FALSE
