SPECIFICATION LiveSpec
CONSTANTS
    a1 = a1  a2 = a2  a3 = a3  b1 = b1
    A = A  B = B
    NoRequest = NoRequest
    Sessions <- MCSessions
    Requests <- Pair
    SessionOf <- PairOf
    MaxEvents = 1
PROPERTIES
    CancelledStreamEnds
CHECK_DEADLOCK FALSE
