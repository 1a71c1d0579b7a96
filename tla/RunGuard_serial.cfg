SPECIFICATION SerialSpec
CONSTANTS
    a1 = a1  a2 = a2  a3 = a3  b1 = b1
    A = A  B = B
    NoRequest = NoRequest
    Sessions <- MCSessions
    Requests <- TwoSessions
    SessionOf <- TwoSessionsOf
    MaxEvents = 0
SYMMETRY Interchangeable
INVARIANTS
    OneRunPerSession
PROPERTIES
    CancelCause
    TakesTurns
CHECK_DEADLOCK FALSE
