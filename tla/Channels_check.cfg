SPECIFICATION Spec
CONSTANTS
    r1 = r1  r2 = r2  r3 = r3  r4 = r4
    Requests <- FourRequests
    Offered <- AllButAuto
    None = None
    DefaultMode = "auto"
SYMMETRY SymmetricFour
INVARIANTS
    ManualHolds
    PendingAnswerable
    ChatTruthful
    AnsweredKept
CHECK_DEADLOCK FALSE
