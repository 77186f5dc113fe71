SPECIFICATION Spec

CONSTANTS
    n1 = n1
    w1 = w1
    w2 = w2
    j1 = j1
    j2 = j2
    None = None
    Notifications = {n1}
    Workers = {w1, w2}
    Jobs = {j1, j2}
    MaxRequests = 2
    MaxEdits = 1
    FaultBudget <- OneLostLock

SYMMETRY Symmetry

INVARIANTS
    OneSender
    AttemptBudget
    AcceptedIsSent
    PayloadMatchesSent
    PermanentErrorStops

PROPERTIES
    ClosedAttemptsStay

CHECK_DEADLOCK FALSE
