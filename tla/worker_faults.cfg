SPECIFICATION Spec

CONSTANTS
    n1 = n1
    w1 = w1
    j1 = j1
    j2 = j2
    None = None
    Notifications = {n1}
    Workers = {w1}
    Jobs = {j1, j2}
    MaxRequests = 2
    MaxEdits = 0
    FaultBudget <- OneOfEach

SYMMETRY Symmetry

INVARIANTS
    StatusAgrees
    SentWasAccepted
    FailedWasRefused
    DuplicatesNeedFault

PROPERTIES
    ImplementsLifecycle

CHECK_DEADLOCK FALSE
