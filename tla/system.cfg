SPECIFICATION SystemFairSpec

CONSTANTS
    n1 = n1
    w1 = w1
    w2 = w2
    j1 = j1
    h1 = h1
    None = None
    Notifications = {n1}
    Workers = {w1, w2}
    Jobs = {j1}
    MaxRequests = 1
    MaxEdits = 0
    FaultBudget <- CrashAndLostLock
    Hooks = {h1}
    Provider = "resend"
    ProviderTypes <- JustDelivered
    MaxReports = 1
    MaxAborts = 0
    MaxTime = 4

INVARIANTS
    SystemInv

PROPERTIES
    WorkersLeaveTracked
    ImplementsTracking
    JobsEnd
    ProcessingEnds
    EveryNotificationIsAttempted
    DeliveryIsSeen

CHECK_DEADLOCK FALSE
