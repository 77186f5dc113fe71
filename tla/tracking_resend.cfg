SPECIFICATION Spec

CONSTANTS
    n1 = n1
    h1 = h1
    h2 = h2
    Notifications = {n1}
    Hooks = {h1, h2}
    Provider = "resend"
    ProviderTypes <- ResendKinds
    MaxReports = 3
    MaxAborts = 1
    MaxTime = 4
    Attempts = {1}
    Editions = {0, 1}

SYMMETRY Symmetry

INVARIANTS
    AckedIsStored
    NoLostOutcome

PROPERTIES
    DeliveredUntilResent

CHECK_DEADLOCK FALSE
