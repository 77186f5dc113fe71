SPECIFICATION Spec

CONSTANTS
    n1 = n1
    h1 = h1
    Notifications = {n1}
    Hooks = {h1}
    Provider = "resend"
    ProviderTypes <- ResendOutcomes
    MaxReports = 1
    MaxAborts = 0
    MaxTime = 4
    Attempts = {1, 2}
    Editions = {0}

SYMMETRY Symmetry

PROPERTIES
    OldAttemptKeepsCurrent

CHECK_DEADLOCK FALSE
