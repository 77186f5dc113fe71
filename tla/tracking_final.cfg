SPECIFICATION Spec

CONSTANTS
    n1 = n1
    h1 = h1
    h2 = h2
    Notifications = {n1}
    Hooks = {h1, h2}
    Provider = "resend"
    ProviderTypes <- ResendOutcomes
    MaxReports = 2
    MaxAborts = 0
    MaxTime = 4
    Attempts = {1}
    Editions = {0}

SYMMETRY Symmetry

PROPERTIES
    OutcomeIsFinal

CHECK_DEADLOCK FALSE
