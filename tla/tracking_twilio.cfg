SPECIFICATION Spec

CONSTANTS
    n1 = n1
    h1 = h1
    h2 = h2
    Notifications = {n1}
    Hooks = {h1, h2}
    Provider = "twilio"
    ProviderTypes <- TwilioKinds
    MaxReports = 2
    MaxAborts = 0
    MaxTime = 3
    Attempts = {1, 2}
    Editions = {0}

SYMMETRY Symmetry

INVARIANTS
    OutcomeWasReported
    NotificationFollows
    StoredOnce

PROPERTIES
    LostOnlyToEarlierRead

CHECK_DEADLOCK FALSE
