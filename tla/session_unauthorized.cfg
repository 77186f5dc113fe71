SPECIFICATION SessionSpec

CONSTANTS
    Users = {"ann", "bob"}
    None = "none"
    MaxLogins = 2
    Patient = FALSE

INVARIANTS
    ShownIsSignedIn

CHECK_DEADLOCK FALSE
