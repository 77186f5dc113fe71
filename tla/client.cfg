SPECIFICATION ClientSpec

CONSTANTS
    Users = {"ann", "bob"}
    None = "none"
    MaxLogins = 2
    Patient = TRUE
    MaxVersion = 4
    MaxRuns = 2
    Registrations = {"first", "second"}
    MaxMounts = 2
    Texts = {"", "x"}
    Filters = {"", "f"}
    RowsPerPage = 2
    MaxRows = 5

INVARIANTS
    SessionInv
    ViewsInv
    PushInv
    PageInv

PROPERTIES
    NothingLoadsForEver
    PolledViewsCatchUp
    MutationIsSeen

CHECK_DEADLOCK FALSE
