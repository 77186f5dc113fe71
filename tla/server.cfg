SPECIFICATION ServerSpec

CONSTANTS
    Margin = 2
    Lifetimes = {0, 1, 4}
    MaxTime = 6
    LastMoment = 7
    Processes = {"p", "q"}
    Secrets = {"k1", "k2"}
    MaxAge = 4
    Ahead = 2
    Skew = 1
    Hosts = {"api", "old"}
    None = "none"
    Environments <- AnyEnvironment
    Items = {1, 2, 3, 4}
    PageSize = 2
    Recent = 2

INVARIANTS
    CallsInv
    StateInv
    ConfigInv
    ListInv

CHECK_DEADLOCK FALSE
