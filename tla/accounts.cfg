SPECIFICATION AccountsSpec

CONSTANTS
    i1 = i1
    i2 = i2
    i3 = i3
    e1 = e1
    s1 = s1
    s2 = s2
    r1 = r1
    r2 = r2
    None = None
    Ids = {i1, i2, i3}
    Emails = {e1}
    Subjects = {s1, s2}
    Requests = {r1, r2}

SYMMETRY Symmetry

INVARIANTS
    AccountsInv
    SignedInToOwn

PROPERTIES
    BannedStaysOut
    ImplementsDirectory

CHECK_DEADLOCK FALSE
