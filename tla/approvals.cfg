CONSTANTS
    Agents = {a1}
    MaxAgentId = 1
    Asks = {k1}
    MaxMade = 2
    MaxPending = 2
    Keep = 1
    Callers = {c1, c2}
    Admins = {d1, d2}
    MayFail = TRUE
    NoRow = NoRow
    Nobody = Nobody
SPECIFICATION FairSpec
INVARIANTS
    TypeOK
PROPERTIES
    ImplementsDesk
    ApprovalResolves
    StartsWhatWasShown
