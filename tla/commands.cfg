CONSTANTS
    MaxRuns = 3
    Requests = {q1, q2}
    Hosts = {h1, h2}
    MaxCommandRuns = 2
    MaxPerHost = 1
    Attempts = 2
    KeepRuns = 2
    MayFail = TRUE
    NoRow = NoRow
    Nobody = Nobody
SPECIFICATION FairSpec
INVARIANTS
    CapsHold
PROPERTIES
    LostRowsSettled
    ResultStays
    CommandSettles
