CONSTANTS
    RunIds = {r1}
    Requests = {q1, q2}
    Cancellers = {c1}
    Agents = {a1}
    MaxAgentId = 1
    Staff = Staff
    Playbooks = {p1}
    Hosts = {h1}
    MaxAgentRuns = 1
    CancelTries = 1
    MayFail = FALSE
    NoRun = NoRun
    Nobody = Nobody
SPECIFICATION FairSpec
PROPERTIES
    RunSettles
    CancelHonoured
    KillSwitchDrains
