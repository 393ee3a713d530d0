CONSTANTS
    RunIds = {r1, r2}
    Requests = {q1}
    Cancellers = {}
    Agents = {a1}
    MaxAgentId = 1
    Staff = Staff
    Playbooks = {p1}
    Hosts = {h1}
    MaxAgentRuns = 2
    CancelTries = 1
    MayFail = FALSE
    NoRun = NoRun
    Nobody = Nobody
SPECIFICATION Spec
PROPERTIES
    StartsBesideNoConflict
