CONSTANTS
    RunIds = {r1, r2}
    Requests = {q1, q2}
    Cancellers = {}
    Agents = {a1}
    MaxAgentId = 1
    Staff = Staff
    Playbooks = {p1}
    Hosts = {h1, h2}
    MaxAgentRuns = 1
    CancelTries = 1
    MayFail = TRUE
    NoRun = NoRun
    Nobody = Nobody
SPECIFICATION Spec
SYMMETRY Symmetry
INVARIANTS
    AgentRunsDisjoint
    WithinCap
PROPERTIES
    ImplementsLedger
