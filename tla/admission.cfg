CONSTANTS
    AgentIds = {1}
    Limits = {0, 1}
    Unset = Unset
    Default = 2
    Hour = 1
    Asks = {k1, k2}
    Run = Run
    MaxPending = 1
    Callers = {c1, c2}
    MaxTime = 3
    MaxAdmitted = 3
    NoAgent = NoAgent
    Nobody = Nobody
SPECIFICATION Spec
SYMMETRY Symmetry
INVARIANTS
    WithinAllowance
PROPERTIES
    RefusesOnlyTheSpent
    RetriesAreFree
