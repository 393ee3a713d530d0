CONSTANTS
    p = p
    a = a
    b = b
    Playbooks = {p}
    Hosts = {a, b}
    Inventories <- MCInventories
    GrantIds = {1, 2}
    Standing <- MCStanding
    Requests = {r1}
    Calls = {x1}
    Admins = {d1}
    MaxEdits = 2
    None = None
SPECIFICATION Spec
INVARIANTS
    StartsOnlyWhatWasGranted
    GrantedRunsWait
    NamesPlainHosts
PROPERTIES
    NewRolesAreEmpty
