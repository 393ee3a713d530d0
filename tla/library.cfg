CONSTANTS
    CommandNames = {n1, n2}
    Hosts = {h1}
    Roles = {r1}
    Editors = {d1, d2}
    MaxWrites = 3
    Keep = 1
    Nobody = Nobody
SPECIFICATION LibrarySpec
SYMMETRY Symmetry
INVARIANTS
    LibraryTypeOK
    RolesHoldWhatTheyWereGiven
    RolesKeepWhatTheyWereGiven
    InServiceIsTheFile
PROPERTIES
    ReplacesItsVersion
