CONSTANTS
    Names = {n}
    Addresses = {a1, a2}
    Passwords = {p1, p2}
    Admins = {d1, d2}
    Runs = {r1}
    MaxSaves = 4
    None = None
SPECIFICATION Spec
SYMMETRY Symmetry
INVARIANTS
    PasswordsFollowHosts
PROPERTIES
    SignsInAsSaved
