CONSTANTS
    Names = {"N", "C"}
    Symbols = {"l", "a", "-", "n", "=", "NL"}
    MaxValueChars = 2
    Commands = {1}
    Templates <- MCTemplates
    Givens <- MCGivens
    Calls = {x1}
    Requests = {r1}
    Admins = {d1, d2}
    MaxEdits = 3
    NoRow = NoRow
SPECIFICATION Spec
SYMMETRY Symmetry
INVARIANTS
    TypeOK
    StartsOnlyWhatWasAllowed
    MarkedWaits
    StartsAsShown
    ValuesKeepTheirPlace
