CONSTANTS
    Bytes <- MCBytes
    MaxDrops = 2
SPECIFICATION FairSpec
INVARIANTS
    LogTypeOK
    ShowsEachOnce
    DoneHasAll
PROPERTIES
    PageEnds
CHECK_DEADLOCK FALSE
