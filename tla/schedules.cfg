CONSTANTS
    Playbooks = {p1}
    Folders = {{p1}, {}}
    Crons = {c1, c2}
    Off = Off
    Syncers = {s1, s2}
    Savers = {d1}
    MaxPushes = 2
    NoRow = NoRow
SPECIFICATION FairSpec
INVARIANTS
    JobsFollowRows
PROPERTIES
    DropsOnlyTheGone
    SyncSettles
