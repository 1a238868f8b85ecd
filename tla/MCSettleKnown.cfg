CONSTANTS
    Root = root
    Procs = {p1, p2, p3}
    First = p1
    Marked = {p1, p2}
    Foreign = {p2}
    EmptyChecks = 2
    MaxGen = 2
SPECIFICATION FairSpec
INVARIANTS
    KnownSettled
PROPERTIES
    SettleEnds
CHECK_DEADLOCK FALSE
