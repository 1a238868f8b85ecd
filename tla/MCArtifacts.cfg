CONSTANTS
    Dirs = {d1, d2}
    Cmds = {c1, c2, c3}
    Concurrent = 2
SPECIFICATION Spec
INVARIANTS
    TypeOK
    AcceptsOnlyFinishedRuns
PROPERTIES
    AcceptsSealedRuns
    RefreshesInventory
    ManifestOnlyWorsens
CHECK_DEADLOCK FALSE
SYMMETRY Alike
