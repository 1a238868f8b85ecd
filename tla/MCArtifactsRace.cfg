CONSTANTS
    Dirs = {d1}
    Cmds = {c1, c2}
    Concurrent = 2
SPECIFICATION Spec
INVARIANTS
    InventoryExactAtRest
CHECK_DEADLOCK FALSE
SYMMETRY Alike
