CONSTANTS
    Root = root
    Procs = {p1, p2, p3, p4}
    First = p1
    Marked = {p1, p2, p3, p4}
    Foreign = {}
    EmptyChecks = 3
    MaxGen = 3
SPECIFICATION Spec
INVARIANTS
    TypeOK
    NoElderSurvives
    EmptyChecksEarnt
CHECK_DEADLOCK FALSE
SYMMETRY Alike
