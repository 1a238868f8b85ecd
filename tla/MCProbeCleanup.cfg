CONSTANTS
    MaxEvents = 1
    MaxRecords = 1
    Terms = 0
SPECIFICATION Spec
INVARIANTS
    CleanupRetained
CHECK_DEADLOCK FALSE
