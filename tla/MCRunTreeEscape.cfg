CONSTANTS
    Root = root
    Kids = {kid, away}
    Shell = shell
    Helpers = {}
    Detached = {kid, away}
    Evasive = {}
    Probed = {root}
    ExitCodes = {0, 3}
    WithWorkload = FALSE
SPECIFICATION MCSpec
INVARIANTS
    TreeTerminatedBeforeFinal
CHECK_DEADLOCK FALSE
