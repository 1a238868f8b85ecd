CONSTANTS
    Root = root
    Kids = {}
    Shell = shell
    Helpers = {away}
    Detached = {away}
    Evasive = {}
    Probed = {root}
    ExitCodes = {0, 3}
    WithWorkload = TRUE
SPECIFICATION MCSpec
INVARIANTS
    WorkloadSettledBeforeFinal
CHECK_DEADLOCK FALSE
