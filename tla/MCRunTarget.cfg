CONSTANTS
    Root = root
    Kids = {kid, away, far, lost}
    Shell = shell
    Helpers = {}
    Detached = {away, far, lost}
    Evasive = {lost}
    Probed = {root, away, lost}
    ExitCodes = {0}
    WithWorkload = FALSE
SPECIFICATION MCSpec
INVARIANTS
    TypeOK
    CompleteRunContained
    SealedTelemetry
PROPERTIES
    SealedForGood
CHECK_DEADLOCK FALSE
