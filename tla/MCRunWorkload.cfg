CONSTANTS
    Root = root
    Kids = {kid}
    Shell = shell
    Helpers = {away}
    Detached = {kid, away}
    Evasive = {}
    Probed = {root}
    ExitCodes = {3}
    WithWorkload = TRUE
SPECIFICATION MCFairSpec
INVARIANTS
    ExitCodeBacked
    NoWriterAfterFinal
    HelperSurvivalExplained
    ManifestBeforeTarget
PROPERTIES
    ManifestForward
    BoundedRun
    StopTerminates
    ImplementsContract
CHECK_DEADLOCK FALSE
