SPECIFICATION Spec
CONSTANTS
    Transfers = {t1}
    Flows <- FewFlows
    DatabaseMayFail = FALSE
    MayRestart = FALSE
PROPERTIES
    FallbackKeepsMirroredVerdict
CHECK_DEADLOCK FALSE
