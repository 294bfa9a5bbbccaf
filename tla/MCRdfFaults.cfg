SPECIFICATION Spec
CONSTANTS
    Transfers = {t1}
    Flows <- ManyFlows
    DatabaseMayFail = TRUE
    MayRestart = TRUE
INVARIANTS
    TypeOK
    SuccessIsEarned
    NoSilentGap
    NoLeakAfterSending
    MarkedNeverReachesFallback
PROPERTIES
    InStreamVerdictStays
    StreamsEnd
    CompletionsAreJudged
CHECK_DEADLOCK FALSE
