SPECIFICATION FairSpec
CONSTANTS
    Sessions = {1, 2, 3}
    Clients = {"a", "b"}
    Owner <- OneEach
    Menu <- Mixed
    Retune <- Retuned
    Patient = {3}
    KnownAtInit = FALSE
    MaxBacklog = 1
    MaxUpdates = 1
    MaxConfigs = 1
    MaxCrashes = 0
INVARIANTS EngineFollowsTable AnswersBalance NoOrphan
PROPERTY EveryCallAnswered
CHECK_DEADLOCK FALSE
