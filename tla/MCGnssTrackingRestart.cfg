SPECIFICATION Spec
CONSTANTS
    Sessions = {1, 2, 3}
    Clients = {"a", "b"}
    Owner <- OneEach
    Menu <- Mixed
    Retune <- Retuned
    Patient = {3}
    KnownAtInit = TRUE
    MaxBacklog = 2
    MaxUpdates = 1
    MaxConfigs = 0
    MaxCrashes = 1
INVARIANTS SettledServes
CHECK_DEADLOCK FALSE
