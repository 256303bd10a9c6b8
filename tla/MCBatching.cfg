CONSTANTS
    Patient = TRUE
    Supported = TRUE
    Refusable <- StartsRefused
    MaxClients = 2
    MaxBacklog = 4
    MaxCommands = 7
    MaxFaults = 1
    MaxFull = 1
SPECIFICATION Spec
INVARIANTS SessionsAgree FullFollowsSessions AnswersMatch
CHECK_DEADLOCK FALSE
