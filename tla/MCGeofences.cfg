SPECIFICATION FairSpec
CONSTANTS
    Clients = {"a"}
    Ids = {1, 2}
    Batches <- OneOrBoth
    Refusable = {"add", "remove", "pause", "resume", "modify"}
    Patient = TRUE
    MaxBacklog = 3
    MaxCommands = 3
    MaxRefusals = 1
    MaxCrashes = 1
INVARIANTS ModemFollowsMap FencesSurvive 
PROPERTY CallsAnswered
CHECK_DEADLOCK FALSE
