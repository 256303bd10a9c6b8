CONSTANTS
    Clients = {c1, c2}
    Loadable <- GnssAndBatching
    Menu <- Callbacks
    MaxBacklog = 2
    MaxUpdates = 1
    MaxOpens = 1
SPECIFICATION FairSpec
INVARIANT DestroyedIsForgotten
PROPERTIES DestroyEnds CapabilitiesTold
CHECK_DEADLOCK FALSE
