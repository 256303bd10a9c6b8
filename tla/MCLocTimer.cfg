SPECIFICATION TimerFairSpec
CONSTANTS
    Clients = {"a", "b"}
    Delays = {1, 2}
    MaxStarts = 3
    MaxTime = 2
INVARIANTS SoonestIsArmed DeletedIsForgotten
PROPERTIES EndsOnce EveryTimerEnds
CHECK_DEADLOCK FALSE
