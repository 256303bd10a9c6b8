SPECIFICATION FairSpec
CONSTANTS
    h1 = h1
    h2 = h2
    Handles = {h1, h2}
    Worlds <- PlainAndUnreliable
INVARIANTS SubscribersMatchState OpenHandleIsServed AcquiredMeansConnected
PROPERTIES OpenIsAnswered
CHECK_DEADLOCK FALSE
