SPECIFICATION FairSpec
CONSTANTS
    MaxCalls = 4
    Plans <- SeveralPlans
    LockConfigs <- TwoLocks
    Lists = {"none", "some"}
    DenyOnLocked = TRUE
INVARIANTS OdcpiIsTimed LockFollowsFramework ListFollowsFramework AnswerIsOwn
PROPERTIES OdcpiIsServed NiIsClosed
CHECK_DEADLOCK FALSE
