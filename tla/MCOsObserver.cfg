SPECIFICATION Spec
CONSTANTS
    Clients = {c1, c2}
    Items = {network, zone, tac}
    Values = {1, 2}
    Absent = Absent
    Requestable = {tac}
    Subscribable = {network, zone}
    Direct = {network}
    Resubscribe = FALSE
    MaxBacklog = 2
    MaxCalls = 3
    MaxReports = 2
SYMMETRY Permuted
INVARIANTS Served Informed
PROPERTY SubscriptionsSpec
\* The calls are bounded.
CHECK_DEADLOCK FALSE
