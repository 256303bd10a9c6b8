SPECIFICATION NetworkSpec
CONSTANTS
    cell = cell
    wifi = wifi
    wifi2 = wifi2
    ethernet = ethernet
    Networks = {cell, wifi, ethernet}
    TypeOf <- EachItsType
    Mobile = "mobile"
    MaxNetworkHandles = 10
    MaxItem = 3
    MaxBacklog = 2
    MaxReports = 5
    MaxDeaths = 1
    MaxRequests = 2
INVARIANTS NetworksKnown DaemonInformed
\* Reports and requests are bounded.
CHECK_DEADLOCK FALSE
