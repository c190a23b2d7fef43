\* One share, one order id, one crash: liveness.
SPECIFICATION FairSpec
CONSTANTS
    Tickers = {A}
    Orders = {o1}
    Exits = {x1}
    Size = 1
    MaxCrashes = 1
    MaxShort = 1
    Recovers = TRUE
    LateRejects = FALSE
PROPERTIES
    HoldingEventuallyManaged
    LateBuyEventuallyEnds
