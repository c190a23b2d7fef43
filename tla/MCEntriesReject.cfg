\* An order that is rejected after a partial fill.
SPECIFICATION FairSpec
CONSTANTS
    Tickers = {A}
    Orders = {o1}
    Exits = {x1}
    Size = 2
    MaxCrashes = 0
    MaxShort = 1
    Recovers = TRUE
    LateRejects = TRUE
PROPERTIES
    HoldingEventuallyManaged
