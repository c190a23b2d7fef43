\* The process dies between a submit and the snapshot.
SPECIFICATION Spec
CONSTANTS
    Tickers = {A}
    Orders = {o1, o2}
    Exits = {x1}
    Size = 2
    MaxCrashes = 1
    MaxShort = 1
    Recovers = FALSE
    LateRejects = FALSE
INVARIANTS
    OneEntry
