\* One ticker, two shares, two order ids, one crash: safety.
SPECIFICATION Spec
SYMMETRY OrderSymmetry
CONSTANTS
    Tickers = {A}
    Orders = {o1, o2}
    Exits = {x1}
    Size = 2
    MaxCrashes = 1
    MaxShort = 1
    Recovers = FALSE
    LateRejects = TRUE
INVARIANTS
    TypeOK
    MirrorCovered
    NoLostFill
    OneEntryPerCrash
