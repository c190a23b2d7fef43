\* A sell raises after another position was closed.
SPECIFICATION Spec
SYMMETRY TickerSymmetry
CONSTANTS
    Tickers = {A, B}
    Cooldown = 1
    OutageMax = 1
    StaleMax = 1
    ManageMayRaise = TRUE
INVARIANTS
    NoGhostGap
