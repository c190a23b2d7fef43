\* Two concurrent callers, so that in_flight matters; two shares, so that a
\* sell fills in part.
SPECIFICATION FairSpec
CONSTANTS
    Tickers = {A}
    Tasks = {k1, k2}
    Orders = {o1, o2}
    InitQty = 2
INVARIANTS
    TypeOK
    NoUntrackedLiveSell
    OversoldOnlyByRace
    ExitLogSound
PROPERTIES
    ImplementsSale
    FilledExitReconciled
    BreachEventuallyFlat
