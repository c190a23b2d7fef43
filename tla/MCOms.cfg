\* Up to four shares in up to three slices: one, two or more shares a slice.
SPECIFICATION FairSpec
CONSTANTS
    MaxTotal = 4
    MaxSlices = 3
INVARIANTS
    TypeOK
    PlanCoversTotal
    ResultExact
    LeftWorkingOnlyByOutage
PROPERTIES
    EscalatesWhenLagging
    ExecuteEnds
    ImplementsPurchase
\* execute returns: the behaviours of the simulator end there.
CHECK_DEADLOCK FALSE
