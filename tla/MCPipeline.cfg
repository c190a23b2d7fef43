\* Two tickers from Wednesday to Friday; Monday and Friday are holidays.  One crash, stop or
\* failed write.
SPECIFICATION Spec
SYMMETRY TickerSymmetry
CONSTANTS
    Tickers = {A, B}
    Decisions = Decisions
    FirstDay = 3
    LastDay = 5
    Weekdays <- Week
    Sessions <- WeekOfHolidays
    MaxAge = 72
    Configs <- Automatic
    MaxFaults = 1
INVARIANTS
    TypeOK
    NoHoles
    CleanIngestCompletes
    StampIsABar
    BoughtOnLastBars
PROPERTY
    PlanOfTheDay
\* The calendar of the instance ends.
CHECK_DEADLOCK FALSE
