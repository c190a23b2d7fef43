SPECIFICATION Spec
SYMMETRY TickerSymmetry
CONSTANTS
    Tickers = {A, B}
    Bars <- MCBars
    Payoffs = {20}
    LastSession = 4
    Weekday <- MCWeekday
    CalendarDay <- MCCalendarDay
    InitialCash = 400000
    HardStop = 40
    Trailing = 40
    TimeStop = 2
    Drawdown = 15
    ThreeDayLoss = 10
    GapThrough = 40
    Cooldown = 3
    KellyFraction = 100
    PositionCap = 500
    PriorN = 1
    PriorWin = 50
    PriorPayoff = 40
    MaxGross = 70
    MaxPositions = 2
    MaxNewPerDay = 2
INVARIANTS
    TypeOK
    BookMatchesBroker
    LedgerBalances
    CashCoversEntries
    CapsHold
    MarkedAtLastClose
    OneTradePerEntry
    LossLocksEntries
PROPERTIES
    KilledNeverBuys
\* The sessions of the instance end.
CHECK_DEADLOCK FALSE
