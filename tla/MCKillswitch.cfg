\* One ticker, a window of three parts of a day: a session, a night and a session.
SPECIFICATION FairSpec
CONSTANTS
    Tickers = {A}
    Cooldown = 3
    OutageMax = 1
    StaleMax = 1
    ManageMayRaise = FALSE
INVARIANTS
    TypeOK
    NoGhostGap
    GaugesTrackSwitch
PROPERTIES
    NoEntryWhileLocked
    KillEventuallyClears
