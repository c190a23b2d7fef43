SPECIFICATION FairSpec
CONSTANTS
    Tickers = {A}
    Tasks = {k1}
    Orders = {o1, o2}
    InitQty = 2
PROPERTY DecayEventuallyTrimmed
