SPECIFICATION FairSpec
CONSTANTS
    Pairs = {p1}
    Leads = {"K", "P"}
    Sizes = {2}
    Unit = 2
    MaxRejects = 2
    Rounds = 2
    BlindEvery = 2
    RowCap = 0
    Ids = {1, 2}
    Crashes = TRUE
    Faults = TRUE
    CarefulUser = TRUE
INVARIANTS HedgedOrStopped
PROPERTIES TradeEnds
