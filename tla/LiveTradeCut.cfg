SPECIFICATION Spec
CONSTANTS
    Pairs = {p1}
    Leads = {"P"}
    Sizes = {2}
    Unit = 1
    MaxRejects = 2
    Rounds = 2
    BlindEvery = 2
    RowCap = 0
    Ids = {1, 2}
    Crashes = TRUE
    Faults = FALSE
    CarefulUser = TRUE
INVARIANTS CrashMidTradeStops
