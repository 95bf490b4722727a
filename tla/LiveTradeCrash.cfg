SPECIFICATION Spec
CONSTANTS
    Pairs = {p1, p2}
    Leads = {"P"}
    Sizes = {1}
    Unit = 1
    MaxRejects = 2
    Rounds = 1
    BlindEvery = 2
    RowCap = 0
    Ids = {1, 2}
    Crashes = TRUE
    Faults = TRUE
    CarefulUser = TRUE
INVARIANTS AccountExact ReservedExact
PROPERTIES NoSendWhileUnresolved
