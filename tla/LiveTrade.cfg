SPECIFICATION Spec
CONSTANTS
    Pairs = {p1, p2}
    Leads = {"P"}
    Sizes = {2}
    Unit = 1
    MaxRejects = 2
    Rounds = 2
    BlindEvery = 2
    RowCap = 0
    Ids = {1, 2}
    Crashes = FALSE
    Faults = FALSE
    CarefulUser = TRUE
INVARIANTS TypeOK NeverOverHedged BeforeExact
PROPERTIES NoOrderIntoPause
