\* A behaviour may stop: the last day, the last tick, no trade left.
SPECIFICATION MCSpec
CONSTANTS
    Shards = {0, 1}
    MaxCash = 2
    HiddenMoves = FALSE
    PlanShards = {0, 1, 3}
    MaxPlanCash = 8
    Cent = 2
    MinMove = 4
    Drift = 5
    DriftPct = 75
    Trades = {t1, t2}
    Deposits = {3, 4}
    Price = 2
    Values = {1, 2}
    Costs = {1, 3}
    Faults = TRUE
    MaxDay = 2
    Prices = {4}
    Overlap = 1
    Late = 1
    MaxFills = 2
    MaxNow = 2
INVARIANTS TypeOK NeverOverspent AccountAgrees NeverOverdrawn PnlAgrees RecordedAsPaid RightUnlessCrossed
PROPERTIES RoundServes
CHECK_DEADLOCK FALSE
