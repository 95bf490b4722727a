\* A behaviour may stop: the last tick, the last start, a pricing.
SPECIFICATION MCSpec
CONSTANTS
    Ticks = 10
    Parts = 3
    Coef = 1
    Per = 10
    Prices = {4, 6, 7}
    Qtys = {1, 3, 4}
    MaxLevels = 2
    Budgets = {0, 1, 2}
    Asked = {1, 3}
    Edges = {0, 125}
    MinWindow = 1
    Quiet = 2
    Settle = 2
    Recheck = 1
    Idle = 3
    Resume = 2
    Linger = TRUE
    MaxStarts = 2
    LastTick = 4
    Pairs <- MCPairs
    StartOf <- MCStartOf
    Shut = {5}
    PerDay = 2
    PerHour = 2
    Hour = 5
    Rest = 2
    Cool = 1
    Margin = 1
    Opening = 1
    Longest = 2
    Day = 3
    MaxTrades = 3
    MaxRuns = 2
    MaxAge = 3
    MinGap = 1
    Retry = 4
    Timeout = 4
    Back = 2
    MaxBooks = 3
    MaxWire = 2
    MaxNow = 5
INVARIANTS TypesOK RecordedOnce WithinTheLimits PricedRight
PROPERTIES TakenWhenDue Vouched
CHECK_DEADLOCK FALSE
