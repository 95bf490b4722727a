\* A behaviour may stop: a stopped service, a market that is over.
SPECIFICATION MCSpec
CONSTANTS
    Pairs = {p1, p2}
    First = {p1}
    MaxTurns = 2
    Kalshi = {k1, k2}
    PMUS = {m1}
    Live = {k1}
    Values = {0, 1}
    Firsts = {0}
    Batch = 2
    RefreshStages = 3
    Doublings = 2
PROPERTIES PairsWatched Judged Alive
CHECK_DEADLOCK FALSE
