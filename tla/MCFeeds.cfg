SPECIFICATION MCSpec
CONSTANTS
    Tickers = {1, 2}
    Worlds <- MCWorlds
    MaxChanges = 2
    Slugs = {1, 2, 3}
    Conns = {1, 2}
    Limits <- MCLimits
    MaxOut = 1
INVARIANTS TypesOK InLineUnlessIgnored OneStream
PROPERTIES Promised
