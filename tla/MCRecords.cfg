\* The raw history stops with the service, and the clock of the calls at its last tick.
SPECIFICATION MCSpec
CONSTANTS
    Ids = {i1, i2, i3}
    None = None
    MaxTorn = 2
    Raw <- MCRaw
    Settings <- MCSettings
    Floor = 1
    Step = 1
    Batch = 1
    MaxNow = 4
    MaxCapped = 3
    MaxQueue = 1
    Interval = 2
    Waits = {1, 3, 4}
    LastTick = 8
INVARIANTS Exact EachCutLosesOne
PROPERTIES OldUnlessEmptied PassEnds Paced
CHECK_DEADLOCK FALSE
