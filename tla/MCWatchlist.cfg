\* A market shows up within an hour, and the service asks again about one.  The processes come
\* to rest when everything is decided.
SPECIFICATION MCSpec
CONSTANTS
    Pairs = {p1, p2}
    Code = {refresh, discovery}
    Refresh = refresh
    Person = person
    Web = web
    Markets = {m1, m2}
    Overlap = 1
    Margin = 0
    Lag = 1
    MaxNow = 3
    MaxBusy = 2
INVARIANTS TypesOK Backed Agree SeesTheFile NoneBetween
SYMMETRY Alike
CHECK_DEADLOCK FALSE
