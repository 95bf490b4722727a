SPECIFICATION Spec
CONSTANTS
    Pairs = {p1}
    Code = {refresh, discovery}
    Refresh = refresh
    Person = person
    Web = web
PROPERTIES PersonStands
CHECK_DEADLOCK FALSE
