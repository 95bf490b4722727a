SPECIFICATION Spec
CONSTANTS
    Values = {1, 2}
    Costs = {1, 3}
    Faults = FALSE
    MaxDay = 2
INVARIANTS PaidIsRecorded
CHECK_DEADLOCK FALSE
