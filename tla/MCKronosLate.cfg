SPECIFICATION Spec
CONSTANTS
    Width = 1
    Size = 3
    MaxTime = 6
    MaxEvents = 4
    Past = {}
INVARIANT OnTime
CHECK_DEADLOCK FALSE
