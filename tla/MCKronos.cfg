SPECIFICATION FairSpec
CONSTANTS
    Width = 2
    Size = 3
    MaxTime = 12
    MaxEvents = 3
    Past <- PastTimes
INVARIANTS TypeOK CalendarExact NextExactAhead
PROPERTIES GetsComplete LoopDrains ImplementsFutureEventList
CHECK_DEADLOCK FALSE
