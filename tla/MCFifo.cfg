SPECIFICATION Spec
CONSTANTS
    Configs <- All
    Precision = 10
    Sizes = {1, 2}
    MaxTime = 8
    MaxOt = 2
    MaxHeld = 3
CHECK_DEADLOCK FALSE
INVARIANTS TypeOK Capacity BytesExact FreezePolarity
PROPERTIES ForecastExact ImplementsCreditLimiter
