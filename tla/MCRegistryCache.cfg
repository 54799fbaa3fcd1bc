SPECIFICATION Spec
CONSTANTS
    Configs <- Followers
    Bases = {"a", "b", "c", "d"}
    MaxClones = 2
CHECK_DEADLOCK FALSE
INVARIANTS StreamsFresh
