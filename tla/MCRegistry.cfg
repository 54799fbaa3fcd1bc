SPECIFICATION Spec
CONSTANTS
    Configs <- All
    Bases = {"a", "b", "c", "d"}
    MaxClones = 2
CHECK_DEADLOCK FALSE
INVARIANTS TypeOK CountsExact ClonesApart StreamsFresh
