SPECIFICATION Spec
CONSTANTS
    Configs <- All
    Masters = {"m", "n"}
    NoMaster = NoMaster
    Callers = {1, 2}
CHECK_DEADLOCK FALSE
INVARIANTS TypeOK UniqueGiven OwnRanges AddressesExact
