SPECIFICATION Spec
CONSTANTS
    Configs <- All
    Masters = {"m", "n"}
    Slaves = {"s", "r"}
    MaxTime = 2
    MaxUid = 3
CHECK_DEADLOCK FALSE
INVARIANTS TypeOK NoneAstray
PROPERTIES LoopEnds ImplementsRequestReply
