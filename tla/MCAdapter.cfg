SPECIFICATION AdapterSpec
CONSTANTS
    Configs <- All
    Masters = {"m", "n"}
    MaxTick = 4
CHECK_DEADLOCK FALSE
INVARIANTS AdapterTypeOK InOrder DoneIsDone
PROPERTIES AllPlayed
