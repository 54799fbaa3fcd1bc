SPECIFICATION Spec
CONSTANTS
    Ids = {1, 2, 3, 4}
    Masters = {"m", "n"}
    Configs <- All
    MaxTime = 3
    MaxPlays = 2
    MaxSent = 2
CHECK_DEADLOCK FALSE
INVARIANTS TypeOK NoLostWait CountsAgree NothingLeftBehind
PROPERTIES ImplementsPrecedence StreamEnds
