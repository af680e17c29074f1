SPECIFICATION Spec
CONSTANTS
    MAX_PSN_WINDOW = 4
    MAX_SEND_WR = 2
    BITMAP_WIDTH = 8
    STRIDE = 8
    INIT_RETRY = 3
    Envs <- AllEnvs
INVARIANTS
    TypeOK
    SendCompletesAfterDelivery
    ReadCompletesAfterResponse
    SendCompletionsInOrder
    
    RecvIsPosted
    UnackedIsRetained
    TimerCoversIncomplete
    WindowIsRespected
    StopsOnlyWhenDone
CHECK_DEADLOCK FALSE
