SPECIFICATION FairSpec
CONSTANTS
    MAX_PSN_WINDOW = 16
    MAX_SEND_WR = 8
    BITMAP_WIDTH = 1
    STRIDE = 1
    INIT_RETRY = 2
    Envs <- SlideEnvs
INVARIANTS
    AckedIsReceived
PROPERTY AllComplete
CHECK_DEADLOCK FALSE
