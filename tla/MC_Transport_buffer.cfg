SPECIFICATION Spec
CONSTANTS
    MAX_PSN_WINDOW = 16
    MAX_SEND_WR = 8
    BITMAP_WIDTH = 8
    STRIDE = 8
    INIT_RETRY = 2
    Envs <- TwoSendEnvs
INVARIANT RecvNamesItsBuffer
CHECK_DEADLOCK FALSE
