SPECIFICATION Spec
CONSTANTS
    MAX_PSN_WINDOW = 8
    MAX_SEND_WR = 4
    BITMAP_WIDTH = 3
    NumPkts = 18
    STRIDE = 1
    MaxReports = 2
    MaxLead = 4
INVARIANTS
    TypeOK
    NeverAckUnreceived
    CompletionToldTheBase
    BaseIsFirstMissing
PROPERTY AcksAreNeverForgotten
