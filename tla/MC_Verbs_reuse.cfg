SPECIFICATION FairSpec
CONSTANTS
    MAX_MR_CNT = 2
    PGT_LEN = 3
    MAX_NUM_PGT_ENTRY_PER_ALLOC = 1
    RandomKeys = {7}
    Page <- MCPage
    Areas <- MCAreas
    p1 = p1
    p2 = p2
    p3 = p3
    Node = {1, 2}
    Here = 1
    MAX_QP_CNT = 3
    N_TESTING = 1
    MaxLoads = 2
    MaxLists = 1
    MaxOpens = 2
    RING_BUF_LEN = 2
    Zeroed = Zeroed
    Threads <- MCThreads
    Cmds <- MCCmds
    Scenarios <- MCReuse
INVARIANTS
    ReceivesReachPeer
CHECK_DEADLOCK FALSE
