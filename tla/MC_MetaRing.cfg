SPECIFICATION FairSpec
CONSTANTS
    RING_BUF_LEN = 2
    Zeroed = Zeroed
    NumQueues = 2
    Ids <- OneTellsApart
INVARIANTS
    TypeOK
    TakesNextReport
    FreeSlotsAreZeroed
PROPERTY NoQueueStarves
