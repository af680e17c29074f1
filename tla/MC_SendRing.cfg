SPECIFICATION RingSpec
CONSTANTS
    RING_BUF_LEN = 5
    Zeroed = Zeroed
    Requests = {r1, r2}
INVARIANTS
    TypeOK
    PointersInOrder
    DoorbellAfterWholeRequest
PROPERTY IsAQueue
