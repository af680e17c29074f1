SPECIFICATION PathSpec
CONSTANTS
    PMTU = 4
    WR_CHUNK_SIZE = 8
    MaxAddr = 9
    MaxLength = 20
    Workers = {w1, w2}
    w1 = w1
    w2 = w2
    BATCH = 2
    RING_CHUNKS = 1
    Followed <- MCFollowed
INVARIANTS
    FragmentsTile
    PositionsAreRight
    RetryHasSamePsns
    
    FragmentsAreSomewhere
PROPERTIES
    FragmentsReachCard
CHECK_DEADLOCK FALSE
