SPECIFICATION Spec
CONSTANTS
    PMTU = 4
    WR_CHUNK_SIZE = 8
    MaxAddr = 9
    MaxLength = 20
INVARIANT NumPsnIsRight
CHECK_DEADLOCK FALSE
