SPECIFICATION FairSpec
CONSTANTS
    RING_BUF_LEN = 4
    Zeroed = Zeroed
    FrameSlots = 2
    Frames = {f1, f2}
PROPERTY SendReturns
