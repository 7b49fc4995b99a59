SPECIFICATION Spec
CONSTANTS
    Sizes <- MCSizes
    Bursts <- MCBursts
    Buffers <- MCBuffers
CHECK_DEADLOCK FALSE
INVARIANTS
    OverrunIsLastCall
    HoldsLiveFile
