SPECIFICATION FairSpec
CONSTANTS
    Objects = {o1}
    None = None
    Capacity = 3
    SlowUart = TRUE
INVARIANTS FifosTrackFrames
PROPERTY DrainsUnlessMutualWait
CHECK_DEADLOCK FALSE
