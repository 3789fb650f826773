SPECIFICATION Spec
CONSTANTS
    p1 = p1
    p2 = p2
    i1 = i1
    i2 = i2
    k1 = k1
    k2 = k2
    None = None
    Err = Err
    Procs = {p1, p2}
    Ids = {i1, i2}
    Devices = {"relay"}
    GroupKeys = {k1, k2}
    Recorded <- MCRecorded
    MaxSequence = 3
    MaxOps = 2
    MaxFaults = 1
SYMMETRY Symmetry
INVARIANTS MarkerBlocks

CHECK_DEADLOCK FALSE
