SPECIFICATION Spec
CONSTANTS
    Peers = {p1, p2}
    Tool = tool
    Sending = sending
    Absent = Absent
    SeqMax = 4
    Batch = 2
    Threshold = 4
    Reinit = 1
SYMMETRY Symmetry
INVARIANT LeavesCovered
