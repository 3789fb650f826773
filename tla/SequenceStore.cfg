SPECIFICATION Spec
CONSTANTS
    Peers = {p1, p2}
    Tool = tool
    Sending = sending
    Absent = Absent
    SeqMax = 3
    Batch = 2
    Threshold = 3
    Reinit = 1
SYMMETRY Symmetry
INVARIANTS SentIsCovered DeliveredIsCovered MirrorsStore
