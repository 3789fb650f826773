SPECIFICATION Spec
CONSTANTS
    p1 = p1
    p2 = p2
    NoAddr = NoAddr
    Peers <- MCPeers
    Style = "Style1"
    MaxIncoming = 2
    SeqMod = 2
    MaxRepetitions = 0
    Outbox_Capacity = 8
SYMMETRY Symmetry
INVARIANTS LookupFindsOpen AccessNotInherited CemiExclusive OutboxBounded
CHECK_DEADLOCK FALSE
