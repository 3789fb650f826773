SPECIFICATION FairSpec
CONSTANTS
    p1 = p1
    p2 = p2
    NoAddr = NoAddr
    Peers <- MCPeers
    Style = "Style3"
    MaxIncoming = 1
    SeqMod = 3
    MaxRepetitions = 1
    Outbox_Capacity = 8
INVARIANTS
    TimerDiscipline
    PendingWhileWaiting
    MacSequenceMatches
PROPERTIES
    PendingNotReplaced PollTerminates SilentPeerFreed
CHECK_DEADLOCK FALSE
