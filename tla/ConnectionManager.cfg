SPECIFICATION Spec
CONSTANTS
    Capacity = 2
    MaxConns = 3
    NumIds = 3
    Streams = 1
    MaxChannels = 2
    Sessions = 1
    NumSessions = 2
    Users <- MCUsers
    AddrLists <- MCAddrLists
    EventCap = 2
    MaxConnects = 4
    MaxFrames = 1
    MaxWrites = 1
INVARIANTS
    TablesAgree
    NoOrphans
    CemiFollows
PROPERTIES
    UniqueAddress
CHECK_DEADLOCK FALSE
