SPECIFICATION Spec
CONSTANTS
    Modulus = 256
    Capacity = 1
    MaxSessions = 1
    MaxChannels = 2
    MaxUp = 2
    MaxDown = 2
    MaxStarved = 1
INVARIANTS
    OnceInOrder
    AcksTrue
PROPERTIES
    ExchangesEnd
CHECK_DEADLOCK FALSE
