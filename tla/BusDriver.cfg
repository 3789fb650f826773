SPECIFICATION Spec
CONSTANTS
    SeqMod = 16
    MaxRepetitions = 1
    Modes = {"plain", "fdsk"}
    Kinds = {"ack", "response", "rotate"}
    MaxOpens = 2
    MaxRequests = 2
    MaxLost = 2
    MaxQueued = 2
INVARIANTS
    AnswersCorrelate ExecutedAsReported KeyCommitted NothingLeftBehind
CHECK_DEADLOCK FALSE
