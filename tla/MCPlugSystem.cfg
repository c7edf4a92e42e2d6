SPECIFICATION FairSystemSpec
CONSTANTS
    BYTE = 2
    WORD = 65536
    LONG_MAX = 2147483647
    MS_PER_SECOND = 1000
    MAX_ONE_TIME_ON_OFF_TIMER = 54000
    MAX_AUTO_OFF_ON_TIME = 0
    Requesters <- Thread
    Texts <- AllTexts
    CloudTexts <- CloudArguments
    MAX_DATA_BYTES = 8
    KEEPALIVE_TIMEOUT = 1
    PastTable <- NothingPast
    Segments <- ClientCommands
    Patience = 0
    Lateness = 0
    MaxSent = 3
    MaxSessions = 1
INVARIANTS
    AcksTrue
PROPERTIES
    LoopReturns
