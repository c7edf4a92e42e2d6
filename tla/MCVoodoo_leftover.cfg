SPECIFICATION Spec
CONSTANTS
    MAX_DATA_BYTES = 128
    KEEPALIVE_TIMEOUT = 15
    PastTable <- PastTableBytes
    Segments <- Commands
    Patience = 15
    Lateness = 0
    MaxSent = 8
    MaxSessions = 1
INVARIANTS
    LeftoversProcessed
