SPECIFICATION FairSpec
CONSTANTS
    MAX_DATA_BYTES = 4
    KEEPALIVE_TIMEOUT = 2
    PastTable <- PastTableBytes
    Segments <- Pieces
    Patience = 1
    Lateness = 0
    MaxSent = 5
    MaxSessions = 2
INVARIANTS
    TypeOK
    StreamIntegrity
    InStep
PROPERTIES
    ServesCommands
    StuckSessionEnds
