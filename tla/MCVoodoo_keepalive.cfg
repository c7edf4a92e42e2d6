SPECIFICATION Spec
CONSTANTS
    MAX_DATA_BYTES = 128
    KEEPALIVE_TIMEOUT = 15
    PastTable <- PastTableBytes
    Segments <- KeepalivesOnly
    Patience = 13
    Lateness = 2
    MaxSent = 6
    MaxSessions = 2
PROPERTIES
    LiveClientKept
