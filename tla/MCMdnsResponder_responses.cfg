SPECIFICATION Spec
CONSTANTS
    Instance = {"Core 1", "Core alt"}
    ServiceOf <- MCServiceOf
    SubsOf <- MCSubsOf
    MaxServices = 2
    NameSize <- MCNameSize
    TxtSize = 160
    BUFFER_SIZE = 512
    Packets <- MCPackets
INVARIANTS
    TypeOK
    AnswersAsked
    PacketComplete
    NamesDecode
    LengthsTrue
