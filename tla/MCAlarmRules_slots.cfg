SPECIFICATION Spec
CONSTANTS
    BYTE = 256
    WORD = 65536
    LONG_MAX = 2147483647
    MS_PER_SECOND = 1000
    MAX_ONE_TIME_ON_OFF_TIMER = 54000
    MAX_AUTO_OFF_ON_TIME = 200
    NO_ALARMS_SUPPORTED = 2
    THIS_YEAR = 2016
    Block = {b1, b2, b3, b4}
    NULL = NULL
    Free = Free
    Blank = Blank
    Rules <- MCRules
    Indexes <- MCIndexes
INVARIANTS
    SlotsAgree
    PointersOwn
PROPERTIES
    CreateTruthful
