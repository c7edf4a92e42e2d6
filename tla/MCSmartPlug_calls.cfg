SPECIFICATION FairSpec
CONSTANTS
    BYTE = 2
    WORD = 65536
    LONG_MAX = 2147483647
    MS_PER_SECOND = 1000
    MAX_ONE_TIME_ON_OFF_TIMER = 54000
    MAX_AUTO_OFF_ON_TIME = 1
    Requesters <- CloudOnly
    Texts <- OddTexts
INVARIANTS
    OneShotExclusive
PROPERTIES
    CallsReturn
    AutoOffHappens
