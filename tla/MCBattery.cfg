SPECIFICATION FairSpec
CONSTANTS
    Volts = {2700, 3000, 4230}
    ERR = 2800
    PD = 3100
    LOW = 3200
    HIGH = 4200
    OFFSET = 20
    LEVEL_MAX = 9
    STABLE_COUNT = 2
    INDEX_WRAP = 5
    CNT_WRAP = 2
    OVERVOLT_CNT = 1
    SLOPE_COUNT = 1
    MAX_MAIL = 2
INVARIANTS
    MeanOfLast
PROPERTIES
    FullGenuine
    EmptyTurnsOff
CHECK_DEADLOCK FALSE
