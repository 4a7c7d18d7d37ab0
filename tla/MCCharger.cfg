SPECIFICATION FairChargerSpec
CONSTANTS
    DEBOUNCE_CNT = 3
    OPEN_READS = 6
    MAX_CHARGER_MAIL = 3
INVARIANTS
    NeverDeaf
PROPERTY
    ChargerFollowed
CHECK_DEADLOCK FALSE
