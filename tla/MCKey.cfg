SPECIFICATION FairSpec
CONSTANTS
    PWR = pwr
    Pins = {p1}
    INTERVAL = 1
    LONGPRESS = 3
    LONGLONGPRESS = 4
    DBLCLICK = 2
    REPEAT = 2
    INIT_DOWN = 1
    INIT_LONGPRESS = 2
    INIT_LONGLONGPRESS = 3
    MAX_CLICK = 2
    MAX_AGE = 4
INVARIANTS
    LongPressHeld
    ClosedQuiet
PROPERTIES
    PressSeen
    ComesToRest
CHECK_DEADLOCK FALSE
