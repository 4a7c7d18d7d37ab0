\* The frequencies 32K, 26M, 52M and 104M.  Without the floor of an idle core
\* every deep sleep moves the floor from 32K to 52M and back.
CONSTANTS
    USER_QTY = 2
    FREQ_QTY = 4
    FREQ_26M = 1
    FREQ_52M = 2
    SLEEP_SYS_FREQ_52M = TRUE
    IDLE_SYS_FREQ_52M = FALSE
    Lockers = {k}
    h1 = h1
    h2 = h2
    h3 = h3
    h4 = h4
    Handlers <- MCHandlers
    PmUser <- MCPmUser
    PM_NOTIF_HDLR_CNT = 3
SPECIFICATION FairSleepSpec
INVARIANTS AsleepSafe PmuCovers FloorRestored NothingLeftDown
PROPERTIES MirrorOrder IrqWakes
