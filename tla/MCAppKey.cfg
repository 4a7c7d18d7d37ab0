SPECIFICATION FairAppSpec
CONSTANTS
    BootEvents = {b1}
    UiEvents = {u1, u2}
    Battery = battery
    BtSync = btsync
    KEY_EVENT_CNT_LIMIT = 2
    APP_MAILBOX_MAX = 5
    POOL_SIZE = 2
    MAX_LOST = 1
INVARIANTS
    CountDrift
PROPERTY
    Delivered
CHECK_DEADLOCK FALSE
