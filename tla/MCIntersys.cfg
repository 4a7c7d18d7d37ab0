SPECIFICATION Spec
CONSTANTS
    Ids = {0}
    MAX_SEND_RECORD_COUNT = 3
    LEN = 1
    TX_MSGS = 4
    RX_MSGS = 0
    MAX_OPENS = 2
    MAX_NAPS = 0
INVARIANTS
    SendFifo
    InUseExact
    BusyExact
    AsleepSafe
CHECK_DEADLOCK FALSE
