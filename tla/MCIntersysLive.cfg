SPECIFICATION FairSpec
CONSTANTS
    Ids = {0}
    MAX_SEND_RECORD_COUNT = 2
    LEN = 2
    TX_MSGS = 2
    RX_MSGS = 3
    MAX_OPENS = 1
    MAX_NAPS = 1
INVARIANT
    RecvFifo
PROPERTIES
    Acknowledged
    Received
CHECK_DEADLOCK FALSE
