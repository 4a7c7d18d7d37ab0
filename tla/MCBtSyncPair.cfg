SPECIFICATION FairSpec
CONSTANTS
    CHANNEL_MAX = 2
    DELAY = 2
    Ops = {"RETRIGGER", "VOLUME"}
    CONCURRENT = FALSE
    MAX_CMDS = 2
    MAX_REQUESTS = 1
INVARIANTS
    BothActOrExcused
    NoLeak
PROPERTIES
    ActsOnTime
    MasterFree
CHECK_DEADLOCK FALSE
