CONSTANTS
    CHANNEL_MAX = 2
    TIMEOUT = 2
    MAILBOX_MAX = 2
    MAX_LATE = 1
    Ops = {"RETRIGGER", "VOLUME"}
SPECIFICATION FairSpec
INVARIANTS TimerExact FirstIsClosest
PROPERTIES OverdueEnds
