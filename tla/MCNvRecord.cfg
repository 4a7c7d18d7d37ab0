SPECIFICATION FairSpec
CONSTANTS
    Values = {v1, v2, v3}
    Default = v1
    Erased = Erased
    Torn = Torn
    MaxTouch = 1
INVARIANTS OneGoodCopy NoLostUpdate
PROPERTIES FlushEndsEqual SyncFlushDurable StoreRefined UpdateFlushed
