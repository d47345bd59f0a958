\* Nothing fails and the cache keeps its size.
SPECIFICATION FairSpec
CONSTANTS
    BlockLen = 2
    ResetBlkCount = 3
    MaxCacheBlocks = 3
    MaxBlocksCached = 2
    CacheSizes = {}
    Entry <- MCEntry
    MaxLen = 4
    Buf = {b1, b2}
    NULL = NULL
    Faults = {}
INVARIANTS TypeOK RetrievedIsContent DecoderInSync OnlyNeededBlocks
    ServedSlotsHoldTheirBlock LastDataLive
PROPERTIES ImplementsEntryStore
\* chm_close ends the run.
CHECK_DEADLOCK FALSE
