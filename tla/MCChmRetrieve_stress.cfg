\* Anything may fail, and between calls the client changes the cache's size.
SPECIFICATION FairSpec
CONSTANTS
    BlockLen = 2
    ResetBlkCount = 2
    MaxCacheBlocks = 2
    MaxBlocksCached = 1
    CacheSizes = {1, 2, 3}
    Entry <- MCShortEntry
    MaxLen = 3
    Buf = {b1, b2}
    NULL = NULL
    Faults = {"malloc", "read", "data"}
INVARIANTS OneOwner TagsHashToTheirSlot
PROPERTIES DeliversInOrder CallsReturnOrCrash
\* chm_close ends the run, and so does a crash.
CHECK_DEADLOCK FALSE
