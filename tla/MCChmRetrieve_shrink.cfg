\* Nothing fails; the client shrinks the cache between calls.
SPECIFICATION FairSpec
CONSTANTS
    BlockLen = 2
    ResetBlkCount = 2
    MaxCacheBlocks = 2
    MaxBlocksCached = 2
    CacheSizes = {1, 2}
    Entry <- MCShortEntry
    MaxLen = 2
    Buf = {b1, b2}
    NULL = NULL
    Faults = {}
INVARIANTS RetrievedIsContent
CHECK_DEADLOCK FALSE
