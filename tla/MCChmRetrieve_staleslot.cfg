\* Reads may fail.
SPECIFICATION FairSpec
CONSTANTS
    BlockLen = 2
    ResetBlkCount = 2
    MaxCacheBlocks = 2
    MaxBlocksCached = 2
    CacheSizes = {}
    Entry <- MCShortEntry
    MaxLen = 2
    Buf = {b1, b2}
    NULL = NULL
    Faults = {"read"}
INVARIANTS ServedSlotsHoldTheirBlock
CHECK_DEADLOCK FALSE
