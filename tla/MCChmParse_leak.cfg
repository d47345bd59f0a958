SPECIFICATION FairSpec
CONSTANTS
    Archives <- OneArchive
    MaxEntries = 5
    Cont = 8
    Word = 16
    Long = 512
    CHM_MAX_PATHLEN = 3
    SLASH = 1
    HASH = 2
    DOLLAR = 3
    Lower <- MCLower
    CHMU_RESET_TABLE <- MCResetTable
    CHMU_CONTENT <- MCContent
    CHMU_LZXC_CONTROLDATA <- MCControl
    Unit = 4
    Faults = {}
INVARIANTS CloseFreesEntries
CHECK_DEADLOCK FALSE
