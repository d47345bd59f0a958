SPECIFICATION FairSpec
CONSTANTS
    Client = {c1, c2}
    Thread = {c1, c2}
    Fd = {5, 6}
    Entry <- OneEntry
    Other <- Page
    MaxInt = 3
    FileLen = 3
    Swath = 1
    MaxOpen = 2
    Aborts = FALSE
    ThreadsFail = FALSE
    None = None
INVARIANTS ReadsAtOffset
CHECK_DEADLOCK FALSE
