SPECIFICATION FairSpec
CONSTANTS
    Client = {c1, c2, c3}
    Thread = {c1, c2, c3}
    Fd = {5}
    Entry <- OneEntry
    Other <- Page
    MaxInt = 3
    FileLen = 3
    Swath = 1
    MaxOpen = 1
    Aborts = FALSE
    ThreadsFail = FALSE
    None = None
INVARIANTS EachGetsItsAnswer
CHECK_DEADLOCK FALSE
