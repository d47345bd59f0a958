SPECIFICATION MCSpec
CONSTANTS
    Client = {c1, c2, c3}
    Thread = {c1, c2, c3}
    Fd = {5, 6, 7}
    Entry <- OneEntry
    Other <- NoBlank
    MaxInt = 3
    FileLen = 3
    Swath = 1
    MaxOpen = 3
    Aborts = TRUE
    ThreadsFail = TRUE
    None = None
INVARIANTS TypeOK AloneGetsItsAnswer AsLongAsAnnounced
PROPERTIES SlavesFinish EveryConnectionEnds
\* The server may run out of clients.
CHECK_DEADLOCK FALSE
