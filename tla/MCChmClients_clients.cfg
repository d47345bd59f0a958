SPECIFICATION FairSpec
CONSTANTS
    Jobs <- MCJobs
    BufLen = 2
    ToolFaults = {"open", "mkdir", "fwrite", "malloc", "sha1"}
    Books <- MCBooks
    XsFile = "xs"
    CoverName = "cover"
    TocFileNames <- MCToc
    OtherTocFileNames <- MCOther
    HtmlExtensions <- MCHtml
    HhcExtension <- MCHhc
INVARIANTS TypeOK ExtractsInOrder ToolClosesUp CoverOfFirstStage
PROPERTIES ClientEnds
\* A client returns.
CHECK_DEADLOCK FALSE
