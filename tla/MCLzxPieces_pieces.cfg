SPECIFICATION FairSpec
CONSTANTS
    NSyms = 7
    NBits = 4
    PeekBits = 6
    Lengths <- MCLengths
    ByteBits = 2
    Inlen = {6, 9}
    Reads = {1, 2, 5}
    CodeLens = {1, 3, 4}
    RBytes = 2
    RawLens = {1, 2, 3}
    Past = 5
    Offsets <- MCOffsets
    Values = 4
    CallByte = 3
    AddrLen = 2
    NotLooked = 3
    Outlen = 7
    Contents <- MCContents
    Positions = {0, 5}
    Filesizes = {1, 6}
INVARIANTS TypeOK DecodesCanonically RefusesBadCodes ReadsTheStream OffsetsReadBack CallsRestored
PROPERTIES LoopsEnd
\* A table, an offset and a frame are done some time.
CHECK_DEADLOCK FALSE
