SPECIFICATION FairSpec
CONSTANTS
    W = 4
    F = 2
    NChars = 2
    E8 = 1
    Safety = 3
    Runs = {1, 2}
    Codes <- MCCodes
    BlockLengths = {1, 3}
    Matches = {1, 2}
    Damaged = 1
    MaxFrames = 3
INVARIANTS TypeOK ReturnsNextFrame WindowHoldsHistory LensAsMeant TranslatedAtPosition
PROPERTIES CallsReturn
