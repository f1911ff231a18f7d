\* The same faults: half-written records, imports, exports and updates that fail.
CONSTANTS
    Blank = Blank
    x = x
    y = y
    NumBlocks = 2
    SecPerBlock = 1
    UnitsPerPage = 2
    Words = {Blank, x}
    Straddle = {1}
    IOErrors = TRUE
    Spared = {0}
SPECIFICATION FairSpec
PROPERTY CallsReturn
