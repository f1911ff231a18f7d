\* The import may fail at the start, the export may fail before it opens the file
\* or leave a short one, every update may end or lose a record anywhere, and the
\* record of the last unit of every page may be half written by a kill.  A failing
\* export writes the first sector right.
CONSTANTS
    Blank = Blank
    x = x
    y = y
    NumBlocks = 1
    SecPerBlock = 2
    UnitsPerPage = 2
    Words = {Blank, x}
    Straddle = {1}
    IOErrors = TRUE
    Spared = {0}
    MaxCount = 1
SPECIFICATION FairSpec
INVARIANT NonBlankWordsLand
PROPERTY CallsReturn
