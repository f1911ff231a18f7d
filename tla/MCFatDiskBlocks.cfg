\* Two blocks of two sectors of two units: partly blank pages, a rewrite beside a
\* neighbour, a trim across blocks.
CONSTANTS
    x = x
    y = y
    Blank = Blank
    NumBlocks = 2
    SecPerBlock = 2
    UnitsPerPage = 2
    Words = {Blank, x, y}
    Straddle = {}
    IOErrors = FALSE
    Spared = {}
    MaxCount = 1
SYMMETRY Symmetric
SPECIFICATION Spec
INVARIANTS Synced CrashSafe FreeIsBlank WriteLands
PROPERTY ImplementsDisk
