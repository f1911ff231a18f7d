\* Two blocks of two pages of two units.
CONSTANTS
    x = x
    y = y
    Blank = Blank
    NumBlocks = 2
    SecPerBlock = 2
    UnitsPerPage = 2
    Words = {Blank, x, y}
    Straddle = {}
    IOErrors = FALSE
    Spared = {}
SYMMETRY Symmetric
SPECIFICATION Spec
INVARIANT CallLands
PROPERTY ImplementsDisk
