\* Three blocks of three pages of two units.
CONSTANTS
    NumBlocks = 3
    PagesPerBlock = 3
    UnitsPerPage = 2
SPECIFICATION FairSpec
INVARIANTS InPlace AllMoved OnlyEndReadsFail
PROPERTY CallsReturn
