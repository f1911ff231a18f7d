CONSTANTS
    a = a
    b = b
    Names = {a, b}
    Dirs = {"h1"}
    NumClusters = 3
    Straddler = 3
    DirSects = 1
    PerSect = 2
    Erased <- ErasedTable
    MaxListed = 4
    Plans <- TreePlans
SPECIFICATION Spec
INVARIANTS TreeOnDisk GarbageOnlyWhenTorn NoneBehindEnd NamesUnique NoLostClusters 
