CONSTANTS
    a = a
    b = b
    h1 = h1
    h2 = h2
    Names = {a, b}
    BytesOf <- Own
    Handles = {h1, h2}
    NumClusters = 3
    Straddler = 3
    Erased <- BlankBytes
    EntriesPerSect = 1
    DirSects = 2
    MaxSize = 3
    Plans <- DiskPlans
SYMMETRY Symmetric
SPECIFICATION Spec
INVARIANTS Intact Unshared ClosedFilesSurvive FreeCount NoLostClusters RenameKeepsFile
