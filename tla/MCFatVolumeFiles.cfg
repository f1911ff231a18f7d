CONSTANTS
    a = a
    b = b
    h1 = h1
    h2 = h2
    Names = {a, b}
    BytesOf <- Mixed
    Handles = {h1, h2}
    NumClusters = 3
    Straddler = 3
    Erased <- BlankBytes
    EntriesPerSect = 2
    DirSects = 1
    MaxSize = 3
    Plans <- Readers
SPECIFICATION Spec
INVARIANT ReadsWhatWasWritten
PROPERTY ImplementsStore
