CONSTANTS
    Types = {"fat"}
    Commands <- MCCommands
    Names = {"f"}
    Trees <- MCTrees
    PutData <- MCPutData
    Space = 4
    UintMod = 4
    LockCount = 2
    Long <- MCLong
    StackMax = 4
SPECIFICATION Spec
PROPERTY GetCopies
