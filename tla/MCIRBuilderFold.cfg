\* Constants, folding, branches and dead code elimination.  57 as UInt64 has
\* the key of 1 as Int64, and 57 - 1 as Int64 that of 0 as UInt64.
SPECIFICATION Spec
CONSTANTS
    WordBits = 7
    TypeShift = 3
    Words <- AllWords
    FoldInt <- FoldValue
    CacheKey <- TaggedKey
    MaxInstrs = 3
    MaxBlocks = 2
    MaxFunctions = 1
    Emits = {"addConstInt", "addBinary", "addBranch", "addReturn"}
    BinOps = {"Sub", "CmpLt"}
    Literals = {0, 1, 57}
    ConstTypes = {"Int64", "UInt64"}
PROPERTIES ConstantsAsAsked FoldsAsComputed DceRemovesOnlyDead DceKeepsFlow
