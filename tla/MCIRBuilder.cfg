\* Every builder method, on programs of at most two instructions.
SPECIFICATION Spec
CONSTANTS
    WordBits = 7
    TypeShift = 3
    Words <- AllWords
    FoldInt <- FoldValue
    CacheKey <- TaggedKey
    MaxInstrs = 2
    MaxBlocks = 1
    MaxFunctions = 2
    Emits <- AllMethods
    BinOps = {"Add", "CRC32"}
    Literals = {0, 1}
    ConstTypes = {"Int64"}
INVARIANTS TypeOK PlacedOnce CacheSound
