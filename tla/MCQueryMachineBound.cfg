\* A literal that equals the number of rows of a table scanned later.
SPECIFICATION Spec
CONSTANTS
    WordBits = 16
    TypeShift = 12
    HalfWord = 8
    ZExtBits = 4
    HashSeed1 = 4366
    HashSeed2 <- SeedTwo
    HashFactor = 31765
    Slots = 4
    OutSlots = 8
    NumBuckets = 2
    Garbage = {0, 3}
    Words <- AllWords
    FoldInt <- FoldValue
    CacheKey <- TaggedKey
    Crc <- SomeCrc
    ColumnAddr <- AddressOf
    Queries <- LiteralIsNumRows
INVARIANT NoWildAccess
CHECK_DEADLOCK FALSE
