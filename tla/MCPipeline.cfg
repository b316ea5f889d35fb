\* One, two and three tables, joins on keys and products, errors and limits.
SPECIFICATION PipelineSpec
CONSTANTS
    WordBits = 16
    TypeShift = 12
    HalfWord = 8
    ZExtBits = 4
    HashSeed1 = 4366
    HashSeed2 <- SeedTwo
    HashFactor = 31765
    Slots = 4
    OutSlots = 8
    NumBuckets = 2
    MaxLiteral = 32767
    Garbage = {0, 3}
    Words <- AllWords
    FoldInt <- FoldValue
    CacheKey <- TaggedKey
    Crc <- SomeCrc
    ColumnAddr <- AddressOf
    Upper <- Uppercase
    Catalog <- Tables
    ConjunctsOf <- FlattenAnd
    RefsOf <- ColumnRefs
    Statements <- ParsedTexts
    Texts <- SomeTexts
    Inputs <- SomeInputs
INVARIANT AnswersQuery
PROPERTIES ImplementsRun Releases
CHECK_DEADLOCK FALSE
