\* A key that is not between the new table and the ones before it.
SPECIFICATION Spec
CONSTANTS
    WordBits = 16
    TypeShift = 12
    OutSlots = 8
    Catalog <- Tables
    ConjunctsOf <- FlattenAnd
    RefsOf <- ColumnRefs
    Statements <- ParsedTexts
    MaxLiteral = 32767
    Upper <- Uppercase
    Texts <- LaterKey
    Inputs <- SomeInputs
PROPERTY JoinsWhatItHas
CHECK_DEADLOCK FALSE
