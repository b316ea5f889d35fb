\* A condition on an alias that is not in FROM.
SPECIFICATION Spec
CONSTANTS
    WordBits = 16
    TypeShift = 12
    OutSlots = 8
    Catalog <- Tables
    ConjunctsOf <- FlattenAnd
    RefsOf <- ColumnRefs
    Statements <- ParsedTexts
    MaxLiteral = 32767
    Upper <- Uppercase
    Texts <- UnknownAlias
    Inputs <- SomeInputs
INVARIANT ReportsUnknownAlias
CHECK_DEADLOCK FALSE
