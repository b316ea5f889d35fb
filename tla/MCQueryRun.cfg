\* Filters, keys in either order, self joins, errors and limits.
SPECIFICATION Spec
CONSTANTS
    WordBits = 16
    TypeShift = 12
    OutSlots = 8
    Catalog <- Tables
    ConjunctsOf <- FlattenAnd
    RefsOf <- ColumnRefs
    Statements <- ParsedTexts
    MaxLiteral = 32767
    Upper <- Uppercase
    Texts <- SoundTexts
    Inputs <- SomeInputs
INVARIANTS TypeOK AppliesEveryTerm AppliesOnlyTerms SelectsWanted AnswersQuery AcceptsWellFormed RejectsIllFormed DeletesTreeOnce
PROPERTY ParsesGrammar
CHECK_DEADLOCK FALSE
