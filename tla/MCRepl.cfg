\* Up to three loads, of built-in and new names, some of them failing.
SPECIFICATION Spec
CONSTANTS
    MaxInt = 99
    TypeCheckRows = 2
    SchemaRows = 2
    OutSlots = 2
    MaxLoads = 3
    Names = {"orders", "new", "other"}
    Addresses = {m1, m2, m3, m4, m5}
    Disk <- SomeDisk
    Cells <- SomeCells
    Sheets <- SomeSheets
    Numbers <- SomeNumbers
    BuiltinTables <- Demo
    Null <- Unnamed
    Split <- SplitLine
    StripBom <- WithoutBom
    Skipped <- SkippedLine
    IsInt <- IsInteger
    IntOf <- ParseInt
SYMMETRY Symmetry
INVARIANTS TypeOK RegistrySound FoundAlike TextsDecode
PROPERTY Implements
CHECK_DEADLOCK FALSE
