------------------------------ MODULE CsvLoader ------------------------------
(***************************************************************************)
(* loadCSV and StringDict (src/io/csv_loader.hpp): a file is read line by  *)
(* line, the types of its columns are decided by the first TypeCheckRows   *)
(* rows, and then the columns are filled cell by cell.                     *)
(*                                                                         *)
(* A column holds 64-bit integers only; a column that is not numeric holds *)
(* the ids of its cells in the table's one dictionary.                     *)
(***************************************************************************)
EXTENDS Integers, Sequences

CONSTANTS
    Disk,           \* path -> the lines of the file
    Cells,          \* what a cell may contain; <<>> is a blank one
    StripBom(_),    \* a header line without its byte order mark
    Split(_),       \* csvSplitLine
    Skipped(_),     \* a line that is not a row
    IsInt(_),       \* tryParseInt and its result
    IntOf(_),
    Null,           \* what lookup shows for an id it does not know
    TypeCheckRows   \* 200

ASSUME LoaderAssumption ==
    /\ TypeCheckRows \in Nat
    /\ <<>> \in Cells /\ ~IsInt(<<>>)
    /\ \A cell \in Cells : IsInt(cell) \in BOOLEAN /\ (IsInt(cell) => IntOf(cell) \in Int)
    /\ \A p \in DOMAIN Disk :
          /\ Len(Disk[p]) \in Nat
          /\ Len(Disk[p]) > 0 => Split(StripBom(Disk[p][1])) \in Seq(Cells) \ {<<>>}
          /\ \A n \in 2..Len(Disk[p]) : Split(Disk[p][n]) \in Seq(Cells)

VARIABLES
    reading,     \* where loadCSV is: "no", "open", "rows", "fill", "done", "failed"
    path,        \* its arguments
    name,
    line,        \* lines read so far
    headers,
    rawRows,
    sawNonInt,   \* columns with a non-numeric cell among the first rows
    row, col,    \* the cell to be filled next
    columns,     \* columns[c][r]
    strings      \* the StringDict

loaderVars == <<reading, path, name, line, headers, rawRows, sawNonInt,
                row, col, columns, strings>>

-----------------------------------------------------------------------------
(* StringDict *)

NoStrings == [strToId |-> [s \in {} |-> 0], idToStr |-> <<>>]

Known(dict, s) == s \in DOMAIN dict.strToId

(* (fault: ids are positions from 0) *)
InternFromZero(dict, s) ==
    IF Known(dict, s) THEN dict
    ELSE [strToId |-> [t \in DOMAIN dict.strToId \cup {s} |->
                          IF t = s THEN Len(dict.idToStr) ELSE dict.strToId[t]],
          idToStr |-> Append(dict.idToStr, s)]

Intern(dict, s) ==
    IF Known(dict, s) THEN dict
    ELSE [strToId |-> [t \in DOMAIN dict.strToId \cup {s} |->
                          IF t = s THEN Len(dict.idToStr) + 1 ELSE dict.strToId[t]],
          idToStr |-> Append(dict.idToStr, s)]

Lookup(dict, id) == IF id \in DOMAIN dict.idToStr THEN dict.idToStr[id] ELSE Null

-----------------------------------------------------------------------------
NumCols == Len(headers)
(* (fault: a long row is not cut) *)
RowOnlyPadded(fields) ==
    [c \in 1..NumCols |-> <<>>] \o SubSeq(fields, NumCols + 1, Len(fields))
Row(fields) == [c \in 1..NumCols |-> IF c \in DOMAIN fields THEN fields[c] ELSE <<>>]
NonNumeric(cell) == cell # <<>> /\ ~IsInt(cell)

LoaderInit ==
    /\ reading = "no"
    /\ path = "" /\ name = ""
    /\ line = 0
    /\ headers = <<>> /\ rawRows = <<>> /\ sawNonInt = {}
    /\ row = 1 /\ col = 1
    /\ columns = <<>>
    /\ strings = NoStrings

Open(p, n) ==
    /\ reading = "no"
    /\ reading' = "open"
    /\ path' = p /\ name' = n
    /\ UNCHANGED <<line, headers, rawRows, sawNonInt, row, col, columns, strings>>

HasHeader == path \in DOMAIN Disk /\ Len(Disk[path]) > 0

(* The file cannot be opened, or has no line. *)
Fails ==
    /\ reading = "open"
    /\ ~HasHeader
    /\ reading' = "failed"
    /\ UNCHANGED <<path, name, line, headers, rawRows, sawNonInt, row, col, columns, strings>>

(* A line has at least one field: "CSV has no columns" is never thrown.    *)
ReadHeader ==
    /\ reading = "open"
    /\ HasHeader
    /\ reading' = "rows"
    /\ line' = 1
    /\ headers' = Split(StripBom(Disk[path][1]))
    /\ UNCHANGED <<path, name, rawRows, sawNonInt, row, col, columns, strings>>

MoreLines == reading = "rows" /\ line < Len(Disk[path])

SkipLine ==
    /\ MoreLines /\ Skipped(Disk[path][line + 1])
    /\ line' = line + 1
    /\ UNCHANGED <<reading, path, name, headers, rawRows, sawNonInt, row, col, columns, strings>>

(* (fault: one row more is checked) *)
ReadRowOneMore ==
    /\ MoreLines /\ ~Skipped(Disk[path][line + 1])
    /\ line' = line + 1
    /\ LET fields == Row(Split(Disk[path][line + 1]))
       IN  /\ rawRows' = Append(rawRows, fields)
           /\ sawNonInt' = IF Len(rawRows) <= TypeCheckRows
                           THEN sawNonInt \cup {c \in 1..NumCols : NonNumeric(fields[c])}
                           ELSE sawNonInt
    /\ UNCHANGED <<reading, path, name, headers, row, col, columns, strings>>

ReadRow ==
    /\ MoreLines /\ ~Skipped(Disk[path][line + 1])
    /\ line' = line + 1
    /\ LET fields == Row(Split(Disk[path][line + 1]))
       IN  /\ rawRows' = Append(rawRows, fields)
           /\ sawNonInt' = IF Len(rawRows) < TypeCheckRows
                           THEN sawNonInt \cup {c \in 1..NumCols : NonNumeric(fields[c])}
                           ELSE sawNonInt
    /\ UNCHANGED <<reading, path, name, headers, row, col, columns, strings>>

(* Both loops of pass 2, up to the first cell. *)
AssignTypes ==
    /\ reading = "rows" /\ line = Len(Disk[path])
    /\ reading' = IF rawRows = <<>> THEN "done" ELSE "fill"
    /\ columns' = [c \in 1..NumCols |-> [r \in 1..Len(rawRows) |-> 0]]
    /\ UNCHANGED <<path, name, line, headers, rawRows, sawNonInt, row, col, strings>>

Cell == rawRows[row][col]
IsStringCol(c) == c \in sawNonInt

FillCell ==
    /\ reading = "fill"
    /\ LET interned == IsStringCol(col) /\ Cell # <<>>
           value == IF IsStringCol(col)
                    THEN IF interned THEN strings'.strToId[Cell] ELSE 0
                    ELSE IF IsInt(Cell) THEN IntOf(Cell) ELSE 0
       IN  /\ strings' = IF interned THEN Intern(strings, Cell) ELSE strings
           /\ columns' = [columns EXCEPT ![col][row] = value]
    /\ IF col < NumCols THEN row' = row /\ col' = col + 1
                        ELSE row' = row + 1 /\ col' = 1
    /\ reading' = IF row' > Len(rawRows) THEN "done" ELSE "fill"
    /\ UNCHANGED <<path, name, line, headers, rawRows, sawNonInt>>

LoaderNext ==
    \/ Fails
    \/ ReadHeader
    \/ SkipLine
    \/ ReadRow
    \/ AssignTypes
    \/ FillCell

(* What loadCSV returns *)
Loaded == [name |-> name, columnNames |-> headers, columns |-> columns,
           numRows |-> Len(rawRows), isStringCol |-> sawNonInt, strings |-> strings]
=============================================================================
