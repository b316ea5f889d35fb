-------------------------------- MODULE Repl --------------------------------
(***************************************************************************)
(* The interactive shell (src/main.cpp): --csv options, then commands.  A  *)
(* load runs CsvLoader and registers what it returns; the other commands   *)
(* read the tables through the registry's pointers.                        *)
(***************************************************************************)
EXTENDS CsvLoader, TableRegistry

CONSTANTS
    Names,       \* what a table may be called
    SchemaRows,  \* 20
    OutSlots,    \* columns a query may output (8)
    Sheets, Numbers,   \* the files as a user reads them, see TableStore
    MaxLoads     \* bound: loads in a behaviour

(* The tables of addBuiltinTables have numbers only and no dictionary.     *)
ASSUME NumericBuiltins ==
    \A i \in DOMAIN BuiltinTables :
        BuiltinTables[i].isStringCol = {} /\ BuiltinTables[i].numRows \in Nat

VARIABLES
    mode,        \* "startup": --csv options; "repl"; "exited"
    screen,      \* what the last command printed
    loads

replVars == <<mode, screen, loads>>
vars     == <<loaderVars, registry, replVars>>

Nothing == [kind |-> "nothing"]
Error   == [kind |-> "error"]

Init ==
    /\ LoaderInit
    /\ RegistryInit
    /\ mode = "startup" /\ screen = Nothing /\ loads = 0

Idle == reading = "no"
LoaderReset ==
    /\ reading' = "no" /\ path' = "" /\ name' = "" /\ line' = 0
    /\ headers' = <<>> /\ rawRows' = <<>> /\ sawNonInt' = {}
    /\ row' = 1 /\ col' = 1 /\ columns' = <<>> /\ strings' = NoStrings

StartLoad(p, n) ==
    /\ mode \in {"startup", "repl"} /\ loads < MaxLoads
    /\ Open(p, n)
    /\ loads' = loads + 1 /\ screen' = Nothing
    /\ UNCHANGED <<registry, mode>>

LoadStep == LoaderNext /\ UNCHANGED <<registry, replVars>>

FinishLoad ==
    /\ reading = "done"
    /\ Register(Loaded)
    /\ LoaderReset
    /\ UNCHANGED replVars

(* An option that fails ends the program, a command does not. *)
FailLoad ==
    /\ reading = "failed"
    /\ LoaderReset
    /\ mode' = IF mode = "startup" THEN "exited" ELSE mode
    /\ screen' = Error
    /\ UNCHANGED <<registry, loads>>

BeginRepl ==
    /\ mode = "startup" /\ Idle
    /\ mode' = "repl" /\ screen' = Nothing
    /\ UNCHANGED <<loaderVars, registry, loads>>

Prompt == mode = "repl" /\ Idle
Display(what) == screen' = what /\ UNCHANGED <<loaderVars, registry, mode, loads>>

(* A cell of .schema: the id is looked up if the loaded table of that name *)
(* has text in that column.                                                *)
ShownBy(owners, c, v) ==
    IF \E at \in owners : c \in heap[at].isStringCol
    THEN [text |-> Lookup(heap[CHOOSE at \in owners : TRUE].strings, v), num |-> 0]
    ELSE [text |-> <<>>, num |-> v]

ShownRows(table, owners, rows) ==
    [r \in rows |-> [c \in DOMAIN table.columns |-> ShownBy(owners, c, table.columns[c][r])]]

Schema(n) ==
    /\ Prompt
    /\ \E at \in FindPointer(n) :
          Display([kind |-> "schema", columns |-> heap[at].columnNames,
                 numRows |-> heap[at].numRows,
                 rows |-> ShownRows(heap[at], FindCSVTable(n),
                              {r \in 1..heap[at].numRows : r <= SchemaRows})])

(* SELECT * FROM n: the numbers in the table the catalog has for n. *)
RunQuery(n) ==
    /\ Prompt
    /\ \E at \in Catalogued(n) :
          /\ Len(heap[at].columnNames) <= OutSlots
          /\ Display([kind |-> "rows",
                 rows |-> [r \in 1..heap[at].numRows |->
                              [c \in DOMAIN heap[at].columns |-> heap[at].columns[c][r]]]])

QueryTooWide(n) ==
    /\ Prompt
    /\ \E at \in Catalogued(n) : Len(heap[at].columnNames) > OutSlots
    /\ Display(Error)

Unknown(n) ==
    /\ Prompt
    /\ FindPointer(n) = {} \/ Catalogued(n) = {}
    /\ Display(Error)

ListTables ==
    /\ Prompt
    /\ Display([kind |-> "tables",
              list |-> [i \in DOMAIN pointers |->
                           [name |-> Pointed(i).name, columns |-> Pointed(i).columnNames,
                            numRows |-> Pointed(i).numRows]]])

Quit ==
    /\ Prompt
    /\ mode' = "exited"
    /\ UNCHANGED <<loaderVars, registry, screen, loads>>

Next ==
    \/ \E p \in DOMAIN Disk \cup {"missing"}, n \in Names : StartLoad(p, n)
    \/ LoadStep
    \/ FinishLoad
    \/ FailLoad
    \/ BeginRepl
    \/ \E n \in Names : Schema(n) \/ RunQuery(n) \/ QueryTooWide(n) \/ Unknown(n)
    \/ ListTables
    \/ Quit

Spec == Init /\ [][Next]_vars

-----------------------------------------------------------------------------
(* Type invariant: a load is under way only with its arguments, and the    *)
(* cell that is filled next exists.                                        *)
TypeOK ==
    /\ mode \in {"startup", "repl", "exited"} /\ loads \in 0..MaxLoads
    /\ reading \in {"no", "open", "rows", "fill", "done", "failed"}
    /\ Idle \/ name \in Names
    /\ headers \in Seq(Cells) /\ sawNonInt \subseteq 1..NumCols
    /\ rawRows \in Seq([1..NumCols -> Cells])
    /\ reading = "fill" => row \in 1..Len(rawRows) /\ col \in 1..NumCols

(* The registry's two vectors stay parallel: each pointer of g_tables is   *)
(* that of the table the entry in the same place owns, that table exists,  *)
(* no other does, and no table has two owners.                             *)
RegistrySound ==
    /\ DOMAIN pointers = DOMAIN storage
    /\ \A i \in DOMAIN storage : pointers[i] = storage[i].at
    /\ DOMAIN heap = {storage[i].at : i \in DOMAIN storage}
    /\ \A i, j \in DOMAIN storage :
          storage[i].at = storage[j].at => i = j

(* .schema, the catalog of a query and findCSVTable, which search two      *)
(* vectors from different ends, never find different tables for a name.    *)
FoundAlike ==
    \A n \in Names :
        /\ FindPointer(n) = Catalogued(n)
        /\ FindCSVTable(n) \subseteq FindPointer(n)
        /\ FindPointer(n) \ FindCSVTable(n) \subseteq
               {storage[i].at : i \in {i \in DOMAIN storage : storage[i].kind = "mem"}}

(* "Each unique string gets a stable integer ID" (csv_loader.hpp:6): the   *)
(* id in every text cell filled so far still stands for that cell's text,  *)
(* and 0 for no text, which no id ever is.                                 *)
Filled(r, c) ==
    \/ reading = "fill" /\ (r < row \/ (r = row /\ c < col))
    \/ reading = "done"
TextsDecode ==
    \A r \in DOMAIN rawRows, c \in sawNonInt :
        Filled(r, c) =>
            IF rawRows[r][c] = <<>> THEN columns[c][r] = 0
            ELSE /\ columns[c][r] \in DOMAIN strings.idToStr
                 /\ Lookup(strings, columns[c][r]) = rawRows[r][c]

(* The tables behind the pointers, as the shell shows them. *)
AsShown(table) ==
    [columns |-> table.columnNames,
     rows |-> [r \in 1..table.numRows |-> [c \in DOMAIN table.columns |->
        IF c \in table.isStringCol
        THEN [text |-> Lookup(table.strings, table.columns[c][r]), num |-> 0]
        ELSE [text |-> <<>>, num |-> table.columns[c][r]]]]]

At(n)    == CHOOSE at \in FindPointer(n) : TRUE
Stored   == [n \in {Pointed(i).name : i \in DOMAIN pointers} |-> AsShown(heap[At(n)])]
BuiltinNamed(n) == BuiltinTables[CHOOSE i \in DOMAIN BuiltinTables : BuiltinTables[i].name = n]
StoredFirst == [n \in {BuiltinTables[i].name : i \in DOMAIN BuiltinTables} |->
                   AsShown(BuiltinNamed(n))]

Store == INSTANCE TableStore WITH store <- Stored, Builtins <- StoredFirst

(* What Sheets and Numbers have to do with the files: row i of a sheet is  *)
(* the i-th line below the header that is not skipped, with the cells      *)
(* Split finds in it, and the numeric cells are those IsInt accepts.  A    *)
(* cell with the text that stands for blank ones would be taken for one.   *)
RowsUpTo(p, n) == Cardinality({m \in 2..n : ~Skipped(Disk[p][m])})
HeaderOf(p)    == Split(StripBom(Disk[p][1]))
FieldOf(p, n, c) ==
    LET fields == Split(Disk[p][n]) IN IF c \in DOMAIN fields THEN fields[c] ELSE <<>>
Reads(sheet, p) ==
    /\ sheet.header = HeaderOf(p)
    /\ DOMAIN sheet.rows = 1..RowsUpTo(p, Len(Disk[p]))
    /\ \A n \in 2..Len(Disk[p]) : ~Skipped(Disk[p][n]) =>
          \A c \in DOMAIN sheet.header :
              sheet.rows[RowsUpTo(p, n)][c] = FieldOf(p, n, c)
FilesAsRead ==
    /\ \A p \in DOMAIN Disk : Len(Disk[p]) > 0 => p \in DOMAIN Sheets /\ Reads(Sheets[p], p)
    /\ \A cell \in Cells :
          /\ IsInt(cell) <=> cell \in DOMAIN Numbers
          /\ IsInt(cell) => IntOf(cell) = Numbers[cell]
    /\ Null \notin Cells

(* The shell implements TableStore: after any loads, failed ones and       *)
(* replacements included, every command shows under a name what the file   *)
(* last loaded under it says.                                              *)
Implements == Store!Spec
=============================================================================
