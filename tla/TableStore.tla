------------------------------ MODULE TableStore ------------------------------
(***************************************************************************)
(* What the REPL promises about its tables: a name stands for the contents *)
(* of the file last loaded under it, or of a built-in table; commands show *)
(* them and change nothing; a load that fails changes nothing either.      *)
(***************************************************************************)
EXTENDS Integers, Sequences, FiniteSets

CONSTANTS
    Sheets,         \* path -> [header, rows] for the files that can be loaded
    Numbers,        \* numeric cell -> its value
    Names,          \* what a table may be called
    Builtins,       \* name -> contents of the built-in tables
    Null,           \* what is shown for a blank cell of a text column
    TypeCheckRows,  \* the rows that decide which columns are text
    SchemaRows      \* how many rows .schema shows

VARIABLES
    store,          \* name -> [columns, rows of shown cells]
    screen          \* what the last command printed

vars == <<store, screen>>

Nothing == [kind |-> "nothing"]
Error   == [kind |-> "error"]

IsText(cell) == cell # <<>> /\ cell \notin DOMAIN Numbers
IsTextColumn(rows, c) == \E r \in DOMAIN rows : r <= TypeCheckRows /\ IsText(rows[r][c])
Number(v) == [text |-> <<>>, num |-> v]
Text(s)   == [text |-> s, num |-> 0]

(* In a numeric column whatever is not a number counts as zero. *)
Contents(sheet) ==
    [columns |-> sheet.header,
     rows |-> [r \in DOMAIN sheet.rows |-> [c \in DOMAIN sheet.header |->
        LET cell == sheet.rows[r][c]
        IN  IF IsTextColumn(sheet.rows, c) THEN Text(IF cell = <<>> THEN Null ELSE cell)
            ELSE Number(IF cell \in DOMAIN Numbers THEN Numbers[cell] ELSE 0)]]]

Init == store = Builtins /\ screen = Nothing

Begin == screen' = Nothing /\ UNCHANGED store

Load(path, name) ==
    /\ store' = [n \in DOMAIN store \cup {name} |->
                    IF n = name THEN Contents(Sheets[path]) ELSE store[n]]
    /\ screen' = Nothing

Fail == screen' = Error /\ UNCHANGED store

Schema(name) ==
    /\ screen' = [kind |-> "schema", columns |-> store[name].columns,
                  numRows |-> Len(store[name].rows),
                  rows |-> [r \in {r \in DOMAIN store[name].rows : r <= SchemaRows} |->
                               store[name].rows[r]]]
    /\ UNCHANGED store

Tables ==
    /\ screen'.kind = "tables" /\ Len(screen'.list) = Cardinality(DOMAIN store)
    /\ \A n \in DOMAIN store : \E i \in DOMAIN screen'.list :
          screen'.list[i] = [name |-> n, columns |-> store[n].columns,
                             numRows |-> Len(store[n].rows)]
    /\ UNCHANGED store

(* A query sees numbers.  Of a text column they tell apart what the texts  *)
(* tell apart, so that comparing them for equality is comparing the texts. *)
Represents(values, rows) ==
    /\ DOMAIN values = DOMAIN rows
    /\ \A r \in DOMAIN rows : DOMAIN values[r] = DOMAIN rows[r]
    /\ \A r \in DOMAIN rows : \A c \in DOMAIN rows[r] :
          \/ rows[r][c] = Number(values[r][c])
          \/ /\ rows[r][c].text # <<>>
             /\ \A q \in DOMAIN rows :
                   (values[q][c] = values[r][c]) <=> (rows[q][c] = rows[r][c])
Query(name) ==
    /\ screen'.kind = "rows" /\ Represents(screen'.rows, store[name].rows)
    /\ UNCHANGED store

Next ==
    \/ Begin
    \/ Fail
    \/ \E path \in DOMAIN Sheets, name \in Names : Load(path, name)
    \/ \E name \in DOMAIN store : Schema(name) \/ Query(name)
    \/ Tables

Spec == Init /\ [][Next]_vars
=============================================================================
