------------------------------- MODULE MCRepl -------------------------------
(* Files with every kind of line and cell, loaded under old and new names. *)
EXTENDS Repl, CsvLine

Doubled(s) == FlattenSeq([i \in DOMAIN s |-> IF s[i] = Quote THEN <<Quote, Quote>> ELSE <<s[i]>>])
Written(cell) ==
    IF {Comma, Quote} \cap ToSet(cell) = {} THEN cell
    ELSE <<Quote>> \o Doubled(cell) \o <<Quote>>
Joined(fields) == Tail(FlattenSeq([i \in DOMAIN fields |-> <<Comma>> \o fields[i]]))
Line(cells)    == Joined([i \in DOMAIN cells |-> Written(cells[i])])
Lines(sheet)   == <<Line(sheet.header)>> \o [r \in DOMAIN sheet.rows |-> Line(sheet.rows[r])]
Dos(lines)     == [n \in DOMAIN lines |-> Append(lines[n], Return)]

k == <<"k">>  v == <<"v">>  a == <<"a">>  b == <<"b">>
one == <<"1">>  two == <<"-", "2">>  huge == <<"1", "0", "0">>
comma == <<"b", ",", "1">>  quoted == <<"q", "\"", "r">>

SomeNumbers == one :> 1 @@ two :> -2
SomeSheets ==
    "mixed"  :> [header |-> <<k, v, a>>,
                 rows |-> <<<<one, comma, huge>>, <<<<>>, quoted, one>>,
                            <<two, comma, <<>>>>, <<two, one, one>>>>] @@
    "ragged" :> [header |-> <<k, v>>, rows |-> <<<<one, <<>>>>, <<two, a>>, <<a, b>>>>] @@
    "none"   :> [header |-> <<v>>, rows |-> <<>>]
SomeDisk ==
    [p \in {"mixed", "none"} |-> Lines(SomeSheets[p])] @@
    "ragged" :> Dos(<<<<Bom, "k", ",", "v">>, one, <<>>, Line(<<two, a, b>>), Line(<<a, b>>)>>)
                \o <<<<>>>> @@
    "empty"  :> <<>>

Table(n, cols, rows) ==
    [name |-> n, columnNames |-> cols,
     columns |-> [c \in DOMAIN cols |-> [r \in DOMAIN rows |-> rows[r][c]]],
     numRows |-> Len(rows), isStringCol |-> {}, strings |-> NoStrings]
Demo == <<Table("customers", <<k, v>>, <<<<1, 100>>, <<2, 200>>>>), Table("orders", <<k>>, <<<<10>>>>)>>

(* The cells of the files, and one that none of them has. *)
SomeCells == {<<>>, k, v, a, b, one, two, huge, comma, quoted, <<"q", "r">>}
Unnamed   == <<"(null)">>
Symmetry  == Permutations(Addresses)

(* The sheets are what the characters of the files say. *)
ASSUME FilesAsRead
=============================================================================
