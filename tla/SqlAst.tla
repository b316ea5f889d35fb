-------------------------------- MODULE SqlAst --------------------------------
(***************************************************************************)
(* The syntax trees between parser and planner (src/sql/sql_ast.hpp).      *)
(***************************************************************************)
EXTENDS Integers, Sequences

(* No WHERE, the item of SELECT * and no LIMIT *)
NoWhere == [kind |-> "none"]
Star    == [kind |-> "star"]
NoLimit == -1

(* An unqualified column has the alias "". *)
Col(alias, name) == [kind |-> "col", alias |-> alias, name |-> name]
Lit(v)           == [kind |-> "int", val |-> v]
Bin(op, l, r)    == [kind |-> "bin", op |-> op, left |-> l, right |-> r]

TableRef(table, alias) == [table |-> table, alias |-> alias]
SelectStmt(from, where, select, limit) ==
    [from |-> from, where |-> where, select |-> select, limit |-> limit]
NoStatement == SelectStmt(<<>>, NoWhere, <<>>, NoLimit)
=============================================================================
