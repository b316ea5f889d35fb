----------------------------- MODULE Expressions -----------------------------
(***************************************************************************)
(* The planner's walks over expressions (src/sql/sql_planner.cpp).         *)
(***************************************************************************)
EXTENDS SqlAst

RECURSIVE FlattenAnd(_)
FlattenAnd(e) ==
    IF e.kind = "bin" /\ e.op = "LAnd" THEN FlattenAnd(e.left) \o FlattenAnd(e.right)
    ELSE <<e>>

RECURSIVE ColumnRefs(_)
ColumnRefs(e) ==
    CASE e.kind = "col" -> {e}
      [] e.kind = "bin" -> ColumnRefs(e.left) \cup ColumnRefs(e.right)
      [] OTHER          -> {}
=============================================================================
