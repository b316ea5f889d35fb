------------------------------ MODULE Relational ------------------------------
(***************************************************************************)
(* The rows an operator tree stands for, by the definition of its          *)
(* operators and without any code: a scan is its table, a select the rows  *)
(* its conjuncts hold of, a join the pairs of rows with equal keys, in     *)
(* probe order and then in build order.  A row in flight is a function     *)
(* from IUs to values.                                                     *)
(***************************************************************************)
EXTENDS HostInt, Sequences, SequencesExt

RECURSIVE ValueOf(_, _)
ValueOf(e, row) ==
    CASE e.kind = "col" -> row[e.iu]
      [] e.kind = "int" -> e.val
      [] e.kind = "bin" -> FoldValue(e.op, ValueOf(e.left, row), ValueOf(e.right, row))

Satisfies(row, conjuncts) == \A i \in DOMAIN conjuncts : ValueOf(conjuncts[i], row) # 0

Join(b, r) == [iu \in DOMAIN b \cup DOMAIN r |-> IF iu \in DOMAIN b THEN b[iu] ELSE r[iu]]

RECURSIVE RowsOf(_, _)
RowsOf(op, data) ==
    CASE op.kind = "scan" ->
            [n \in DOMAIN data[op.table] |->
                [iu \in {<<op.alias, c>> : c \in 1..op.cols} |-> data[op.table][n][iu[2]]]]
      [] op.kind = "select" ->
            LET holds(row) == Satisfies(row, op.conjuncts)
            IN  SelectSeq(RowsOf(op.child, data), holds)
      [] op.kind = "join" ->
            LET build == RowsOf(op.build, data)
                probe == RowsOf(op.probe, data)
                matching(r) ==
                    LET equal(b) == \A i \in DOMAIN op.buildKeys :
                                        b[op.buildKeys[i]] = r[op.probeKeys[i]]
                        found == SelectSeq(build, equal)
                    IN  [n \in DOMAIN found |-> Join(found[n], r)]
            IN  FlattenSeq([n \in DOMAIN probe |-> matching(probe[n])])

AnswerOf(op, outs, data) ==
    LET found == RowsOf(op, data)
    IN  [n \in DOMAIN found |-> [c \in DOMAIN outs |-> found[n][outs[c]]]]
=============================================================================
