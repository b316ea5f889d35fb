---------------------------- MODULE OperatorTree ----------------------------
(***************************************************************************)
(* The operators the planner builds and the translators generate code for  *)
(* (src/operators): scans, selects and hash joins.  An information unit    *)
(* (IU) is a pair <<alias, column>>; columns are numbered.                 *)
(***************************************************************************)
EXTENDS Integers, Sequences, SequencesExt

RECURSIVE OutputIUs(_)
PayloadIUs(join) ==
    LET payload(iu) == iu \notin ToSet(join.buildKeys)
    IN  SelectSeq(OutputIUs(join.build), payload)
OutputIUs(op) ==
    CASE op.kind = "scan"   -> [c \in 1..op.cols |-> <<op.alias, c>>]
      [] op.kind = "select" -> OutputIUs(op.child)
      [] op.kind = "join"   -> OutputIUs(op.probe) \o op.buildKeys \o PayloadIUs(op)

RECURSIVE Joins(_)
Joins(op) ==
    CASE op.kind = "scan"   -> {}
      [] op.kind = "select" -> Joins(op.child)
      [] op.kind = "join"   -> {op} \cup Joins(op.build) \cup Joins(op.probe)
=============================================================================
