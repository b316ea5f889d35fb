----------------------------- MODULE QueryResult -----------------------------
(***************************************************************************)
(* What running a query promises: the rows of its answer are collected one *)
(* by one, in the order of the answer, and the query ends with all of them.*)
(***************************************************************************)
EXTENDS Naturals, Sequences

VARIABLES
    answer,   \* the rows the query has on its tables
    rows,     \* the rows collected so far
    ended

vars == <<answer, rows, ended>>

Init == rows = <<>> /\ ended = FALSE

Deliver ==
    /\ ~ended /\ Len(rows) < Len(answer)
    /\ rows' = Append(rows, answer[Len(rows) + 1])
    /\ UNCHANGED <<answer, ended>>

End ==
    /\ ~ended /\ rows = answer
    /\ ended' = TRUE
    /\ UNCHANGED <<answer, rows>>

Next == Deliver \/ End

Spec == Init /\ [][Next]_vars
=============================================================================
