------------------------------- MODULE MCText -------------------------------
(* Statements as texts, for the MC modules. *)
EXTENDS SqlAst, SequencesExt

And(l, r)  == Bin("LAnd", l, r)
Eq(l, r)   == Bin("CmpEq", l, r)
From(t, a) == TableRef(t, a)
Query(f, w, s, l) == SelectStmt(f, w, s, l)

(* The text of a statement, with the parentheses it needs. *)

Word(w) == [class |-> "word", text |-> w, val |-> 0]
Char(c) == [class |-> "char", text |-> c, val |-> 0]
Num(n)  == [class |-> "number", text |-> ToString(n), val |-> n]
Space   == [class |-> "space", text |-> " ", val |-> 0]

Spaced(pieces) ==
    LET solid(p) == p.class \in {"word", "number"}
    IN  FoldLeft(LAMBDA s, p : IF s # <<>> /\ solid(Last(s)) /\ solid(p)
                               THEN s \o <<Space, p>> ELSE Append(s, p), <<>>, pieces)

SignOf == "LOr" :> <<Word("OR")>> @@ "LAnd" :> <<Word("AND")>> @@ "CmpEq" :> <<Char("=")>>
          @@ "CmpNe" :> <<Char("<"), Char(">")>> @@ "CmpLt" :> <<Char("<")>>
          @@ "CmpGt" :> <<Char(">")>> @@ "CmpGe" :> <<Char(">"), Char("=")>>
          @@ "CmpLe" :> <<Char("<"), Char("=")>> @@ "Add" :> <<Char("+")>> @@ "Sub" :> <<Char("-")>>
Tightness == "LOr" :> 1 @@ "LAnd" :> 2 @@ "Add" :> 4 @@ "Sub" :> 4

RECURSIVE Printed(_, _)
Printed(e, least) ==
    CASE e.kind = "int" -> <<Num(e.val)>>
      [] e.kind = "col" -> IF e.alias = "" THEN <<Word(e.name)>>
                           ELSE <<Word(e.alias), Char("."), Word(e.name)>>
      [] e.kind = "bin" ->
            LET comp  == e.op \notin DOMAIN Tightness
                tight == IF comp THEN 3 ELSE Tightness[e.op]
                bare  == Printed(e.left, IF comp THEN 4 ELSE tight) \o SignOf[e.op]
                         \o Printed(e.right, tight + 1)
            IN  IF tight < least THEN <<Char("(")>> \o bare \o <<Char(")")>> ELSE bare

Separated(parts) ==
    FoldLeft(LAMBDA s, p : IF s = <<>> THEN p ELSE s \o <<Char(",")>> \o p, <<>>, parts)
TextOf(q) ==
    Spaced(<<Word("SELECT")>>
           \o (IF q.select = <<Star>> THEN <<Char("*")>>
               ELSE Separated([n \in DOMAIN q.select |-> Printed(q.select[n], 1)]))
           \o <<Word("FROM")>>
           \o Separated([n \in DOMAIN q.from |-> <<Word(q.from[n].table), Word(q.from[n].alias)>>])
           \o (IF q.where = NoWhere THEN <<>> ELSE <<Word("WHERE")>> \o Printed(q.where, 1))
           \o (IF q.limit = NoLimit THEN <<>> ELSE <<Word("LIMIT"), Num(q.limit)>>))
=============================================================================
