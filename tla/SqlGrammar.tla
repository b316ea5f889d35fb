------------------------------ MODULE SqlGrammar ------------------------------
(***************************************************************************)
(* The grammar in the comments of src/sql/sql_parser.cpp, read as a        *)
(* grammar: the trees of a sequence of tokens are those of the productions *)
(* it can be divided by.  OR binds loosest, then AND, then a comparison,   *)
(* then + and -, which associate to the left.                              *)
(***************************************************************************)
EXTENDS SqlLexer, SqlAst

LOCAL Tighter == [or |-> "and", and |-> "comp", comp |-> "add", add |-> "primary"]
LOCAL Binary ==
    [or   |-> [OR |-> "LOr"],
     and  |-> [AND |-> "LAnd"],
     comp |-> [EQ |-> "CmpEq", NE |-> "CmpNe", LT |-> "CmpLt",
               GT |-> "CmpGt", LE |-> "CmpLe", GE |-> "CmpGe"],
     add  |-> [PLUS |-> "Add", MINUS |-> "Sub"]]

LOCAL Kinds(t) == [i \in DOMAIN t |-> t[i].kind]
LOCAL Before(t, i) == SubSeq(t, 1, i - 1)
LOCAL After(t, i)  == SubSeq(t, i + 1, Len(t))
LOCAL Places(t, kinds) == {i \in DOMAIN t : t[i].kind \in kinds}

RECURSIVE Trees(_, _)
Trees(level, t) ==
    CASE level # "primary" ->
            LET first == IF level = "comp" THEN "add" ELSE level
                both(i) == {Bin(Binary[level][t[i].kind], l, r) :
                               l \in Trees(first, Before(t, i)), r \in Trees(Tighter[level], After(t, i))}
            IN  Trees(Tighter[level], t) \cup UNION {both(i) : i \in Places(t, DOMAIN Binary[level])}
      [] Kinds(t) = <<"INT_LIT">> -> {Lit(t[1].val)}
      [] Kinds(t) = <<"IDENT">> -> {Col("", t[1].text)}
      [] Kinds(t) = <<"IDENT", "DOT", "IDENT">> -> {Col(t[1].text, t[3].text)}
      [] Len(t) > 2 /\ t[1].kind = "LPAREN" /\ Last(t).kind = "RPAREN" -> Trees("or", Front(Tail(t)))
      [] OTHER -> {}

(* item ("," item)*, for the items a production gives for a part. *)
RECURSIVE Lists(_, _)
Lists(t, production) ==
    LET item(u) ==
            IF production = "table"
            THEN CASE Kinds(u) = <<"IDENT">> -> {TableRef(u[1].text, u[1].text)}
                   [] Kinds(u) = <<"IDENT", "IDENT">> -> {TableRef(u[1].text, u[2].text)}
                   [] OTHER -> {}
            ELSE Trees("or", u) \cup
                 (IF Len(u) > 2 /\ Last(u).kind = "IDENT" /\ Last(Front(u)).kind = "AS"
                  THEN Trees("or", Front(Front(u))) ELSE {})
    IN  {<<e>> : e \in item(t)} \cup
        UNION {{<<e>> \o more : e \in item(Before(t, i)), more \in Lists(After(t, i), production)} :
                  i \in Places(t, {"COMMA"})}

SelectLists(t) == IF Kinds(t) = <<"STAR">> THEN {<<Star>>} ELSE Lists(t, "column")
Wheres(t) ==
    CASE t = <<>> -> {NoWhere}
      [] t # <<>> /\ t[1].kind = "WHERE" -> Trees("or", Tail(t))
      [] OTHER -> {}
Limits(t) ==
    CASE t = <<>> -> {NoLimit}
      [] Kinds(t) = <<"LIMIT", "INT_LIT">> -> {t[2].val}
      [] OTHER -> {}

(* The tokens of a text by the longest match.  "<>=" is "<>" and "=": a    *)
(* character that ends one operator does not start the next.               *)
LOCAL Spelling(text, n) == text[n].text \o text[n + 1].text
LOCAL Paired(text, n) ==
    /\ n \in 1..(Len(text) - 1) /\ Spelling(text, n) \in {"<=", ">=", "<>"}
    /\ ~(n > 1 /\ Spelling(text, n - 1) = "<>")
Spelled(text) ==
    LET starts(n) == text[n].class # "space" /\ ~Paired(text, n - 1)
        at == SelectSeq([n \in DOMAIN text |-> n], starts)
        token(n) == IF Paired(text, n) THEN Token(KindOf[Spelling(text, n)], Spelling(text, n), 0)
                    ELSE IF Illegal(text[n]) THEN Token("ILLEGAL", text[n].text, 0)
                    ELSE TokenOf(text[n])
    IN  Append([i \in DOMAIN at |-> token(at[i])], EndOfInput)

(* SELECT list FROM tables [WHERE expression] [LIMIT number] [;] *)
StatementTrees(t) ==
    LET ends == {n \in DOMAIN t : Kinds(SubSeq(t, n, Len(t))) \in {<<"END">>, <<"SEMICOLON", "END">>}}
        of(f, w, l, e) ==
            {SelectStmt(from, where, select, limit) :
                select \in SelectLists(SubSeq(t, 2, f - 1)),
                from   \in Lists(SubSeq(t, f + 1, w - 1), "table"),
                where  \in Wheres(SubSeq(t, w, l - 1)),
                limit  \in Limits(SubSeq(t, l, e - 1))}
    IN  IF t[1].kind # "SELECT" THEN {}
        ELSE UNION {of(f, w, l, e) : f \in Places(t, {"FROM"}), w \in Places(t, {"WHERE", "LIMIT"}) \cup ends,
                                     l \in Places(t, {"LIMIT"}) \cup ends, e \in ends}
=============================================================================
