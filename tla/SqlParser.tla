------------------------------ MODULE SqlParser ------------------------------
(***************************************************************************)
(* Parser (src/sql/sql_parser.cpp): recursive descent over the tokens of   *)
(* one statement.  A parse function is an operator from the tokens that    *)
(* are left to [ok, ast, rest]; an exception is ok = FALSE.                *)
(***************************************************************************)
EXTENDS SqlLexer, SqlAst

Parsed(ast, rest) == [ok |-> TRUE, ast |-> ast, rest |-> rest]
Throws            == [ok |-> FALSE, ast |-> NoWhere, rest |-> <<EndOfInput>>]
At(tokens, kind)  == Head(tokens).kind = kind

(* The levels of the expression grammar, loosest first, and the operators  *)
(* of each.                                                                *)
OpsOf(level) ==
    CASE level = "or"   -> "OR" :> "LOr"
      [] level = "and"  -> "AND" :> "LAnd"
      [] level = "comp" -> "EQ" :> "CmpEq" @@ "NE" :> "CmpNe" @@ "LT" :> "CmpLt"
                           @@ "GT" :> "CmpGt" @@ "LE" :> "CmpLe" @@ "GE" :> "CmpGe"
      [] level = "add"  -> "PLUS" :> "Add" @@ "MINUS" :> "Sub"
Below == "or" :> "and" @@ "and" :> "comp" @@ "comp" :> "add" @@ "add" :> "primary"

RECURSIVE ParseExpr(_, _), ParseMore(_, _)

(* (fault: a closing parenthesis need not be there) *)
ParseOpenParen(tokens) ==
    LET inner == ParseExpr("or", Tail(tokens))
    IN  IF inner.ok /\ At(inner.rest, "RPAREN") THEN Parsed(inner.ast, Tail(inner.rest)) ELSE inner

ParseParen(tokens) ==
    LET inner == ParseExpr("or", Tail(tokens))
    IN  IF inner.ok /\ At(inner.rest, "RPAREN") THEN Parsed(inner.ast, Tail(inner.rest)) ELSE Throws

ParseName(tokens) ==
    IF ~At(Tail(tokens), "DOT") THEN Parsed(Col("", Head(tokens).text), Tail(tokens))
    ELSE IF At(Tail(Tail(tokens)), "IDENT")
         THEN Parsed(Col(Head(tokens).text, tokens[3].text), SubSeq(tokens, 4, Len(tokens)))
         ELSE Throws

ParsePrimary(tokens) ==
    CASE At(tokens, "INT_LIT") -> Parsed(Lit(Head(tokens).val), Tail(tokens))
      [] At(tokens, "IDENT")   -> ParseName(tokens)
      [] At(tokens, "LPAREN")  -> ParseParen(tokens)
      [] OTHER                 -> Throws

(* parseOrExpr, parseAndExpr and parseAddExpr loop; parseCompExpr takes    *)
(* one operator at most.                                                   *)
ParseExpr(level, tokens) ==
    IF level = "primary" THEN ParsePrimary(tokens)
    ELSE ParseMore(level, ParseExpr(Below[level], tokens))

ParseMore(level, lhs) ==
    IF ~lhs.ok \/ Head(lhs.rest).kind \notin DOMAIN OpsOf(level) THEN lhs
    ELSE LET rhs == ParseExpr(Below[level], Tail(lhs.rest))
             both == Parsed(Bin(OpsOf(level)[Head(lhs.rest).kind], lhs.ast, rhs.ast), rhs.rest)
         IN  IF ~rhs.ok THEN Throws
             ELSE IF level = "comp" THEN both ELSE ParseMore(level, both)

(* expr [AS alias], (",", ...)*; the alias is only a title. *)
RECURSIVE ParseItems(_, _)
ParseItems(items, tokens) ==
    LET item  == ParseExpr("or", tokens)
        all   == Append(items, item.ast)
        named == At(item.rest, "AS")
        rest  == IF named THEN SubSeq(item.rest, 3, Len(item.rest)) ELSE item.rest
    IN  IF ~item.ok \/ (named /\ ~At(Tail(item.rest), "IDENT")) THEN Throws
        ELSE IF At(rest, "COMMA") THEN ParseItems(all, Tail(rest))
        ELSE Parsed(all, rest)

ParseSelectList(tokens) ==
    IF At(tokens, "STAR") THEN Parsed(<<Star>>, Tail(tokens)) ELSE ParseItems(<<>>, tokens)

RECURSIVE ParseFromList(_, _)
ParseFromList(refs, tokens) ==
    LET aliased == At(Tail(tokens), "IDENT")
        ref     == TableRef(Head(tokens).text, tokens[IF aliased THEN 2 ELSE 1].text)
        rest    == SubSeq(tokens, IF aliased THEN 3 ELSE 2, Len(tokens))
    IN  IF ~At(tokens, "IDENT") THEN Throws
        ELSE IF At(rest, "COMMA") THEN ParseFromList(Append(refs, ref), Tail(rest))
        ELSE Parsed(Append(refs, ref), rest)

ParseWhere(tokens) ==
    IF At(tokens, "WHERE") THEN ParseExpr("or", Tail(tokens)) ELSE Parsed(NoWhere, tokens)
ParseLimit(tokens) ==
    IF ~At(tokens, "LIMIT") THEN Parsed(NoLimit, tokens)
    ELSE IF At(Tail(tokens), "INT_LIT")
         THEN Parsed(tokens[2].val, SubSeq(tokens, 3, Len(tokens)))
         ELSE Throws
PastSemicolon(tokens) == IF At(tokens, "SEMICOLON") THEN Tail(tokens) ELSE tokens

ParseSelect(tokens) ==
    LET list  == ParseSelectList(Tail(tokens))
        from  == ParseFromList(<<>>, Tail(list.rest))
        where == ParseWhere(from.rest)
        limit == ParseLimit(where.rest)
    IN  IF /\ At(tokens, "SELECT") /\ list.ok
           /\ At(list.rest, "FROM") /\ from.ok
           /\ where.ok /\ limit.ok
           /\ At(PastSemicolon(limit.rest), "END")
        THEN Parsed(SelectStmt(from.ast, where.ast, list.ast, limit.ast), <<EndOfInput>>)
        ELSE Throws
=============================================================================
