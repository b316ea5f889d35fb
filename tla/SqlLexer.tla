------------------------------ MODULE SqlLexer ------------------------------
(***************************************************************************)
(* tokenize (src/sql/sql_lexer.cpp).  A text is a sequence of words,       *)
(* numbers, spaces and single characters; what the lexer decides is which  *)
(* words are keywords, which characters make one operator and which are    *)
(* not SQL at all.                                                         *)
(***************************************************************************)
EXTENDS Integers, Sequences, SequencesExt

CONSTANTS
    Upper(_),      \* a word in upper case
    MaxLiteral     \* 2^63 - 1

Keywords == {"SELECT", "FROM", "WHERE", "AND", "OR", "NOT", "AS", "LIMIT"}

Pairs == [c \in {"<", ">"} |-> IF c = "<" THEN {">", "="} ELSE {"="}]
KindOf ==
    "," :> "COMMA" @@ "." :> "DOT" @@ "*" :> "STAR" @@ "(" :> "LPAREN" @@ ")" :> "RPAREN"
    @@ "+" :> "PLUS" @@ "-" :> "MINUS" @@ ";" :> "SEMICOLON" @@ "=" :> "EQ"
    @@ ">" :> "GT" @@ "<" :> "LT" @@ ">=" :> "GE" @@ "<=" :> "LE" @@ "<>" :> "NE"

Token(kind, text, val) == [kind |-> kind, text |-> text, val |-> val]
EndOfInput == Token("END", "", 0)

(* The token of a piece of the text. *)
TokenOf(piece) ==
    CASE piece.class = "number" -> Token("INT_LIT", piece.text, piece.val)
      [] piece.class = "word"   ->
            IF Upper(piece.text) \in Keywords THEN Token(Upper(piece.text), piece.text, 0)
            ELSE Token("IDENT", piece.text, 0)
      [] piece.class = "char"   -> Token(KindOf[piece.text], piece.text, 0)

(* std::stoll throws on a number that is too large. *)
Illegal(piece) ==
    \/ piece.class = "char" /\ piece.text \notin DOMAIN KindOf
    \/ piece.class = "number" /\ piece.val > MaxLiteral

Closed(s) == IF s.open = "" THEN s.tokens ELSE Append(s.tokens, Token(KindOf[s.open], s.open, 0))

(* One round of the loop.  "<" and ">" are open until the next character   *)
(* is known: directly after them, it may belong to the same operator.      *)
(* (fault: spaces between the two are skipped) *)
LexAcross(s, piece) ==
    LET second == s.open # "" /\ piece.text \in Pairs[s.open]
        opens  == piece.text \in DOMAIN Pairs
        pair   == s.open \o piece.text
    IN  [tokens |-> IF piece.class = "space" THEN s.tokens
                    ELSE IF second THEN Append(s.tokens, Token(KindOf[pair], pair, 0))
                    ELSE IF opens THEN Closed(s)
                    ELSE Append(Closed(s), TokenOf(piece)),
         open |-> IF piece.class = "space" THEN s.open
                  ELSE IF opens /\ ~second THEN piece.text ELSE ""]

Lex(s, piece) ==
    LET second == s.open # "" /\ piece.text \in Pairs[s.open]
        opens  == piece.text \in DOMAIN Pairs
        pair   == s.open \o piece.text
    IN  [tokens |-> IF second THEN Append(s.tokens, Token(KindOf[pair], pair, 0))
                    ELSE IF piece.class = "space" \/ opens THEN Closed(s)
                    ELSE Append(Closed(s), TokenOf(piece)),
         open |-> IF opens /\ ~second THEN piece.text ELSE ""]

Tokenize(text) ==
    Append(Closed(FoldLeft(Lex, [tokens |-> <<>>, open |-> ""], text)), EndOfInput)

Tokenizes(text) == \A n \in DOMAIN text : ~Illegal(text[n])
=============================================================================
