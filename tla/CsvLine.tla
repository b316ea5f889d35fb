------------------------------- MODULE CsvLine -------------------------------
(***************************************************************************)
(* What one line of a CSV file means to the loader (src/io/csv_loader.hpp):*)
(* csvTrim, csvSplitLine and tryParseInt.  A line, or a cell, is the       *)
(* sequence of its characters; a byte order mark counts as one.            *)
(***************************************************************************)
EXTENDS Integers, Sequences, SequencesExt, FiniteSetsExt

CONSTANT MaxInt   \* the largest value of a cell: 2^63 - 1

Comma  == ","
Quote  == "\""
Return == "\r"
Bom    == "BOM"
Digits == <<"0", "1", "2", "3", "4", "5", "6", "7", "8", "9">>
Value(digit) == (CHOOSE d \in DOMAIN Digits : Digits[d] = digit) - 1

Trimmed == {" ", "\t", Return, "\n", Quote}
Trim(s) ==
    LET kept == {i \in DOMAIN s : s[i] \notin Trimmed}
    IN  IF kept = {} THEN <<>> ELSE SubSeq(s, Min(kept), Max(kept))

(* csvSplitLine's loop.  A quote inside a quoted part is escaped if the    *)
(* next character is a quote too: after the first one the part is in doubt.*)
EndField(s) == [fields |-> Append(s.fields, Trim(s.cur)), cur |-> <<>>, part |-> "plain"]

SplitStep(s, c) ==
    CASE c = Quote /\ s.part = "plain"      -> [s EXCEPT !.part = "quoted"]
      [] c = Quote /\ s.part = "quoted"     -> [s EXCEPT !.part = "doubt"]
      [] c = Quote /\ s.part = "doubt"      -> [s EXCEPT !.part = "quoted", !.cur = Append(@, c)]
      [] c = Comma /\ s.part # "quoted"     -> EndField(s)
      [] OTHER -> [s EXCEPT !.cur = Append(@, c),
                            !.part = IF @ = "doubt" THEN "plain" ELSE @]

SplitLine(line) ==
    EndField(FoldLeft(SplitStep, [fields |-> <<>>, cur |-> <<>>, part |-> "plain"], line)).fields

Unsigned(cell) == IF cell # <<>> /\ cell[1] \in {"+", "-"} THEN Tail(cell) ELSE cell
ParseInt(cell) ==
    LET size == FoldLeft(LAMBDA v, digit : 10 * v + Value(digit), 0, Unsigned(cell))
    IN  IF cell[1] = "-" THEN -size ELSE size

(* tryParseInt; std::stoll throws out of its range. *)
IsInteger(cell) ==
    /\ Unsigned(cell) # <<>> /\ ToSet(Unsigned(cell)) \subseteq ToSet(Digits)
    /\ ParseInt(cell) \in -MaxInt-1..MaxInt

WithoutBom(line) == IF line # <<>> /\ line[1] = Bom THEN Tail(line) ELSE line
SkippedLine(line) == line = <<>> \/ line = <<Return>>
=============================================================================
