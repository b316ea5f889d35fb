----------------------------- MODULE MCQueryRun -----------------------------
(* Queries over three small tables, whose aliases are x, y and z: printed  *)
(* statements, all short expressions, and a statement with one mistake.    *)
EXTENDS QueryRun, MCText

Tables == "a" :> <<<<"k">>, <<"v">>>> @@ "b" :> <<<<"k">>, <<"v">>>> @@ "c" :> <<<<"k">>>>
          @@ "dots" :> <<<<"k">>, <<"x", "k">>>>
          @@ "wide" :> [c \in 1..9 |-> <<"c" \o ToString(c)>>]

AliasesOf(f) == {f[n].alias : n \in DOMAIN f}
Froms == {<<From("a", "x")>>, <<From("a", "x"), From("a", "y")>>,
          <<From("b", "y"), From("a", "x")>>,
          <<From("a", "x"), From("b", "y"), From("c", "z")>>,
          <<From("c", "z"), From("b", "y"), From("a", "x")>>,
          <<From("a", "x"), From("nowhere", "y")>>}
Pool == {Bin("CmpNe", Col("x", "v"), Lit(2)), Eq(Col("y", "k"), Col("x", "k")),
         Eq(Col("z", "k"), Col("y", "k")), Eq(Col("x", "v"), Col("z", "k")),
         Bin("LOr", Eq(Col("x", "v"), Lit(1)), Bin("CmpLt", Col("x", "k"), Col("y", "v"))),
         Eq(Col("x", "q"), Col("y", "k")), Bin("CmpLt", Col("", "v"), Lit(2)),
         Bin("CmpGt", Col("y", "q"), Lit(0))}
WherePool == {NoWhere} \cup Pool \cup {And(p, q) : p, q \in Pool}
          \cup {And(And(Eq(Col("y", "k"), Col("x", "k")), p), Bin("CmpGt", Col("x", "k"), Lit(0))) :
                   p \in Pool}
Names(w, f) ==
    w = NoWhere \/ {ref.alias : ref \in ColumnRefs(w)} \subseteq AliasesOf(f) \cup {""}
SelectPool == {<<Star>>, <<Col("x", "v"), Col("x", "k")>>}

SoundStatements ==
    {q \in {Query(f, w, s, NoLimit) : f \in Froms, w \in WherePool, s \in SelectPool} :
        Names(q.where, q.from)}
    \cup {Query(<<From("a", "x")>>, NoWhere, s, l) :
             s \in {<<Star>>, <<Col("", "v")>>, <<Col("", "q")>>, <<Lit(1)>>}, l \in {NoLimit, 0, 1}}
    \cup {Query(<<From("a", "x"), From("b", "y"), From("c", "z"), From("c", "u")>>,
                 And(Eq(Col("y", "k"), Col("z", "k")), Eq(Col("u", "k"), Col(al, "k"))),
                 <<Star>>, NoLimit) : al \in {"x", "y"}}
    \cup {Query(<<From("wide", "x")>>, NoWhere, s, NoLimit) :
             s \in {<<Star>>, <<Col("", "c9")>>}}
    \cup {Query(<<From("dots", "x")>>, NoWhere, s, NoLimit) :
             s \in {<<Star>>, <<Col("x", "k")>>}}

SomeInputs ==
    {[a |-> <<>>,                   b |-> <<<<1, 1>>>>,          c |-> <<<<1>>>>, wide |-> <<>>, dots |-> <<<<1, 2>>>>],
     [a |-> <<<<1, 2>>, <<1, 1>>>>, b |-> <<<<1, 2>>, <<2, 1>>>>, c |-> <<<<1>>, <<2>>>>, wide |-> <<>>, dots |-> <<<<1, 2>>>>],
     [a |-> <<<<2, 1>>, <<1, 1>>>>, b |-> <<<<1, 2>>, <<1, 2>>>>, c |-> <<<<1>>>>, wide |-> <<>>, dots |-> <<<<1, 2>>>>]}

-----------------------------------------------------------------------------
(* SELECT * FROM a k WHERE, and up to five pieces. *)
Few(pieces, n) == UNION {[1..k -> pieces] : k \in 0..n}
Expressions ==
    Few({Word("k"), Num(1), Char("."), Char("("), Char(")"), Char("+"), Char("<"), Char("="), Space}, 3)
    \cup Few({Word("k"), Char("("), Char(")"), Char("-")}, 5)
    \cup {<<Word("k")>> \o e \o <<Num(1)>> : e \in Few({Char("<"), Char(">"), Char("="), Space}, 3)}
    \cup {<<Word("k"), Char(o1), Num(1), Word(c1), Word("k"), Char(o2), Num(2), Word(c2), Num(2),
            Char(o3), Word("v")>> :
             o1, o2, o3 \in {"=", "<", "+"}, c1, c2 \in {"AND", "or"}}
Conditions ==
    {Spaced(<<Word("SELECT"), Char("*"), Word("FROM"), Word("a"), Word("k"), Word("WHERE")>> \o e) :
        e \in Expressions}

(* select v AS k, x.k FROM a x WHERE (x.k < 2) LIMIT 1; with a piece       *)
(* missing, with one more, and with one taken twice.                       *)
Sample ==
    <<Word("select"), Word("v"), Word("AS"), Word("k"), Char(","), Word("x"), Char("."), Word("k"),
      Word("FROM"), Word("a"), Word("x"), Word("WHERE"), Char("("), Word("x"), Char("."), Word("k"),
      Char("<"), Num(2), Char(")"), Word("LIMIT"), Num(1), Char(";")>>
Extras == {Word("q"), Word("AND"), Word("NOT"), Word("AS"), Num(1), Num(32768), Space} \cup
          {Char(c) : c \in {",", "*", "=", "(", ")", ";", "?"}}
Edited ==
    {Spaced(SubSeq(Sample, 1, n) \o more \o SubSeq(Sample, n + 1, Len(Sample))) :
        n \in 0..Len(Sample), more \in {<<>>} \cup {<<p>> : p \in Extras}}
    \cup {Spaced(SubSeq(Sample, 1, n - 1) \o SubSeq(Sample, n + 1, Len(Sample))) : n \in DOMAIN Sample}
    \cup {Spaced(SubSeq(Sample, 1, n) \o SubSeq(Sample, n, Len(Sample))) : n \in DOMAIN Sample}

Uppercase(w) == CASE w = "select" -> "SELECT" [] w = "or" -> "OR" [] OTHER -> w

(* What the violated runs are about: AND of integers, unknown aliases. *)
RECURSIVE IntegersAnded(_)
IntegersAnded(e) ==
    /\ e.kind = "bin"
    /\ \/ IntegersAnded(e.left) \/ IntegersAnded(e.right)
       \/ e.op = "LAnd" /\ \E side \in {e.left, e.right} :
                              side.kind # "bin" \/ side.op \in {"Add", "Sub"}
Sound(t) ==
    ~Tokenizes(t) \/
    LET parse == ParseSelect(Tokenize(t))
    IN  ~parse.ok \/ parse.ast.where = NoWhere \/
        (~IntegersAnded(parse.ast.where) /\ Names(parse.ast.where, parse.ast.from))

SoundTexts ==
    {TextOf(q) : q \in SoundStatements} \cup {t \in Conditions \cup Edited : Sound(t)}

(* The theorems about plans are about these statements. *)
ASSUME Texts = SoundTexts =>
    \A s \in Statements :
        DistinctAliases(s) /\ NamesFound(s) /\ FiltersLocal(s) /\ KeysReach(s) /\ FiltersKnown(s)

-----------------------------------------------------------------------------
(* SELECT x.k FROM a x, b y, c z, c u WHERE x.k = y.k AND z.k = u.k, and  *)
(* with y.k = z.k or y.k = u.k in place of z.k = u.k.                     *)
LaterKey ==
    {TextOf(Query(<<From("a", "x"), From("b", "y"), From("c", "z"), From("c", "u")>>,
                  And(Eq(Col("x", "k"), Col("y", "k")), w), <<Col("x", "k")>>, NoLimit)) :
        w \in {Eq(Col("y", "k"), Col(a, "k")) : a \in {"z", "u"}}
              \cup {Eq(Col("z", "k"), Col("u", "k"))}}

(* SELECT x.k FROM a x WHERE y.k = 1, and WHERE x.k = y.k *)
UnknownAlias ==
    {TextOf(Query(<<From("a", "x")>>, w, <<Col("x", "k")>>, NoLimit)) :
        w \in {Bin("CmpEq", Col("y", "k"), Lit(1)), Eq(Col("x", "k"), Col("y", "k"))}}
=============================================================================
