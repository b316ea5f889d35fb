----------------------------- MODULE MCPipeline -----------------------------
(* Queries of every shape of plan, run from the text on.  The literals  *)
(* are not the size of any table.                                          *)
EXTENDS SqlPipeline, MCText

Tables == "a" :> <<<<"k">>, <<"v">>>> @@ "b" :> <<<<"k">>, <<"v">>>> @@ "c" :> <<<<"k">>>>

AB  == <<From("a", "x"), From("b", "y")>>
Key == Eq(Col("y", "k"), Col("x", "k"))

Queries ==
    {Query(<<From("a", "x")>>,
           And(Bin("LOr", Bin("CmpLt", Col("", "v"), Lit(9)), Eq(Col("", "k"), Lit(7))),
               Bin("CmpGt", Bin("Add", Col("x", "k"), Col("x", "v")), Lit(9))),
           <<Col("", "v"), Col("x", "k")>>, 1),
     Query(AB, And(And(Key, Bin("CmpNe", Col("x", "v"), Lit(5))),
                   Bin("CmpLt", Bin("Add", Col("x", "v"), Col("y", "v")), Lit(18))),
           <<Star>>, NoLimit),
     Query(<<From("a", "x"), From("a", "y")>>,
           And(Eq(Col("x", "k"), Col("y", "k")), Eq(Col("x", "v"), Col("y", "v"))), <<Star>>, NoLimit),
     Query(AB, Bin("LOr", Key, Eq(Col("y", "v"), Lit(8))), <<Col("x", "v"), Col("y", "v")>>, NoLimit),
     Query(<<From("a", "x"), From("b", "y"), From("c", "z")>>,
           And(Key, Eq(Col("z", "k"), Col("x", "k"))), <<Col("x", "v"), Col("z", "k")>>, 3),
     Query(<<From("c", "z"), From("b", "y"), From("a", "x")>>,
           And(And(Key, Eq(Col("y", "k"), Col("z", "k"))), Eq(Col("x", "v"), Lit(9))),
           <<Star>>, NoLimit),
     Query(<<From("b", "y"), From("a", "x"), From("c", "z")>>,
           And(Bin("CmpGe", Col("x", "v"), Bin("Sub", Col("y", "v"), Lit(3))), Eq(Col("z", "k"), Col("x", "k"))),
           <<Col("x", "v"), Col("y", "v"), Col("z", "k")>>, 0),
     Query(<<From("c", "z"), From("a", "x")>>,
           And(Eq(Lit(4), Lit(4)), Bin("CmpLe", Col("z", "k"), Lit(6))), <<Star>>, NoLimit),
     Query(<<From("a", "x")>>, Bin("CmpLt", Lit(5), Lit(4)), <<Star>>, NoLimit),
     Query(<<From("c", "z"), From("a", "x")>>, Eq(Col("z", "k"), Col("", "v")), <<Star>>, NoLimit),
     Query(<<From("c", "z"), From("a", "x")>>,
           And(Eq(Col("z", "k"), Col("x", "k")), Bin("CmpGt", Col("", "v"), Lit(5))), <<Star>>, NoLimit),
     Query(AB, And(Key, Bin("CmpNe", Col("y", "w"), Lit(5))), <<Star>>, NoLimit),
     Query(<<From("a", "x")>>, NoWhere, <<Col("x", "w")>>, NoLimit)}

SomeTexts == {TextOf(q) : q \in Queries} \cup {Front(TextOf(q)) : q \in Queries}
Uppercase(w) == w

SomeInputs ==
    {[a |-> <<>>,                   b |-> <<<<6, 8>>>>,          c |-> <<<<6>>>>],
     [a |-> <<<<6, 9>>, <<7, 9>>>>, b |-> <<>>,                  c |-> <<<<7>>>>],
     [a |-> <<<<6, 9>>, <<6, 5>>>>, b |-> <<<<6, 8>>, <<6, 9>>>>, c |-> <<<<6>>, <<6>>>>],
     [a |-> <<<<7, 9>>, <<6, 8>>>>, b |-> <<<<6, 9>>, <<7, 8>>>>, c |-> <<<<6>>, <<7>>>>]}

AllWords == -32768..32767
SeedTwo  == -13350
AddressOf(table, c) == 2048 + 64 * (CHOOSE n \in 1..3 : <<"a", "b", "c">>[n] = table) + c
SomeCrc(x, y) == (31 * (x % Modulus) + 7 * (y % Modulus) + 3) % 251
=============================================================================
