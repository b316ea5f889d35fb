--------------------------- MODULE MCQueryMachine ---------------------------
(* Sixteen-bit words: every width is a quarter of the build's, and the     *)
(* constants of hashValues are the low 16 bits of the code's.              *)
EXTENDS QueryMachine

AllWords == -32768..32767
SeedTwo == -13350
AddressOf(table, c) == 2048 + 64 * table + c
SomeCrc(a, b) == (31 * Unsigned(a) + 7 * Unsigned(b) + 3) % 251

Col(alias, c)   == [kind |-> "col", iu |-> <<alias, c>>]
Lit(v)          == [kind |-> "int", val |-> v]
Bin(op, l, r)   == [kind |-> "bin", op |-> op, left |-> l, right |-> r]
Scan(alias, n)  == [kind |-> "scan", alias |-> alias, table |-> alias, cols |-> n, rows |-> 0]
Select(op, cs)  == [kind |-> "select", child |-> op, conjuncts |-> cs]
HashJoin(id, b, r, bk, pk) ==
    [kind |-> "join", id |-> id, build |-> b, probe |-> r, buildKeys |-> bk, probeKeys |-> pk]

TablesOf(Rows, n) == UNION {[1..k -> Rows] : k \in 0..n}
Pairs(K, V)       == K \X V
Singles(K)        == {<<k>> : k \in K}

(* SELECT a.v, a.k FROM a WHERE a.v <> 9 AND (a.k + 3 = a.v OR a.k - 1 > 0) *)
Filtered ==
    [plan   |-> Select(Scan(1, 2), <<Bin("CmpNe", Col(1, 2), Lit(9)),
                                   Bin("LOr", Bin("CmpEq", Bin("Add", Col(1, 1), Lit(3)), Col(1, 2)),
                                              Bin("CmpGt", Bin("Sub", Col(1, 1), Lit(1)), Lit(0)))>>),
     outs   |-> <<<<1, 2>>, <<1, 1>>>>,
     inputs |-> [{1} -> TablesOf(Pairs({-2, 2}, {1, 5, 9}), 2)]]

(* SELECT a.v, b.v FROM a, b WHERE a.k = b.k AND a.v < 7 AND b.v <> 9      *)
(*                             AND a.v + b.v >= 8                          *)
Joined ==
    [plan   |-> Select(HashJoin(1, Select(Scan(1, 2), <<Bin("CmpLt", Col(1, 2), Lit(7))>>),
                                   Select(Scan(2, 2), <<Bin("CmpNe", Col(2, 2), Lit(9))>>),
                                   <<<<1, 1>>>>, <<<<2, 1>>>>),
                       <<Bin("CmpGe", Bin("Add", Col(1, 2), Col(2, 2)), Lit(8))>>),
     outs   |-> <<<<1, 2>>, <<2, 2>>>>,
     inputs |-> {d \in [{1, 2} -> TablesOf(Pairs({0, 4}, {3, 5}), 2)] :
                    \A n \in DOMAIN d[2] : d[2][n][2] = 5}]

(* SELECT a.k, b.k, c.k FROM a, b, c WHERE a.k = b.k AND c.k = b.k *)
ThreeWay ==
    [plan   |-> HashJoin(2, Scan(3, 1),
                         HashJoin(1, Scan(1, 1), Scan(2, 1), <<<<1, 1>>>>, <<<<2, 1>>>>),
                         <<<<3, 1>>>>, <<<<2, 1>>>>),
     outs   |-> <<<<1, 1>>, <<2, 1>>, <<3, 1>>>>,
     inputs |-> [{1, 2, 3} -> TablesOf(Singles({5, 6}), 1)]
                \cup [{1, 2, 3} -> {<<<<5>>, <<5>>>>, <<<<5>>, <<6>>>>}]]

(* SELECT * FROM a, b WHERE 1 = 1 AND 0 < a.k: no join key.  The planner   *)
(* makes the first conjunct a post-join filter.                            *)
Product ==
    [plan   |-> Select(HashJoin(1, Select(Scan(1, 1), <<Bin("CmpLt", Lit(0), Col(1, 1))>>),
                                Scan(2, 1), <<>>, <<>>),
                       <<Bin("CmpEq", Lit(1), Lit(1))>>),
     outs   |-> <<<<1, 1>>, <<2, 1>>>>,
     inputs |-> [{1, 2} -> TablesOf(Singles({-5, 6}), 2)]]

(* SELECT a.k FROM a WHERE 1 = 2 AND 3 < 4 *)
Never ==
    [plan   |-> Select(Scan(1, 1), <<Bin("CmpEq", Lit(1), Lit(2)), Bin("CmpLt", Lit(3), Lit(4))>>),
     outs   |-> <<<<1, 1>>>>,
     inputs |-> [{1} -> TablesOf(Singles({5}), 2)]]

(* SELECT a.c3, b.c3 FROM a, b WHERE a.c1 = b.c1 AND a.c2 = b.c2 *)
TwoKeys ==
    [plan   |-> HashJoin(1, Scan(1, 3), Scan(2, 3),
                         <<<<1, 1>>, <<1, 2>>>>, <<<<2, 1>>, <<2, 2>>>>),
     outs   |-> <<<<1, 3>>, <<2, 3>>>>,
     inputs |-> {<<a, b>> : a \in TablesOf({<<1, 6, 7>>, <<1, 8, 9>>, <<6, 6, 5>>}, 2),
                            b \in TablesOf({<<1, 6, 4>>, <<1, 8, 3>>}, 1)}]

SoundQueries == <<Filtered, Joined, ThreeWay, Product, Never, TwoKeys>>

-----------------------------------------------------------------------------
(* SELECT a.k, b.v FROM a, b WHERE a.k = b.k AND a.k = 2: when b has two   *)
(* rows, its numRows is the literal of a's filter.                         *)
LiteralIsNumRows ==
    <<[plan   |-> HashJoin(1, Select(Scan(1, 1), <<Bin("CmpEq", Col(1, 1), Lit(2))>>),
                           Scan(2, 2), <<<<1, 1>>>>, <<<<2, 1>>>>),
       outs   |-> <<<<1, 1>>, <<2, 2>>>>,
       inputs |-> {<<a, b>> : a \in TablesOf(Singles({2}), 1),
                              b \in TablesOf(Pairs({2}, {5}), 3)}]>>

(* SELECT a.k, a.v FROM a WHERE a.k AND a.v *)
IntegersAnded ==
    <<[plan   |-> Select(Scan(1, 2), <<Col(1, 1), Col(1, 2)>>),
       outs   |-> <<<<1, 1>>, <<1, 2>>>>,
       inputs |-> [{1} -> TablesOf(Pairs({0, 1}, {1, 2}), 2)]]>>

(* SELECT a.c6, b.k FROM a, b WHERE a.c1 = b.k: five payload columns. *)
FivePayloads ==
    <<[plan   |-> HashJoin(1, Scan(1, 6), Scan(2, 1), <<<<1, 1>>>>, <<<<2, 1>>>>),
       outs   |-> <<<<1, 6>>, <<2, 1>>>>,
       inputs |-> {<<a, b>> : a \in TablesOf({<<k, 1, 2, 4, 5, 6>> : k \in {5, 6}}, 2),
                              b \in TablesOf(Singles({5, 6}), 1)}]>>
=============================================================================
