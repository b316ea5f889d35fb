---------------------------- MODULE Planner_proofs ----------------------------
(***************************************************************************)
(* What a plan says, for any statements, catalog and terms.  The planner   *)
(* loses no term of WHERE (where a term is while it is classified and      *)
(* while the tree is built, and that a join takes every key between its    *)
(* new table and those before it) and makes none up; what it outputs is    *)
(* what the SELECT list names.  Then, from the tables of FROM that are     *)
(* under each operator, the scopes its code is generated in: a well-formed *)
(* statement has code, and only a well-formed one does.                    *)
(***************************************************************************)
EXTENDS Runner_proofs

(* Where a term may be: among the filters of its alias, the join keys, or  *)
(* the filters after the joins, in the tree, or nowhere.                   *)
Filed(c) ==
    \E a \in DOMAIN filters : ConjunctAliases(c) = {a} /\ c \in ToSet(filters[a])
KeyOf(jk, c) ==
    IsJoinKey(c) /\ {jk.buildIU, jk.probeIU} = {IUOf(c.left), IUOf(c.right)}
Between(jk, i, k) ==
    aliases[i] # aliases[k] /\ {jk.buildAlias, jk.probeAlias} = {aliases[i], aliases[k]}
Keyed(c, n) ==
    \E jk \in ToSet(joinKeys), i \in 1..Len(aliases), k \in n+1..Len(aliases) :
        KeyOf(jk, c) /\ i < k /\ Between(jk, i, k)
Late(c)    == c \in ToSet(postFilters)
Applied(c) == \E op \in heap : Applies(op, c)
Nowhere(c) == Cardinality(ConjunctAliases(c)) = 1 /\ ConjunctAliases(c) \cap DOMAIN scans = {}

ListsInv ==
    /\ conjuncts \in Seq(ToSet(conjuncts))
    /\ joinKeys \in Seq(ToSet(joinKeys))
    /\ postFilters \in Seq(ToSet(postFilters))
    /\ \A a \in DOMAIN filters : filters[a] \in Seq(ToSet(filters[a]))

TermsInv ==
    /\ pc = "classify" =>
          /\ ToSet(conjuncts) \subseteq ToSet(Terms)
          /\ \A c \in ToSet(Terms) : c \in ToSet(conjuncts) \/ Filed(c) \/ Keyed(c, 1) \/ Late(c)
    /\ pc = "join" =>
          \A c \in ToSet(Terms) : Applied(c) \/ Nowhere(c) \/ Keyed(c, joined) \/ Late(c)
    /\ pc \in {"select", "planned"} =>
          \A c \in ToSet(Terms) : Applied(c) \/ Nowhere(c)

-----------------------------------------------------------------------------
LEMMA OwnList == ASSUME NEW S, NEW s \in Seq(S) PROVE s \in Seq(ToSet(s))
<1>1. s = [i \in 1..Len(s) |-> s[i]] /\ Len(s) \in Nat /\ DOMAIN s = 1..Len(s)
  OBVIOUS
<1>2. \A i \in 1..Len(s) : s[i] \in ToSet(s)
  BY <1>1 DEF ToSet
<1> QED BY <1>1, <1>2

LEMMA AppendKeepsList ==
    ASSUME NEW s, s \in Seq(ToSet(s)), NEW x
    PROVE  /\ Append(s, x) \in Seq(ToSet(Append(s, x)))
           /\ ToSet(Append(s, x)) = ToSet(s) \cup {x}
<1>1. ToSet(Append(s, x)) = ToSet(s) \cup {x}
  BY AppendToSet
<1>2. \A S : s \in Seq(S) => Append(s, x) \in Seq(S \cup {x})
  OBVIOUS
<1> QED BY <1>1, <1>2

LEMMA HeadAndTail ==
    ASSUME NEW s, s \in Seq(ToSet(s)), s # <<>>
    PROVE  ToSet(s) = {Head(s)} \cup ToSet(Tail(s)) /\ Tail(s) \in Seq(ToSet(Tail(s)))
<1>1. /\ Len(s) \in Nat /\ Len(s) > 0 /\ DOMAIN s = 1..Len(s) /\ s[1] = Head(s)
      /\ DOMAIN Tail(s) = 1..Len(s)-1 /\ Len(Tail(s)) = Len(s) - 1
      /\ \A i \in 1..Len(s)-1 : Tail(s)[i] = s[i + 1]
  OBVIOUS
<1>2. \A i \in 1..Len(s) : i # 1 => i - 1 \in 1..Len(s)-1 /\ s[i] = Tail(s)[i - 1]
  BY <1>1
<1>3. \A i \in 1..Len(s)-1 : i + 1 \in 1..Len(s)
  BY <1>1
<1>4. \A i \in 1..Len(s) : s[i] \in {Head(s)} \cup ToSet(Tail(s))
  BY <1>1, <1>2 DEF ToSet
<1>5. Head(s) \in ToSet(s) /\ \A i \in 1..Len(s)-1 : Tail(s)[i] \in ToSet(s)
  <2>1. 1 \in 1..Len(s)
    BY <1>1
  <2> QED BY <1>1, <1>3, <2>1 DEF ToSet
<1>6. ToSet(s) = {Head(s)} \cup ToSet(Tail(s))
  <2>1. ToSet(s) \subseteq {Head(s)} \cup ToSet(Tail(s))
    BY <1>1, <1>4 DEF ToSet
  <2>2. ToSet(Tail(s)) \subseteq ToSet(s)
    BY <1>1, <1>5 DEF ToSet
  <2> QED BY <1>5, <2>1, <2>2
<1>7. Tail(s) \in Seq(ToSet(s))
  <2> DEFINE S == ToSet(s)
  <2>1. s \in Seq(S)
    OBVIOUS
  <2> HIDE DEF S
  <2>2. Tail(s) \in Seq(S)
    BY <2>1
  <2> QED BY <2>2 DEF S
<1> QED BY <1>6, <1>7, OwnList

(* The loop over the join keys takes every key that connects, and no other. *)
LEMMA KeysOfTakes ==
    ASSUME joinKeys \in Seq(ToSet(joinKeys)), NEW alias, NEW others
    PROVE  LET keys == KeysOf(alias, others)
           IN  /\ \A jk \in ToSet(joinKeys) : Connects(jk, alias, others) =>
                     \E i \in DOMAIN keys : keys[i] = Oriented(jk, alias)
               /\ \A i \in DOMAIN keys : \E jk \in ToSet(joinKeys) :
                     Connects(jk, alias, others) /\ keys[i] = Oriented(jk, alias)
<1> DEFINE m == Len(joinKeys)
           key(n) == Oriented(joinKeys[n], alias)
           takes(n) == Connects(joinKeys[n], alias, others)
           O == {key(n) : n \in {x \in 1..m : takes(x)}}
           T == Seq(O)
           Is(w) == w = [n \in 0..m |-> IF n = 0 THEN <<>>
                                       ELSE IF takes(n) THEN Append(w[n - 1], key(n)) ELSE w[n - 1]]
           step == [n \in 1..m |-> [v \in T |-> IF takes(n) THEN Append(v, key(n)) ELSE v]]
<1>1. m \in Nat
  OBVIOUS
<1>2. \A n \in 1..m : takes(n) => key(n) \in O
  OBVIOUS
<1>3. <<>> \in T /\ \A v \in T, x \in O : Append(v, x) \in T
  OBVIOUS
<1> HIDE DEF m, key, takes, T
<1>4. step \in [1..m -> [T -> T]]
  <2>1. \A n \in 1..m, v \in T : (IF takes(n) THEN Append(v, key(n)) ELSE v) \in T
    BY <1>2, <1>3
  <2> QED BY <2>1
<1>5. PICK f : Recursive(f, m, T, <<>>, step)
  <2> HIDE DEF step
  <2> QED BY <1>1, <1>3, <1>4, RecursionExists
<1>6. f \in [0..m -> T] /\ f[0] = <<>> /\ \A n \in 1..m : f[n] = step[n][f[n - 1]]
  BY <1>5, Zenon DEF Recursive
<1>7. \A n \in 0..m : n # 0 => n \in 1..m /\ n - 1 \in 0..m
  BY <1>1
<1>8. Is(f)
  <2>1. \A n \in 0..m : f[n] = IF n = 0 THEN <<>>
                              ELSE IF takes(n) THEN Append(f[n - 1], key(n)) ELSE f[n - 1]
    BY <1>6, <1>7
  <2>2. f = [n \in 0..m |-> f[n]]
    BY <1>6
  <2> QED BY <2>1, <2>2
<1> DEFINE among == CHOOSE w : Is(w)
<1>9. KeysOf(alias, others) = among[m]
  BY Zenon DEF KeysOf, m, key, takes
<1>10. Is(among)
  <2> HIDE DEF Is
  <2> QED BY <1>8, Zenon
<1> HIDE DEF among
<1>11. \A n \in 0..m : among[n] = IF n = 0 THEN <<>>
                                ELSE IF takes(n) THEN Append(among[n - 1], key(n)) ELSE among[n - 1]
  BY <1>10
<1> DEFINE Good == {n \in 0..m : /\ among[n] \in T
                                 /\ \A j \in 1..n : takes(j) => \E i \in DOMAIN among[n] : among[n][i] = key(j)}
<1>12. 0 \in Good
  BY <1>1, <1>3, <1>11
<1>13. ASSUME NEW n \in 0..m, n < m, n \in Good
       PROVE  n + 1 \in Good
  <2>1. n + 1 \in 0..m /\ n + 1 # 0 /\ (n + 1) - 1 = n /\ n + 1 \in 1..m
        /\ \A j \in 1..n+1 : j = n + 1 \/ j \in 1..n
    BY <1>1, <1>13
  <2>2. among[n + 1] = IF takes(n + 1) THEN Append(among[n], key(n + 1)) ELSE among[n]
    BY <1>11, <2>1
  <2>3. among[n] \in T
    BY <1>13
  <2>4. among[n + 1] \in T
    BY <1>2, <1>3, <2>1, <2>2, <2>3
  <2>5. CASE takes(n + 1)
    <3>1. /\ \A i \in DOMAIN among[n] : i \in DOMAIN among[n + 1] /\ among[n + 1][i] = among[n][i]
          /\ \E i \in DOMAIN among[n + 1] : among[n + 1][i] = key(n + 1)
      <4>1. Len(among[n]) \in Nat /\ DOMAIN among[n] = 1..Len(among[n])
        BY <2>3 DEF T
      <4>2. /\ DOMAIN among[n + 1] = 1..Len(among[n])+1
            /\ \A i \in 1..Len(among[n]) : among[n + 1][i] = among[n][i]
            /\ among[n + 1][Len(among[n]) + 1] = key(n + 1)
        BY <2>2, <2>3, <2>5 DEF T
      <4>3. Len(among[n]) + 1 \in 1..Len(among[n])+1
        BY <4>1
      <4> QED BY <4>1, <4>2, <4>3
    <3> QED BY <1>13, <2>1, <2>4, <3>1
  <2>6. CASE ~takes(n + 1)
    BY <1>13, <2>1, <2>2, <2>4, <2>6
  <2> QED BY <2>5, <2>6
<1> HIDE DEF Good
<1>14. 0..m \subseteq Good
  BY <1>1, <1>12, <1>13, UpTo
<1>15. m \in Good
  BY <1>1, <1>14
<1>16. ASSUME NEW jk \in ToSet(joinKeys), Connects(jk, alias, others)
       PROVE  \E i \in DOMAIN among[m] : among[m][i] = Oriented(jk, alias)
  <2>1. PICK j \in 1..m : joinKeys[j] = jk
    BY DEF ToSet, m
  <2>2. takes(j) /\ key(j) = Oriented(jk, alias)
    BY <1>16, <2>1 DEF takes, key
  <2> QED BY <1>15, <2>2 DEF Good
<1>17. ASSUME NEW i \in DOMAIN among[m]
       PROVE  \E jk \in ToSet(joinKeys) : Connects(jk, alias, others) /\ among[m][i] = Oriented(jk, alias)
  <2>1. among[m] \in T
    BY <1>15 DEF Good
  <2>2. among[m][i] \in O
    BY <2>1 DEF T
  <2>3. PICK j \in 1..m : takes(j) /\ among[m][i] = key(j)
    BY <2>2
  <2>4. joinKeys[j] \in ToSet(joinKeys)
    BY DEF ToSet, m
  <2> QED BY <2>3, <2>4 DEF takes, key
<1> QED BY <1>9, <1>16, <1>17

-----------------------------------------------------------------------------
(* What refers to scans only does not change once they are made.           *)
LEMMA NamesKept ==
    ASSUME UNCHANGED <<stmt, scans>>
    PROVE  /\ Terms' = Terms
           /\ \A ref : IUOf(ref)' = IUOf(ref)
           /\ \A c : Nowhere(c)' <=> Nowhere(c)
           /\ \A op, c : Applies(op, c)' <=> Applies(op, c)
           /\ \A jk, c : KeyOf(jk, c)' <=> KeyOf(jk, c)
<1>1. \A n, name : Found(n, name)' = Found(n, name)
  BY DEF Found, Columns
<1>2. \A n, name : GetIU(n, name)' = GetIU(n, name)
  BY <1>1 DEF GetIU
<1>3. \A ref : Owners(ref)' = Owners(ref)
  BY <1>1 DEF Owners
<1>4. \A ref : IUOf(ref)' = IUOf(ref)
  BY <1>2, <1>3 DEF IUOf
<1>5. /\ \A c : IUOf(c.left)' = IUOf(c.left) /\ IUOf(c.right)' = IUOf(c.right)
      /\ \A c : IsJoinKey(c)' <=> IsJoinKey(c)
  BY <1>4 DEF IsJoinKey, ConjunctAliases
<1>6. \A op, c : Applies(op, c)' <=> Applies(op, c)
  BY <1>5 DEF Applies
<1>7. \A jk, c : KeyOf(jk, c)' <=> KeyOf(jk, c)
  BY <1>5 DEF KeyOf
<1>8. \A c : Nowhere(c)' <=> Nowhere(c)
  BY DEF Nowhere, ConjunctAliases
<1>9. Terms' = Terms
  BY DEF Terms
<1> QED BY <1>4, <1>6, <1>7, <1>8, <1>9

LEMMA KeysKept ==
    ASSUME UNCHANGED <<stmt, aliases, scans, joinKeys>>
    PROVE  \A c, n : Keyed(c, n)' <=> Keyed(c, n)
<1>1. /\ \A jk, c : KeyOf(jk, c)' <=> KeyOf(jk, c)
      /\ \A jk, i, k : Between(jk, i, k)' <=> Between(jk, i, k)
  BY NamesKept DEF Between
<1> QED BY <1>1 DEF Keyed

LEMMA TermsAreList ==
    ASSUME StmtInv
    PROVE  /\ Terms \in Seq(ToSet(Terms))
           /\ \A c \in ToSet(Terms) :
                 c.kind = "bin" /\ c.left.kind = "col" /\ c.right.kind = "col" =>
                     RefsOf(c) = {c.left, c.right}
<1>1. CASE stmt.where = NoWhere
  <2>1. Terms = <<>> /\ ToSet(Terms) = {}
    BY <1>1 DEF Terms, ToSet
  <2> QED BY <2>1, EmptyTyped
<1>2. CASE stmt.where # NoWhere
  <2>1. stmt \in Statements
    BY <1>2 DEF StmtInv, NoStatement, SelectStmt
  <2>2. Terms = ConjunctsOf(stmt.where)
    BY <1>2 DEF Terms
  <2> QED BY <1>2, <2>1, <2>2, TermAssumption
<1> QED BY <1>1, <1>2

(* A join key relates two aliases.                                         *)
LEMMA KeyHasTwoAliases ==
    ASSUME NEW c, IsJoinKey(c), RefsOf(c) = {c.left, c.right}
    PROVE  c.left.alias # c.right.alias
<1> SUFFICES ASSUME c.left.alias = c.right.alias PROVE FALSE
  OBVIOUS
<1> DEFINE a == c.left.alias
<1>1. {ref.alias : ref \in RefsOf(c)} = {a}
  OBVIOUS
<1>2. ConjunctAliases(c) = {} \/ ConjunctAliases(c) = {a}
  BY <1>1 DEF ConjunctAliases
<1>3. Cardinality(ConjunctAliases(c)) = 0 \/ Cardinality(ConjunctAliases(c)) = 1
  BY <1>2, FS_EmptySet, FS_Singleton
<1> QED BY <1>3 DEF IsJoinKey

LEMMA ClassifyFilterStep ==
    ASSUME ListsInv, TermsInv, ClassifyFilter
    PROVE  ListsInv' /\ TermsInv'
<1>1. PICK first : first = Head(conjuncts)
  OBVIOUS
<1>2. PICK a \in ConjunctAliases(first) :
         /\ ConjunctAliases(first) = {a}
         /\ filters' = Put(filters, a, Append(FiltersOf(a), first))
  BY <1>1 DEF ClassifyFilter
<1>3. /\ pc = "classify" /\ pc' = pc /\ conjuncts # <<>> /\ conjuncts' = Tail(conjuncts)
      /\ UNCHANGED <<stmt, aliases, scans, joinKeys, postFilters>>
  BY DEF ClassifyFilter, Classifying
<1>4. ToSet(conjuncts) = {first} \cup ToSet(conjuncts') /\ conjuncts' \in Seq(ToSet(conjuncts'))
  BY <1>1, <1>3, HeadAndTail DEF ListsInv
<1>5. FiltersOf(a) \in Seq(ToSet(FiltersOf(a)))
  BY EmptyTyped DEF FiltersOf, ListsInv
<1> DEFINE longer == Append(FiltersOf(a), first)
<1>6. longer \in Seq(ToSet(longer)) /\ ToSet(longer) = ToSet(FiltersOf(a)) \cup {first}
  BY <1>5, AppendKeepsList
<1> HIDE DEF longer
<1>7. filters' = [b \in DOMAIN filters \cup {a} |-> IF b = a THEN longer ELSE filters[b]]
  BY <1>2 DEF Put, longer
<1>8. ListsInv'
  <2>1. \A b \in DOMAIN filters' : filters'[b] \in Seq(ToSet(filters'[b]))
    BY <1>6, <1>7 DEF ListsInv
  <2> QED BY <1>3, <1>4, <2>1 DEF ListsInv
<1>9. Filed(first)'
  BY <1>2, <1>6, <1>7 DEF Filed
<1>10. ASSUME NEW c, Filed(c) PROVE Filed(c)'
  <2>1. PICK b \in DOMAIN filters : ConjunctAliases(c) = {b} /\ c \in ToSet(filters[b])
    BY <1>10 DEF Filed
  <2>2. b = a => filters[b] = FiltersOf(a)
    BY DEF FiltersOf
  <2>3. b \in DOMAIN filters' /\ c \in ToSet(filters'[b])
    BY <1>6, <1>7, <2>1, <2>2
  <2> QED BY <2>1, <2>3 DEF Filed
<1>11. \A c : Keyed(c, 1)' <=> Keyed(c, 1)
  BY <1>3, KeysKept
<1>12. \A c : Late(c)' <=> Late(c)
  BY <1>3 DEF Late
<1>13. Terms' = Terms
  BY <1>3, NamesKept
<1> QED BY <1>3, <1>4, <1>8, <1>9, <1>10, <1>11, <1>12, <1>13 DEF TermsInv

LEMMA ClassifyJoinKeyStep ==
    ASSUME StmtInv, ScanInv, ListsInv, TermsInv, ClassifyJoinKey
    PROVE  ListsInv' /\ TermsInv'
<1>1. PICK first, l, r, jk :
         /\ first = Head(conjuncts) /\ Sides(first) = <<l, r>>
         /\ jk = [buildAlias |-> l.alias, buildIU |-> IUOf(l), probeAlias |-> r.alias, probeIU |-> IUOf(r)]
  BY DEF Sides
<1>2. /\ pc = "classify" /\ pc' = pc /\ conjuncts # <<>> /\ conjuncts' = Tail(conjuncts)
      /\ IsJoinKey(first) /\ HasColumn(l) /\ HasColumn(r)
      /\ joinKeys' = Append(joinKeys, jk)
      /\ UNCHANGED <<stmt, aliases, scans, filters, postFilters>>
  BY <1>1 DEF ClassifyJoinKey, Classifying
<1>3. ToSet(conjuncts) = {first} \cup ToSet(conjuncts') /\ conjuncts' \in Seq(ToSet(conjuncts'))
  BY <1>1, <1>2, HeadAndTail DEF ListsInv
<1>4. {l, r} = {first.left, first.right}
  <2>1. \/ <<l, r>> = <<first.left, first.right>>
        \/ <<l, r>> = <<first.right, first.left>>
    BY <1>1 DEF Sides
  <2>2. \/ l = first.left /\ r = first.right
        \/ l = first.right /\ r = first.left
    BY <2>1
  <2> QED BY <2>2
<1>5. l.alias # r.alias
  <2>1. first \in ToSet(Terms) /\ first.kind = "bin"
        /\ first.left.kind = "col" /\ first.right.kind = "col"
    BY <1>2, <1>3 DEF TermsInv, IsJoinKey
  <2>2. RefsOf(first) = {first.left, first.right}
    BY <2>1, TermsAreList
  <2> QED BY <1>2, <1>4, <2>2, KeyHasTwoAliases
<1>6. /\ KeyOf(jk, first)
      /\ jk.buildAlias # jk.probeAlias
      /\ jk.buildAlias \in ToSet(aliases) /\ jk.probeAlias \in ToSet(aliases)
  <2>1. l.alias \in ToSet(aliases) /\ r.alias \in ToSet(aliases)
    BY <1>2 DEF HasColumn, Known, ScanInv
  <2>2. {IUOf(l), IUOf(r)} = {IUOf(first.left), IUOf(first.right)}
    BY <1>4
  <2> QED BY <1>1, <1>2, <1>5, <2>1, <2>2 DEF KeyOf
<1>7. joinKeys' \in Seq(ToSet(joinKeys')) /\ ToSet(joinKeys') = ToSet(joinKeys) \cup {jk}
  BY <1>2, AppendKeepsList DEF ListsInv
<1>8. PICK i \in 1..Len(aliases), k \in 1..Len(aliases) : i < k /\ Between(jk, i, k)
  <2>1. DOMAIN aliases = 1..Len(aliases) /\ Len(aliases) \in Nat
    BY DEF ScanInv
  <2>2. PICK b \in 1..Len(aliases), p \in 1..Len(aliases) :
           aliases[b] = jk.buildAlias /\ aliases[p] = jk.probeAlias
    BY <1>6, <2>1 DEF ToSet
  <2>3. Between(jk, b, p) /\ Between(jk, p, b)
    BY <1>6, <2>2 DEF Between
  <2>4. b < p \/ p < b
    BY <1>6, <2>1, <2>2
  <2> QED BY <2>3, <2>4
<1>9. k \in 1+1..Len(aliases)
  BY <1>8 DEF ScanInv
<1>10. /\ \A q, c : KeyOf(q, c)' <=> KeyOf(q, c)
       /\ \A q, x, y : Between(q, x, y)' <=> Between(q, x, y)
  BY <1>2, NamesKept DEF Between
<1>11. Keyed(first, 1)'
  BY <1>2, <1>6, <1>7, <1>8, <1>9, <1>10 DEF Keyed
<1>12. \A c : Keyed(c, 1) => Keyed(c, 1)'
  BY <1>2, <1>7, <1>10 DEF Keyed
<1>13. ListsInv'
  BY <1>2, <1>3, <1>7 DEF ListsInv
<1>14. \A c : (Filed(c)' <=> Filed(c)) /\ (Late(c)' <=> Late(c))
  BY <1>2 DEF Filed, Late, ConjunctAliases
<1>15. Terms' = Terms
  BY <1>2, NamesKept
<1> QED BY <1>2, <1>3, <1>11, <1>12, <1>13, <1>14, <1>15 DEF TermsInv

LEMMA ClassifyPostJoinStep ==
    ASSUME ListsInv, TermsInv, ClassifyPostJoin
    PROVE  ListsInv' /\ TermsInv'
<1>1. PICK first : first = Head(conjuncts)
  OBVIOUS
<1>2. /\ pc = "classify" /\ pc' = pc /\ conjuncts # <<>> /\ conjuncts' = Tail(conjuncts)
      /\ postFilters' = Append(postFilters, first)
      /\ UNCHANGED <<stmt, aliases, scans, filters, joinKeys>>
  BY <1>1 DEF ClassifyPostJoin, Classifying
<1>3. ToSet(conjuncts) = {first} \cup ToSet(conjuncts') /\ conjuncts' \in Seq(ToSet(conjuncts'))
  BY <1>1, <1>2, HeadAndTail DEF ListsInv
<1>4. /\ postFilters' \in Seq(ToSet(postFilters'))
      /\ ToSet(postFilters') = ToSet(postFilters) \cup {first}
  BY <1>2, AppendKeepsList DEF ListsInv
<1>5. ListsInv'
  BY <1>2, <1>3, <1>4 DEF ListsInv
<1>6. Late(first)' /\ \A c : Late(c) => Late(c)'
  BY <1>4 DEF Late
<1>7. \A c : Keyed(c, 1)' <=> Keyed(c, 1)
  BY <1>2, KeysKept
<1>8. \A c : Filed(c)' <=> Filed(c)
  BY <1>2 DEF Filed, ConjunctAliases
<1>9. Terms' = Terms
  BY <1>2, NamesKept
<1> QED BY <1>2, <1>3, <1>5, <1>6, <1>7, <1>8, <1>9 DEF TermsInv

(* A table's filters are in its select; a filter of another is nowhere.    *)
LEMMA WrapScansStep ==
    ASSUME ScanInv, ListsInv, TermsInv, WrapScans
    PROVE  ListsInv' /\ TermsInv'
<1>1. /\ pc = "classify" /\ pc' = "join" /\ conjuncts = <<>> /\ joined' = 1
      /\ heap' = heap \cup {Filtered(n) : n \in DOMAIN aliases}
      /\ UNCHANGED <<stmt, aliases, scans, conjuncts, filters, joinKeys, postFilters>>
  BY DEF WrapScans, classes
<1>2. ListsInv'
  BY <1>1 DEF ListsInv
<1>3. /\ Terms' = Terms
      /\ \A c : Nowhere(c)' <=> Nowhere(c)
      /\ \A op, c : Applies(op, c)' <=> Applies(op, c)
      /\ \A c : Keyed(c, 1)' <=> Keyed(c, 1)
      /\ \A c : Late(c)' <=> Late(c)
  BY <1>1, NamesKept, KeysKept DEF Late
<1>4. ASSUME NEW c, Filed(c) PROVE Applied(c)' \/ Nowhere(c)
  <2>1. PICK a \in DOMAIN filters : ConjunctAliases(c) = {a} /\ c \in ToSet(filters[a])
    BY <1>4 DEF Filed
  <2>2. CASE a \in ToSet(aliases)
    <3>1. PICK n \in DOMAIN aliases : aliases[n] = a
      BY <2>2 DEF ToSet
    <3>2. FiltersOf(a) = filters[a] /\ FiltersOf(a) # <<>>
      BY <2>1 DEF FiltersOf, ToSet
    <3>3. Filtered(n) = Select(n, ScanOf(scans[a]), FiltersOf(a))
      BY <3>1, <3>2 DEF Filtered
    <3>4. Filtered(n).kind = "select" /\ Filtered(n).conjuncts = FiltersOf(a)
      BY <3>3 DEF Select
    <3>5. Filtered(n) \in heap' /\ Applies(Filtered(n), c)
      BY <1>1, <2>1, <3>2, <3>4 DEF Applies
    <3>6. PICK op \in heap' : Applies(op, c)
      BY <3>5
    <3> QED BY <1>3, <3>6 DEF Applied
  <2>3. CASE a \notin ToSet(aliases)
    <3>1. Cardinality(ConjunctAliases(c)) = 1
      BY <2>1, FS_Singleton
    <3> QED BY <2>1, <2>3, <3>1 DEF Nowhere, ScanInv
  <2> QED BY <2>2, <2>3
<1>5. ToSet(conjuncts) = {}
  BY <1>1 DEF ToSet
<1>6. \A c \in ToSet(Terms) : Filed(c) \/ Keyed(c, 1) \/ Late(c)
  BY <1>1, <1>5 DEF TermsInv
<1>7. \A c : Keyed(c, 1)' => Keyed(c, joined)'
  BY <1>1 DEF Keyed
<1> QED BY <1>1, <1>2, <1>3, <1>4, <1>6, <1>7 DEF TermsInv

(* A join takes every key between its new table and one before it.         *)
LEMMA JoinNextStep ==
    ASSUME ScanInv, ListsInv, TermsInv, JoinNext
    PROVE  ListsInv' /\ TermsInv'
<1>1. /\ pc = "join" /\ pc' = pc /\ joined < Len(aliases) /\ joined' = joined + 1
      /\ heap' = heap \cup {planRoot'}
      /\ UNCHANGED <<stmt, aliases, scans, conjuncts, filters, joinKeys, postFilters>>
  BY DEF JoinNext, classes
<1>2. joined \in Nat /\ joined # 0 /\ Len(aliases) \in Nat
  BY <1>1 DEF ScanInv
<1>3. ListsInv'
  BY <1>1 DEF ListsInv
<1>4. /\ Terms' = Terms
      /\ \A c : Nowhere(c)' <=> Nowhere(c)
      /\ \A op, c : Applies(op, c)' <=> Applies(op, c)
      /\ \A c, n : Keyed(c, n)' <=> Keyed(c, n)
      /\ \A c : Late(c)' <=> Late(c)
  BY <1>1, NamesKept, KeysKept DEF Late
<1>5. ASSUME NEW jk \in ToSet(joinKeys), NEW i \in 1..Len(aliases), i < joined + 1,
             Between(jk, i, joined + 1), NEW c, KeyOf(jk, c)
      PROVE  Applies(planRoot', c)
  <2>1. PICK id, b, p, alias, others :
           /\ planRoot' = HashJoin(id, b, p, KeysOf(alias, others))
           /\ Connects(jk, alias, others)
    <3>1. CASE joined = 1
      <4>1. planRoot' = HashJoin(1, plans[aliases[1]], plans[aliases[joined + 1]],
                                 KeysOf(aliases[1], {aliases[joined + 1]}))
        BY <3>1 DEF JoinNext
      <4>2. i = 1
        BY <1>5, <3>1
      <4>3. Connects(jk, aliases[1], {aliases[joined + 1]})
        BY <1>5, <4>2 DEF Between, Connects
      <4> QED BY <4>1, <4>3
    <3>2. CASE joined # 1
      <4>1. planRoot' = HashJoin(joined, plans[aliases[joined + 1]], planRoot,
                                 KeysOf(aliases[joined + 1], Anyone))
        BY <3>2 DEF JoinNext, LaterKeys
      <4>2. aliases[i] \in Anyone
        BY <1>5 DEF Between, Anyone
      <4>3. Connects(jk, aliases[joined + 1], Anyone)
        BY <1>5, <4>2 DEF Between, Connects
      <4> QED BY <4>1, <4>3
    <3> QED BY <3>1, <3>2
  <2>2. PICK keys : keys = KeysOf(alias, others)
    OBVIOUS
  <2>3. PICK x \in DOMAIN keys : keys[x] = Oriented(jk, alias)
    BY <2>1, <2>2, KeysOfTakes DEF ListsInv
  <2>4. {keys[x].new, keys[x].old} = {jk.buildIU, jk.probeIU}
    BY <2>3 DEF Oriented
  <2>5. /\ planRoot'.kind = "join"
        /\ DOMAIN planRoot'.buildKeys = DOMAIN keys
        /\ planRoot'.buildKeys[x] = keys[x].new /\ planRoot'.probeKeys[x] = keys[x].old
    BY <2>1, <2>2 DEF HashJoin
  <2> QED BY <1>5, <2>4, <2>5 DEF Applies, KeyOf
<1>6. ASSUME NEW c, Keyed(c, joined) PROVE Applied(c)' \/ Keyed(c, joined')
  <2>1. PICK jk \in ToSet(joinKeys), i \in 1..Len(aliases), k \in joined+1..Len(aliases) :
           KeyOf(jk, c) /\ i < k /\ Between(jk, i, k)
    BY <1>6 DEF Keyed
  <2>2. CASE k = joined + 1
    <3>1. Applies(planRoot', c) /\ planRoot' \in heap'
      BY <1>1, <1>5, <2>1, <2>2
    <3>2. PICK op \in heap' : Applies(op, c)
      BY <3>1
    <3> QED BY <1>4, <3>2 DEF Applied
  <2>3. CASE k # joined + 1
    <3>1. k \in joined'+1..Len(aliases)
      BY <1>1, <1>2, <2>3
    <3> QED BY <2>1, <3>1 DEF Keyed
  <2> QED BY <2>2, <2>3
<1>7. \A c : Applied(c) => Applied(c)'
  BY <1>1, <1>4 DEF Applied
<1>8. ASSUME NEW c, Keyed(c, joined') PROVE Keyed(c, joined)'
  <2>1. PICK n : n = joined'
    OBVIOUS
  <2>2. Keyed(c, n)'
    BY <1>4, <1>8, <2>1
  <2> QED BY <2>1, <2>2 DEF Keyed
<1> QED BY <1>1, <1>3, <1>4, <1>6, <1>7, <1>8 DEF TermsInv

LEMMA WrapPostJoinStep ==
    ASSUME ScanInv, ListsInv, TermsInv, WrapPostJoin
    PROVE  ListsInv' /\ TermsInv'
<1>1. /\ pc = "join" /\ pc' = "select" /\ joined = Len(aliases)
      /\ heap' = heap \cup {planRoot'}
      /\ planRoot' = IF postFilters = <<>> THEN planRoot ELSE Select(0, planRoot, postFilters)
      /\ UNCHANGED <<stmt, aliases, scans, conjuncts, filters, joinKeys, postFilters>>
  BY DEF WrapPostJoin, classes
<1>2. ListsInv'
  BY <1>1 DEF ListsInv
<1>3. /\ Terms' = Terms
      /\ \A c : Nowhere(c)' <=> Nowhere(c)
      /\ \A op, c : Applies(op, c)' <=> Applies(op, c)
  BY <1>1, NamesKept
<1>4. \A c : ~Keyed(c, joined)
  <2>1. joined+1..Len(aliases) = {}
    BY <1>1 DEF ScanInv
  <2> QED BY <2>1 DEF Keyed
<1>5. ASSUME NEW c, Late(c) PROVE Applied(c)'
  <2>1. postFilters # <<>>
    BY <1>5 DEF Late, ToSet
  <2>2. planRoot'.kind = "select" /\ planRoot'.conjuncts = postFilters
    BY <1>1, <2>1 DEF Select
  <2>3. Applies(planRoot', c) /\ planRoot' \in heap'
    BY <1>1, <1>5, <2>2 DEF Applies, Late
  <2>4. PICK op \in heap' : Applies(op, c)
    BY <2>3
  <2> QED BY <1>3, <2>4 DEF Applied
<1>6. \A c : Applied(c) => Applied(c)'
  BY <1>1, <1>3 DEF Applied
<1> QED BY <1>1, <1>2, <1>3, <1>4, <1>5, <1>6 DEF TermsInv

LEMMA FlattenWhereStep ==
    ASSUME StmtInv, ListsInv, FlattenWhere
    PROVE  ListsInv' /\ TermsInv'
<1>1. /\ pc' = "classify" /\ conjuncts' = Terms
      /\ UNCHANGED <<stmt, scans, filters, joinKeys, postFilters>>
  BY DEF FlattenWhere, classes
<1>2. Terms' = Terms
  BY <1>1, NamesKept
<1>3. Terms \in Seq(ToSet(Terms))
  BY TermsAreList
<1> QED BY <1>1, <1>2, <1>3 DEF ListsInv, TermsInv

(* Every other step leaves the plan's lists and tree as they are.          *)
LEMMA OtherStep ==
    ASSUME ListsInv, TermsInv,
           UNCHANGED <<conjuncts, filters, joinKeys, postFilters>>,
           \/ pc' \notin {"classify", "join", "select", "planned"}
           \/ /\ UNCHANGED <<stmt, aliases, scans, joined, heap>>
              /\ \/ pc' = pc
                 \/ pc = "select" /\ pc' = "planned"
    PROVE  ListsInv' /\ TermsInv'
<1>1. ListsInv'
  BY DEF ListsInv
<1>2. CASE pc' \notin {"classify", "join", "select", "planned"}
  BY <1>1, <1>2 DEF TermsInv
<1>3. CASE /\ UNCHANGED <<stmt, aliases, scans, joined, heap>>
           /\ \/ pc' = pc
              \/ pc = "select" /\ pc' = "planned"
  <2>1. /\ Terms' = Terms
        /\ \A c : Nowhere(c)' <=> Nowhere(c)
        /\ \A op, c : Applies(op, c)' <=> Applies(op, c)
        /\ \A c, n : Keyed(c, n)' <=> Keyed(c, n)
        /\ \A c : Late(c)' <=> Late(c)
    BY <1>3, NamesKept, KeysKept DEF Late
  <2>2. \A c : Applied(c)' <=> Applied(c)
    BY <1>3, <2>1 DEF Applied
  <2>3. \A c : Filed(c)' <=> Filed(c)
    BY DEF Filed, ConjunctAliases
  <2>4. ASSUME NEW c, Keyed(c, joined) PROVE Keyed(c, joined)'
    <3>1. PICK n : n = joined
      OBVIOUS
    <3>2. Keyed(c, n)' /\ n = joined'
      BY <1>3, <2>1, <2>4, <3>1
    <3> QED BY <3>2 DEF Keyed
  <2> QED BY <1>1, <1>3, <2>1, <2>2, <2>3, <2>4 DEF TermsInv
<1> QED BY <1>1, <1>2, <1>3

LEMMA TermsStep ==
    ASSUME StmtInv, ScanInv, ListsInv, TermsInv, [RunNext]_allRunVars
    PROVE  ListsInv' /\ TermsInv'
<1>1. CASE \E s \in Statements : Parse(s)
  BY <1>1, OtherStep DEF Parse, classes
<1>2. CASE ParseThrows
  BY <1>2, OtherStep DEF ParseThrows, Throw, classes
<1>3. CASE CreateScan
  <2>1. pc' = "scan" /\ UNCHANGED <<conjuncts, filters, joinKeys, postFilters>>
    BY <1>3 DEF CreateScan, classes
  <2> QED BY <2>1, OtherStep
<1>4. CASE UnknownTable \/ JoinKeyOnUnknownAlias \/ JoinKeyOnUnknownColumn \/ RejectItem
  <2>1. pc' \in {"thrown", "crash"} /\ UNCHANGED <<conjuncts, filters, joinKeys, postFilters>>
    BY <1>4 DEF UnknownTable, JoinKeyOnUnknownAlias, JoinKeyOnUnknownColumn, RejectItem, Throw, classes
  <2> QED BY <2>1, OtherStep
<1>5. CASE ResolveItem \/ ReturnPlan
  <2>1. /\ UNCHANGED <<conjuncts, filters, joinKeys, postFilters>>
        /\ UNCHANGED <<stmt, aliases, scans, joined, heap>>
        /\ pc = "select" /\ pc' \in {"select", "planned"}
    BY <1>5 DEF ResolveItem, ReturnPlan, Selecting, classes, tree
  <2> QED BY <2>1, OtherStep
<1>6. CASE FlattenWhere
  BY <1>6, FlattenWhereStep
<1>7. CASE ClassifyFilter \/ ClassifyJoinKey \/ ClassifyPostJoin
  BY <1>7, ClassifyFilterStep, ClassifyJoinKeyStep, ClassifyPostJoinStep
<1>8. CASE WrapScans \/ JoinNext \/ WrapPostJoin
  BY <1>8, WrapScansStep, JoinNextStep, WrapPostJoinStep
<1>9. CASE PlanNext
  BY <1>3, <1>4, <1>5, <1>6, <1>7, <1>8, <1>9 DEF PlanNext
<1>10. CASE Produce \/ Compile \/ Execute \/ Release \/ Leave
  <2>1. pc' \notin {"classify", "join", "select", "planned"}
        /\ UNCHANGED <<conjuncts, filters, joinKeys, postFilters>>
    BY <1>10 DEF Produce, Compile, Execute, Release, Leave, Goto, Still, classes
  <2> QED BY <2>1, OtherStep
<1>11. CASE ProduceThrows \/ CompileThrows \/ ReturnExplained \/ Collect
  <2>1. pc' \notin {"classify", "join", "select", "planned"}
        /\ UNCHANGED <<conjuncts, filters, joinKeys, postFilters>>
    BY <1>11 DEF ProduceThrows, CompileThrows, ReturnExplained, Collect, CleanUp, Goto, Still, classes
  <2> QED BY <2>1, OtherStep
<1>12. CASE DeleteChild \/ Delete
  <2>1. /\ UNCHANGED <<conjuncts, filters, joinKeys, postFilters>>
        /\ UNCHANGED <<stmt, aliases, scans, joined, heap>> /\ pc' = pc
    BY <1>12 DEF DeleteChild, Delete, Still, classes, tree
  <2> QED BY <2>1, OtherStep
<1>13. CASE UNCHANGED allRunVars
  <2>1. /\ UNCHANGED <<conjuncts, filters, joinKeys, postFilters>>
        /\ UNCHANGED <<stmt, aliases, scans, joined, heap>> /\ pc' = pc
    BY <1>13 DEF allRunVars, planVars
  <2> QED BY <2>1, OtherStep
<1> QED BY <1>1, <1>2, <1>9, <1>10, <1>11, <1>12, <1>13 DEF RunNext, Plan

-----------------------------------------------------------------------------
(* That nothing is made up *)

(* The steps, as far as the plan and what it is made from can tell         *)
Quiet ==
    /\ UNCHANGED <<stmt, aliases, scans, conjuncts, classes, tree, items, outs, heap>>
    /\ \/ pc' = pc
       \/ pc' \in {"thrown", "crash"}
       \/ pc = "select" /\ pc' = "planned" /\ items = <<>>
       \/ pc \in Planned /\ pc' \in Planned \ {"planned"}

LEMMA PlanCourse ==
    ASSUME [RunNext]_allRunVars
    PROVE  \/ \E s \in Statements : Parse(s)
           \/ CreateScan \/ FlattenWhere
           \/ ClassifyFilter \/ ClassifyJoinKey \/ ClassifyPostJoin
           \/ WrapScans \/ JoinNext \/ WrapPostJoin \/ ResolveItem
           \/ Quiet
<1>1. CASE ParseThrows
  BY <1>1 DEF ParseThrows, Throw, Quiet
<1>2. CASE UnknownTable \/ JoinKeyOnUnknownAlias \/ JoinKeyOnUnknownColumn \/ RejectItem \/ ReturnPlan
  BY <1>2 DEF UnknownTable, JoinKeyOnUnknownAlias, JoinKeyOnUnknownColumn, RejectItem, ReturnPlan,
     Throw, Quiet
<1>3. CASE PlanNext
  BY <1>2, <1>3 DEF PlanNext
<1> USE DEF Planned, Cleaning, Ended
<1>4. CASE Produce \/ Compile \/ Execute \/ Release \/ Leave
  BY <1>4 DEF Quiet, Produce, Compile, Execute, Release, Leave, Goto, Still
<1>5. CASE ProduceThrows \/ CompileThrows \/ ReturnExplained \/ Collect
  BY <1>5 DEF Quiet, ProduceThrows, CompileThrows, ReturnExplained, Collect, CleanUp, Goto, Still
<1>6. CASE DeleteChild \/ Delete
  BY <1>6 DEF Quiet, DeleteChild, Delete, Still
<1>7. CASE UNCHANGED allRunVars
  BY <1>7 DEF Quiet, allRunVars, planVars, classes, tree
<1> QED BY <1>1, <1>3, <1>4, <1>5, <1>6, <1>7 DEF RunNext, Plan

(* A key and the term it was made of *)
KeyFrom(jk, c) ==
    /\ IsJoinKey(c)
    /\ \E l, r \in {c.left, c.right} :
          /\ {l, r} = {c.left, c.right}
          /\ HasColumn(l) /\ HasColumn(r)
          /\ jk = [buildAlias |-> l.alias, buildIU |-> IUOf(l),
                   probeAlias |-> r.alias, probeIU |-> IUOf(r)]

(* The lists hold terms, and every key that has been classified has the    *)
(* columns it names.                                                       *)
OriginInv ==
    /\ pc \in {"text", "scan"} =>
          DOMAIN filters = {} /\ joinKeys = <<>> /\ postFilters = <<>>
    /\ \A a \in DOMAIN filters : \A c \in ToSet(filters[a]) :
          c \in ToSet(Terms) /\ ConjunctAliases(c) = {a}
    /\ ToSet(postFilters) \subseteq ToSet(Terms)
    /\ \A jk \in ToSet(joinKeys) : \E c \in ToSet(Terms) : KeyFrom(jk, c)
    /\ pc \in {"classify", "join", "select", "planned"} =>
          \A c \in ToSet(Terms) :
             IsJoinKey(c) => \/ pc = "classify" /\ c \in ToSet(conjuncts)
                             \/ HasColumn(c.left) /\ HasColumn(c.right)

LEMMA ColumnsKept ==
    ASSUME UNCHANGED <<stmt, scans>>
    PROVE  /\ \A ref : HasColumn(ref)' <=> HasColumn(ref)
           /\ \A ref : Resolves(ref)' <=> Resolves(ref)
           /\ \A jk, c : KeyFrom(jk, c)' <=> KeyFrom(jk, c)
           /\ \A c : IsJoinKey(c)' <=> IsJoinKey(c)
           /\ \A c : ConjunctAliases(c)' = ConjunctAliases(c)
<1>1. \A n, name : Found(n, name)' = Found(n, name)
  BY DEF Found, Columns
<1>2. \A ref : HasColumn(ref)' <=> HasColumn(ref)
  BY <1>1 DEF HasColumn, Known
<1>3. \A ref : Owners(ref)' = Owners(ref)
  BY <1>1 DEF Owners
<1>4. \A ref : Resolves(ref)' <=> Resolves(ref)
  BY <1>1, <1>3 DEF Resolves
<1>5. \A c : IsJoinKey(c)' <=> IsJoinKey(c)
  BY DEF IsJoinKey, ConjunctAliases
<1>6. \A ref : IUOf(ref)' = IUOf(ref)
  BY NamesKept
<1>7. \A jk, c : KeyFrom(jk, c)' <=> KeyFrom(jk, c)
  BY <1>2, <1>5, <1>6 DEF KeyFrom
<1>8. \A c : ConjunctAliases(c)' = ConjunctAliases(c)
  BY DEF ConjunctAliases
<1> QED BY <1>2, <1>4, <1>5, <1>7, <1>8

LEMMA OriginOfFilter ==
    ASSUME ListsInv, TermsInv, OriginInv, ClassifyFilter
    PROVE  OriginInv'
<1>1. PICK first : first = Head(conjuncts)
  OBVIOUS
<1>2. PICK a \in ConjunctAliases(first) :
         /\ ConjunctAliases(first) = {a}
         /\ filters' = Put(filters, a, Append(FiltersOf(a), first))
  BY <1>1 DEF ClassifyFilter
<1>3. /\ pc = "classify" /\ pc' = pc /\ conjuncts # <<>> /\ conjuncts' = Tail(conjuncts)
      /\ UNCHANGED <<stmt, aliases, scans, joinKeys, postFilters>>
  BY DEF ClassifyFilter, Classifying
<1>4. ToSet(conjuncts) = {first} \cup ToSet(conjuncts') /\ first \in ToSet(Terms)
  BY <1>1, <1>3, HeadAndTail DEF ListsInv, TermsInv
<1>5. FiltersOf(a) \in Seq(ToSet(FiltersOf(a)))
  BY EmptyTyped DEF FiltersOf, ListsInv
<1> DEFINE longer == Append(FiltersOf(a), first)
<1>6. ToSet(longer) = ToSet(FiltersOf(a)) \cup {first}
  BY <1>5, AppendKeepsList
<1> HIDE DEF longer
<1>7. filters' = [b \in DOMAIN filters \cup {a} |-> IF b = a THEN longer ELSE filters[b]]
  BY <1>2 DEF Put, longer
<1>8. \A c \in ToSet(FiltersOf(a)) : c \in ToSet(Terms) /\ ConjunctAliases(c) = {a}
  BY DEF FiltersOf, ToSet, OriginInv
<1>9. \A b \in DOMAIN filters' : \A c \in ToSet(filters'[b]) :
         c \in ToSet(Terms) /\ ConjunctAliases(c) = {b}
  BY <1>2, <1>4, <1>6, <1>7, <1>8 DEF OriginInv
<1>10. ~IsJoinKey(first)
  BY <1>2, FS_Singleton DEF IsJoinKey
<1>11. Terms' = Terms
  BY <1>3, NamesKept
<1>12. /\ \A ref : HasColumn(ref)' <=> HasColumn(ref)
       /\ \A jk, c : KeyFrom(jk, c)' <=> KeyFrom(jk, c)
       /\ \A c : IsJoinKey(c)' <=> IsJoinKey(c)
       /\ \A c : ConjunctAliases(c)' = ConjunctAliases(c)
  BY <1>3, ColumnsKept
<1>13. \A c \in ToSet(Terms) :
          IsJoinKey(c) => c \in ToSet(conjuncts') \/ (HasColumn(c.left) /\ HasColumn(c.right))
  BY <1>3, <1>4, <1>10 DEF OriginInv
<1> QED BY <1>3, <1>9, <1>11, <1>12, <1>13 DEF OriginInv

LEMMA OriginOfKey ==
    ASSUME ListsInv, TermsInv, OriginInv, ClassifyJoinKey
    PROVE  OriginInv'
<1>1. PICK first, l, r, jk :
         /\ first = Head(conjuncts) /\ Sides(first) = <<l, r>>
         /\ jk = [buildAlias |-> l.alias, buildIU |-> IUOf(l), probeAlias |-> r.alias, probeIU |-> IUOf(r)]
  BY DEF Sides
<1>2. /\ pc = "classify" /\ pc' = pc /\ conjuncts # <<>> /\ conjuncts' = Tail(conjuncts)
      /\ IsJoinKey(first) /\ HasColumn(l) /\ HasColumn(r)
      /\ joinKeys' = Append(joinKeys, jk)
      /\ UNCHANGED <<stmt, aliases, scans, filters, postFilters>>
  BY <1>1 DEF ClassifyJoinKey, Classifying
<1>3. ToSet(conjuncts) = {first} \cup ToSet(conjuncts') /\ first \in ToSet(Terms)
  BY <1>1, <1>2, HeadAndTail DEF ListsInv, TermsInv
<1>4. \/ l = first.left /\ r = first.right
      \/ l = first.right /\ r = first.left
  <2>1. \/ <<l, r>> = <<first.left, first.right>>
        \/ <<l, r>> = <<first.right, first.left>>
    BY <1>1 DEF Sides
  <2> QED BY <2>1
<1>5. KeyFrom(jk, first)
  <2>1. l \in {first.left, first.right} /\ r \in {first.left, first.right}
        /\ {l, r} = {first.left, first.right}
    BY <1>4
  <2> QED BY <1>1, <1>2, <2>1 DEF KeyFrom
<1>6. ToSet(joinKeys') = ToSet(joinKeys) \cup {jk}
  BY <1>2, AppendKeepsList DEF ListsInv
<1>7. HasColumn(first.left) /\ HasColumn(first.right)
  BY <1>2, <1>4
<1>8. Terms' = Terms
  BY <1>2, NamesKept
<1>9. /\ \A ref : HasColumn(ref)' <=> HasColumn(ref)
      /\ \A q, c : KeyFrom(q, c)' <=> KeyFrom(q, c)
      /\ \A c : IsJoinKey(c)' <=> IsJoinKey(c)
      /\ \A c : ConjunctAliases(c)' = ConjunctAliases(c)
  BY <1>2, ColumnsKept
<1>10. \A q \in ToSet(joinKeys') : \E c \in ToSet(Terms) : KeyFrom(q, c)
  BY <1>3, <1>5, <1>6 DEF OriginInv
<1>11. \A c \in ToSet(Terms) :
          IsJoinKey(c) => c \in ToSet(conjuncts') \/ (HasColumn(c.left) /\ HasColumn(c.right))
  BY <1>2, <1>3, <1>7 DEF OriginInv
<1> QED BY <1>2, <1>8, <1>9, <1>10, <1>11 DEF OriginInv

LEMMA OriginOfPost ==
    ASSUME ListsInv, TermsInv, OriginInv, ClassifyPostJoin
    PROVE  OriginInv'
<1>1. PICK first : first = Head(conjuncts)
  OBVIOUS
<1>2. /\ pc = "classify" /\ pc' = pc /\ conjuncts # <<>> /\ conjuncts' = Tail(conjuncts)
      /\ postFilters' = Append(postFilters, first) /\ ~IsJoinKey(first)
      /\ UNCHANGED <<stmt, aliases, scans, filters, joinKeys>>
  BY <1>1 DEF ClassifyPostJoin, Classifying
<1>3. ToSet(conjuncts) = {first} \cup ToSet(conjuncts') /\ first \in ToSet(Terms)
  BY <1>1, <1>2, HeadAndTail DEF ListsInv, TermsInv
<1>4. ToSet(postFilters') = ToSet(postFilters) \cup {first}
  BY <1>2, AppendKeepsList DEF ListsInv
<1>5. Terms' = Terms
  BY <1>2, NamesKept
<1>6. /\ \A ref : HasColumn(ref)' <=> HasColumn(ref)
      /\ \A q, c : KeyFrom(q, c)' <=> KeyFrom(q, c)
      /\ \A c : IsJoinKey(c)' <=> IsJoinKey(c)
      /\ \A c : ConjunctAliases(c)' = ConjunctAliases(c)
  BY <1>2, ColumnsKept
<1>7. \A c \in ToSet(Terms) :
         IsJoinKey(c) => c \in ToSet(conjuncts') \/ (HasColumn(c.left) /\ HasColumn(c.right))
  BY <1>2, <1>3 DEF OriginInv
<1> QED BY <1>2, <1>3, <1>4, <1>5, <1>6, <1>7 DEF OriginInv

LEMMA OriginStep ==
    ASSUME ListsInv, TermsInv, OriginInv, [RunNext]_allRunVars
    PROVE  OriginInv'
<1> USE DEF Planned, Cleaning, Ended
<1>1. ToSet(<<>>) = {}
  BY DEF ToSet
<1>2. CASE (\E s \in Statements : Parse(s)) \/ CreateScan
  <2>1. /\ pc \in {"text", "scan"} /\ pc' = "scan"
        /\ UNCHANGED <<filters, joinKeys, postFilters>>
    BY <1>2 DEF Parse, CreateScan, classes
  <2>2. DOMAIN filters' = {} /\ ToSet(joinKeys') = {} /\ ToSet(postFilters') = {}
    BY <1>1, <2>1 DEF OriginInv
  <2> QED BY <2>1, <2>2 DEF OriginInv
<1>3. CASE FlattenWhere
  <2>1. /\ pc = "scan" /\ pc' = "classify" /\ conjuncts' = Terms
        /\ UNCHANGED <<stmt, scans, filters, joinKeys, postFilters>>
    BY <1>3 DEF FlattenWhere, classes
  <2>2. DOMAIN filters' = {} /\ ToSet(joinKeys') = {} /\ ToSet(postFilters') = {}
    BY <1>1, <2>1 DEF OriginInv
  <2>3. Terms' = Terms
    BY <2>1, NamesKept
  <2> QED BY <2>1, <2>2, <2>3 DEF OriginInv
<1>4. CASE ClassifyFilter \/ ClassifyJoinKey \/ ClassifyPostJoin
  BY <1>4, OriginOfFilter, OriginOfKey, OriginOfPost
<1>5. CASE WrapScans \/ JoinNext \/ WrapPostJoin \/ ResolveItem \/ Quiet
  <2>1. /\ UNCHANGED <<stmt, scans, conjuncts, filters, joinKeys, postFilters>>
        /\ pc = "classify" /\ pc' # pc /\ pc' \notin {"thrown", "crash"} => conjuncts = <<>>
        /\ pc' \in {"text", "scan"} => pc' = pc
        /\ pc' \in {"classify", "join", "select", "planned"} =>
              pc \in {"classify", "join", "select", "planned"} /\ (pc' = "classify" => pc = "classify")
    BY <1>5 DEF WrapScans, JoinNext, WrapPostJoin, ResolveItem, Selecting, Quiet, classes
  <2>2. Terms' = Terms
    BY <2>1, NamesKept
  <2>3. /\ \A ref : HasColumn(ref)' <=> HasColumn(ref)
        /\ \A q, c : KeyFrom(q, c)' <=> KeyFrom(q, c)
        /\ \A c : IsJoinKey(c)' <=> IsJoinKey(c)
        /\ \A c : ConjunctAliases(c)' = ConjunctAliases(c)
    BY <2>1, ColumnsKept
  <2>4. pc' \in {"classify", "join", "select", "planned"} =>
          \A c \in ToSet(Terms) :
             IsJoinKey(c) => \/ pc' = "classify" /\ c \in ToSet(conjuncts)
                             \/ HasColumn(c.left) /\ HasColumn(c.right)
    BY <1>1, <2>1 DEF OriginInv
  <2> QED BY <2>1, <2>2, <2>3, <2>4 DEF OriginInv
<1> QED BY <1>2, <1>3, <1>4, <1>5, PlanCourse

(* The new table of the join with number k, and the keys it takes          *)
NewAt(k) == aliases[IF k = 1 THEN 1 ELSE k + 1]
KeyAt(jk, k) ==
    IF k = 1 THEN {jk.buildAlias, jk.probeAlias} = {aliases[1], aliases[2]}
    ELSE aliases[k + 1] \in {jk.buildAlias, jk.probeAlias}

(* What the operators are made of *)
ScanForm(op) == \E n \in 1..Len(aliases) : op = ScanOf(n)
FilterForm(op) ==
    /\ op.id \in 1..Len(aliases)
    /\ op.child = ScanOf(scans[aliases[op.id]])
    /\ op.conjuncts = FiltersOf(aliases[op.id])
LateForm(op) == op.id = 0 /\ op.conjuncts = postFilters
JoinForm(op) ==
    /\ op.id \in 1..Len(aliases)-1
    /\ DOMAIN op.probeKeys = DOMAIN op.buildKeys
    /\ \A i \in DOMAIN op.buildKeys : \E jk \in ToSet(joinKeys) :
          /\ KeyAt(jk, op.id)
          /\ [new |-> op.buildKeys[i], old |-> op.probeKeys[i]] = Oriented(jk, NewAt(op.id))
FormInv ==
    /\ \A op \in heap :
          /\ op.kind = "scan" => ScanForm(op)
          /\ op.kind = "select" => FilterForm(op) \/ LateForm(op)
          /\ op.kind = "join" => JoinForm(op)
    /\ pc \in {"text", "scan", "classify"} => \A op \in heap : op.kind = "scan"

LEMMA FormsKept ==
    ASSUME UNCHANGED <<stmt, aliases, scans, classes>>
    PROVE  /\ \A op : ScanForm(op)' <=> ScanForm(op)
           /\ \A op : FilterForm(op)' <=> FilterForm(op)
           /\ \A op : LateForm(op)' <=> LateForm(op)
           /\ \A op : JoinForm(op)' <=> JoinForm(op)
<1>1. \A n : ScanOf(n)' = ScanOf(n)
  BY DEF ScanOf, Columns
<1>2. \A op : ScanForm(op)' <=> ScanForm(op)
  BY <1>1 DEF ScanForm
<1>3. \A a : FiltersOf(a)' = FiltersOf(a)
  BY DEF FiltersOf, classes
<1>4. \A op : FilterForm(op)' <=> FilterForm(op)
  BY <1>1, <1>3 DEF FilterForm
<1>5. \A op : LateForm(op)' <=> LateForm(op)
  BY DEF LateForm, classes
<1>6. /\ \A jk, k : KeyAt(jk, k)' <=> KeyAt(jk, k)
      /\ \A k : NewAt(k)' = NewAt(k)
      /\ joinKeys' = joinKeys
  BY DEF KeyAt, NewAt, classes
<1>7. \A jk, a : Oriented(jk, a)' = Oriented(jk, a)
  BY DEF Oriented
<1>8. \A op : JoinForm(op)' <=> JoinForm(op)
  BY <1>6, <1>7 DEF JoinForm
<1> QED BY <1>2, <1>4, <1>5, <1>8

LEMMA WrapScansForm ==
    ASSUME ScanInv, FormInv, WrapScans
    PROVE  FormInv'
<1>1. /\ pc' = "join" /\ heap' = heap \cup {Filtered(n) : n \in DOMAIN aliases}
      /\ pc = "classify"
      /\ UNCHANGED <<stmt, aliases, scans, classes>>
  BY DEF WrapScans
<1>2. DOMAIN aliases = 1..Len(aliases)
  BY DEF ScanInv
<1>3. ASSUME NEW n \in DOMAIN aliases
      PROVE  \/ Filtered(n).kind = "scan" /\ ScanForm(Filtered(n))
             \/ Filtered(n).kind = "select" /\ FilterForm(Filtered(n))
  <2> DEFINE scan == ScanOf(scans[aliases[n]])
             conds == FiltersOf(aliases[n])
  <2>1. scans[aliases[n]] \in 1..Len(aliases)
    BY DEF ScanInv, ToSet
  <2>2. scan.kind = "scan" /\ ScanForm(scan)
    BY <2>1, ScanKids DEF ScanForm
  <2>3. Filtered(n) = scan \/ Filtered(n) = Select(n, scan, conds)
    BY DEF Filtered
  <2> HIDE DEF scan, conds
  <2>4. CASE Filtered(n) = Select(n, scan, conds)
    <3>1. /\ Filtered(n).kind = "select" /\ Filtered(n).id = n
          /\ Filtered(n).child = scan /\ Filtered(n).conjuncts = conds
      BY <2>4 DEF Select
    <3> QED BY <1>2, <3>1 DEF FilterForm, scan, conds
  <2> QED BY <2>2, <2>3, <2>4
<1>4. \A op \in heap : op.kind = "scan" /\ ScanForm(op)
  BY <1>1 DEF FormInv
<1>5. \A op \in heap' : \/ op.kind = "scan" /\ ScanForm(op)
                        \/ op.kind = "select" /\ FilterForm(op)
  BY <1>1, <1>3, <1>4
<1> QED BY <1>1, <1>5, FormsKept DEF FormInv

LEMMA JoinNextForm ==
    ASSUME ScanInv, ListsInv, FormInv, JoinNext
    PROVE  FormInv'
<1>1. /\ pc = "join" /\ pc' = pc /\ joined < Len(aliases)
      /\ heap' = heap \cup {planRoot'}
      /\ UNCHANGED <<stmt, aliases, scans, classes>>
  BY DEF JoinNext
<1>2. joined \in 1..Len(aliases)-1
  BY <1>1 DEF ScanInv
<1>3. PICK build, probe, others :
         /\ planRoot' = HashJoin(joined, build, probe, KeysOf(NewAt(joined), others))
         /\ others = IF joined = 1 THEN {aliases[2]} ELSE Anyone
  <2>1. CASE joined = 1
    <3>1. planRoot' = HashJoin(1, plans[aliases[1]], plans[aliases[joined + 1]],
                               KeysOf(aliases[1], {aliases[joined + 1]}))
      BY <2>1 DEF JoinNext
    <3>2. joined + 1 = 2
      BY <2>1
    <3> QED BY <2>1, <3>1, <3>2 DEF NewAt
  <2>2. CASE joined # 1
    <3>1. planRoot' = HashJoin(joined, plans[aliases[joined + 1]], planRoot,
                               KeysOf(aliases[joined + 1], Anyone))
      BY <2>2 DEF JoinNext, LaterKeys
    <3> QED BY <2>2, <3>1 DEF NewAt
  <2> QED BY <2>1, <2>2
<1>4. PICK keys : keys = KeysOf(NewAt(joined), others)
  OBVIOUS
<1>5. /\ planRoot'.kind = "join" /\ planRoot'.id = joined
      /\ DOMAIN planRoot'.buildKeys = DOMAIN keys /\ DOMAIN planRoot'.probeKeys = DOMAIN keys
      /\ \A i \in DOMAIN keys : /\ planRoot'.buildKeys[i] = keys[i].new
                                /\ planRoot'.probeKeys[i] = keys[i].old
  BY <1>3, <1>4 DEF HashJoin
<1>6. ASSUME NEW i \in DOMAIN keys
      PROVE  \E jk \in ToSet(joinKeys) :
                /\ KeyAt(jk, joined)
                /\ [new |-> keys[i].new, old |-> keys[i].old] = Oriented(jk, NewAt(joined))
  <2>1. PICK jk \in ToSet(joinKeys) :
           Connects(jk, NewAt(joined), others) /\ keys[i] = Oriented(jk, NewAt(joined))
    BY <1>4, KeysOfTakes DEF ListsInv
  <2>2. [new |-> keys[i].new, old |-> keys[i].old] = Oriented(jk, NewAt(joined))
    BY <2>1 DEF Oriented
  <2>3. KeyAt(jk, joined)
    <3>1. PICK other \in others : {jk.buildAlias, jk.probeAlias} = {NewAt(joined), other}
      BY <2>1 DEF Connects
    <3>2. CASE joined = 1
      BY <1>3, <3>1, <3>2 DEF KeyAt, NewAt
    <3>3. CASE joined # 1
      BY <3>1, <3>3 DEF KeyAt, NewAt
    <3> QED BY <3>2, <3>3
  <2> QED BY <2>2, <2>3
<1>7. JoinForm(planRoot')
  BY <1>2, <1>5, <1>6 DEF JoinForm
<1>8. \A op \in heap' : op \in heap \/ op = planRoot'
  BY <1>1
<1> QED BY <1>1, <1>5, <1>7, <1>8, FormsKept DEF FormInv

LEMMA FormStep ==
    ASSUME StmtInv, ScanInv, HeapInv, ListsInv, FormInv, [RunNext]_allRunVars
    PROVE  FormInv'
<1>1. CASE \E s \in Statements : Parse(s)
  <2>1. pc = "text" /\ aliases = <<>> /\ heap' = heap /\ pc' = "scan"
    BY <1>1 DEF Parse, ScanInv
  <2>2. heap = {}
    BY <2>1 DEF FormInv, ScanForm
  <2> QED BY <2>1, <2>2 DEF FormInv
<1>2. CASE CreateScan
  <2> DEFINE n == Len(aliases) + 1
  <2>1. /\ pc = "scan" /\ pc' = pc /\ stmt' = stmt /\ Len(aliases) \in Nat
        /\ aliases' = Append(aliases, stmt.from[n].alias)
        /\ heap' = heap \cup {ScanOf(n)}
    BY <1>2 DEF CreateScan, ScanInv
  <2>2. Len(aliases') = n
    BY <2>1 DEF ScanInv
  <2>3. \A i : ScanOf(i)' = ScanOf(i)
    BY <2>1 DEF ScanOf, Columns
  <2>4. \A op \in heap : op.kind = "scan" /\ \E i \in 1..Len(aliases) : op = ScanOf(i)
    BY <2>1 DEF FormInv, ScanForm
  <2>5. \A op \in heap' : op.kind = "scan" /\ \E i \in 1..n : op = ScanOf(i)
    <3>1. n \in 1..n /\ 1..Len(aliases) \subseteq 1..n
      BY <2>1
    <3> HIDE DEF n
    <3> QED BY <2>1, <2>4, <3>1, ScanKids
  <2> QED BY <2>1, <2>2, <2>3, <2>5 DEF FormInv, ScanForm
<1>3. CASE ClassifyFilter \/ ClassifyJoinKey \/ ClassifyPostJoin \/ FlattenWhere
  <2>1. /\ pc \in {"scan", "classify"} /\ pc' = "classify"
        /\ UNCHANGED <<stmt, aliases, heap>>
    BY <1>3 DEF ClassifyFilter, ClassifyJoinKey, ClassifyPostJoin, FlattenWhere, Classifying
  <2>2. \A i : ScanOf(i)' = ScanOf(i)
    BY <2>1 DEF ScanOf, Columns
  <2> QED BY <2>1, <2>2 DEF FormInv, ScanForm
<1>4. CASE WrapScans
  BY <1>4, WrapScansForm
<1>5. CASE JoinNext
  BY <1>5, JoinNextForm
<1>6. CASE WrapPostJoin
  <2>1. /\ pc' = "select" /\ heap' = heap \cup {planRoot'}
        /\ planRoot' = IF postFilters = <<>> THEN planRoot ELSE Select(0, planRoot, postFilters)
        /\ UNCHANGED <<stmt, aliases, scans, classes>>
    BY <1>6 DEF WrapPostJoin
  <2>2. \/ planRoot' \in heap
        \/ planRoot'.kind = "select" /\ LateForm(planRoot')
    <3>1. planRoot \in heap
      BY <1>6 DEF WrapPostJoin, HeapInv
    <3> QED BY <2>1, <3>1 DEF Select, LateForm
  <2> QED BY <2>1, <2>2, FormsKept DEF FormInv
<1>7. CASE ResolveItem \/ Quiet
  <2>1. /\ UNCHANGED <<stmt, aliases, scans, classes, heap>>
        /\ pc' \in {"text", "scan", "classify"} => pc' = pc
    BY <1>7 DEF ResolveItem, Selecting, Quiet, Planned, Cleaning, Ended
  <2> QED BY <2>1, FormsKept DEF FormInv
<1> QED BY <1>1, <1>2, <1>3, <1>4, <1>5, <1>6, <1>7, PlanCourse

PlanInv == Inv /\ ListsInv /\ TermsInv /\ OriginInv /\ FormInv

LEMMA PlanInvInit == RunInit => PlanInv
<1> SUFFICES ASSUME RunInit PROVE PlanInv
  OBVIOUS
<1>1. /\ pc = "text" /\ conjuncts = <<>> /\ joinKeys = <<>> /\ postFilters = <<>>
      /\ filters = [a \in {} |-> <<>>] /\ heap = {}
  BY DEF RunInit, PlanInit
<1>2. ListsInv
  BY <1>1, EmptyTyped DEF ListsInv
<1>3. TermsInv
  BY <1>1 DEF TermsInv
<1>4. OriginInv
  BY <1>1 DEF OriginInv, ToSet
<1>5. FormInv
  BY <1>1 DEF FormInv
<1> QED BY <1>2, <1>3, <1>4, <1>5, RunInitInv DEF PlanInv, Inv, RunInit

LEMMA PlanInvStep == PlanInv /\ [RunNext]_allRunVars => PlanInv'
<1> SUFFICES ASSUME PlanInv, [RunNext]_allRunVars PROVE PlanInv'
  OBVIOUS
<1>1. Inv'
  BY FlagsStep, StmtInvStep, ScanInvStep, OutsInvStep, HeapInvStep, CallsInvStep DEF PlanInv, Inv
<1>2. ListsInv' /\ TermsInv'
  BY TermsStep DEF PlanInv, Inv
<1>3. OriginInv'
  BY OriginStep DEF PlanInv
<1>4. FormInv'
  BY FormStep DEF PlanInv, Inv
<1> QED BY <1>1, <1>2, <1>3, <1>4 DEF PlanInv

(* Once a statement is planned, each term of its WHERE is in a select of   *)
(* the tree or is the keys of a join, however many tables and terms there  *)
(* are; only the filter of an alias that is not in FROM is nowhere.        *)
THEOREM NoTermLost == RunSpec => []AppliesEveryTerm
<1>1. PlanInv => AppliesEveryTerm
  BY DEF PlanInv, TermsInv, AppliesEveryTerm, Applied, Nowhere
<1> QED BY <1>1, PlanInvInit, PlanInvStep, PTL DEF RunSpec, allRunVars

LEMMA SelectsAreTerms ==
    ASSUME ScanInv, OriginInv, FormInv, NEW op \in heap, op.kind = "select"
    PROVE  /\ ToSet(op.conjuncts) \subseteq ToSet(Terms)
           /\ op.id # 0 => \A c \in ToSet(op.conjuncts) : ConjunctAliases(c) = {aliases[op.id]}
<1>1. ToSet(<<>>) = {}
  BY DEF ToSet
<1>2. CASE FilterForm(op)
  BY <1>1, <1>2 DEF FilterForm, FiltersOf, OriginInv
<1>3. CASE LateForm(op)
  BY <1>3 DEF LateForm, OriginInv
<1> QED BY <1>2, <1>3 DEF FormInv

LEMMA KeysAreTerms ==
    ASSUME OriginInv, FormInv, NEW op \in heap, op.kind = "join", NEW i \in DOMAIN op.buildKeys
    PROVE  \E c \in ToSet(Terms) :
              /\ IsJoinKey(c)
              /\ {op.buildKeys[i], op.probeKeys[i]} = {IUOf(c.left), IUOf(c.right)}
<1>1. PICK jk \in ToSet(joinKeys) :
         [new |-> op.buildKeys[i], old |-> op.probeKeys[i]] = Oriented(jk, NewAt(op.id))
  BY DEF FormInv, JoinForm
<1>2. PICK c \in ToSet(Terms) : KeyFrom(jk, c)
  BY DEF OriginInv
<1>3. {jk.buildIU, jk.probeIU} = {IUOf(c.left), IUOf(c.right)}
  <2>1. PICK l, r \in {c.left, c.right} :
           /\ {l, r} = {c.left, c.right}
           /\ jk = [buildAlias |-> l.alias, buildIU |-> IUOf(l),
                    probeAlias |-> r.alias, probeIU |-> IUOf(r)]
    BY <1>2 DEF KeyFrom
  <2>2. {IUOf(l), IUOf(r)} = {IUOf(c.left), IUOf(c.right)}
    BY <2>1
  <2> QED BY <2>1, <2>2
<1>4. \/ op.buildKeys[i] = jk.buildIU /\ op.probeKeys[i] = jk.probeIU
      \/ op.buildKeys[i] = jk.probeIU /\ op.probeKeys[i] = jk.buildIU
  BY <1>1 DEF Oriented
<1> QED BY <1>2, <1>3, <1>4 DEF KeyFrom

(* What a select or a join of a plan asks is a term of the WHERE: no pair  *)
(* of columns that nobody equated gets into the tree.                      *)
THEOREM NothingMadeUp == RunSpec => []AppliesOnlyTerms
<1>1. PlanInv => AppliesOnlyTerms
  BY SelectsAreTerms, KeysAreTerms DEF PlanInv, Inv, AppliesOnlyTerms
<1> QED BY <1>1, PlanInvInit, PlanInvStep, PTL DEF RunSpec, allRunVars

-----------------------------------------------------------------------------
(* What names mean *)

LEMMA FoundIsNamed ==
    ASSUME StmtInv, ScanInv, NamesFound(stmt), NEW n \in 1..Len(aliases), NEW name,
           \/ name \in ToSet(Columns(n))
           \/ \E ref \in Refs : ref.kind = "col" /\ name = <<ref.name>>,
           Found(n, name) # {}
    PROVE  \E c \in DOMAIN Columns(n) :
              /\ GetIU(n, name) = <<n, c>>
              /\ \A b \in DOMAIN Columns(n) : Columns(n)[b] = name <=> b = c
<1> DEFINE cols == Columns(n)
           c    == Min(Found(n, name))
<1>1. stmt.from[n].table \in DOMAIN Catalog /\ n \in DOMAIN stmt.from
  BY FromIsList DEF ScanInv
<1>2. cols = Catalog[stmt.from[n].table]
  BY DEF Columns
<1>3. cols \in Seq(ToSet(cols)) /\ \A nm \in ToSet(cols) : nm \in Seq(ToSet(nm))
  BY <1>1, <1>2, CatalogAssumption
<1>4. FindsNamed(stmt.from[n].table, name)
  <2> DEFINE t == stmt.from[n].table
  <2>1. /\ \A nm \in ToSet(Catalog[t]) : FindsNamed(t, nm)
        /\ \A ref \in Refs : ref.kind = "col" => FindsNamed(t, <<ref.name>>)
    BY <1>1 DEF NamesFound, Refs
  <2>2. CASE name \in ToSet(cols)
    BY <1>2, <2>1, <2>2
  <2>3. CASE \E ref \in Refs : ref.kind = "col" /\ name = <<ref.name>>
    BY <2>1, <2>3
  <2> QED BY <2>2, <2>3
<1>5. \A a, b \in DOMAIN cols : cols[a] = cols[b] => a = b
  BY <1>1, <1>2 DEF NamesFound
<1>6. Found(n, name) = {b \in DOMAIN cols : IsSuffix(name, cols[b])}
  BY DEF Found
<1> HIDE DEF cols
<1>7. DOMAIN cols = 1..Len(cols) /\ Len(cols) \in Nat
  BY <1>3
<1>8. Found(n, name) \subseteq Nat
  BY <1>6, <1>7
<1>9. c \in Found(n, name) /\ \A b \in Found(n, name) : c <= b
  BY <1>8, MinIn
<1> HIDE DEF c
<1>10. PICK b \in 1..c : cols[b] = name
  BY <1>2, <1>4, <1>6, <1>9 DEF FindsNamed
<1>11. b \in DOMAIN cols
  BY <1>6, <1>7, <1>9, <1>10
<1>12. name \in Seq(ToSet(name))
  BY <1>3, <1>10, <1>11 DEF ToSet
<1>13. b \in Found(n, name)
  BY <1>6, <1>10, <1>11, <1>12, IsOwnSuffix
<1>14. b = c
  <2>1. c \in Nat /\ b \in Nat /\ b <= c
    BY <1>7, <1>8, <1>9, <1>10, <1>11
  <2>2. c <= b
    BY <1>9, <1>13
  <2> QED BY <2>1, <2>2
<1>15. GetIU(n, name) = <<n, c>>
  BY DEF GetIU, c
<1> QED BY <1>5, <1>10, <1>11, <1>14, <1>15 DEF cols

LEMMA NamedIsFound ==
    ASSUME StmtInv, ScanInv, NEW n \in 1..Len(aliases), NEW c \in DOMAIN Columns(n)
    PROVE  Found(n, Columns(n)[c]) # {}
<1> DEFINE cols == Columns(n)
<1>1. stmt.from[n].table \in DOMAIN Catalog
  BY DEF ScanInv
<1>2. \A nm \in ToSet(cols) : nm \in Seq(ToSet(nm))
  BY <1>1, CatalogAssumption DEF Columns
<1>3. cols[c] \in Seq(ToSet(cols[c]))
  BY <1>2 DEF ToSet
<1>4. c \in Found(n, cols[c])
  BY <1>3, IsOwnSuffix DEF Found
<1> QED BY <1>4

(* The columns a name means, table by table.                               *)
LEMMA NamedMeans ==
    ASSUME NEW ref, NEW n, NEW c
    PROVE  <<n, c>> \in Named(ref) <=>
              /\ n \in Entries /\ c \in DOMAIN Columns(n)
              /\ ref.alias = "" \/ ref.alias = stmt.from[n].alias
              /\ Columns(n)[c] = <<ref.name>>
<1> DEFINE all == UNION {{m} \X DOMAIN Columns(m) : m \in Entries}
<1>1. <<n, c>> \in all <=> n \in Entries /\ c \in DOMAIN Columns(n)
  OBVIOUS
<1>2. <<n, c>>[1] = n /\ <<n, c>>[2] = c
  OBVIOUS
<1> HIDE DEF all
<1>3. <<n, c>> \in Named(ref) <=>
         <<n, c>> \in all /\ ref.alias \in {"", stmt.from[n].alias} /\ Columns(n)[c] = <<ref.name>>
  BY <1>2 DEF Named, all
<1> QED BY <1>1, <1>3

LEMMA NamedArePairs ==
    ASSUME NEW ref, NEW iu \in Named(ref)
    PROVE  \E n \in Entries : \E c \in DOMAIN Columns(n) : iu = <<n, c>>
<1>1. iu \in UNION {{n} \X DOMAIN Columns(n) : n \in Entries}
  BY DEF Named
<1>2. PICK n \in Entries : iu \in {n} \X DOMAIN Columns(n)
  BY <1>1
<1> QED BY <1>2

(* A name is resolved if it means one column, and to that column.          *)
LEMMA ResolvesNamed ==
    ASSUME StmtInv, ScanInv, Len(aliases) = Len(stmt.from),
           DistinctAliases(stmt), NamesFound(stmt), NEW ref \in Refs, ref.kind = "col"
    PROVE  /\ Resolves(ref) <=> \E iu \in Named(ref) : Named(ref) = {iu}
           /\ Resolves(ref) => Named(ref) = {IUOf(ref)}
<1> DEFINE nm == <<ref.name>>
           N  == Len(aliases)
           At(n) == ref.alias # "" => aliases[n] = ref.alias
           Is(n, c) == At(n) /\ Columns(n)[c] = nm
<1>1. /\ N \in Nat /\ Entries = 1..N /\ DOMAIN scans = ToSet(aliases)
      /\ \A n \in 1..N : aliases[n] = stmt.from[n].alias /\ aliases[n] \in ToSet(aliases)
      /\ \A n \in 1..N : scans[aliases[n]] = n
      /\ \A a \in ToSet(aliases) : scans[a] \in 1..N /\ aliases[scans[a]] = a
  BY FromIsList, ScansInOrder DEF ScanInv, Entries
<1>2. \A n \in 1..N : Found(n, nm) # {} =>
         \E c \in DOMAIN Columns(n) :
            /\ GetIU(n, nm) = <<n, c>>
            /\ \A b \in DOMAIN Columns(n) : Columns(n)[b] = nm <=> b = c
  BY FoundIsNamed
<1>3. \A n \in 1..N : \A c \in DOMAIN Columns(n) : Columns(n)[c] = nm => Found(n, nm) # {}
  BY NamedIsFound
<1>4. \A n \in 1..N : At(n) <=> ref.alias = "" \/ ref.alias = stmt.from[n].alias
  BY <1>1
<1>5. \A n \in 1..N : \A c \in DOMAIN Columns(n) : <<n, c>> \in Named(ref) <=> Is(n, c)
  <2> TAKE n \in 1..N
  <2> TAKE c \in DOMAIN Columns(n)
  <2>1. At(n) <=> ref.alias = "" \/ ref.alias = stmt.from[n].alias
    BY <1>4
  <2>2. <<n, c>> \in Named(ref) <=>
           /\ n \in Entries /\ c \in DOMAIN Columns(n)
           /\ ref.alias = "" \/ ref.alias = stmt.from[n].alias
           /\ Columns(n)[c] = nm
    BY NamedMeans
  <2>3. n \in Entries
    BY <1>1
  <2> HIDE DEF At, nm
  <2> QED BY <2>1, <2>2, <2>3
<1>6. \A iu \in Named(ref) : \E n \in 1..N : \E c \in DOMAIN Columns(n) : iu = <<n, c>>
  BY <1>1, NamedArePairs
<1>7. \A a \in ToSet(aliases) :
         a \in Owners(ref) <=> /\ ref.alias # "" => a = ref.alias
                               /\ ref.alias = "" => Found(scans[a], nm) # {}
  BY <1>1 DEF Owners
<1>8. Owners(ref) \subseteq ToSet(aliases)
  BY <1>1 DEF Owners
<1> HIDE DEF nm, N
<1>9. ASSUME Resolves(ref) PROVE Named(ref) = {IUOf(ref)} /\ IUOf(ref) \in Named(ref)
  <2>1. PICK a \in Owners(ref) : Owners(ref) = {a} /\ Found(scans[a], nm) # {}
    BY <1>9 DEF Resolves, nm
  <2>2. PICK n \in 1..N : n = scans[a] /\ aliases[n] = a /\ a \in ToSet(aliases)
    BY <1>1, <1>8, <2>1
  <2>3. PICK c \in DOMAIN Columns(n) :
           /\ GetIU(n, nm) = <<n, c>>
           /\ \A b \in DOMAIN Columns(n) : Columns(n)[b] = nm <=> b = c
    BY <1>2, <2>1, <2>2
  <2>4. IUOf(ref) = <<n, c>>
    <3>1. (CHOOSE x \in Owners(ref) : TRUE) = a
      BY <2>1
    <3> QED BY <2>2, <2>3, <3>1 DEF IUOf, nm
  <2>5. <<n, c>> \in Named(ref)
    BY <1>5, <1>7, <2>1, <2>2, <2>3
  <2>6. ASSUME NEW m \in 1..N, NEW d \in DOMAIN Columns(m), <<m, d>> \in Named(ref)
        PROVE  <<m, d>> = <<n, c>>
    <3>1. Is(m, d) /\ Found(m, nm) # {}
      BY <1>3, <1>5, <2>6
    <3>2. aliases[m] \in Owners(ref)
      BY <1>1, <1>7, <3>1
    <3>3. m = n
      BY <1>1, <2>1, <2>2, <3>2
    <3> QED BY <2>3, <3>1, <3>3
  <2> QED BY <1>6, <2>4, <2>5, <2>6
<1>10. ASSUME NEW iu \in Named(ref), Named(ref) = {iu} PROVE Resolves(ref)
  <2>1. PICK n \in 1..N : \E c \in DOMAIN Columns(n) : iu = <<n, c>>
    BY <1>6
  <2>2. PICK c \in DOMAIN Columns(n) : iu = <<n, c>>
    BY <2>1
  <2>3. Is(n, c) /\ Found(n, nm) # {} /\ scans[aliases[n]] = n /\ aliases[n] \in ToSet(aliases)
    BY <1>1, <1>3, <1>5, <2>2
  <2>4. aliases[n] \in Owners(ref)
    BY <1>7, <2>3
  <2>5. ASSUME NEW b \in Owners(ref) PROVE b = aliases[n]
    <3>1. PICK m \in 1..N : m = scans[b] /\ aliases[m] = b /\ b \in ToSet(aliases)
      BY <1>1, <1>8
    <3>2. CASE ref.alias # ""
      BY <1>7, <2>3, <3>1, <3>2
    <3>3. CASE ref.alias = ""
      <4>1. Found(m, nm) # {}
        BY <1>7, <3>1, <3>3
      <4>2. PICK d \in DOMAIN Columns(m) : Columns(m)[d] = nm
        BY <1>2, <4>1
      <4>3. <<m, d>> \in Named(ref)
        BY <1>5, <3>3, <4>2
      <4>4. m = n
        BY <1>10, <2>2, <4>3
      <4> QED BY <3>1, <4>4
    <3> QED BY <3>2, <3>3
  <2>6. Owners(ref) = {aliases[n]}
    BY <2>4, <2>5
  <2> QED BY <2>3, <2>4, <2>6 DEF Resolves, nm
<1> QED BY <1>9, <1>10

-----------------------------------------------------------------------------
(* The SELECT list *)

(* What an item of the SELECT list becomes, and the lists of the whole,    *)
(* put together one by one                                                 *)
ListOf(item) == IF item = Star THEN Expanded ELSE <<IUOf(item)>>
Outputs      == FlattenSeq([i \in DOMAIN stmt.select |-> ListOf(stmt.select[i])])
Runs(f) ==
    /\ f[0] = <<>>
    /\ \A i \in 1..Len(stmt.select) : f[i] = f[i - 1] \o ListOf(stmt.select[i])
    /\ Outputs = f[Len(stmt.select)]
IsColumn(item) == item = Star \/ (item.kind = "col" /\ Resolves(item))

ItemsInv ==
    /\ pc = "planned" => items = <<>>
    /\ pc \in {"select", "planned"} =>
          \E k \in 0..Len(stmt.select) :
             /\ items \in Seq(ToSet(stmt.select))
             /\ Len(items) = Len(stmt.select) - k
             /\ \A i \in 1..Len(items) : items[i] = stmt.select[k + i]
             /\ \A i \in 1..k : IsColumn(stmt.select[i])
             /\ \E f : Runs(f) /\ outs = f[k]

LEMMA SelectIsList ==
    ASSUME StmtInv
    PROVE  /\ stmt.select \in Seq(ToSet(stmt.select))
           /\ Len(stmt.select) \in Nat /\ DOMAIN stmt.select = 1..Len(stmt.select)
<1>1. stmt.select \in Seq(ToSet(stmt.select))
  <2>1. CASE stmt \in Statements
    BY <2>1, StatementAssumption
  <2>2. CASE stmt = NoStatement
    <3>1. stmt.select = <<>>
      BY <2>2 DEF NoStatement, SelectStmt
    <3> QED BY <3>1
  <2> QED BY <2>1, <2>2 DEF StmtInv
<1> QED BY <1>1

LEMMA RunsExist == ASSUME StmtInv, ScanInv PROVE \E f : Runs(f)
<1> DEFINE lists == [i \in DOMAIN stmt.select |-> ListOf(stmt.select[i])]
           All   == IUs \cup {IUOf(item) : item \in ToSet(stmt.select)}
<1>1. Len(stmt.select) \in Nat /\ DOMAIN stmt.select = 1..Len(stmt.select)
  BY SelectIsList
<1>2. ASSUME NEW i \in DOMAIN stmt.select PROVE lists[i] \in Seq(All)
  <2>1. CASE stmt.select[i] = Star
    <3>1. lists[i] = Expanded /\ Expanded \in Seq(IUs)
      BY <2>1, ExpandedAreIUs DEF ListOf
    <3>2. IUs \subseteq All
      OBVIOUS
    <3> HIDE DEF lists, All
    <3> QED BY <3>1, <3>2
  <2>2. CASE stmt.select[i] # Star
    <3>1. lists[i] = <<IUOf(stmt.select[i])>>
      BY <2>2 DEF ListOf
    <3>2. IUOf(stmt.select[i]) \in All
      BY DEF ToSet
    <3> HIDE DEF lists, All
    <3> QED BY <3>1, <3>2
  <2> QED BY <2>1, <2>2
<1>3. lists \in Seq(Seq(All)) /\ Len(lists) = Len(stmt.select)
  <2>1. lists = [i \in 1..Len(stmt.select) |-> lists[i]]
    BY <1>1
  <2> HIDE DEF lists, All
  <2> QED BY <1>1, <1>2, <2>1
<1>4. \A i \in 1..Len(stmt.select) : lists[i] = ListOf(stmt.select[i])
  BY <1>1
<1>5. Outputs = FlattenSeq(lists)
  BY DEF Outputs
<1> HIDE DEF lists, All
<1>6. PICK f : /\ f[0] = <<>>
               /\ \A n \in 1..Len(lists) : f[n] = f[n - 1] \o lists[n]
               /\ FlattenSeq(lists) = f[Len(lists)]
  BY <1>3, FlattenRuns
<1>7. Runs(f)
  BY <1>3, <1>4, <1>5, <1>6 DEF Runs
<1> QED BY <1>7

LEMMA ItemsKept ==
    ASSUME UNCHANGED <<stmt, aliases, scans>>
    PROVE  /\ \A f : Runs(f)' <=> Runs(f)
           /\ \A item : IsColumn(item)' <=> IsColumn(item)
<1>1. \A n, name : GetIU(n, name)' = GetIU(n, name)
  BY DEF GetIU, Found, Columns
<1>2. Expanded' = Expanded
  BY <1>1 DEF Expanded, Columns
<1>3. \A item : ListOf(item)' = ListOf(item)
  BY <1>2, NamesKept DEF ListOf
<1>4. Outputs' = Outputs
  BY <1>3 DEF Outputs
<1>5. \A f : Runs(f)' <=> Runs(f)
  BY <1>3, <1>4 DEF Runs
<1>6. \A item : IsColumn(item)' <=> IsColumn(item)
  BY ColumnsKept DEF IsColumn
<1> QED BY <1>5, <1>6

LEMMA ResolveItemStep ==
    ASSUME StmtInv, OutsInv, ItemsInv, ResolveItem
    PROVE  ItemsInv'
<1>1. /\ pc = "select" /\ pc' = pc /\ items # <<>> /\ items' = Tail(items)
      /\ UNCHANGED <<stmt, aliases, scans>>
      /\ outs' = outs \o ListOf(Head(items))
      /\ IsColumn(Head(items))
  <2>1. /\ pc = "select" /\ pc' = pc /\ items # <<>> /\ items' = Tail(items)
        /\ UNCHANGED <<stmt, aliases, scans>>
    BY DEF ResolveItem, Selecting
  <2>2. CASE Head(items) = Star /\ outs' = outs \o Expanded
    BY <2>1, <2>2 DEF ListOf, IsColumn
  <2>3. CASE /\ Head(items).kind = "col" /\ Resolves(Head(items))
             /\ outs' = Append(outs, IUOf(Head(items)))
    <3>1. Head(items) # Star
      BY <2>3 DEF Star
    <3>2. PICK iu : iu = IUOf(Head(items))
      OBVIOUS
    <3>3. outs \in Seq(IUs)
      BY DEF OutsInv
    <3>4. Append(outs, iu) = outs \o <<iu>>
      <4> HIDE DEF IUs
      <4> QED BY <3>3
    <3>5. outs' = outs \o ListOf(Head(items))
      BY <2>3, <3>1, <3>2, <3>4 DEF ListOf
    <3>6. IsColumn(Head(items))
      <4>1. \A item : item.kind = "col" /\ Resolves(item) => IsColumn(item)
        BY DEF IsColumn
      <4> QED BY <2>3, <4>1, Zenon
    <3> QED BY <2>1, <3>5, <3>6
  <2> QED BY <2>1, <2>2, <2>3 DEF ResolveItem
<1>2. PICK k \in 0..Len(stmt.select) :
         /\ items \in Seq(ToSet(stmt.select))
         /\ Len(items) = Len(stmt.select) - k
         /\ \A i \in 1..Len(items) : items[i] = stmt.select[k + i]
         /\ \A i \in 1..k : IsColumn(stmt.select[i])
         /\ \E f : Runs(f) /\ outs = f[k]
  BY <1>1 DEF ItemsInv
<1>3. PICK f : Runs(f) /\ outs = f[k]
  BY <1>2
<1>4. Len(stmt.select) \in Nat
  BY SelectIsList
<1>5. /\ Len(items) # 0 /\ Head(items) = items[1]
      /\ items' \in Seq(ToSet(stmt.select)) /\ Len(items') = Len(items) - 1
      /\ \A i \in 1..Len(items') : items'[i] = items[i + 1]
  BY <1>1, <1>2
<1>6. k + 1 \in 1..Len(stmt.select) /\ (k + 1) - 1 = k /\ 1 \in 1..Len(items)
  BY <1>2, <1>4, <1>5
<1>7. Head(items) = stmt.select[k + 1]
  BY <1>2, <1>5, <1>6
<1>8. outs' = f[k + 1]
  BY <1>1, <1>3, <1>6, <1>7 DEF Runs
<1>9. Len(items') = Len(stmt.select) - (k + 1)
  BY <1>2, <1>4, <1>5
<1>10. \A i \in 1..Len(items') : items'[i] = stmt.select[(k + 1) + i]
  <2> TAKE i \in 1..Len(items')
  <2>1. k \in Nat /\ Len(items) \in Nat
    BY <1>2, <1>4
  <2>2. Len(items') = Len(items) - 1
    BY <1>5
  <2>3. i + 1 \in 1..Len(items) /\ k + (i + 1) = (k + 1) + i
    BY <2>1, <2>2
  <2> QED BY <1>2, <1>5, <2>3
<1>11. \A i \in 1..(k + 1) : IsColumn(stmt.select[i])
  <2> TAKE i \in 1..(k + 1)
  <2>1. i = k + 1 \/ i \in 1..k
    BY <1>2
  <2> QED BY <1>1, <1>2, <1>7, <2>1
<1>12. k + 1 \in 0..Len(stmt.select)
  BY <1>6
<1>13. \E j \in 0..Len(stmt.select) :
          /\ items' \in Seq(ToSet(stmt.select))
          /\ Len(items') = Len(stmt.select) - j
          /\ \A i \in 1..Len(items') : items'[i] = stmt.select[j + i]
          /\ \A i \in 1..j : IsColumn(stmt.select[i])
          /\ \E g : Runs(g) /\ outs' = g[j]
  BY <1>3, <1>5, <1>8, <1>9, <1>10, <1>11, <1>12
<1> QED BY <1>1, <1>13, ItemsKept DEF ItemsInv

LEMMA ItemsStep ==
    ASSUME StmtInv, ScanInv, OutsInv, ItemsInv, [RunNext]_allRunVars
    PROVE  ItemsInv'
<1>1. CASE (\E s \in Statements : Parse(s)) \/ CreateScan \/ FlattenWhere \/ ClassifyFilter
           \/ ClassifyJoinKey \/ ClassifyPostJoin \/ WrapScans \/ JoinNext
  <2>1. pc' \notin {"select", "planned"}
    BY <1>1 DEF Parse, CreateScan, FlattenWhere, ClassifyFilter, ClassifyJoinKey, ClassifyPostJoin,
       Classifying, WrapScans, JoinNext
  <2> QED BY <2>1 DEF ItemsInv
<1>2. CASE WrapPostJoin
  <2>1. /\ pc = "join" /\ pc' = "select" /\ items' = stmt.select /\ outs' = outs
        /\ UNCHANGED <<stmt, aliases, scans>>
    BY <1>2 DEF WrapPostJoin
  <2>2. outs = <<>>
    BY <2>1 DEF OutsInv
  <2>3. PICK f : Runs(f)
    BY RunsExist
  <2>4. /\ items' \in Seq(ToSet(stmt.select)) /\ Len(stmt.select) \in Nat
    BY <2>1, SelectIsList
  <2>5. /\ 0 \in 0..Len(stmt.select) /\ Len(items') = Len(stmt.select) - 0
        /\ \A i \in 1..Len(items') : items'[i] = stmt.select[0 + i]
        /\ outs' = f[0]
    BY <2>1, <2>2, <2>3, <2>4 DEF Runs
  <2>6. \E k \in 0..Len(stmt.select) :
           /\ items' \in Seq(ToSet(stmt.select))
           /\ Len(items') = Len(stmt.select) - k
           /\ \A i \in 1..Len(items') : items'[i] = stmt.select[k + i]
           /\ \A i \in 1..k : IsColumn(stmt.select[i])
           /\ \E g : Runs(g) /\ outs' = g[k]
    BY <2>3, <2>4, <2>5
  <2> QED BY <2>1, <2>6, ItemsKept DEF ItemsInv
<1>3. CASE ResolveItem
  BY <1>3, ResolveItemStep
<1>4. CASE Quiet
  <2>1. /\ UNCHANGED <<stmt, aliases, scans, items, outs>>
        /\ pc' \in {"select", "planned"} => pc \in {"select", "planned"}
        /\ pc' = "planned" => items = <<>>
    BY <1>4 DEF Quiet, Planned, Cleaning, Ended, ItemsInv
  <2> QED BY <2>1, ItemsKept DEF ItemsInv
<1> QED BY <1>1, <1>2, <1>3, <1>4, PlanCourse

(* Once planned, every item has been resolved.                             *)
LEMMA OutsResolved ==
    ASSUME StmtInv, ItemsInv, pc = "planned"
    PROVE  /\ \A i \in DOMAIN stmt.select : IsColumn(stmt.select[i])
           /\ outs = Outputs
<1>1. PICK k \in 0..Len(stmt.select) :
         /\ Len(items) = Len(stmt.select) - k
         /\ \A i \in 1..k : IsColumn(stmt.select[i])
         /\ \E f : Runs(f) /\ outs = f[k]
  BY DEF ItemsInv
<1>2. Len(items) = 0
  BY DEF ItemsInv
<1>3. Len(stmt.select) \in Nat /\ DOMAIN stmt.select = 1..Len(stmt.select)
  BY SelectIsList
<1>4. k = Len(stmt.select)
  BY <1>1, <1>2, <1>3
<1> QED BY <1>1, <1>3, <1>4 DEF Runs

(* A star has the columns of FROM in their order.                          *)
LEMMA ExpandedInOrder ==
    ASSUME StmtInv, ScanInv, Len(aliases) = Len(stmt.from),
           DistinctAliases(stmt), NamesFound(stmt)
    PROVE  Expanded = FlattenSeq([n \in Entries |-> [c \in DOMAIN Columns(n) |-> <<n, c>>]])
<1>1. /\ Len(aliases) \in Nat /\ Entries = 1..Len(aliases) /\ DOMAIN aliases = 1..Len(aliases)
      /\ \A n \in 1..Len(aliases) : scans[aliases[n]] = n
  BY FromIsList, ScansInOrder DEF ScanInv, Entries
<1>2. ASSUME NEW n \in 1..Len(aliases), NEW c \in DOMAIN Columns(n)
      PROVE  GetIU(n, Columns(n)[c]) = <<n, c>>
  <2> DEFINE name == Columns(n)[c]
  <2>1. name \in ToSet(Columns(n))
    BY DEF ToSet
  <2>2. Found(n, name) # {}
    BY NamedIsFound
  <2> HIDE DEF name
  <2>3. PICK d \in DOMAIN Columns(n) :
           /\ GetIU(n, name) = <<n, d>>
           /\ \A b \in DOMAIN Columns(n) : Columns(n)[b] = name <=> b = d
    BY <2>1, <2>2, FoundIsNamed
  <2>4. Columns(n)[c] = name
    BY DEF name
  <2> QED BY <2>3, <2>4
<1> DEFINE ofAlias(n) == LET scan == scans[aliases[n]]
                         IN  [c \in DOMAIN Columns(scan) |-> GetIU(scan, Columns(scan)[c])]
           inOrder(n) == [c \in DOMAIN Columns(n) |-> <<n, c>>]
<1>3. \A n \in 1..Len(aliases) : ofAlias(n) = inOrder(n)
  BY <1>1, <1>2
<1>4. Expanded = FlattenSeq([n \in DOMAIN aliases |-> ofAlias(n)])
  BY DEF Expanded
<1> HIDE DEF ofAlias
<1>5. [n \in DOMAIN aliases |-> ofAlias(n)] = [n \in Entries |-> inOrder(n)]
  BY <1>1, <1>3
<1> QED BY <1>4, <1>5

LEMMA OutputsWanted ==
    ASSUME StmtInv, ScanInv, Len(aliases) = Len(stmt.from),
           DistinctAliases(stmt), NamesFound(stmt),
           \A i \in DOMAIN stmt.select : IsColumn(stmt.select[i])
    PROVE  Outputs = Wanted
<1> DEFINE want(i) == IF stmt.select[i] = Star
                      THEN FlattenSeq([n \in Entries |-> [c \in DOMAIN Columns(n) |-> <<n, c>>]])
                      ELSE <<CHOOSE iu \in Named(stmt.select[i]) : TRUE>>
<1>1. ASSUME NEW i \in DOMAIN stmt.select PROVE ListOf(stmt.select[i]) = want(i)
  <2>1. CASE stmt.select[i] = Star
    BY <2>1, ExpandedInOrder DEF ListOf
  <2>2. CASE stmt.select[i] # Star
    <3> DEFINE item == stmt.select[i]
    <3>1. item.kind = "col" /\ Resolves(item)
      BY <2>2 DEF IsColumn
    <3>2. item \in Refs
      BY <2>2 DEF Refs, RefsIn, ToSet
    <3>3. Named(item) = {IUOf(item)}
      BY <3>1, <3>2, ResolvesNamed
    <3>4. (CHOOSE iu \in Named(item) : TRUE) = IUOf(item)
      BY <3>3
    <3> QED BY <2>2, <3>4 DEF ListOf
  <2> QED BY <2>1, <2>2
<1>2. Wanted = FlattenSeq([i \in DOMAIN stmt.select |-> want(i)])
  BY DEF Wanted
<1> HIDE DEF want
<1>3. [i \in DOMAIN stmt.select |-> ListOf(stmt.select[i])] = [i \in DOMAIN stmt.select |-> want(i)]
  BY <1>1
<1> QED BY <1>2, <1>3 DEF Outputs

ListedInv == PlanInv /\ ItemsInv

LEMMA ListedInvInit == RunInit => ListedInv
<1> SUFFICES ASSUME RunInit PROVE ListedInv
  OBVIOUS
<1>1. pc = "text"
  BY DEF RunInit, PlanInit
<1> QED BY <1>1, PlanInvInit DEF ListedInv, ItemsInv

LEMMA ListedInvStep == ListedInv /\ [RunNext]_allRunVars => ListedInv'
BY PlanInvStep, ItemsStep DEF ListedInv, PlanInv, Inv

(* The columns of a planned statement that is well formed are those its    *)
(* SELECT list names, in its order, if getIU takes no name of the          *)
(* statement for another column's.                                         *)
THEOREM ColumnsSelected ==
    ASSUME \A s \in Statements : NamesFound(s)
    PROVE  RunSpec => []SelectsWanted
<1>1. ListedInv => SelectsWanted
  <2> SUFFICES ASSUME ListedInv, pc = "planned", WellFormed PROVE outs = Wanted
    BY DEF SelectsWanted
  <2>1. StmtInv /\ ScanInv /\ ItemsInv
    BY DEF ListedInv, PlanInv, Inv
  <2>2. stmt \in Statements /\ Len(aliases) = Len(stmt.from)
    BY <2>1 DEF StmtInv, ScanInv, Planned
  <2>3. DistinctAliases(stmt)
    BY DEF WellFormed, Entries, DistinctAliases
  <2>4. NamesFound(stmt)
    BY <2>2
  <2> QED BY <2>1, <2>2, <2>3, <2>4, OutsResolved, OutputsWanted
<1> QED BY <1>1, ListedInvInit, ListedInvStep, PTL DEF RunSpec, allRunVars

-----------------------------------------------------------------------------
(* The tables of FROM under an operator *)

TablesOf(op) ==
    CASE op.kind = "scan"   -> {op.alias}
      [] op.kind = "select" -> IF op.id = 0 THEN 1..Len(aliases) ELSE {op.id}
      [] op.kind = "join"   -> 1..op.id+1

(* A filter after the joins is over all tables; a join is over its new     *)
(* table and those before it.                                              *)
Above(op) ==
    /\ op.kind = "select" => TablesOf(op.child) = TablesOf(op)
    /\ op.kind = "join" =>
          /\ TablesOf(op.build) = IF op.id = 1 THEN {1} ELSE {op.id + 1}
          /\ TablesOf(op.probe) = IF op.id = 1 THEN {2} ELSE 1..op.id
    /\ \A kid \in Kids(op) : Rank(kid) < Rank(op)

TablesInv ==
    /\ \A op \in heap : Above(op)
    /\ pc = "join" => /\ \A n \in 1..Len(aliases) : TablesOf(plans[aliases[n]]) = {n}
                      /\ TablesOf(planRoot) = 1..joined

LEMMA TablesOfScan == ASSUME NEW n PROVE TablesOf(ScanOf(n)) = {n} /\ Above(ScanOf(n))
<1> DEFINE op == ScanOf(n)
<1>1. op.kind = "scan" /\ op.alias = n /\ Kids(op) = {}
  BY ScanKids DEF ScanOf
<1> HIDE DEF op
<1>2. TablesOf(op) = {n} /\ Above(op)
  BY <1>1 DEF TablesOf, Above
<1> QED BY <1>2 DEF op

LEMMA TablesOfSelect ==
    ASSUME NEW id, NEW child, NEW conds
    PROVE  /\ TablesOf(Select(id, child, conds)) = IF id = 0 THEN 1..Len(aliases) ELSE {id}
           /\ TablesOf(child) = TablesOf(Select(id, child, conds))
              /\ Rank(child) < Rank(Select(id, child, conds)) => Above(Select(id, child, conds))
<1> DEFINE op == Select(id, child, conds)
<1>1. op.kind = "select" /\ op.id = id /\ op.child = child /\ Kids(op) = {child}
  BY SelectKids DEF Select
<1> HIDE DEF op
<1>2. /\ TablesOf(op) = IF id = 0 THEN 1..Len(aliases) ELSE {id}
      /\ TablesOf(child) = TablesOf(op) /\ Rank(child) < Rank(op) => Above(op)
  BY <1>1 DEF TablesOf, Above
<1> QED BY <1>2 DEF op

LEMMA TablesOfJoin ==
    ASSUME NEW id, NEW build, NEW probe, NEW keys,
           TablesOf(build) = IF id = 1 THEN {1} ELSE {id + 1},
           TablesOf(probe) = IF id = 1 THEN {2} ELSE 1..id,
           Rank(build) < id + 1, Rank(probe) < id + 1
    PROVE  /\ TablesOf(HashJoin(id, build, probe, keys)) = 1..id+1
           /\ Above(HashJoin(id, build, probe, keys))
<1> DEFINE op == HashJoin(id, build, probe, keys)
<1>1. /\ op.kind = "join" /\ op.id = id /\ op.build = build /\ op.probe = probe
      /\ Kids(op) = {build, probe} /\ Rank(op) = id + 1
  BY JoinKids, RankOfJoin DEF HashJoin
<1> HIDE DEF op
<1>2. TablesOf(op) = 1..id+1 /\ Above(op)
  BY <1>1 DEF TablesOf, Above
<1> QED BY <1>2 DEF op

LEMMA TablesKept ==
    ASSUME aliases' = aliases
    PROVE  /\ \A op : Above(op)' <=> Above(op)
           /\ \A op : Rank(op)' = Rank(op) /\ TablesOf(op)' = TablesOf(op)
<1>1. \A op : Rank(op)' = Rank(op) /\ TablesOf(op)' = TablesOf(op)
  BY DEF Rank, TablesOf
<1>2. \A op : TablesOf(op.child)' = TablesOf(op.child)
              /\ TablesOf(op.build)' = TablesOf(op.build) /\ TablesOf(op.probe)' = TablesOf(op.probe)
  BY <1>1
<1>3. \A op : Kids(op)' = Kids(op)
  BY DEF Kids, Children, ToSet
<1> QED BY <1>1, <1>2, <1>3 DEF Above

LEMMA FilteredTables ==
    ASSUME StmtInv, ScanInv, DistinctAliases(stmt), NEW n \in 1..Len(aliases)
    PROVE  TablesOf(Filtered(n)) = {n} /\ Above(Filtered(n))
<1>1. scans[aliases[n]] = n
  BY ScansInOrder
<1>2. \/ Filtered(n) = ScanOf(n)
      \/ Filtered(n) = Select(n, ScanOf(n), FiltersOf(aliases[n]))
  BY <1>1 DEF Filtered
<1>3. n # 0
  OBVIOUS
<1>4. CASE Filtered(n) = ScanOf(n)
  BY <1>4, TablesOfScan
<1>5. CASE Filtered(n) = Select(n, ScanOf(n), FiltersOf(aliases[n]))
  <2> DEFINE conds == FiltersOf(aliases[n])
  <2>1. Rank(ScanOf(n)) = 0 /\ Rank(Select(n, ScanOf(n), conds)) = 1
    BY <1>3, RankOfScan, RankOfSelect
  <2>2. TablesOf(ScanOf(n)) = {n} /\ TablesOf(Select(n, ScanOf(n), conds)) = {n}
    BY <1>3, TablesOfScan, TablesOfSelect
  <2>3. Rank(ScanOf(n)) < Rank(Select(n, ScanOf(n), conds))
    BY <2>1
  <2>4. Above(Select(n, ScanOf(n), conds))
    BY <2>2, <2>3, TablesOfSelect
  <2> QED BY <1>5, <2>2, <2>4
<1> QED BY <1>2, <1>4, <1>5

LEMMA WrapScansTables ==
    ASSUME StmtInv, ScanInv, DistinctAliases(stmt), TablesInv, WrapScans
    PROVE  TablesInv'
<1>1. /\ pc = "classify" /\ pc' = "join" /\ aliases' = aliases /\ joined' = 1
      /\ planRoot' = plans'[aliases[1]]
      /\ heap' = heap \cup {Filtered(n) : n \in DOMAIN aliases}
  BY DEF WrapScans
<1>2. /\ DOMAIN aliases = 1..Len(aliases) /\ Len(aliases) \in Nat /\ Len(aliases) > 0
  BY <1>1, FromIsList DEF ScanInv, Planning, Planned, Cleaning, Ended
<1>3. \A n \in 1..Len(aliases) : plans'[aliases[n]] = Filtered(n)
  BY PlansInOrder
<1>4. \A n \in 1..Len(aliases) : TablesOf(Filtered(n)) = {n} /\ Above(Filtered(n))
  BY FilteredTables
<1>5. TablesOf(planRoot') = {1}
  <2>1. 1 \in 1..Len(aliases)
    BY <1>2
  <2> QED BY <1>1, <1>3, <1>4, <2>1
<1>6. 1..1 = {1}
  OBVIOUS
<1>7. /\ \A op : Above(op)' <=> Above(op)
      /\ \A op : TablesOf(op)' = TablesOf(op)
  BY <1>1, TablesKept
<1>8. TablesOf(planRoot)' = TablesOf(planRoot') /\ \A a : TablesOf(plans[a])' = TablesOf(plans'[a])
  BY <1>1 DEF TablesOf
<1>9. \A op \in heap' : Above(op)
  BY <1>1, <1>2, <1>4 DEF TablesInv
<1> QED BY <1>1, <1>3, <1>4, <1>5, <1>6, <1>7, <1>8, <1>9 DEF TablesInv

LEMMA JoinNextTables ==
    ASSUME StmtInv, ScanInv, TreeInv, TablesInv, JoinNext
    PROVE  TablesInv'
<1>1. /\ pc = "join" /\ pc' = pc /\ aliases' = aliases /\ plans' = plans
      /\ joined' = joined + 1 /\ joined < Len(aliases)
      /\ heap' = heap \cup {planRoot'}
  BY DEF JoinNext
<1>2. joined \in Nat /\ joined # 0 /\ Len(aliases) \in Nat
  BY <1>1 DEF ScanInv
<1>3. PICK new : new = plans[aliases[joined + 1]]
  OBVIOUS
<1>4. TablesOf(new) = {joined + 1} /\ TablesOf(planRoot) = 1..joined
  <2>1. joined + 1 \in 1..Len(aliases)
    BY <1>1, <1>2
  <2> QED BY <1>1, <1>3, <2>1 DEF TablesInv
<1>5. Rank(planRoot) < joined + 1 /\ Rank(new) < joined + 1
  <2>1. aliases[joined + 1] \in ToSet(aliases)
    BY <1>1, <1>2 DEF ScanInv, ToSet
  <2>2. Rank(planRoot) \in 0..joined /\ Rank(new) \in 0..1
    BY <1>1, <1>3, <2>1 DEF TreeInv
  <2> QED BY <1>2, <2>2
<1>6. TablesOf(planRoot') = 1..joined+1 /\ Above(planRoot')
  <2>1. CASE joined = 1
    <3>1. planRoot' = HashJoin(1, planRoot, new, KeysOf(aliases[1], {aliases[joined + 1]}))
      BY <1>1, <1>3, <2>1 DEF JoinNext, TreeInv
    <3>2. 1 + 1 = 2 /\ joined + 1 = 2 /\ 1..1 = {1}
      BY <2>1
    <3>3. TablesOf(planRoot) = {1} /\ TablesOf(new) = {2}
      BY <1>4, <2>1, <3>2
    <3> QED BY <1>5, <2>1, <3>1, <3>3, TablesOfJoin
  <2>2. CASE joined # 1
    <3>1. planRoot' = HashJoin(joined, new, planRoot, LaterKeys(aliases[joined + 1]))
      BY <1>3, <2>2 DEF JoinNext
    <3> QED BY <1>4, <1>5, <2>2, <3>1, TablesOfJoin
  <2> QED BY <2>1, <2>2
<1>7. /\ \A op : Above(op)' <=> Above(op)
      /\ \A op : TablesOf(op)' = TablesOf(op)
  BY <1>1, TablesKept
<1>8. TablesOf(planRoot)' = TablesOf(planRoot') /\ \A a : TablesOf(plans[a])' = TablesOf(plans[a])
  BY <1>1 DEF TablesOf
<1>9. \A op \in heap' : Above(op)
  BY <1>1, <1>6 DEF TablesInv
<1> QED BY <1>1, <1>6, <1>7, <1>8, <1>9 DEF TablesInv

LEMMA WrapPostJoinTables ==
    ASSUME StmtInv, ScanInv, HeapInv, TreeInv, TablesInv, WrapPostJoin
    PROVE  TablesInv'
<1>1. /\ pc = "join" /\ pc' = "select" /\ aliases' = aliases /\ joined = Len(aliases)
      /\ heap' = heap \cup {planRoot'}
      /\ planRoot \in heap
      /\ \/ planRoot' = planRoot
         \/ planRoot' = Select(0, planRoot, postFilters)
  BY DEF WrapPostJoin, HeapInv
<1>2. CASE planRoot' = Select(0, planRoot, postFilters)
  <2>1. Rank(planRoot) \in 0..Len(aliases) /\ Len(aliases) \in Nat
    BY <1>1 DEF TreeInv, ScanInv
  <2>2. Rank(planRoot') = Len(aliases) + 1
    BY <1>2, RankOfSelect
  <2>3. Rank(planRoot) < Rank(planRoot')
    BY <2>1, <2>2
  <2>4. TablesOf(planRoot) = 1..Len(aliases)
    BY <1>1 DEF TablesInv
  <2>5. Above(planRoot')
    BY <1>2, <2>3, <2>4, TablesOfSelect
  <2>6. \A op \in heap' : Above(op)
    BY <1>1, <2>5 DEF TablesInv
  <2> QED BY <1>1, <2>6, TablesKept DEF TablesInv
<1>3. CASE planRoot' = planRoot
  BY <1>1, <1>3, TablesKept DEF TablesInv
<1> QED BY <1>1, <1>2, <1>3

LEMMA TablesStep ==
    ASSUME StmtInv, ScanInv, HeapInv, TreeInv, TablesInv, DistinctAliases(stmt),
           [RunNext]_allRunVars
    PROVE  TablesInv'
<1>1. CASE \E s \in Statements : Parse(s)
  <2>1. pc = "text" /\ aliases = <<>> /\ heap' = heap /\ pc' = "scan"
    BY <1>1 DEF Parse, ScanInv
  <2>2. heap' = {}
    BY <2>1 DEF TreeInv
  <2> QED BY <2>1, <2>2 DEF TablesInv
<1>2. CASE CreateScan
  <2>1. /\ pc' = "scan" /\ stmt' = stmt /\ heap' = heap \cup {ScanOf(Len(aliases) + 1)}
        /\ heap = {ScanOf(n) : n \in 1..Len(aliases)}
    BY <1>2 DEF CreateScan, TreeInv
  <2>2. \A op : op.kind = "scan" => Above(op)'
    <3>1. \A op : op.kind = "scan" => Kids(op)' = {}
      BY DEF Kids, Children, ToSet
    <3> QED BY <3>1 DEF Above
  <2>3. \A op \in heap' : op.kind = "scan"
    BY <2>1, ScanKids
  <2> QED BY <2>1, <2>2, <2>3 DEF TablesInv
<1>3. CASE WrapScans
  BY <1>3, WrapScansTables
<1>4. CASE JoinNext
  BY <1>4, JoinNextTables
<1>5. CASE WrapPostJoin
  BY <1>5, WrapPostJoinTables
<1>6. CASE ClassifyFilter \/ ClassifyJoinKey \/ ClassifyPostJoin \/ FlattenWhere \/ ResolveItem \/ Quiet
  <2>1. UNCHANGED <<stmt, aliases, plans, joined, planRoot, heap>> /\ (pc' = "join" => pc = "join")
    BY <1>6 DEF ClassifyFilter, ClassifyJoinKey, ClassifyPostJoin, FlattenWhere, ResolveItem,
       Classifying, Selecting, Quiet, tree, Planned, Cleaning, Ended
  <2>2. TablesOf(planRoot)' = TablesOf(planRoot) /\ \A a : TablesOf(plans[a])' = TablesOf(plans[a])
    BY <2>1 DEF TablesOf
  <2> QED BY <2>1, <2>2, TablesKept DEF TablesInv
<1> QED BY <1>1, <1>2, <1>3, <1>4, <1>5, <1>6, PlanCourse

-----------------------------------------------------------------------------
(* Scopes, and whether there is code for an operator *)

ColumnsOf(op) == UNION {{n} \X DOMAIN Columns(n) : n \in TablesOf(op)}

LEMMA InputsAreKids ==
    ASSUME HeapInv, NEW op \in heap
    PROVE  /\ InputsOf(op) = Kids(op) /\ InputsOf(op) \subseteq heap
           /\ op.kind = "scan" <=> op.kind \notin {"select", "join"}
           /\ op.kind = "select" => InputsOf(op) = {op.child}
           /\ op.kind = "join" => InputsOf(op) = {op.build, op.probe}
<1>1. op.kind \in {"scan", "select", "join"} /\ Kids(op) \subseteq heap
  BY DEF HeapInv, Kinds
<1>2. InputsOf(op) = Kids(op)
  BY <1>1 DEF InputsOf, Kids, Children, ToSet
<1> QED BY <1>1, <1>2 DEF InputsOf

LEMMA ColumnsAbove ==
    ASSUME ScanInv, HeapInv, FormInv, TablesInv, NEW op \in heap
    PROVE  ColumnsOf(op) = IF op.kind = "scan" THEN {op.alias} \X (1..op.cols)
                           ELSE UNION {ColumnsOf(input) : input \in InputsOf(op)}
<1>1. CASE op.kind = "scan"
  <2>1. PICK n \in 1..Len(aliases) : op = ScanOf(n)
    BY <1>1 DEF FormInv, ScanForm
  <2>2. op.alias = n /\ op.cols = Len(Columns(n)) /\ TablesOf(op) = {n}
    BY <2>1, TablesOfScan DEF ScanOf
  <2>3. Columns(n) \in Seq(ToSet(Columns(n)))
    BY CatalogAssumption DEF ScanInv, Columns
  <2>4. DOMAIN Columns(n) = 1..Len(Columns(n))
    BY <2>3
  <2>5. ColumnsOf(op) = {n} \X DOMAIN Columns(n)
    BY <2>2 DEF ColumnsOf
  <2> QED BY <1>1, <2>2, <2>4, <2>5
<1>2. CASE op.kind = "select"
  <2>1. TablesOf(op.child) = TablesOf(op)
    BY <1>2 DEF TablesInv, Above
  <2>2. ColumnsOf(op) = ColumnsOf(op.child)
    BY <2>1 DEF ColumnsOf
  <2>3. InputsOf(op) = {op.child}
    BY <1>2, InputsAreKids
  <2> QED BY <1>2, <2>2, <2>3
<1>3. CASE op.kind = "join"
  <2>1. op.id \in 1..Len(aliases)-1 /\ Len(aliases) \in Nat
    BY <1>3 DEF FormInv, JoinForm, ScanInv
  <2>2. TablesOf(op) = TablesOf(op.build) \cup TablesOf(op.probe)
    <3>1. /\ TablesOf(op) = 1..op.id+1
          /\ TablesOf(op.build) = IF op.id = 1 THEN {1} ELSE {op.id + 1}
          /\ TablesOf(op.probe) = IF op.id = 1 THEN {2} ELSE 1..op.id
      BY <1>3 DEF TablesOf, TablesInv, Above
    <3>2. CASE op.id = 1
      <4>1. 1..op.id+1 = {1} \cup {2}
        BY <3>2
      <4> QED BY <3>1, <3>2, <4>1
    <3>3. CASE op.id # 1
      <4>1. 1..op.id+1 = {op.id + 1} \cup 1..op.id
        BY <2>1
      <4> QED BY <3>1, <3>3, <4>1
    <3> QED BY <3>2, <3>3
  <2>3. ColumnsOf(op) = ColumnsOf(op.build) \cup ColumnsOf(op.probe)
    BY <2>2 DEF ColumnsOf
  <2>4. InputsOf(op) = {op.build, op.probe}
    BY <1>3, InputsAreKids
  <2> QED BY <1>3, <2>3, <2>4
<1> QED BY <1>1, <1>2, <1>3, InputsAreKids

(* A property that an operator of the tree has if its inputs have it, all  *)
(* have: of those that do not, take the lowest.                            *)
LEMMA FromBelow ==
    ASSUME TreeInv, TablesInv, HeapInv, ScanInv, NEW Good,
           \A op \in heap : Kids(op) \subseteq Good => op \in Good
    PROVE  heap \subseteq Good
<1> DEFINE bad   == heap \ Good
           ranks == {Rank(op) : op \in bad}
<1> SUFFICES ASSUME bad # {} PROVE FALSE
  OBVIOUS
<1>1. \A op \in heap : Rank(op) \in Nat
  BY DEF TreeInv, ScanInv
<1>2. ranks \subseteq Nat /\ ranks # {}
  BY <1>1
<1>3. PICK r \in ranks : \A q \in ranks : ~(q < r)
  BY <1>2, LeastNatural
<1>4. PICK op \in bad : r = Rank(op)
  OBVIOUS
<1>5. PICK kid \in Kids(op) : kid \notin Good
  BY <1>4
<1>6. kid \in bad /\ Rank(kid) < Rank(op)
  BY <1>4, <1>5 DEF HeapInv, TablesInv, Above
<1> QED BY <1>3, <1>4, <1>6

LEMMA ScopeIsColumns ==
    ASSUME ScanInv, HeapInv, FormInv, TreeInv, TablesInv
    PROVE  \A op \in heap : Scope[op] = ColumnsOf(op)
<1> DEFINE At(f, op) == IF op.kind = "scan" THEN {op.alias} \X (1..op.cols)
                        ELSE UNION {f[input] : input \in InputsOf(op)}
           Is(f) == f = [op \in heap |-> At(f, op)]
           g == [op \in heap |-> ColumnsOf(op)]
<1>1. \A op \in heap : InputsOf(op) = Kids(op) /\ InputsOf(op) \subseteq heap
  BY InputsAreKids
<1>2. \A op \in heap : g[op] = At(g, op)
  <2> TAKE op \in heap
  <2>1. \A o \in heap : g[o] = ColumnsOf(o)
    OBVIOUS
  <2> HIDE DEF g
  <2>2. {g[input] : input \in InputsOf(op)} = {ColumnsOf(input) : input \in InputsOf(op)}
    BY <1>1, <2>1
  <2> QED BY <2>1, <2>2, ColumnsAbove
<1>3. Is(g)
  <2>1. g = [op \in heap |-> g[op]]
    OBVIOUS
  <2> HIDE DEF g, At
  <2> QED BY <1>2, <2>1
<1>4. Scope = CHOOSE f : Is(f)
  BY Zenon DEF Scope
<1>5. Is(Scope)
  <2> HIDE DEF Is, g
  <2> QED BY <1>3, <1>4
<1>6. \A op \in heap : Scope[op] = At(Scope, op)
  BY <1>5
<1> DEFINE Good == {op \in heap : Scope[op] = ColumnsOf(op)}
<1>7. ASSUME NEW op \in heap, Kids(op) \subseteq Good PROVE op \in Good
  <2>1. \A input \in InputsOf(op) : Scope[input] = ColumnsOf(input)
    BY <1>1, <1>7
  <2>2. {Scope[input] : input \in InputsOf(op)} = {ColumnsOf(input) : input \in InputsOf(op)}
    BY <2>1
  <2>3. Scope[op] = At(Scope, op)
    BY <1>6
  <2> QED BY <2>2, <2>3, ColumnsAbove
<1> HIDE DEF Good
<1>8. heap \subseteq Good
  BY <1>7, FromBelow
<1> QED BY <1>8 DEF Good

(* There is code for an operator if it fits and there is for its inputs.   *)
LEMMA GeneratesIs ==
    ASSUME HeapInv
    PROVE  \A op \in heap :
              Generates[op] <=> (\A input \in InputsOf(op) : Generates[input]) /\ Fits(op)
<1> DEFINE At(f, op) == (\A input \in InputsOf(op) : f[input]) /\ Fits(op)
           Is(f) == f = [op \in heap |-> At(f, op)]
           Closed(S) == \A op \in S : InputsOf(op) \subseteq S /\ Fits(op)
           U == UNION {S \in SUBSET heap : Closed(S)}
           g == [op \in heap |-> op \in U]
<1>1. \A op \in heap : InputsOf(op) \subseteq heap
  BY InputsAreKids
<1>2. U \subseteq heap /\ Closed(U)
  OBVIOUS
<1>3. ASSUME NEW op \in heap, InputsOf(op) \subseteq U, Fits(op) PROVE op \in U
  <2>1. Closed(U \cup {op}) /\ U \cup {op} \in SUBSET heap
    BY <1>2, <1>3
  <2> HIDE DEF Closed
  <2> QED BY <2>1
<1> HIDE DEF U, Closed
<1>4. \A op \in heap : (op \in U) = ((\A input \in InputsOf(op) : input \in U) /\ Fits(op))
  BY <1>2, <1>3 DEF Closed
<1>5. \A op \in heap : g[op] = (op \in U)
  OBVIOUS
<1>6. g = [op \in heap |-> g[op]]
  OBVIOUS
<1> HIDE DEF g
<1>7. \A op \in heap : g[op] = At(g, op)
  <2> TAKE op \in heap
  <2>1. (\A input \in InputsOf(op) : input \in U) <=> \A input \in InputsOf(op) : g[input]
    BY <1>1, <1>5
  <2> QED BY <1>4, <1>5, <2>1
<1>8. Is(g)
  <2> HIDE DEF At
  <2> QED BY <1>6, <1>7
<1>9. Generates = CHOOSE f : Is(f)
  BY Zenon DEF Generates
<1>10. Is(Generates)
  <2> HIDE DEF Is
  <2> QED BY <1>8, <1>9
<1>11. \A op \in heap : Generates[op] = At(Generates, op)
  <2> HIDE DEF At
  <2> QED BY <1>10
<1> QED BY <1>11

-----------------------------------------------------------------------------
(* That a well-formed statement has code *)

LEMMA TermRefs ==
    ASSUME StmtInv, NEW c \in ToSet(Terms)
    PROVE  /\ stmt.where # NoWhere /\ c \in ToSet(ConjunctsOf(stmt.where))
           /\ \A ref \in RefsOf(c) : ref \in Refs /\ ref.kind = "col"
<1>1. stmt.where # NoWhere /\ Terms = ConjunctsOf(stmt.where)
  BY DEF Terms, ToSet
<1>2. stmt \in Statements
  BY <1>1 DEF StmtInv, NoStatement, SelectStmt
<1>3. /\ RefsOf(stmt.where) = UNION {RefsOf(d) : d \in ToSet(ConjunctsOf(stmt.where))}
      /\ \A ref \in RefsOf(stmt.where) : ref.kind = "col"
  BY <1>1, <1>2, TermAssumption
<1>4. RefsOf(stmt.where) \subseteq Refs
  BY <1>1 DEF Refs, RefsIn
<1> QED BY <1>1, <1>3, <1>4

LEMMA KeyAliases ==
    ASSUME NEW c, IsJoinKey(c), RefsOf(c) = {c.left, c.right}
    PROVE  /\ c.left.alias # c.right.alias
           /\ c.left.alias # "" /\ c.right.alias # ""
<1>1. c.left.alias # c.right.alias
  BY KeyHasTwoAliases
<1>2. {ref.alias : ref \in RefsOf(c)} = {c.left.alias, c.right.alias}
  OBVIOUS
<1>3. ConjunctAliases(c) = {c.left.alias, c.right.alias} \ {""}
  BY <1>2 DEF ConjunctAliases
<1>4. ASSUME NEW a, ConjunctAliases(c) = {a} \/ ConjunctAliases(c) = {} PROVE FALSE
  <2>1. Cardinality(ConjunctAliases(c)) = 0 \/ Cardinality(ConjunctAliases(c)) = 1
    BY <1>4, FS_EmptySet, FS_Singleton
  <2> QED BY <2>1 DEF IsJoinKey
<1>5. c.left.alias = "" => ConjunctAliases(c) = {c.right.alias} \/ ConjunctAliases(c) = {}
  BY <1>3
<1>6. c.right.alias = "" => ConjunctAliases(c) = {c.left.alias} \/ ConjunctAliases(c) = {}
  BY <1>3
<1> QED BY <1>1, <1>4, <1>5, <1>6

(* A qualified name that is found is a column of its alias's table.        *)
LEMMA QualifiedIU ==
    ASSUME ScanInv, NEW ref, ref.alias # "", HasColumn(ref)
    PROVE  /\ scans[ref.alias] \in 1..Len(aliases) /\ aliases[scans[ref.alias]] = ref.alias
           /\ \E d \in DOMAIN Columns(scans[ref.alias]) : IUOf(ref) = <<scans[ref.alias], d>>
<1>1. PICK n, name : n = scans[ref.alias] /\ name = <<ref.name>>
  OBVIOUS
<1>2. ref.alias \in ToSet(aliases) /\ DOMAIN scans = ToSet(aliases) /\ Found(n, name) # {}
  BY <1>1 DEF HasColumn, Known, ScanInv
<1>3. n \in 1..Len(aliases) /\ aliases[n] = ref.alias
  BY <1>1, <1>2 DEF ScanInv
<1>4. Owners(ref) = {ref.alias}
  BY <1>2 DEF Owners
<1>5. IUOf(ref) = <<n, Min(Found(n, name))>>
  BY <1>1, <1>4 DEF IUOf, GetIU
<1>6. GetIU(n, name) \in UNION {{m} \X DOMAIN Columns(m) : m \in 1..Len(aliases)}
  BY <1>2, <1>3, ColumnFound DEF IUs
<1>7. PICK m \in 1..Len(aliases) : GetIU(n, name) \in {m} \X DOMAIN Columns(m)
  BY <1>6
<1>8. Min(Found(n, name)) \in DOMAIN Columns(n)
  BY <1>7 DEF GetIU
<1> QED BY <1>1, <1>3, <1>5, <1>8

LEMMA WellNamed ==
    ASSUME StmtInv, ScanInv, Len(aliases) = Len(stmt.from), NamesFound(stmt), WellFormed,
           NEW ref \in Refs
    PROVE  /\ ref.kind = "col" /\ Resolves(ref)
           /\ Named(ref) = {IUOf(ref)}
<1>1. DistinctAliases(stmt)
  BY DEF WellFormed, Entries, DistinctAliases
<1>2. ref.kind = "col" /\ \E iu \in Named(ref) : Named(ref) = {iu}
  BY DEF WellFormed
<1> QED BY <1>1, <1>2, ResolvesNamed

(* A qualified name that means something is found.                         *)
LEMMA NamedHasColumn ==
    ASSUME StmtInv, ScanInv, Len(aliases) = Len(stmt.from), DistinctAliases(stmt),
           NEW ref, ref.alias # "", Named(ref) # {}
    PROVE  HasColumn(ref)
<1>1. PICK n, c : n \in Entries /\ c \in DOMAIN Columns(n) /\ <<n, c>> \in Named(ref)
  <2>1. PICK iu : iu \in Named(ref)
    OBVIOUS
  <2>2. PICK n \in Entries : \E c \in DOMAIN Columns(n) : iu = <<n, c>>
    BY <2>1, NamedArePairs
  <2> QED BY <2>1, <2>2
<1>2. ref.alias = stmt.from[n].alias /\ Columns(n)[c] = <<ref.name>>
  BY <1>1, NamedMeans
<1>3. n \in 1..Len(aliases)
  BY <1>1, FromIsList DEF Entries
<1>4. aliases[n] = ref.alias /\ aliases[n] \in DOMAIN scans /\ scans[aliases[n]] = n
  BY <1>2, <1>3, ScansInOrder DEF ScanInv
<1>5. Found(n, <<ref.name>>) # {}
  BY <1>1, <1>2, <1>3, NamedIsFound
<1> QED BY <1>4, <1>5 DEF HasColumn, Known

LEMMA KeysHaveColumns ==
    ASSUME StmtInv, ScanInv, Len(aliases) = Len(stmt.from), NamesFound(stmt), WellFormed,
           NEW c \in ToSet(Terms), IsJoinKey(c)
    PROVE  HasColumn(c.left) /\ HasColumn(c.right)
<1>1. RefsOf(c) = {c.left, c.right}
  BY TermsAreList DEF IsJoinKey
<1>2. c.left.alias # "" /\ c.right.alias # "" /\ c.left \in Refs /\ c.right \in Refs
  BY <1>1, KeyAliases, TermRefs
<1>3. Named(c.left) # {} /\ Named(c.right) # {}
  BY <1>2 DEF WellFormed
<1>4. DistinctAliases(stmt)
  BY DEF WellFormed, Entries, DistinctAliases
<1> QED BY <1>2, <1>3, <1>4, NamedHasColumn

(* A filter of a table uses its columns only.                              *)
LEMMA FilterFits ==
    ASSUME PlanInv, DistinctAliases(stmt) => TreeInv /\ TablesInv, pc = "planned",
           NamesFound(stmt), FiltersLocal(stmt), WellFormed,
           NEW op \in heap, op.kind = "select", FilterForm(op)
    PROVE  InScope(op.conjuncts, op.child)
<1> USE DEF PlanInv, Inv
<1>1. Len(aliases) = Len(stmt.from) /\ DistinctAliases(stmt)
  BY DEF ScanInv, Planned, WellFormed, Entries, DistinctAliases
<1>2. PICK n \in 1..Len(aliases) : n = op.id
  BY DEF FilterForm
<1>3. /\ aliases[n] = stmt.from[n].alias /\ stmt.from[n].table \in DOMAIN Catalog
      /\ n \in Entries /\ Entries = 1..Len(aliases)
  BY <1>1, FromIsList DEF ScanInv, Entries
<1>4. op.child = ScanOf(n) /\ op.child \in heap
  <2>1. scans[aliases[n]] = n
    BY <1>1, ScansInOrder
  <2>2. op.child \in heap
    BY InputsAreKids
  <2> QED BY <1>2, <2>1, <2>2 DEF FilterForm
<1>5. Scope[op.child] = {n} \X DOMAIN Columns(n)
  <2>1. Scope[op.child] = ColumnsOf(ScanOf(n))
    BY <1>1, <1>4, ScopeIsColumns
  <2> QED BY <2>1, TablesOfScan DEF ColumnsOf
<1>6. ASSUME NEW c \in ToSet(op.conjuncts), NEW ref \in RefsOf(c)
      PROVE  Resolves(ref) /\ IUOf(ref) \in Scope[op.child]
  <2>1. c \in ToSet(Terms) /\ ConjunctAliases(c) = {aliases[n]}
    <3>1. n # 0
      OBVIOUS
    <3> QED BY <1>2, <1>6, <3>1, SelectsAreTerms
  <2>2. ref \in Refs /\ stmt.where # NoWhere /\ c \in ToSet(ConjunctsOf(stmt.where))
    BY <1>6, <2>1, TermRefs
  <2>3. Resolves(ref) /\ Named(ref) = {IUOf(ref)}
    BY <1>1, <2>2, WellNamed
  <2>4. CASE ref.alias = ""
    <3>1. <<ref.name>> \in ToSet(Columns(n))
      <4>1. ConjunctAliases(c) = {stmt.from[n].alias} /\ n \in DOMAIN stmt.from
        BY <1>3, <2>1 DEF Entries
      <4>2. <<ref.name>> \in ToSet(Catalog[stmt.from[n].table])
        BY <1>3, <1>6, <2>2, <2>4, <4>1 DEF FiltersLocal
      <4> QED BY <4>2 DEF Columns
    <3>2. PICK d \in DOMAIN Columns(n) : Columns(n)[d] = <<ref.name>>
      BY <3>1 DEF ToSet
    <3>3. <<n, d>> \in Named(ref)
      BY <1>3, <2>4, <3>2, NamedMeans
    <3>4. IUOf(ref) = <<n, d>>
      BY <2>3, <3>3
    <3> QED BY <1>5, <2>3, <3>4
  <2>5. CASE ref.alias # ""
    <3>1. ref.alias = aliases[n]
      BY <1>6, <2>1, <2>5 DEF ConjunctAliases
    <3>2. PICK m, d : m \in Entries /\ IUOf(ref) = <<m, d>>
      <4>1. PICK m \in Entries : \E d \in DOMAIN Columns(m) : IUOf(ref) = <<m, d>>
        BY <2>3, NamedArePairs
      <4> QED BY <4>1
    <3>3. stmt.from[m].alias = ref.alias
      BY <2>3, <2>5, <3>2, NamedMeans
    <3>4. m = n
      BY <1>1, <1>3, <3>1, <3>2, <3>3 DEF DistinctAliases, Entries
    <3>5. d \in DOMAIN Columns(m)
      BY <2>3, <3>2, NamedMeans
    <3> QED BY <1>5, <2>3, <3>2, <3>4, <3>5
  <2> QED BY <2>4, <2>5
<1> QED BY <1>6 DEF InScope

(* A filter after the joins has all columns.                               *)
LEMMA LateFits ==
    ASSUME PlanInv, DistinctAliases(stmt) => TreeInv /\ TablesInv, pc = "planned",
           NamesFound(stmt), WellFormed,
           NEW op \in heap, op.kind = "select", LateForm(op)
    PROVE  InScope(op.conjuncts, op.child)
<1> USE DEF PlanInv, Inv
<1>1. Len(aliases) = Len(stmt.from) /\ DistinctAliases(stmt)
  BY DEF ScanInv, Planned, WellFormed, Entries, DistinctAliases
<1>2. Entries = 1..Len(aliases)
  BY <1>1, FromIsList DEF Entries
<1>3. TablesOf(op.child) = 1..Len(aliases) /\ op.child \in heap
  <2>1. TablesOf(op) = 1..Len(aliases)
    BY DEF LateForm, TablesOf
  <2> QED BY <1>1, <2>1, InputsAreKids DEF TablesInv, Above
<1>4. Scope[op.child] = UNION {{n} \X DOMAIN Columns(n) : n \in Entries}
  BY <1>1, <1>2, <1>3, ScopeIsColumns DEF ColumnsOf
<1>5. ASSUME NEW c \in ToSet(op.conjuncts), NEW ref \in RefsOf(c)
      PROVE  Resolves(ref) /\ IUOf(ref) \in Scope[op.child]
  <2>1. ref \in Refs
    BY <1>5, SelectsAreTerms, TermRefs
  <2>2. Resolves(ref) /\ Named(ref) = {IUOf(ref)}
    BY <1>1, <2>1, WellNamed
  <2>3. IUOf(ref) \in UNION {{n} \X DOMAIN Columns(n) : n \in Entries}
    BY <2>2 DEF Named
  <2> QED BY <1>4, <2>2, <2>3
<1> QED BY <1>5 DEF InScope

(* A key is two columns of two tables.                                     *)
LEMMA KeyTables ==
    ASSUME StmtInv, ScanInv, OriginInv, Len(aliases) = Len(stmt.from), DistinctAliases(stmt),
           KeysReach(stmt), NEW jk \in ToSet(joinKeys)
    PROVE  \E b, p \in 1..Len(aliases) :
              /\ b # p /\ aliases[b] = jk.buildAlias /\ aliases[p] = jk.probeAlias
              /\ \E d \in DOMAIN Columns(b) : jk.buildIU = <<b, d>>
              /\ \E e \in DOMAIN Columns(p) : jk.probeIU = <<p, e>>
              /\ b \in {1, 2} \/ p \in {1, 2}
<1>1. PICK c \in ToSet(Terms) : KeyFrom(jk, c)
  BY DEF OriginInv
<1>2. PICK l, r \in {c.left, c.right} :
         /\ {l, r} = {c.left, c.right}
         /\ HasColumn(l) /\ HasColumn(r)
         /\ jk = [buildAlias |-> l.alias, buildIU |-> IUOf(l),
                  probeAlias |-> r.alias, probeIU |-> IUOf(r)]
  BY <1>1 DEF KeyFrom
<1>3. jk.buildAlias = l.alias /\ jk.buildIU = IUOf(l) /\ jk.probeAlias = r.alias /\ jk.probeIU = IUOf(r)
  BY <1>2
<1>4. IsJoinKey(c) /\ RefsOf(c) = {c.left, c.right}
  BY <1>1, TermsAreList DEF KeyFrom, IsJoinKey
<1>5. l.alias # r.alias /\ l.alias # "" /\ r.alias # ""
  <2>1. c.left.alias # c.right.alias /\ c.left.alias # "" /\ c.right.alias # ""
    BY <1>4, KeyAliases
  <2>2. \/ l = c.left /\ r = c.right
        \/ l = c.right /\ r = c.left
    BY <1>2, <2>1
  <2> QED BY <2>1, <2>2
<1>6. PICK b \in 1..Len(aliases) :
         aliases[b] = l.alias /\ \E d \in DOMAIN Columns(b) : IUOf(l) = <<b, d>>
  BY <1>2, <1>5, QualifiedIU
<1>7. PICK p \in 1..Len(aliases) :
         aliases[p] = r.alias /\ \E e \in DOMAIN Columns(p) : IUOf(r) = <<p, e>>
  BY <1>2, <1>5, QualifiedIU
<1>8. b \in {1, 2} \/ p \in {1, 2}
  <2>1. stmt.where # NoWhere /\ c \in ToSet(ConjunctsOf(stmt.where))
    BY TermRefs
  <2>2. PICK n \in {1, 2} \cap DOMAIN stmt.from : stmt.from[n].alias \in {c.left.alias, c.right.alias}
    BY <1>4, <2>1 DEF KeysReach
  <2>3. {c.left.alias, c.right.alias} = {l.alias, r.alias}
    BY <1>2
  <2>4. n \in 1..Len(aliases)
    BY <2>2, FromIsList
  <2>5. aliases[n] = stmt.from[n].alias /\ scans[aliases[n]] = n
        /\ scans[aliases[b]] = b /\ scans[aliases[p]] = p
    BY <2>4, ScansInOrder DEF ScanInv
  <2> QED BY <1>6, <1>7, <2>2, <2>3, <2>5
<1> QED BY <1>3, <1>5, <1>6, <1>7, <1>8

(* The keys of a join are columns of its inputs.                           *)
LEMMA KeysFit ==
    ASSUME PlanInv, TreeInv, TablesInv, DistinctAliases(stmt), KeysReach(stmt),
           Len(aliases) = Len(stmt.from), NEW op \in heap, op.kind = "join"
    PROVE  /\ ToSet(op.buildKeys) \subseteq Scope[op.build]
           /\ ToSet(op.probeKeys) \subseteq Scope[op.probe]
<1> USE DEF PlanInv, Inv
<1>1. PICK k \in 1..Len(aliases)-1 : k = op.id
  BY DEF FormInv, JoinForm
<1>2. PICK w : w = IF k = 1 THEN 1 ELSE k + 1
  OBVIOUS
<1>3. Len(aliases) \in Nat /\ w \in 1..Len(aliases) /\ NewAt(k) = aliases[w]
  <2>1. Len(aliases) \in Nat
    BY DEF ScanInv
  <2> QED BY <1>1, <1>2, <2>1 DEF NewAt
<1>4. /\ TablesOf(op.build) = {w}
      /\ TablesOf(op.probe) = IF k = 1 THEN {2} ELSE 1..k
  BY <1>1, <1>2 DEF TablesInv, Above
<1>5. op.build \in heap /\ op.probe \in heap
  BY InputsAreKids
<1>6. /\ \A d \in DOMAIN Columns(w) : <<w, d>> \in Scope[op.build]
      /\ \A n \in TablesOf(op.probe) : \A d \in DOMAIN Columns(n) : <<n, d>> \in Scope[op.probe]
  <2>1. Scope[op.build] = ColumnsOf(op.build) /\ Scope[op.probe] = ColumnsOf(op.probe)
    BY <1>5, ScopeIsColumns
  <2> QED BY <1>4, <2>1 DEF ColumnsOf
<1>7. ASSUME NEW i \in DOMAIN op.buildKeys
      PROVE  op.buildKeys[i] \in Scope[op.build] /\ op.probeKeys[i] \in Scope[op.probe]
  <2>1. PICK jk \in ToSet(joinKeys) :
           /\ KeyAt(jk, k)
           /\ [new |-> op.buildKeys[i], old |-> op.probeKeys[i]] = Oriented(jk, NewAt(k))
    BY <1>1 DEF FormInv, JoinForm
  <2>2. PICK b, p \in 1..Len(aliases) :
           /\ b # p /\ aliases[b] = jk.buildAlias /\ aliases[p] = jk.probeAlias
           /\ \E d \in DOMAIN Columns(b) : jk.buildIU = <<b, d>>
           /\ \E e \in DOMAIN Columns(p) : jk.probeIU = <<p, e>>
           /\ b \in {1, 2} \/ p \in {1, 2}
    BY KeyTables
  <2>3. \A m, n \in 1..Len(aliases) : aliases[m] = aliases[n] => m = n
    BY ScansInOrder
  <2>4. b = w => p \in TablesOf(op.probe)
    <3>1. CASE k = 1
      <4>1. 1 \in 1..Len(aliases) /\ 2 \in 1..Len(aliases)
        BY <1>3, <3>1
      <4>2. {aliases[b], aliases[p]} = {aliases[1], aliases[2]}
        BY <2>1, <2>2, <3>1 DEF KeyAt
      <4>3. {b, p} = {1, 2}
        BY <2>2, <2>3, <4>1, <4>2
      <4> QED BY <1>2, <1>4, <2>2, <3>1, <4>3
    <3>2. CASE k # 1
      BY <1>1, <1>2, <1>4, <2>2, <3>2
    <3> QED BY <3>1, <3>2
  <2>5. p = w => b \in TablesOf(op.probe)
    <3>1. CASE k = 1
      <4>1. 1 \in 1..Len(aliases) /\ 2 \in 1..Len(aliases)
        BY <1>3, <3>1
      <4>2. {aliases[b], aliases[p]} = {aliases[1], aliases[2]}
        BY <2>1, <2>2, <3>1 DEF KeyAt
      <4>3. {b, p} = {1, 2}
        BY <2>2, <2>3, <4>1, <4>2
      <4> QED BY <1>2, <1>4, <2>2, <3>1, <4>3
    <3>2. CASE k # 1
      BY <1>1, <1>2, <1>4, <2>2, <3>2
    <3> QED BY <3>1, <3>2
  <2>6. b = w \/ p = w
    <3>1. aliases[w] \in {aliases[b], aliases[p]}
      BY <1>2, <2>1, <2>2 DEF KeyAt
    <3> QED BY <1>3, <2>2, <2>3, <3>1
  <2>7. CASE b = w
    <3>1. jk.buildAlias = NewAt(k)
      BY <1>3, <2>2, <2>7
    <3>2. op.buildKeys[i] = jk.buildIU /\ op.probeKeys[i] = jk.probeIU
      BY <2>1, <3>1 DEF Oriented
    <3> QED BY <1>6, <2>2, <2>4, <2>7, <3>2
  <2>8. CASE p = w
    <3>1. jk.buildAlias # NewAt(k)
      BY <1>3, <2>2, <2>3, <2>8
    <3>2. op.buildKeys[i] = jk.probeIU /\ op.probeKeys[i] = jk.buildIU
      BY <2>1, <3>1 DEF Oriented
    <3> QED BY <1>6, <2>2, <2>5, <2>8, <3>2
  <2> QED BY <2>6, <2>7, <2>8
<1>8. DOMAIN op.probeKeys = DOMAIN op.buildKeys
  BY DEF FormInv, JoinForm
<1> QED BY <1>7, <1>8 DEF ToSet

(* Whatever the statement, its lists; and the tree, if no alias comes      *)
(* twice                                                                   *)
WholeInv == ListedInv /\ (DistinctAliases(stmt) => TreeInv /\ TablesInv)

LEMMA WholeInvInit == RunInit => WholeInv
<1> SUFFICES ASSUME RunInit PROVE WholeInv
  OBVIOUS
<1>1. pc = "text" /\ heap = {} /\ Len(aliases) = 0
  BY DEF RunInit, PlanInit
<1>2. TreeInv
  BY <1>1 DEF TreeInv, Planned, Cleaning, Ended
<1>3. TablesInv
  BY <1>1 DEF TablesInv
<1> QED BY <1>2, <1>3, ListedInvInit DEF WholeInv

LEMMA WholeInvStep == WholeInv /\ [RunNext]_allRunVars => WholeInv'
<1> SUFFICES ASSUME WholeInv, [RunNext]_allRunVars PROVE WholeInv'
  OBVIOUS
<1>1. StmtInv /\ ScanInv /\ HeapInv
  BY DEF WholeInv, ListedInv, PlanInv, Inv
<1>2. ListedInv'
  BY ListedInvStep DEF WholeInv
<1>3. stmt' = stmt \/ stmt = NoStatement
  <2>1. CASE \E s \in Statements : Parse(s)
    BY <1>1, <2>1 DEF Parse, StmtInv
  <2>2. CASE CreateScan \/ FlattenWhere \/ ClassifyFilter \/ ClassifyJoinKey \/ ClassifyPostJoin
             \/ WrapScans \/ JoinNext \/ WrapPostJoin \/ ResolveItem \/ Quiet
    BY <2>2 DEF CreateScan, FlattenWhere, ClassifyFilter, ClassifyJoinKey, ClassifyPostJoin,
       WrapScans, JoinNext, WrapPostJoin, ResolveItem, Quiet
  <2> QED BY <2>1, <2>2, PlanCourse
<1>4. DistinctAliases(NoStatement)
  BY DEF DistinctAliases, NoStatement, SelectStmt
<1>5. DistinctAliases(stmt)' => DistinctAliases(stmt)
  BY <1>3, <1>4 DEF DistinctAliases
<1>6. DistinctAliases(stmt)' => TreeInv' /\ TablesInv'
  BY <1>1, <1>5, TreeInvStep, TablesStep DEF WholeInv
<1> QED BY <1>2, <1>6 DEF WholeInv

LEMMA WellFormedHasCode ==
    ASSUME WholeInv, pc = "planned", NamesFound(stmt), FiltersLocal(stmt), KeysReach(stmt), WellFormed
    PROVE  HasCode
<1> USE DEF WholeInv, ListedInv, PlanInv, Inv
<1>1. Len(aliases) = Len(stmt.from) /\ DistinctAliases(stmt) /\ planRoot \in heap
  BY DEF ScanInv, HeapInv, Planned, WellFormed, Entries, DistinctAliases
<1>2. TreeInv /\ TablesInv
  BY <1>1
<1>3. Len(outs) <= OutSlots
  <2>1. outs = Wanted
    BY <1>1, OutsResolved, OutputsWanted
  <2> QED BY <2>1 DEF WellFormed
<1>4. ASSUME NEW op \in heap PROVE Fits(op)
  <2>1. op.kind = "select" => InScope(op.conjuncts, op.child)
    BY <1>1, <1>2, FilterFits, LateFits DEF FormInv
  <2>2. op.kind = "join" => /\ ToSet(op.buildKeys) \subseteq Scope[op.build]
                            /\ ToSet(op.probeKeys) \subseteq Scope[op.probe]
    BY <1>1, <1>2, KeysFit
  <2> QED BY <2>1, <2>2 DEF Fits
<1> DEFINE Good == {op \in heap : Generates[op]}
<1>5. ASSUME NEW op \in heap, Kids(op) \subseteq Good PROVE op \in Good
  BY <1>4, <1>5, InputsAreKids, GeneratesIs
<1> HIDE DEF Good
<1>6. heap \subseteq Good
  BY <1>2, <1>5, FromBelow
<1> QED BY <1>1, <1>3, <1>6 DEF HasCode, Good

LEMMA WellFormedKept == ASSUME stmt' = stmt PROVE WellFormed' <=> WellFormed
<1>1. \A n : Columns(n)' = Columns(n)
  BY DEF Columns
<1>2. Refs' = Refs /\ Entries' = Entries
  BY DEF Refs, RefsIn, Entries
<1>3. \A ref : Named(ref)' = Named(ref)
  BY <1>1, <1>2 DEF Named
<1> DEFINE inOrder == FlattenSeq([n \in Entries |-> [c \in DOMAIN Columns(n) |-> <<n, c>>]])
           pick(ref) == <<CHOOSE iu \in Named(ref) : TRUE>>
           want(i) == IF stmt.select[i] = Star THEN inOrder ELSE pick(stmt.select[i])
<1>4. inOrder' = inOrder /\ \A ref : pick(ref)' = pick(ref)
  BY <1>1, <1>2, <1>3
<1>5. Wanted' = Wanted
  <2>1. /\ Wanted = FlattenSeq([i \in DOMAIN stmt.select |-> want(i)])
        /\ Wanted' = FlattenSeq([i \in DOMAIN stmt'.select |-> want(i)'])
    BY DEF Wanted
  <2> HIDE DEF inOrder, pick
  <2>2. \A i : want(i)' = want(i)
    BY <1>4
  <2> HIDE DEF want
  <2> QED BY <2>1, <2>2
<1> QED BY <1>2, <1>3, <1>5 DEF WellFormed

LEMMA AcceptsStep ==
    ASSUME WholeInv, AcceptsWellFormed, [RunNext]_allRunVars,
           \A s \in Statements : NamesFound(s) /\ FiltersLocal(s) /\ KeysReach(s)
    PROVE  AcceptsWellFormed'
<1> USE DEF Planning, Planned, Cleaning, Ended
<1>1. StmtInv /\ ScanInv /\ ListsInv /\ TermsInv /\ ItemsInv
  BY DEF WholeInv, ListedInv, PlanInv, Inv
<1> DEFINE Bad == {"thrown", "unwind", "crash"}
<1>2. ASSUME pc' \in Bad, pc \notin Bad, WellFormed
      PROVE  FALSE
  <2>1. DistinctAliases(stmt) /\ stmt # NoStatement /\ stmt \in Statements
    <3>1. NoStatement.from = <<>>
      BY DEF NoStatement, SelectStmt
    <3> QED BY <1>1, <1>2, <3>1 DEF WellFormed, Entries, DistinctAliases, StmtInv
  <2>2. NamesFound(stmt) /\ FiltersLocal(stmt) /\ KeysReach(stmt)
    BY <2>1
  <2>3. CASE ParseThrows
    BY <1>1, <2>1, <2>3 DEF ParseThrows, StmtInv
  <2>4. CASE UnknownTable
    <3>1. Len(aliases) + 1 \in DOMAIN stmt.from
      BY <1>1, <2>4, FromIsList DEF UnknownTable, ScanInv
    <3> QED BY <1>2, <2>4, <3>1 DEF UnknownTable, WellFormed, Entries
  <2>5. CASE JoinKeyOnUnknownAlias \/ JoinKeyOnUnknownColumn
    <3>1. PICK c : c = Head(conjuncts)
      OBVIOUS
    <3>2. PICK l, r : Sides(c) = <<l, r>>
      BY DEF Sides
    <3>3. /\ pc = "classify" /\ conjuncts # <<>> /\ IsJoinKey(c)
          /\ ~Known(l) \/ ~HasColumn(l) \/ ~Known(r) \/ ~HasColumn(r)
      BY <2>5, <3>1, <3>2 DEF JoinKeyOnUnknownAlias, JoinKeyOnUnknownColumn, Classifying
    <3>4. c \in ToSet(Terms)
      BY <1>1, <3>1, <3>3, HeadAndTail DEF ListsInv, TermsInv
    <3>5. HasColumn(c.left) /\ HasColumn(c.right)
      BY <1>1, <1>2, <2>2, <3>3, <3>4, KeysHaveColumns DEF ScanInv
    <3>6. l \in {c.left, c.right} /\ r \in {c.left, c.right}
      <4>1. <<l, r>> = <<c.left, c.right>> \/ <<l, r>> = <<c.right, c.left>>
        BY <3>2 DEF Sides
      <4> QED BY <4>1
    <3>7. HasColumn(l) /\ HasColumn(r)
      BY <3>5, <3>6
    <3> QED BY <3>3, <3>7 DEF HasColumn
  <2>6. CASE RejectItem
    <3>1. PICK item : item = Head(items)
      OBVIOUS
    <3>2. pc = "select" /\ items # <<>> /\ item # Star /\ ~(item.kind = "col" /\ Resolves(item))
      BY <2>6, <3>1 DEF RejectItem, Selecting
    <3>3. items \in Seq(ToSet(stmt.select))
      BY <1>1, <3>2 DEF ItemsInv
    <3>4. item \in ToSet(stmt.select)
      BY <3>1, <3>2, <3>3
    <3>5. item \in Refs
      BY <3>2, <3>4 DEF Refs, RefsIn
    <3>6. Len(aliases) = Len(stmt.from)
      BY <1>1, <3>2 DEF ScanInv
    <3> QED BY <1>1, <1>2, <2>2, <3>2, <3>5, <3>6, WellNamed
  <2>7. CASE ProduceThrows
    <3>1. pc = "planned" /\ ~HasCode
      BY <2>7 DEF ProduceThrows, CleanUp, Goto
    <3> QED BY <1>2, <2>2, <3>1, WellFormedHasCode
  <2> QED BY <1>2, <2>3, <2>4, <2>5, <2>6, <2>7
        DEF RunNext, Parse, Plan, PlanNext, CreateScan, FlattenWhere, ClassifyFilter, ClassifyJoinKey,
            ClassifyPostJoin, WrapScans, JoinNext, WrapPostJoin, ResolveItem, ReturnPlan,
            Produce, Compile, CompileThrows, ReturnExplained, Execute, Release, Collect,
            DeleteChild, Delete, Leave, CleanUp, Goto, Still, allRunVars, planVars
<1>3. pc' \in Bad => stmt' = stmt
  BY DEF RunNext, ParseThrows, Parse, Plan, PlanNext, CreateScan, UnknownTable, FlattenWhere,
         ClassifyFilter, ClassifyJoinKey, JoinKeyOnUnknownAlias, JoinKeyOnUnknownColumn,
         ClassifyPostJoin, WrapScans, JoinNext, WrapPostJoin, ResolveItem, RejectItem, ReturnPlan, Throw,
         Produce, ProduceThrows, Compile, CompileThrows, ReturnExplained, Execute, Release, Collect,
         DeleteChild, Delete, Leave, CleanUp, Goto, Still, allRunVars, planVars
<1> QED BY <1>2, <1>3, WellFormedKept DEF AcceptsWellFormed

(* A well-formed statement is planned and has code, whatever the tables    *)
(* and terms are, if no name of it is taken for another column's, no       *)
(* filter of one alias uses another table's column unqualified, and each   *)
(* key names one of the first two tables (JoinsWhatItHas shows the code    *)
(* reject one that does not).                                              *)
THEOREM WellFormedAccepted ==
    ASSUME \A s \in Statements : NamesFound(s) /\ FiltersLocal(s) /\ KeysReach(s)
    PROVE  RunSpec => []AcceptsWellFormed
<1>1. RunInit => WholeInv /\ AcceptsWellFormed
  <2>1. RunInit => pc = "text"
    BY DEF RunInit, PlanInit
  <2> QED BY <2>1, WholeInvInit DEF AcceptsWellFormed
<1>2. WholeInv /\ AcceptsWellFormed /\ [RunNext]_allRunVars => WholeInv' /\ AcceptsWellFormed'
  BY WholeInvStep, AcceptsStep
<1> QED BY <1>1, <1>2, PTL DEF RunSpec, allRunVars

-----------------------------------------------------------------------------
(* That a statement with code is well formed *)

(* A property that the root has, and with an operator its inputs, all      *)
(* have: of those that do not, take the highest.                           *)
LEMMA FromAbove ==
    ASSUME TreeInv, HeapInv, ScanInv, pc \in Planned, NEW Good, planRoot \in Good,
           \A up \in heap : up \in Good => Kids(up) \subseteq Good
    PROVE  heap \subseteq Good
<1> DEFINE bad    == heap \ Good
           depths == {Len(aliases) + 1 - Rank(op) : op \in bad}
<1> SUFFICES ASSUME bad # {} PROVE FALSE
  OBVIOUS
<1>1. \A op \in heap : Len(aliases) + 1 - Rank(op) \in Nat /\ Rank(op) \in Nat
  BY DEF TreeInv, ScanInv
<1>2. depths \subseteq Nat /\ depths # {}
  BY <1>1
<1>3. PICK d \in depths : \A e \in depths : ~(e < d)
  BY <1>2, LeastNatural
<1>4. PICK op \in bad : d = Len(aliases) + 1 - Rank(op)
  OBVIOUS
<1>5. HasParent(op)
  BY <1>4 DEF TreeInv
<1>6. PICK up \in heap : op \in Kids(up) /\ Rank(op) < Rank(up)
  BY <1>5 DEF HasParent
<1>7. up \in bad
  BY <1>4, <1>6
<1>8. Len(aliases) + 1 - Rank(up) < Len(aliases) + 1 - Rank(op)
  <2>1. Len(aliases) \in Nat
    BY DEF ScanInv
  <2> QED BY <1>1, <1>4, <1>6, <2>1
<1> QED BY <1>3, <1>4, <1>7, <1>8

(* A qualified name that is found is resolved.                             *)
LEMMA QualifiedResolves ==
    ASSUME ScanInv, NEW ref, ref.alias # "", HasColumn(ref)
    PROVE  Resolves(ref)
<1>1. ref.alias \in DOMAIN scans /\ Found(scans[ref.alias], <<ref.name>>) # {}
  BY DEF HasColumn, Known
<1>2. Owners(ref) = {ref.alias}
  BY <1>1 DEF Owners
<1> QED BY <1>1, <1>2 DEF Resolves

LEMMA TermsResolve ==
    ASSUME WholeInv, pc = "planned", HasCode, DistinctAliases(stmt), FiltersKnown(stmt),
           NEW c \in ToSet(Terms), NEW ref \in RefsOf(c)
    PROVE  Resolves(ref)
<1> USE DEF WholeInv, ListedInv, PlanInv, Inv
<1>1. \A op \in heap : Generates[op]
  <2> DEFINE Good == {op \in heap : Generates[op]}
  <2>1. planRoot \in Good /\ pc \in Planned
    BY DEF HeapInv, Planned, HasCode
  <2>2. \A up \in heap : up \in Good => Kids(up) \subseteq Good
    BY InputsAreKids, GeneratesIs
  <2> HIDE DEF Good
  <2>3. heap \subseteq Good
    BY <2>1, <2>2, FromAbove
  <2> QED BY <2>3 DEF Good
<1>2. ~Nowhere(c)
  <2> SUFFICES ASSUME Nowhere(c) PROVE FALSE
    OBVIOUS
  <2>1. ConjunctAliases(c) \subseteq {stmt.from[n].alias : n \in DOMAIN stmt.from}
    BY TermRefs DEF Nowhere, FiltersKnown
  <2>2. ConjunctAliases(c) # {}
    BY FS_EmptySet DEF Nowhere
  <2>3. PICK n \in DOMAIN stmt.from : stmt.from[n].alias \in ConjunctAliases(c)
    BY <2>1, <2>2
  <2>4. n \in 1..Len(aliases)
    BY FromIsList DEF ScanInv, Planned
  <2>5. stmt.from[n].alias \in DOMAIN scans
    BY <2>4, ScansInOrder DEF ScanInv
  <2> QED BY <2>3, <2>5 DEF Nowhere
<1>3. PICK op \in heap : Applies(op, c)
  BY <1>2 DEF TermsInv, Applied
<1>4. Fits(op)
  BY <1>1, GeneratesIs
<1>5. CASE op.kind = "select" /\ c \in ToSet(op.conjuncts)
  BY <1>4, <1>5 DEF Fits, InScope
<1>6. CASE IsJoinKey(c)
  <2>1. HasColumn(c.left) /\ HasColumn(c.right)
    BY <1>6 DEF OriginInv
  <2>2. RefsOf(c) = {c.left, c.right}
    BY <1>6, TermsAreList DEF IsJoinKey
  <2>3. c.left.alias # "" /\ c.right.alias # ""
    BY <1>6, <2>2, KeyAliases
  <2>4. Resolves(c.left) /\ Resolves(c.right)
    BY <2>1, <2>3, QualifiedResolves
  <2> QED BY <2>2, <2>4
<1> QED BY <1>3, <1>5, <1>6 DEF Applies

LEMMA CodeIsWellFormed ==
    ASSUME WholeInv, pc = "planned", HasCode, DistinctAliases(stmt), NamesFound(stmt), FiltersKnown(stmt)
    PROVE  WellFormed
<1> USE DEF WholeInv, ListedInv, PlanInv, Inv
<1>1. Len(aliases) = Len(stmt.from) /\ stmt \in Statements
  BY DEF ScanInv, StmtInv, Planned
<1>2. stmt.from # <<>>
  BY <1>1, StatementAssumption
<1>3. \A n \in Entries : stmt.from[n].table \in DOMAIN Catalog
  BY <1>1, FromIsList DEF ScanInv, Entries
<1>4. /\ \A i \in DOMAIN stmt.select : IsColumn(stmt.select[i])
      /\ outs = Outputs
  BY OutsResolved
<1>5. ASSUME NEW ref \in Refs PROVE ref.kind = "col" /\ Resolves(ref)
  <2>1. CASE ref \in ToSet(stmt.select) \ {Star}
    <3>1. IsColumn(ref)
      BY <1>4, <2>1 DEF ToSet
    <3> QED BY <2>1, <3>1 DEF IsColumn
  <2>2. CASE stmt.where # NoWhere /\ ref \in RefsOf(stmt.where)
    <3>1. PICK c \in ToSet(Terms) : ref \in RefsOf(c)
      BY <1>1, <2>2, TermAssumption DEF Terms
    <3> QED BY <3>1, TermRefs, TermsResolve
  <2> QED BY <2>1, <2>2 DEF Refs, RefsIn
<1>6. \A ref \in Refs : ref.kind = "col" /\ \E iu \in Named(ref) : Named(ref) = {iu}
  BY <1>1, <1>5, ResolvesNamed
<1>7. Len(Wanted) <= OutSlots
  BY <1>1, <1>4, OutputsWanted DEF HasCode
<1> QED BY <1>2, <1>3, <1>6, <1>7 DEF WellFormed, DistinctAliases, Entries

(* Code is generated for a well-formed statement only, if no alias comes   *)
(* twice, no name is taken for another column's and the alias of each      *)
(* filter is in FROM (ReportsUnknownAlias shows that of one that is not    *)
(* lost): every name of the SELECT list and of the WHERE means one column. *)
THEOREM CodeOnlyForWellFormed ==
    ASSUME \A s \in Statements : DistinctAliases(s) /\ NamesFound(s) /\ FiltersKnown(s)
    PROVE  RunSpec => []RejectsIllFormed
<1>1. RunInit => WholeInv /\ RejectsIllFormed
  <2>1. RunInit => pc = "text"
    BY DEF RunInit, PlanInit
  <2> QED BY <2>1, WholeInvInit DEF RejectsIllFormed
<1>2. ASSUME WholeInv, RejectsIllFormed, [RunNext]_allRunVars PROVE RejectsIllFormed'
  <2>1. Produce \/ pc' # "generated" \/ (pc' = pc /\ stmt' = stmt)
    <3>1. CASE (\E s \in Statements : Parse(s)) \/ ParseThrows
      BY <3>1 DEF Parse, ParseThrows, Throw
    <3>2. CASE PlanNext
      BY <3>2 DEF PlanNext, CreateScan, UnknownTable, FlattenWhere, ClassifyFilter, ClassifyJoinKey,
         JoinKeyOnUnknownAlias, JoinKeyOnUnknownColumn, ClassifyPostJoin, WrapScans, JoinNext,
         WrapPostJoin, ResolveItem, RejectItem, ReturnPlan, Throw, Classifying, Selecting
    <3>3. CASE Compile \/ Execute \/ Release \/ Leave
      BY <3>3 DEF Compile, Execute, Release, Leave, Goto
    <3>4. CASE ProduceThrows \/ CompileThrows \/ ReturnExplained \/ Collect
      BY <3>4 DEF ProduceThrows, CompileThrows, ReturnExplained, Collect, CleanUp, Goto
    <3>5. CASE DeleteChild \/ Delete \/ UNCHANGED allRunVars
      BY <3>5 DEF DeleteChild, Delete, Still, allRunVars, planVars
    <3> QED BY <1>2, <3>1, <3>2, <3>3, <3>4, <3>5 DEF RunNext, Plan
  <2>2. CASE Produce
    <3>1. pc = "planned" /\ HasCode /\ stmt' = stmt
      BY <2>2 DEF Produce, Goto, Still
    <3>2. stmt \in Statements
      BY <1>2, <3>1 DEF WholeInv, ListedInv, PlanInv, Inv, StmtInv, Planned
    <3>3. DistinctAliases(stmt) /\ NamesFound(stmt) /\ FiltersKnown(stmt)
      BY <3>2
    <3>4. WellFormed
      BY <1>2, <3>1, <3>3, CodeIsWellFormed
    <3> QED BY <3>1, <3>4, WellFormedKept DEF RejectsIllFormed
  <2>3. CASE pc' = pc /\ stmt' = stmt
    BY <1>2, <2>3, WellFormedKept DEF RejectsIllFormed
  <2> QED BY <2>1, <2>2, <2>3 DEF RejectsIllFormed
<1>3. WholeInv /\ RejectsIllFormed /\ [RunNext]_allRunVars => WholeInv' /\ RejectsIllFormed'
  BY <1>2, WholeInvStep
<1> QED BY <1>1, <1>3, PTL DEF RunSpec, allRunVars
=============================================================================
