---------------------------- MODULE Runner_proofs ----------------------------
(***************************************************************************)
(* Theorems about Runner, for any statements, catalog and predicates: what *)
(* the planner builds is about the tables of FROM, and runQuery deletes    *)
(* each operator of it once.  The first needs that the heap has with every *)
(* operator its inputs; the second, which is about statements whose        *)
(* aliases are distinct, that every operator but the root is an input of   *)
(* one above it, by a rank, so that the walk from the root misses none.    *)
(***************************************************************************)
EXTENDS Runner, Induction, FiniteSetTheorems

allRunVars == <<planVars, runVars>>

Planning == {"scan", "classify", "join", "select"}
Cleaning == {"unwind", "nojit", "explained", "collected"}
Ended    == {"failed", "nocode", "returned"}
Planned  == {"planned", "generated", "compiled", "executed", "released"} \cup Cleaning \cup Ended

StmtInv ==
    /\ pc \in {"text", "thrown", "crash"} \cup Planning \cup Planned
    /\ stmt \in Statements \cup {NoStatement}
    /\ pc = "text" => stmt = NoStatement
    /\ pc \in Planning \cup Planned => stmt \in Statements

(* The first entries of FROM have scans, each alias the last of its name.  *)
ScanInv ==
    /\ aliases \in Seq(ToSet(aliases))
    /\ Len(aliases) <= Len(stmt.from)
    /\ \A n \in 1..Len(aliases) :
          aliases[n] = stmt.from[n].alias /\ stmt.from[n].table \in DOMAIN Catalog
    /\ scans \in [ToSet(aliases) -> 1..Len(aliases)]
    /\ \A a \in ToSet(aliases) : aliases[scans[a]] = a
    /\ pc \in (Planning \ {"scan"}) \cup Planned => Len(aliases) = Len(stmt.from)
    /\ pc = "text" => aliases = <<>>
    /\ joined \in 0..Len(aliases)
    /\ pc = "join" => joined # 0

IUs == UNION {{n} \X DOMAIN Columns(n) : n \in 1..Len(aliases)}
OutsInv ==
    /\ outs \in Seq(IUs)
    /\ pc \in {"text", "scan", "classify", "join"} => outs = <<>>

-----------------------------------------------------------------------------
LEMMA AppendToSet ==
    ASSUME NEW S, NEW s \in Seq(S), NEW x
    PROVE  ToSet(Append(s, x)) = ToSet(s) \cup {x}
<1> DEFINE t == Append(s, x)
<1>1. /\ Len(s) \in Nat /\ DOMAIN s = 1..Len(s) /\ DOMAIN t = 1..Len(s)+1
      /\ \A i \in 1..Len(s)+1 : t[i] = IF i = Len(s) + 1 THEN x ELSE s[i]
  OBVIOUS
<1> HIDE DEF t
<1>2. ToSet(t) = ToSet(s) \cup {x}
  BY <1>1 DEF ToSet
<1> QED BY <1>2 DEF t

LEMMA FromIsList ==
    ASSUME StmtInv
    PROVE  /\ Len(stmt.from) \in Nat /\ DOMAIN stmt.from = 1..Len(stmt.from)
           /\ pc \in Planning \cup Planned => Len(stmt.from) > 0
<1>1. CASE stmt \in Statements
  <2>1. stmt.from # <<>> /\ stmt.from \in Seq(ToSet(stmt.from))
    BY <1>1, StatementAssumption
  <2> QED BY <2>1
<1>2. CASE stmt = NoStatement
  <2>1. stmt.from = <<>>
    BY <1>2 DEF NoStatement, SelectStmt
  <2>2. pc \notin Planning \cup Planned
    <3>1. \A s \in Statements : s.from # <<>>
      BY StatementAssumption
    <3> QED BY <1>2, <2>1, <3>1 DEF StmtInv
  <2> QED BY <2>1, <2>2
<1> QED BY <1>1, <1>2 DEF StmtInv

LEMMA StmtInvStep == ASSUME StmtInv, [RunNext]_allRunVars PROVE StmtInv'
<1> USE DEF StmtInv, Planning, Planned, Cleaning, Ended
<1>1. CASE \E s \in Statements : Parse(s)
  BY <1>1 DEF Parse
<1>2. CASE ParseThrows
  BY <1>2 DEF ParseThrows, Throw
<1>3. CASE PlanNext
  BY <1>3 DEF PlanNext, CreateScan, UnknownTable, FlattenWhere, ClassifyFilter, ClassifyJoinKey,
     JoinKeyOnUnknownAlias, JoinKeyOnUnknownColumn, ClassifyPostJoin, WrapScans, JoinNext,
     WrapPostJoin, ResolveItem, RejectItem, ReturnPlan, Throw, Classifying, Selecting
<1>4. CASE stmt' = stmt /\ pc' = pc
  BY <1>4
<1>5. CASE Produce \/ Compile \/ Execute \/ Release \/ Leave
  BY <1>5 DEF Produce, Compile, Execute, Release, Leave, Goto, Still
<1>6. CASE ProduceThrows \/ CompileThrows \/ ReturnExplained \/ Collect
  BY <1>6 DEF ProduceThrows, CompileThrows, ReturnExplained, Collect, CleanUp, Goto, Still
<1>7. CASE DeleteChild \/ Delete
  BY <1>4, <1>7 DEF DeleteChild, Delete, Still
<1>8. CASE UNCHANGED allRunVars
  BY <1>4, <1>8 DEF allRunVars, planVars
<1> QED BY <1>1, <1>2, <1>3, <1>5, <1>6, <1>7, <1>8 DEF RunNext, Plan

(* The steps that do not extend the plan, as far as the plan can tell.     *)
Rest ==
    /\ UNCHANGED <<stmt, aliases, scans, tree, outs, heap>>
    /\ \/ pc' = pc \/ pc' \in {"thrown", "crash"}
       \/ pc = "scan" /\ pc' = "classify" /\ Len(aliases) = Len(stmt.from)
       \/ pc = "select" /\ pc' = "planned"
       \/ pc \in Planned /\ pc' \in Planned

LEMMA Course ==
    ASSUME [RunNext]_allRunVars
    PROVE  \/ \E s \in Statements : Parse(s)
           \/ (CreateScan \/ WrapScans \/ JoinNext \/ WrapPostJoin \/ ResolveItem)
              /\ UNCHANGED runVars
           \/ Rest
<1>1. CASE ParseThrows
  BY <1>1 DEF ParseThrows, Throw, Rest
<1>2. CASE Plan
  BY <1>2 DEF Plan, PlanNext, Rest, UnknownTable, FlattenWhere, ClassifyFilter, ClassifyJoinKey,
     JoinKeyOnUnknownAlias, JoinKeyOnUnknownColumn, ClassifyPostJoin, RejectItem, ReturnPlan, Throw,
     Selecting
<1> USE DEF Planned, Cleaning, Ended
<1>3. CASE Produce \/ Compile \/ Execute \/ Release \/ Leave
  BY <1>3 DEF Rest, Produce, Compile, Execute, Release, Leave, Goto, Still
<1>4. CASE ProduceThrows \/ CompileThrows \/ ReturnExplained \/ Collect
  BY <1>4 DEF Rest, ProduceThrows, CompileThrows, ReturnExplained, Collect, CleanUp, Goto, Still
<1>5. CASE DeleteChild \/ Delete
  BY <1>5 DEF Rest, DeleteChild, Delete, Still
<1>6. CASE UNCHANGED allRunVars
  BY <1>6 DEF Rest, allRunVars, planVars, tree
<1> QED BY <1>1, <1>2, <1>3, <1>4, <1>5, <1>6 DEF RunNext

LEMMA ScanInvStep ==
    ASSUME StmtInv, ScanInv, [RunNext]_allRunVars
    PROVE  ScanInv'
<1> USE DEF Planning, Planned, Cleaning, Ended
<1>1. /\ Len(stmt.from) \in Nat
      /\ pc \in Planning \cup Planned => Len(stmt.from) > 0
  BY FromIsList
<1>2. CASE \E s \in Statements : Parse(s)
  <2>1. aliases = <<>> /\ aliases' = <<>> /\ scans' = scans /\ joined' = joined /\ pc' = "scan"
    BY <1>2 DEF Parse, ScanInv, tree
  <2>2. stmt' \in Statements
    BY <1>2 DEF Parse
  <2>3. Len(stmt'.from) \in Nat
    BY <2>2, StatementAssumption
  <2> QED BY <2>1, <2>3 DEF ScanInv, ToSet
<1>3. CASE CreateScan
  <2> DEFINE n == Len(aliases) + 1
             ref == stmt.from[n]
             a == ref.alias
  <2>1. /\ pc = "scan" /\ pc' = pc /\ stmt' = stmt /\ joined' = joined /\ n <= Len(stmt.from)
        /\ ref.table \in DOMAIN Catalog
        /\ scans' = Put(scans, a, n)
        /\ aliases' = Append(aliases, a)
    BY <1>1, <1>3 DEF CreateScan, ScanInv, tree
  <2>2. /\ aliases \in Seq(ToSet(aliases)) /\ scans \in [ToSet(aliases) -> 1..Len(aliases)]
        /\ Len(aliases) \in Nat
    BY DEF ScanInv
  <2> HIDE DEF n, ref, a
  <2>3. ToSet(aliases') = ToSet(aliases) \cup {a}
    BY <2>1, <2>2, AppendToSet
  <2>4. scans' = [b \in ToSet(aliases') |-> IF b = a THEN n ELSE scans[b]]
    BY <2>1, <2>2, <2>3 DEF Put
  <2>5. /\ Len(aliases') = n /\ n \in Nat /\ n = Len(aliases) + 1
        /\ \A i \in 1..n : aliases'[i] = IF i = n THEN a ELSE aliases[i]
    BY <2>1, <2>2 DEF n
  <2>6. aliases' \in Seq(ToSet(aliases'))
    BY <2>1, <2>2, <2>3
  <2>7. \A i \in 1..n : aliases'[i] = stmt.from[i].alias /\ stmt.from[i].table \in DOMAIN Catalog
    BY <2>1, <2>5 DEF ScanInv, ref, a
  <2>8. scans' \in [ToSet(aliases') -> 1..n]
    BY <2>2, <2>3, <2>4, <2>5
  <2>9. \A b \in ToSet(aliases') : aliases'[scans'[b]] = b
    BY <2>2, <2>3, <2>4, <2>5 DEF ScanInv
  <2>10. joined' \in 0..n /\ n <= Len(stmt'.from)
    BY <2>1, <2>5 DEF ScanInv
  <2> HIDE DEF Planning, Planned, Cleaning, Ended
  <2>11. /\ ~(pc' \in (Planning \ {"scan"}) \cup Planned)
         /\ pc' # "text" /\ pc' # "join"
    BY <2>1 DEF Planning, Planned, Cleaning, Ended
  <2> QED BY <2>1, <2>5, <2>6, <2>7, <2>8, <2>9, <2>10, <2>11 DEF ScanInv
<1>4. CASE WrapScans
  BY <1>1, <1>4 DEF WrapScans, ScanInv
<1>5. CASE JoinNext
  BY <1>5 DEF JoinNext, ScanInv
<1>6. CASE WrapPostJoin \/ ResolveItem
  BY <1>6 DEF WrapPostJoin, ResolveItem, Selecting, ScanInv, tree
<1>7. CASE Rest
  BY <1>7 DEF Rest, ScanInv, StmtInv, tree
<1> QED BY <1>2, <1>3, <1>4, <1>5, <1>6, <1>7, Course

-----------------------------------------------------------------------------
(* The IUs of the SELECT list *)

(* The lists that FlattenSeq puts together, so far *)
LEMMA FlattenRuns ==
    ASSUME NEW S, NEW seqs \in Seq(Seq(S))
    PROVE  \E f : /\ f \in [0..Len(seqs) -> Seq(S)]
                  /\ f[0] = <<>>
                  /\ \A n \in 1..Len(seqs) : f[n] = f[n - 1] \o seqs[n]
                  /\ FlattenSeq(seqs) = f[Len(seqs)]
<1> DEFINE m == Len(seqs)
           T == Seq(S)
           Is(w) == w = [i \in 1..m |-> IF i = 1 THEN seqs[i] ELSE w[i - 1] \o seqs[i]]
           step == [n \in 1..m |-> [v \in T |-> v \o seqs[n]]]
           Runs(f) == f \in [0..m -> T] /\ f[0] = <<>> /\ \A n \in 1..m : f[n] = f[n - 1] \o seqs[n]
<1>1. m \in Nat /\ (\A i \in 1..m : seqs[i] \in T) /\ <<>> \in T
  OBVIOUS
<1>2. \A v, w \in T : v \o w \in T
  OBVIOUS
<1>3. \A v \in T : <<>> \o v = v
  OBVIOUS
<1>4. m = 0 => FlattenSeq(seqs) = seqs /\ seqs = <<>>
  <2>1. m = 0 => FlattenSeq(seqs) = seqs
    BY Zenon DEF FlattenSeq
  <2>2. m = 0 => seqs = <<>>
    OBVIOUS
  <2> QED BY <2>1, <2>2
<1>5. m # 0 => FlattenSeq(seqs) = (CHOOSE w : Is(w))[m]
  BY Zenon DEF FlattenSeq
<1> HIDE DEF m, T
<1>6. PICK f : Recursive(f, m, T, <<>>, step)
  <2>1. step \in [1..m -> [T -> T]]
    BY <1>1, <1>2
  <2> HIDE DEF step
  <2> QED BY <1>1, <2>1, RecursionExists
<1>7. /\ f \in [0..m -> T] /\ f[0] = <<>>
      /\ \A n \in 1..m : f[n] = step[n][f[n - 1]]
  BY <1>6, Zenon DEF Recursive
<1>8. \A n \in 1..m : n - 1 \in 0..m /\ n \in 0..m
  BY <1>1
<1>9. Runs(f)
  BY <1>7, <1>8
<1> HIDE DEF step
<1>10. CASE m = 0
  <2>1. FlattenSeq(seqs) = f[m]
    BY <1>4, <1>9, <1>10
  <2> QED BY <1>9, <2>1 DEF m, T
<1>11. CASE m # 0
  <2> DEFINE g == [i \in 1..m |-> f[i]]
  <2>1. \A i \in 1..m : g[i] = IF i = 1 THEN seqs[i] ELSE g[i - 1] \o seqs[i]
    <3> SUFFICES ASSUME NEW i \in 1..m PROVE g[i] = IF i = 1 THEN seqs[i] ELSE g[i - 1] \o seqs[i]
      OBVIOUS
    <3>1. CASE i = 1
      <4>1. 1 \in 1..m /\ 1 - 1 = 0
        BY <3>1
      <4>2. f[1] = f[0] \o seqs[1]
        BY <1>9, <4>1
      <4> QED BY <1>1, <1>3, <1>9, <3>1, <4>2
    <3>2. CASE i # 1
      <4>1. i - 1 \in 1..m
        BY <1>1, <3>2
      <4> QED BY <1>9, <3>2, <4>1
    <3> QED BY <3>1, <3>2
  <2>2. Is(g)
    <3>1. g = [i \in 1..m |-> g[i]]
      OBVIOUS
    <3> HIDE DEF g
    <3> QED BY <2>1, <3>1
  <2> DEFINE flatten == CHOOSE w : Is(w)
  <2>3. FlattenSeq(seqs) = flatten[m]
    BY <1>5, <1>11
  <2>4. Is(flatten)
    <3> HIDE DEF Is, g
    <3> QED BY <2>2, Zenon
  <2> HIDE DEF flatten, g
  <2>5. \A i \in 1..m : flatten[i] = IF i = 1 THEN seqs[i] ELSE flatten[i - 1] \o seqs[i]
    BY <2>4
  <2> DEFINE Good == {n \in 0..m : n # 0 => flatten[n] = f[n]}
  <2>6. 0 \in Good
    BY <1>1
  <2>7. ASSUME NEW n \in 0..m, n < m, n \in Good
        PROVE  n + 1 \in Good
    <3>1. n + 1 \in 1..m /\ n + 1 \in 0..m /\ (n + 1) - 1 = n
      BY <1>1, <2>7
    <3>2. f[n + 1] = f[n] \o seqs[n + 1]
      BY <1>9, <3>1
    <3>3. CASE n = 0
      <4>1. n + 1 = 1
        BY <3>3
      <4>2. flatten[n + 1] = seqs[n + 1]
        BY <2>5, <3>1, <4>1
      <4>3. f[n] = <<>> /\ seqs[n + 1] \in T
        <5>1. f[0] = <<>>
          BY <1>9
        <5> QED BY <1>1, <3>1, <3>3, <5>1
      <4>4. <<>> \o seqs[n + 1] = seqs[n + 1]
        BY <1>3, <4>3
      <4> QED BY <3>1, <3>2, <4>2, <4>3, <4>4
    <3>4. CASE n # 0
      <4>1. n + 1 # 1
        BY <3>4
      <4> QED BY <2>5, <2>7, <3>1, <3>2, <3>4, <4>1
    <3> QED BY <3>3, <3>4
  <2> HIDE DEF Good
  <2>8. 0..m \subseteq Good
    BY <1>1, <2>6, <2>7, UpTo
  <2>9. m \in 0..m
    BY <1>1
  <2>10. FlattenSeq(seqs) = f[m]
    BY <1>11, <2>3, <2>8, <2>9 DEF Good
  <2> QED BY <1>9, <2>10 DEF m, T
<1> QED BY <1>10, <1>11

LEMMA FlattenTyped ==
    ASSUME NEW S, NEW seqs \in Seq(Seq(S))
    PROVE  FlattenSeq(seqs) \in Seq(S)
<1>1. PICK f : /\ f \in [0..Len(seqs) -> Seq(S)]
               /\ FlattenSeq(seqs) = f[Len(seqs)]
  BY FlattenRuns
<1>2. Len(seqs) \in 0..Len(seqs)
  OBVIOUS
<1> QED BY <1>1, <1>2

LEMMA MinIn ==
    ASSUME NEW T, T \subseteq Nat, T # {}
    PROVE  Min(T) \in T /\ \A y \in T : Min(T) <= y
<1>1. \E x \in T : \A y \in T : ~(y < x)
  BY LeastNatural
<1>2. \E x \in T : \A y \in T : x <= y
  BY <1>1
<1> QED BY <1>2 DEF Min

LEMMA IsOwnSuffix == ASSUME NEW S, NEW s \in Seq(S) PROVE IsSuffix(s, s)
BY DEF IsSuffix, IsPrefix, Reverse

(* A name that is found is the name of a column.                           *)
LEMMA ColumnFound ==
    ASSUME ScanInv, NEW n \in 1..Len(aliases), NEW name, Found(n, name) # {}
    PROVE  GetIU(n, name) \in IUs
<1>1. Columns(n) \in Seq(ToSet(Columns(n)))
  BY CatalogAssumption DEF ScanInv, Columns
<1>2. Found(n, name) \subseteq DOMAIN Columns(n) /\ DOMAIN Columns(n) \subseteq Nat
  BY <1>1 DEF Found
<1>3. Min(Found(n, name)) \in DOMAIN Columns(n)
  BY <1>2, MinIn
<1> QED BY <1>3 DEF GetIU, IUs

LEMMA ResolvedIsIU ==
    ASSUME ScanInv, NEW ref, Resolves(ref)
    PROVE  IUOf(ref) \in IUs
<1>1. PICK a \in Owners(ref) : Owners(ref) = {a} /\ Found(scans[a], <<ref.name>>) # {}
  BY DEF Resolves
<1>2. scans[a] \in 1..Len(aliases)
  BY <1>1 DEF Owners, ScanInv
<1>3. IUOf(ref) = GetIU(scans[a], <<ref.name>>)
  BY <1>1 DEF IUOf
<1> QED BY <1>1, <1>2, <1>3, ColumnFound

LEMMA ExpandedAreIUs == ASSUME ScanInv PROVE Expanded \in Seq(IUs)
<1> DEFINE ofAlias(n) == LET scan == scans[aliases[n]]
                         IN  [c \in DOMAIN Columns(scan) |-> GetIU(scan, Columns(scan)[c])]
           lists == [n \in DOMAIN aliases |-> ofAlias(n)]
<1>1. ASSUME NEW n \in DOMAIN aliases
      PROVE  ofAlias(n) \in Seq(IUs)
  <2> DEFINE scan == scans[aliases[n]]
             cols == Columns(scan)
  <2>1. scan \in 1..Len(aliases)
    BY DEF ScanInv, ToSet
  <2>2. stmt.from[scan].table \in DOMAIN Catalog
    BY <2>1 DEF ScanInv
  <2>3. cols \in Seq(ToSet(cols)) /\ \A name \in ToSet(cols) : name \in Seq(ToSet(name))
    BY <2>2, CatalogAssumption DEF Columns
  <2>4. ASSUME NEW c \in DOMAIN cols
        PROVE  GetIU(scan, cols[c]) \in IUs
    <3>1. cols[c] \in ToSet(cols)
      BY DEF ToSet
    <3>2. c \in Found(scan, cols[c])
      BY <2>3, <3>1, IsOwnSuffix DEF Found
    <3> QED BY <2>1, <3>2, ColumnFound
  <2> HIDE DEF cols, scan
  <2>5. DOMAIN cols = 1..Len(cols) /\ Len(cols) \in Nat
    BY <2>3
  <2>6. [c \in DOMAIN cols |-> GetIU(scan, cols[c])] \in Seq(IUs)
    BY <2>4, <2>5
  <2> QED BY <2>6 DEF cols, scan
<1>2. DOMAIN aliases = 1..Len(aliases) /\ Len(aliases) \in Nat
  BY DEF ScanInv
<1>3. lists \in Seq(Seq(IUs))
  <2> HIDE DEF ofAlias
  <2> QED BY <1>1, <1>2
<1>4. Expanded = FlattenSeq(lists)
  BY DEF Expanded
<1> HIDE DEF lists
<1> QED BY <1>3, <1>4, FlattenTyped

LEMMA OutsInvStep ==
    ASSUME StmtInv, ScanInv, OutsInv, [RunNext]_allRunVars
    PROVE  OutsInv'
<1> USE DEF Planning, Planned, Cleaning, Ended
<1>1. CASE outs' = <<>>
  BY <1>1 DEF OutsInv
<1>2. CASE (\E s \in Statements : Parse(s)) \/ CreateScan \/ WrapScans \/ JoinNext
  BY <1>1, <1>2 DEF OutsInv, Parse, CreateScan, WrapScans, JoinNext, tree
<1>3. CASE WrapPostJoin \/ Rest
  <2>1. outs' = outs /\ aliases' = aliases /\ stmt' = stmt
    BY <1>3 DEF WrapPostJoin, Rest, tree
  <2>2. IUs' = IUs
    BY <2>1 DEF IUs, Columns
  <2>3. pc' \in {"text", "scan", "classify", "join"} => outs = <<>>
    BY <1>3 DEF WrapPostJoin, Rest, OutsInv, StmtInv
  <2> QED BY <2>1, <2>2, <2>3 DEF OutsInv
<1>4. CASE ResolveItem
  <2>1. pc = "select" /\ pc' = pc /\ aliases' = aliases /\ stmt' = stmt
    BY <1>4 DEF ResolveItem, Selecting
  <2>2. IUs' = IUs
    BY <2>1 DEF IUs, Columns
  <2>3. \/ outs' = outs \o Expanded
        \/ Resolves(Head(items)) /\ outs' = Append(outs, IUOf(Head(items)))
    BY <1>4 DEF ResolveItem
  <2>4. outs' \in Seq(IUs)
    <3>1. outs \in Seq(IUs)
      BY DEF OutsInv
    <3>2. CASE outs' = outs \o Expanded
      <4>1. Expanded \in Seq(IUs)
        BY ExpandedAreIUs
      <4> HIDE DEF IUs
      <4> QED BY <3>1, <3>2, <4>1
    <3>3. CASE Resolves(Head(items)) /\ outs' = Append(outs, IUOf(Head(items)))
      <4>1. IUOf(Head(items)) \in IUs
        BY <3>3, ResolvedIsIU
      <4> QED BY <3>1, <3>3, <4>1
    <3> QED BY <2>3, <3>2, <3>3
  <2> QED BY <2>1, <2>2, <2>4 DEF OutsInv
<1> QED BY <1>2, <1>3, <1>4, Course

-----------------------------------------------------------------------------
(* The heap has with every operator its inputs.                            *)

Kinds == {"scan", "select", "join"}
Kids(op) == ToSet(Children(op))

HeapInv ==
    /\ \A op \in heap : op.kind \in Kinds /\ Kids(op) \subseteq heap
    /\ pc \in {"scan", "classify"} => \A n \in 1..Len(aliases) : ScanOf(n) \in heap
    /\ pc = "join" => \A a \in ToSet(aliases) : plans[a] \in heap
    /\ pc \in {"join", "select"} \cup Planned => planRoot \in heap

LEMMA ScanKids == ASSUME NEW n PROVE ScanOf(n).kind = "scan" /\ Kids(ScanOf(n)) = {}
BY DEF ScanOf, Kids, Children, ToSet

LEMMA SelectKids ==
    ASSUME NEW id, NEW child, NEW conds
    PROVE  LET op == Select(id, child, conds)
           IN  op.kind = "select" /\ op.id = id /\ Kids(op) = {child}
<1>1. ToSet(<<child>>) = {child}
  BY DEF ToSet
<1> QED BY <1>1 DEF Select, Kids, Children

LEMMA JoinKids ==
    ASSUME NEW id, NEW build, NEW probe, NEW keys
    PROVE  LET op == HashJoin(id, build, probe, keys)
           IN  op.kind = "join" /\ op.id = id /\ Kids(op) = {build, probe}
<1>1. ToSet(<<build, probe>>) = {build, probe}
  BY DEF ToSet
<1> QED BY <1>1 DEF HashJoin, Kids, Children

LEMMA FilteredKids ==
    ASSUME NEW n
    PROVE  LET scan == ScanOf(scans[aliases[n]])
           IN  \/ Filtered(n) = scan
               \/ /\ Filtered(n).kind = "select" /\ Filtered(n).id = n
                  /\ Kids(Filtered(n)) = {scan}
BY SelectKids DEF Filtered

LEMMA MaxIn ==
    ASSUME NEW m \in Nat, NEW T, T \subseteq 1..m, T # {}
    PROVE  Max(T) \in T
<1> DEFINE U == {m - x : x \in T}
<1>1. U \subseteq Nat /\ U # {}
  <2>1. \A x \in T : m - x \in Nat
    OBVIOUS
  <2> QED BY <2>1
<1>2. PICK u \in U : \A y \in U : ~(y < u)
  BY <1>1, LeastNatural
<1>3. PICK x \in T : u = m - x
  OBVIOUS
<1>4. \A y \in T : x >= y
  <2> TAKE y \in T
  <2>1. ~(m - y < m - x)
    BY <1>2, <1>3
  <2> QED BY <2>1
<1> QED BY <1>4 DEF Max

LEMMA PlansAreFiltered ==
    ASSUME ScanInv, WrapScans, NEW a \in ToSet(aliases)
    PROVE  \E n \in DOMAIN aliases : aliases[n] = a /\ plans'[a] = Filtered(n)
<1> DEFINE T == {n \in DOMAIN aliases : aliases[n] = a}
<1>1. DOMAIN aliases = 1..Len(aliases) /\ Len(aliases) \in Nat
  BY DEF ScanInv
<1>2. T \subseteq 1..Len(aliases) /\ T # {}
  BY <1>1 DEF ToSet
<1>3. Max(T) \in T
  BY <1>1, <1>2, MaxIn
<1>4. plans'[a] = Filtered(Max(T))
  BY DEF WrapScans
<1> QED BY <1>3, <1>4

LEMMA HeapInvStep ==
    ASSUME StmtInv, ScanInv, HeapInv, [RunNext]_allRunVars
    PROVE  HeapInv'
<1> USE DEF Planning, Planned, Cleaning, Ended
<1>1. CASE \E s \in Statements : Parse(s)
  <2>1. aliases = <<>> /\ aliases' = <<>> /\ heap' = heap /\ pc' = "scan"
    BY <1>1 DEF Parse, ScanInv
  <2> QED BY <2>1 DEF HeapInv
<1>2. CASE CreateScan
  <2> DEFINE n == Len(aliases) + 1
  <2>1. /\ pc = "scan" /\ pc' = pc /\ stmt' = stmt /\ Len(aliases) \in Nat
        /\ aliases' = Append(aliases, stmt.from[n].alias)
        /\ heap' = heap \cup {ScanOf(n)}
    BY <1>2 DEF CreateScan, ScanInv
  <2>2. Len(aliases') = n
    BY <2>1 DEF ScanInv
  <2>3. \A i : ScanOf(i)' = ScanOf(i)
    BY <2>1 DEF ScanOf, Columns
  <2>4. \A i \in 1..n : ScanOf(i) \in heap'
    BY <2>1 DEF HeapInv
  <2>5. \A op \in heap' : op.kind \in Kinds /\ Kids(op) \subseteq heap'
    BY <2>1, ScanKids DEF HeapInv, Kinds
  <2> QED BY <2>1, <2>2, <2>3, <2>4, <2>5 DEF HeapInv
<1>3. CASE WrapScans
  <2>1. /\ pc = "classify" /\ pc' = "join" /\ aliases' = aliases
        /\ planRoot' = plans'[aliases[1]]
        /\ heap' = heap \cup {Filtered(n) : n \in DOMAIN aliases}
    BY <1>3 DEF WrapScans
  <2>2. \A n \in DOMAIN aliases : scans[aliases[n]] \in 1..Len(aliases)
    BY DEF ScanInv, ToSet
  <2>3. \A n \in DOMAIN aliases : ScanOf(scans[aliases[n]]) \in heap
    BY <2>1, <2>2 DEF HeapInv
  <2>4. \A n \in DOMAIN aliases : Filtered(n).kind \in Kinds /\ Kids(Filtered(n)) \subseteq heap
    BY <2>3, FilteredKids DEF HeapInv, Kinds
  <2>5. \A op \in heap' : op.kind \in Kinds /\ Kids(op) \subseteq heap'
    BY <2>1, <2>4 DEF HeapInv
  <2>6. \A a \in ToSet(aliases) : plans'[a] \in heap'
    BY <1>3, <2>1, PlansAreFiltered
  <2>7. aliases[1] \in ToSet(aliases)
    BY <2>1, FromIsList DEF ScanInv, ToSet
  <2> QED BY <2>1, <2>5, <2>6, <2>7 DEF HeapInv
<1>4. CASE JoinNext
  <2>1. PICK id, b, p, keys :
           /\ planRoot' = HashJoin(id, b, p, keys)
           /\ b \in {plans[aliases[1]], plans[aliases[joined + 1]]}
           /\ p \in {planRoot, plans[aliases[joined + 1]]}
    <3> DEFINE new == aliases[joined + 1]
    <3>1. CASE joined = 1
      <4>1. planRoot' = HashJoin(1, plans[aliases[1]], plans[new], KeysOf(aliases[1], {new}))
        BY <1>4, <3>1 DEF JoinNext
      <4> QED BY <4>1
    <3>2. CASE joined # 1
      <4>1. planRoot' = HashJoin(joined, plans[new], planRoot, LaterKeys(new))
        BY <1>4, <3>2 DEF JoinNext
      <4> QED BY <4>1
    <3> QED BY <3>1, <3>2
  <2>2. /\ pc = "join" /\ pc' = pc /\ aliases' = aliases /\ plans' = plans
        /\ heap' = heap \cup {planRoot'} /\ joined < Len(aliases)
    BY <1>4 DEF JoinNext
  <2>3. aliases[1] \in ToSet(aliases) /\ aliases[joined + 1] \in ToSet(aliases)
    BY <2>2 DEF ScanInv, ToSet
  <2>4. b \in heap /\ p \in heap
    BY <2>1, <2>2, <2>3 DEF HeapInv
  <2>5. planRoot'.kind = "join" /\ Kids(planRoot') = {b, p}
    BY <2>1, JoinKids
  <2>6. \A op \in heap' : op.kind \in Kinds /\ Kids(op) \subseteq heap'
    BY <2>2, <2>4, <2>5 DEF HeapInv, Kinds
  <2> QED BY <2>2, <2>6 DEF HeapInv
<1>5. CASE WrapPostJoin
  <2>1. /\ pc = "join" /\ pc' = "select" /\ heap' = heap \cup {planRoot'}
        /\ planRoot' \in {planRoot, Select(0, planRoot, postFilters)}
    BY <1>5 DEF WrapPostJoin
  <2>2. planRoot \in heap
    BY <2>1 DEF HeapInv
  <2>3. \A op \in heap' : op.kind \in Kinds /\ Kids(op) \subseteq heap'
    BY <2>1, <2>2, SelectKids DEF HeapInv, Kinds
  <2> QED BY <2>1, <2>3 DEF HeapInv
<1>6. CASE ResolveItem
  BY <1>6 DEF ResolveItem, Selecting, HeapInv, tree
<1>7. CASE Rest
  <2>1. UNCHANGED <<stmt, aliases, plans, planRoot, heap>>
    BY <1>7 DEF Rest, tree
  <2>2. \A i : ScanOf(i)' = ScanOf(i)
    BY <2>1 DEF ScanOf, Columns
  <2> QED BY <1>7, <2>1, <2>2 DEF Rest, HeapInv, StmtInv
<1> QED BY <1>1, <1>2, <1>3, <1>4, <1>5, <1>6, <1>7, Course

-----------------------------------------------------------------------------
(* deleteOperatorTree: what has been seen is deleted or being deleted, and *)
(* the inputs of what has been seen are seen or about to be.               *)

Deleting == {calls[i].op : i \in DOMAIN calls}

CallsInv ==
    /\ calls \in Seq([op : heap, left : Seq(heap)])
    /\ freed \in Seq(heap)
    /\ pc \notin Cleaning \cup Ended => calls = <<>> /\ freed = <<>>
    /\ pc \in Ended => calls = <<>>

WalkInv ==
    pc \in Cleaning \cup Ended =>
        /\ planRoot \in seen
        /\ seen = ToSet(freed) \cup Deleting
        /\ Deleting \cap ToSet(freed) = {}
        /\ \A i, j \in DOMAIN calls : calls[i].op = calls[j].op => i = j
        /\ IsFiniteSet(ToSet(freed)) /\ Cardinality(ToSet(freed)) = Len(freed)
        /\ \A op \in seen : \A kid \in Kids(op) :
              \/ kid \in seen
              \/ \E i \in DOMAIN calls : calls[i].op = op /\ kid \in ToSet(calls[i].left)

(* The steps of runQuery, as far as the walk can tell.                     *)
LEMMA CleanUpCourse ==
    ASSUME StmtInv, [RunNext]_allRunVars
    PROVE  \/ UNCHANGED <<planRoot, cleanup>> /\ heap \subseteq heap'
              /\ (pc' \in Cleaning \cup Ended <=> pc \in Cleaning \cup Ended)
              /\ (pc' \in Ended => pc \in Ended \/ calls = <<>>)
           \/ UNCHANGED cleanup /\ heap \subseteq heap' /\ pc \notin Cleaning \cup Ended
              /\ pc' \notin Cleaning \cup Ended
           \/ \E from, to : CleanUp(from, to) /\ from \in Planned /\ to \in Cleaning
                            /\ from \notin Cleaning \cup Ended
           \/ DeleteChild
           \/ Delete
<1> USE DEF Planning, Planned, Cleaning, Ended
<1>1. CASE (\E s \in Statements : Parse(s)) \/ ParseThrows
  BY <1>1 DEF Parse, ParseThrows, Throw, runVars
<1>2. CASE Plan
  BY <1>2 DEF Plan, runVars, PlanNext, CreateScan, UnknownTable, FlattenWhere, ClassifyFilter,
     ClassifyJoinKey, JoinKeyOnUnknownAlias, JoinKeyOnUnknownColumn, ClassifyPostJoin, WrapScans,
     JoinNext, WrapPostJoin, ResolveItem, RejectItem, ReturnPlan, Throw, Classifying, Selecting
<1>3. CASE Produce \/ Compile \/ Execute \/ Release \/ Leave
  BY <1>3 DEF Produce, Compile, Execute, Release, Leave, Goto, Still, tree
<1>4. CASE ProduceThrows \/ CompileThrows \/ ReturnExplained \/ Collect
  BY <1>4 DEF ProduceThrows, CompileThrows, ReturnExplained, Collect
<1>5. CASE UNCHANGED allRunVars
  BY <1>5 DEF allRunVars, planVars, runVars
<1> QED BY <1>1, <1>2, <1>3, <1>4, <1>5 DEF RunNext

LEMMA ConsTyped ==
    ASSUME NEW S, NEW x \in S, NEW s \in Seq(S)
    PROVE  /\ <<x>> \o s \in Seq(S)
           /\ Len(<<x>> \o s) = Len(s) + 1
           /\ (<<x>> \o s)[1] = x
           /\ \A i \in 1..Len(s) : (<<x>> \o s)[i + 1] = s[i]
OBVIOUS

LEMMA ReplaceTyped ==
    ASSUME NEW S, NEW s \in Seq(S), NEW i \in 1..Len(s), NEW x \in S
    PROVE  LET t == [s EXCEPT ![i] = x]
           IN  /\ t \in Seq(S) /\ Len(t) = Len(s)
               /\ \A j \in 1..Len(s) : t[j] = IF j = i THEN x ELSE s[j]
<1> DEFINE t == [s EXCEPT ![i] = x]
<1>1. DOMAIN s = 1..Len(s) /\ Len(s) \in Nat
  OBVIOUS
<1>2. DOMAIN t = 1..Len(s) /\ \A j \in 1..Len(s) : t[j] = IF j = i THEN x ELSE s[j]
  BY <1>1
<1>3. \A j \in 1..Len(s) : t[j] \in S
  BY <1>2
<1>4. t = [j \in 1..Len(s) |-> t[j]]
  BY <1>1
<1> HIDE DEF t
<1>5. t \in Seq(S) /\ Len(t) = Len(s)
  BY <1>1, <1>2, <1>3, <1>4
<1> QED BY <1>2, <1>5 DEF t

LEMMA ChildrenInHeap ==
    ASSUME HeapInv, NEW op \in heap
    PROVE  Children(op) \in Seq(heap)
<1>1. op.kind \in Kinds /\ Kids(op) \subseteq heap
  BY DEF HeapInv
<1>2. \A x, y : ToSet(<<x>>) = {x} /\ ToSet(<<x, y>>) = {x, y}
  BY DEF ToSet
<1>3. CASE op.kind = "scan"
  BY <1>3 DEF Children
<1>4. CASE op.kind = "select"
  <2>1. Children(op) = <<op.child>>
    BY <1>4 DEF Children
  <2>2. op.child \in heap
    BY <1>1, <1>2, <2>1 DEF Kids
  <2> QED BY <2>1, <2>2
<1>5. CASE op.kind = "join"
  <2>1. Children(op) = <<op.build, op.probe>>
    BY <1>5 DEF Children
  <2>2. op.build \in heap /\ op.probe \in heap
    BY <1>1, <1>2, <2>1 DEF Kids
  <2> QED BY <2>1, <2>2
<1> QED BY <1>1, <1>3, <1>4, <1>5 DEF Kinds

LEMMA CallTyped ==
    ASSUME HeapInv, NEW op \in heap
    PROVE  /\ Call(op) \in [op : heap, left : Seq(heap)]
           /\ Call(op).op = op /\ ToSet(Call(op).left) = Kids(op)
BY ChildrenInHeap DEF Call, Kids

LEMMA FirstCall ==
    ASSUME CallsInv, calls # <<>>
    PROVE  /\ Len(calls) \in Nat /\ Len(calls) > 0 /\ DOMAIN calls = 1..Len(calls)
           /\ calls[1].op \in heap /\ calls[1].left \in Seq(heap)
           /\ Tail(calls) \in Seq([op : heap, left : Seq(heap)])
           /\ Len(Tail(calls)) = Len(calls) - 1
           /\ \A i \in 1..Len(calls)-1 : Tail(calls)[i] = calls[i + 1]
<1> DEFINE Pending == [op : heap, left : Seq(heap)]
<1>1. calls \in Seq(Pending)
  BY DEF CallsInv
<1>2. \A x \in Pending : x.op \in heap /\ x.left \in Seq(heap)
  OBVIOUS
<1> HIDE DEF Pending
<1>3. Len(calls) \in Nat /\ Len(calls) > 0 /\ DOMAIN calls = 1..Len(calls)
  BY <1>1
<1>4. calls[1] \in Pending
  BY <1>1, <1>3
<1>5. /\ Tail(calls) \in Seq(Pending) /\ Len(Tail(calls)) = Len(calls) - 1
      /\ \A i \in 1..Len(calls)-1 : Tail(calls)[i] = calls[i + 1]
  BY <1>1, <1>3
<1> QED BY <1>2, <1>3, <1>4, <1>5 DEF Pending

LEMMA CallsInvStep ==
    ASSUME StmtInv, HeapInv, CallsInv, [RunNext]_allRunVars
    PROVE  CallsInv'
<1> USE DEF Planning, Planned, Cleaning, Ended
<1> DEFINE Pending(h) == [op : h, left : Seq(h)]
<1>1. CASE UNCHANGED <<calls, freed>> /\ heap \subseteq heap'
           /\ (pc' \notin Cleaning \cup Ended => calls = <<>> /\ freed = <<>>)
           /\ (pc' \in Ended => calls = <<>>)
  <2>1. \A S, T : S \subseteq T => Seq(S) \subseteq Seq(T)
    OBVIOUS
  <2>2. Seq(heap) \subseteq Seq(heap')
    BY <1>1, <2>1
  <2>3. Pending(heap) \subseteq Pending(heap')
    BY <1>1, <2>2
  <2>4. Seq(Pending(heap)) \subseteq Seq(Pending(heap'))
    BY <2>1, <2>3
  <2>5. calls \in Seq(Pending(heap')) /\ freed \in Seq(heap')
    BY <2>2, <2>4 DEF CallsInv
  <2> QED BY <1>1, <2>5 DEF CallsInv
<1>2. CASE UNCHANGED cleanup /\ heap \subseteq heap' /\ pc \notin Cleaning \cup Ended
           /\ pc' \notin Cleaning \cup Ended
  BY <1>1, <1>2 DEF CallsInv, cleanup
<1>3. CASE UNCHANGED <<planRoot, cleanup>> /\ heap \subseteq heap'
           /\ (pc' \in Cleaning \cup Ended <=> pc \in Cleaning \cup Ended)
           /\ (pc' \in Ended => pc \in Ended \/ calls = <<>>)
  BY <1>1, <1>3 DEF CallsInv, cleanup
<1>4. CASE \E from, to : CleanUp(from, to) /\ from \in Planned /\ to \in Cleaning
                        /\ from \notin Cleaning \cup Ended
  <2>1. /\ pc \in Planned /\ pc \notin Cleaning \cup Ended /\ pc' \in Cleaning
        /\ calls' = <<Call(planRoot)>> /\ freed' = freed /\ heap' = heap
    BY <1>4 DEF CleanUp, Goto, Still
  <2>2. planRoot \in heap
    BY <2>1 DEF HeapInv
  <2>3. Call(planRoot) \in Pending(heap)
    BY <2>2, CallTyped
  <2>4. calls' \in Seq(Pending(heap))
    <3> HIDE DEF Pending
    <3> QED BY <2>1, <2>3
  <2> QED BY <2>1, <2>4 DEF CallsInv
<1>5. CASE DeleteChild
  <2> DEFINE child == Head(calls[1].left)
             first == [calls[1] EXCEPT !.left = Tail(@)]
             rest  == [calls EXCEPT ![1].left = Tail(@)]
  <2>1. /\ pc \in Cleaning /\ pc' = pc /\ calls # <<>> /\ calls[1].left # <<>>
        /\ calls' = IF child \in seen THEN rest ELSE <<Call(child)>> \o rest
        /\ freed' = freed /\ heap' = heap
    BY <1>5 DEF DeleteChild, CleaningUp, Still
  <2>2. calls \in Seq(Pending(heap)) /\ calls[1] \in Pending(heap)
    <3>1. calls \in Seq(Pending(heap))
      BY DEF CallsInv
    <3>2. 1 \in 1..Len(calls) /\ DOMAIN calls = 1..Len(calls)
      BY <2>1, FirstCall
    <3> HIDE DEF Pending
    <3> QED BY <3>1, <3>2
  <2>3. child \in heap /\ Tail(calls[1].left) \in Seq(heap)
    BY <2>1, FirstCall
  <2>4. first \in Pending(heap)
    BY <2>2, <2>3
  <2>5. rest = [calls EXCEPT ![1] = first]
    OBVIOUS
  <2>6. Call(child) \in Pending(heap)
    BY <2>3, CallTyped
  <2> HIDE DEF rest, first, child, Pending
  <2>7. rest \in Seq(Pending(heap))
    BY <2>1, <2>2, <2>4, <2>5, FirstCall, ReplaceTyped
  <2>8. calls' \in Seq(Pending(heap))
    BY <2>1, <2>6, <2>7, ConsTyped
  <2> QED BY <2>1, <2>8 DEF CallsInv, Pending
<1>6. CASE Delete
  <2>1. /\ pc \in Cleaning /\ pc' = pc /\ calls # <<>> /\ calls' = Tail(calls)
        /\ freed' = Append(freed, calls[1].op) /\ heap' = heap
    BY <1>6 DEF Delete, CleaningUp, Still
  <2>2. calls' \in Seq(Pending(heap)) /\ calls[1].op \in heap
    BY <2>1, FirstCall
  <2>3. freed' \in Seq(heap)
    BY <2>1, <2>2 DEF CallsInv
  <2> QED BY <2>1, <2>2, <2>3 DEF CallsInv
<1> QED BY <1>2, <1>3, <1>4, <1>5, <1>6, CleanUpCourse

(* What is left of the calls when the first goes on to its next input.     *)
LEMMA NextChild ==
    ASSUME CallsInv, calls # <<>>, calls[1].left # <<>>
    PROVE  LET rest == [calls EXCEPT ![1].left = Tail(@)]
           IN  /\ rest \in Seq([op : heap, left : Seq(heap)])
               /\ DOMAIN rest = 1..Len(calls) /\ Len(rest) = Len(calls)
               /\ rest[1].op = calls[1].op
               /\ ToSet(calls[1].left) = {Head(calls[1].left)} \cup ToSet(rest[1].left)
               /\ \A j \in 1..Len(calls) : j # 1 => rest[j] = calls[j]
<1> DEFINE Pending == [op : heap, left : Seq(heap)]
           left  == calls[1].left
           first == [calls[1] EXCEPT !.left = Tail(@)]
           rest  == [calls EXCEPT ![1] = first]
<1>1. calls \in Seq(Pending)
  BY DEF CallsInv
<1>2. /\ 1 \in 1..Len(calls) /\ Len(calls) \in Nat /\ calls[1] \in Pending
      /\ left \in Seq(heap) /\ left # <<>>
  <2>1. 1 \in 1..Len(calls) /\ Len(calls) \in Nat /\ left \in Seq(heap) /\ left # <<>>
    BY FirstCall
  <2> HIDE DEF Pending
  <2>2. calls[1] \in Pending
    BY <1>1, <2>1
  <2> QED BY <2>1, <2>2
<1>3. ToSet(left) = {Head(left)} \cup ToSet(Tail(left)) /\ Tail(left) \in Seq(heap)
  <2> HIDE DEF left
  <2>1. /\ Tail(left) \in Seq(heap) /\ Len(left) \in Nat /\ Len(left) > 0
        /\ Len(Tail(left)) = Len(left) - 1 /\ left[1] = Head(left)
        /\ DOMAIN left = 1..Len(left) /\ DOMAIN Tail(left) = 1..Len(left)-1
        /\ \A i \in 1..Len(left)-1 : Tail(left)[i] = left[i + 1]
    BY <1>2
  <2>2. \A i \in 1..Len(left) : i # 1 => i - 1 \in 1..Len(left)-1 /\ left[i] = Tail(left)[i - 1]
    BY <2>1
  <2>3. \A i \in 1..Len(left)-1 : i + 1 \in 1..Len(left)
    BY <2>1
  <2>4. \A i \in 1..Len(left) : left[i] \in {Head(left)} \cup ToSet(Tail(left))
    BY <2>1, <2>2 DEF ToSet
  <2>5. Head(left) \in ToSet(left) /\ \A i \in 1..Len(left)-1 : Tail(left)[i] \in ToSet(left)
    <3>1. 1 \in 1..Len(left)
      BY <2>1
    <3> QED BY <2>1, <2>3, <3>1 DEF ToSet
  <2>6. /\ ToSet(left) \subseteq {Head(left)} \cup ToSet(Tail(left))
        /\ ToSet(Tail(left)) \subseteq ToSet(left)
    BY <2>1, <2>4, <2>5 DEF ToSet
  <2> QED BY <2>1, <2>5, <2>6
<1>4. first \in Pending /\ first.op = calls[1].op /\ first.left = Tail(left)
  BY <1>2, <1>3
<1>5. [calls EXCEPT ![1].left = Tail(@)] = rest
  OBVIOUS
<1> HIDE DEF first, left, Pending, rest
<1>6. /\ rest \in Seq(Pending) /\ Len(rest) = Len(calls)
      /\ \A j \in 1..Len(calls) : rest[j] = IF j = 1 THEN first ELSE calls[j]
  BY <1>1, <1>2, <1>4, ReplaceTyped DEF rest
<1>7. DOMAIN rest = 1..Len(calls)
  BY <1>2, <1>6
<1>8. /\ rest \in Seq(Pending) /\ DOMAIN rest = 1..Len(calls) /\ Len(rest) = Len(calls)
      /\ rest[1].op = calls[1].op
      /\ ToSet(left) = {Head(left)} \cup ToSet(rest[1].left)
      /\ \A j \in 1..Len(calls) : j # 1 => rest[j] = calls[j]
  BY <1>2, <1>3, <1>4, <1>6, <1>7
<1> QED BY <1>5, <1>8 DEF Pending, left

LEMMA WalkInvStep ==
    ASSUME StmtInv, HeapInv, CallsInv, WalkInv, [RunNext]_allRunVars
    PROVE  WalkInv'
<1> DEFINE Late == Cleaning \cup Ended
<1>1. CASE UNCHANGED <<planRoot, cleanup>> /\ (pc' \in Late <=> pc \in Late)
  BY <1>1 DEF WalkInv, Deleting, cleanup
<1>2. CASE pc' \notin Late
  BY <1>2 DEF WalkInv
<1>3. CASE \E from, to : CleanUp(from, to) /\ from \in Planned /\ to \in Cleaning
                        /\ from \notin Late
  <2>1. /\ pc \in Planned /\ pc \notin Late /\ seen' = {planRoot} /\ planRoot' = planRoot
        /\ calls' = <<Call(planRoot)>> /\ freed' = <<>>
    BY <1>3 DEF CleanUp, Goto, Still, CallsInv, tree
  <2>2. planRoot \in heap
    BY <2>1 DEF HeapInv, Planned, Cleaning, Ended
  <2>3. Call(planRoot).op = planRoot /\ ToSet(Call(planRoot).left) = Kids(planRoot)
    BY <2>2, CallTyped
  <2>4. DOMAIN calls' = {1} /\ calls'[1] = Call(planRoot)
    BY <2>1
  <2>5. Deleting' = {planRoot}
    BY <2>3, <2>4 DEF Deleting
  <2>6. ToSet(freed') = {} /\ Len(freed') = 0
    BY <2>1 DEF ToSet
  <2>7. IsFiniteSet(ToSet(freed')) /\ Cardinality(ToSet(freed')) = Len(freed')
    BY <2>6, FS_EmptySet
  <2> HIDE DEF Late
  <2> QED BY <2>1, <2>3, <2>4, <2>5, <2>6, <2>7 DEF WalkInv
<1>4. CASE DeleteChild
  <2> DEFINE child == Head(calls[1].left)
             rest  == [calls EXCEPT ![1].left = Tail(@)]
  <2>1. /\ pc \in Late /\ calls # <<>> /\ calls[1].left # <<>>
        /\ calls' = IF child \in seen THEN rest ELSE <<Call(child)>> \o rest
        /\ seen' = seen \cup {child} /\ freed' = freed /\ planRoot' = planRoot
    BY <1>4 DEF DeleteChild, CleaningUp, Still, Cleaning, tree
  <2>2. /\ rest \in Seq([op : heap, left : Seq(heap)])
        /\ DOMAIN rest = 1..Len(calls) /\ Len(rest) = Len(calls)
        /\ rest[1].op = calls[1].op
        /\ ToSet(calls[1].left) = {child} \cup ToSet(rest[1].left)
        /\ \A j \in 1..Len(calls) : j # 1 => rest[j] = calls[j]
    BY <2>1, NextChild
  <2>3. DOMAIN calls = 1..Len(calls) /\ Len(calls) \in Nat /\ Len(calls) > 0
    BY <2>1, FirstCall
  <2>4. child \in heap
    BY <2>1, FirstCall
  <2> HIDE DEF rest, child
  <2>5. \A j \in DOMAIN calls : rest[j].op = calls[j].op
    BY <2>2, <2>3
  <2>6. \A op \in seen : \A kid \in Kids(op) :
           \/ kid \in seen \cup {child}
           \/ \E i \in DOMAIN calls : rest[i].op = op /\ kid \in ToSet(rest[i].left)
    <3> SUFFICES ASSUME NEW op \in seen, NEW kid \in Kids(op), kid \notin seen \cup {child}
                 PROVE  \E i \in DOMAIN calls : rest[i].op = op /\ kid \in ToSet(rest[i].left)
      OBVIOUS
    <3>1. PICK i \in DOMAIN calls : calls[i].op = op /\ kid \in ToSet(calls[i].left)
      BY <2>1 DEF WalkInv
    <3> QED BY <2>2, <2>3, <2>5, <3>1
  <2>7. CASE child \in seen
    <3>1. calls' = rest /\ seen' = seen
      BY <2>1, <2>7
    <3>2. Deleting' = Deleting
      BY <2>2, <2>3, <2>5, <3>1 DEF Deleting
    <3> QED BY <2>1, <2>2, <2>3, <2>5, <2>6, <2>7, <3>1, <3>2 DEF WalkInv
  <2>8. CASE child \notin seen
    <3>1. calls' = <<Call(child)>> \o rest
      BY <2>1, <2>8
    <3>2. Call(child) \in [op : heap, left : Seq(heap)] /\ Call(child).op = child
          /\ ToSet(Call(child).left) = Kids(child)
      BY <2>4, CallTyped
    <3>3. /\ DOMAIN calls' = 1..Len(calls)+1 /\ calls'[1] = Call(child)
          /\ \A i \in 1..Len(calls) : calls'[i + 1] = rest[i]
      <4>1. /\ calls' \in Seq([op : heap, left : Seq(heap)])
            /\ Len(calls') = Len(calls) + 1 /\ calls'[1] = Call(child)
            /\ \A i \in 1..Len(calls) : calls'[i + 1] = rest[i]
        BY <2>2, <3>1, <3>2, ConsTyped
      <4> QED BY <4>1
    <3>4. \A i \in DOMAIN calls' : i # 1 => i - 1 \in 1..Len(calls) /\ calls'[i] = rest[i - 1]
      BY <2>3, <3>3
    <3>5. \A i \in 1..Len(calls) : i + 1 \in DOMAIN calls' /\ 1 \in DOMAIN calls'
      BY <2>3, <3>3
    <3>6. Deleting' = Deleting \cup {child}
      <4>1. \A i \in DOMAIN calls' : calls'[i].op \in Deleting \cup {child}
        BY <2>3, <2>5, <3>2, <3>3, <3>4 DEF Deleting
      <4>2. child \in Deleting'
        BY <2>3, <3>2, <3>3, <3>5 DEF Deleting
      <4>3. \A i \in DOMAIN calls : calls[i].op \in Deleting'
        BY <2>3, <2>5, <3>3, <3>5 DEF Deleting
      <4> QED BY <4>1, <4>2, <4>3 DEF Deleting
    <3>7. child \notin Deleting /\ child \notin ToSet(freed)
      BY <2>1, <2>8 DEF WalkInv
    <3>8. \A i, j \in DOMAIN calls' : calls'[i].op = calls'[j].op => i = j
      <4> SUFFICES ASSUME NEW i \in DOMAIN calls', NEW j \in DOMAIN calls',
                          calls'[i].op = calls'[j].op
                   PROVE  i = j
        OBVIOUS
      <4>1. \A k \in DOMAIN calls' : k # 1 => calls'[k].op # child
        BY <2>3, <2>5, <3>4, <3>7 DEF Deleting
      <4>2. CASE i = 1 \/ j = 1
        BY <3>2, <3>3, <4>1, <4>2
      <4>3. CASE i # 1 /\ j # 1
        <5>1. calls[i - 1].op = calls[j - 1].op /\ i - 1 \in DOMAIN calls /\ j - 1 \in DOMAIN calls
          BY <2>3, <2>5, <3>4, <4>3
        <5>2. i - 1 = j - 1
          BY <2>1, <5>1 DEF WalkInv
        <5> QED BY <3>3, <5>2
      <4> QED BY <4>2, <4>3
    <3>9. ASSUME NEW op \in seen', NEW kid \in Kids(op), kid \notin seen'
          PROVE  \E i \in DOMAIN calls' : calls'[i].op = op /\ kid \in ToSet(calls'[i].left)
      <4>1. CASE op = child
        BY <2>3, <3>2, <3>3, <3>5, <3>9, <4>1
      <4>2. CASE op \in seen
        <5>1. PICK i \in DOMAIN calls : rest[i].op = op /\ kid \in ToSet(rest[i].left)
          BY <2>1, <2>6, <3>9, <4>2
        <5> QED BY <2>3, <3>3, <3>5, <5>1
      <4> QED BY <2>1, <3>9, <4>1, <4>2
    <3>10. seen' = ToSet(freed') \cup Deleting' /\ Deleting' \cap ToSet(freed') = {}
      BY <2>1, <3>6, <3>7 DEF WalkInv
    <3>11. /\ planRoot' \in seen' /\ IsFiniteSet(ToSet(freed'))
           /\ Cardinality(ToSet(freed')) = Len(freed')
      BY <2>1 DEF WalkInv
    <3> QED BY <3>8, <3>9, <3>10, <3>11 DEF WalkInv
  <2> QED BY <2>7, <2>8
<1>5. CASE Delete
  <2> DEFINE op == calls[1].op
  <2>1. /\ pc \in Late /\ calls # <<>> /\ calls[1].left = <<>> /\ calls' = Tail(calls)
        /\ freed' = Append(freed, op) /\ seen' = seen /\ planRoot' = planRoot
    BY <1>5 DEF Delete, CleaningUp, Still, Cleaning, tree
  <2>2. /\ Len(calls) \in Nat /\ Len(calls) > 0 /\ DOMAIN calls = 1..Len(calls)
        /\ DOMAIN calls' = 1..Len(calls)-1
        /\ \A i \in 1..Len(calls)-1 : calls'[i] = calls[i + 1]
    <3>1. /\ Len(calls) \in Nat /\ Len(calls) > 0 /\ DOMAIN calls = 1..Len(calls)
          /\ Tail(calls) \in Seq([op : heap, left : Seq(heap)])
          /\ Len(Tail(calls)) = Len(calls) - 1
          /\ \A i \in 1..Len(calls)-1 : Tail(calls)[i] = calls[i + 1]
      BY <2>1, FirstCall
    <3> QED BY <2>1, <3>1
  <2>3. freed \in Seq(heap)
    BY DEF CallsInv
  <2>4. ToSet(freed') = ToSet(freed) \cup {op} /\ Len(freed') = Len(freed) + 1
    BY <2>1, <2>3, AppendToSet
  <2>5. op \in Deleting /\ op \notin ToSet(freed)
    BY <2>1, <2>2 DEF WalkInv, Deleting
  <2>6. \A i \in 1..Len(calls) : i # 1 => i - 1 \in DOMAIN calls' /\ calls'[i - 1] = calls[i]
    BY <2>2
  <2>7. \A i \in DOMAIN calls' : i + 1 \in DOMAIN calls /\ calls'[i] = calls[i + 1]
    BY <2>2
  <2>8. op \notin Deleting'
    <3>1. \A i \in DOMAIN calls' : i + 1 # 1 /\ 1 \in DOMAIN calls
      BY <2>2
    <3> QED BY <2>1, <2>7, <3>1 DEF WalkInv, Deleting
  <2>9. Deleting' \cup {op} = Deleting
    <3>1. \A i \in DOMAIN calls : i = 1 \/ calls[i].op \in Deleting'
      BY <2>2, <2>6 DEF Deleting
    <3>2. \A i \in DOMAIN calls' : calls'[i].op \in Deleting
      BY <2>7 DEF Deleting
    <3> QED BY <2>5, <3>1, <3>2 DEF Deleting
  <2>10. IsFiniteSet(ToSet(freed')) /\ Cardinality(ToSet(freed')) = Len(freed')
    <3>1. IsFiniteSet(ToSet(freed)) /\ Cardinality(ToSet(freed)) = Len(freed)
      BY <2>1 DEF WalkInv
    <3> HIDE DEF op
    <3>2. /\ IsFiniteSet(ToSet(freed) \cup {op})
          /\ Cardinality(ToSet(freed) \cup {op}) = Cardinality(ToSet(freed)) + 1
      BY <2>5, <3>1, FS_AddElement
    <3> QED BY <2>4, <3>1, <3>2
  <2>11. \A i, j \in DOMAIN calls' : calls'[i].op = calls'[j].op => i = j
    <3> SUFFICES ASSUME NEW i \in DOMAIN calls', NEW j \in DOMAIN calls',
                        calls'[i].op = calls'[j].op
                 PROVE  i = j
      OBVIOUS
    <3>1. i + 1 = j + 1
      BY <2>1, <2>7 DEF WalkInv
    <3> QED BY <2>2, <3>1
  <2>12. ASSUME NEW o \in seen', NEW kid \in Kids(o), kid \notin seen'
         PROVE  \E i \in DOMAIN calls' : calls'[i].op = o /\ kid \in ToSet(calls'[i].left)
    <3>1. PICK i \in DOMAIN calls : calls[i].op = o /\ kid \in ToSet(calls[i].left)
      BY <2>1, <2>12 DEF WalkInv
    <3>2. i # 1
      BY <2>1, <3>1 DEF ToSet
    <3> QED BY <2>2, <2>6, <3>1, <3>2
  <2> HIDE DEF op
  <2> QED BY <2>1, <2>4, <2>5, <2>8, <2>9, <2>10, <2>11, <2>12 DEF WalkInv
<1> QED BY <1>1, <1>2, <1>3, <1>4, <1>5, CleanUpCourse

-----------------------------------------------------------------------------
(* How far up in the tree an operator is: the scans, their filters, the    *)
(* joins as they are made, and the select of what filters after them.      *)
Rank(op) ==
    CASE op.kind = "scan"   -> 0
      [] op.kind = "select" -> IF op.id = 0 THEN Len(aliases) + 1 ELSE 1
      [] op.kind = "join"   -> op.id + 1

HasParent(op) == \E up \in heap : op \in Kids(up) /\ Rank(op) < Rank(up)

TreeInv ==
    /\ \A op \in heap : Rank(op) \in 0..Len(aliases)+1
    /\ pc \in {"text", "scan", "classify"} => heap = {ScanOf(n) : n \in 1..Len(aliases)}
    /\ pc = "join" =>
          /\ \A a \in ToSet(aliases) : Rank(plans[a]) \in 0..1
          /\ Rank(planRoot) \in 0..joined
          /\ joined = 1 => planRoot = plans[aliases[1]]
          /\ \A op \in heap :
                \/ op = planRoot
                \/ HasParent(op)
                \/ \E i \in joined+1..Len(aliases) : op = plans[aliases[i]]
    /\ pc \in {"select"} \cup Planned => \A op \in heap : op = planRoot \/ HasParent(op)

LEMMA StmtDistinct ==
    ASSUME StmtInv, \A s \in Statements : DistinctAliases(s)
    PROVE  DistinctAliases(stmt)
<1>1. NoStatement.from = <<>>
  BY DEF NoStatement, SelectStmt
<1>2. DistinctAliases(NoStatement)
  BY <1>1 DEF DistinctAliases
<1> QED BY <1>2 DEF StmtInv

LEMMA ScansInOrder ==
    ASSUME StmtInv, ScanInv, DistinctAliases(stmt)
    PROVE  \A n \in 1..Len(aliases) : aliases[n] \in ToSet(aliases) /\ scans[aliases[n]] = n
<1> TAKE n \in 1..Len(aliases)
<1>1. DOMAIN stmt.from = 1..Len(stmt.from) /\ Len(stmt.from) \in Nat
  BY FromIsList
<1>2. /\ DOMAIN aliases = 1..Len(aliases) /\ Len(aliases) \in Nat
      /\ Len(aliases) <= Len(stmt.from)
      /\ aliases[n] \in ToSet(aliases)
  BY DEF ScanInv, ToSet
<1>3. scans[aliases[n]] \in 1..Len(aliases) /\ aliases[scans[aliases[n]]] = aliases[n]
  BY <1>2 DEF ScanInv
<1>4. \A k \in 1..Len(aliases) : k \in DOMAIN stmt.from /\ aliases[k] = stmt.from[k].alias
  BY <1>1, <1>2 DEF ScanInv
<1> QED BY <1>1, <1>2, <1>3, <1>4 DEF DistinctAliases

LEMMA RankOfScan == ASSUME NEW n PROVE Rank(ScanOf(n)) = 0
BY ScanKids DEF Rank

LEMMA RankOfSelect ==
    ASSUME NEW id, NEW child, NEW conds
    PROVE  Rank(Select(id, child, conds)) = IF id = 0 THEN Len(aliases) + 1 ELSE 1
<1> DEFINE op == Select(id, child, conds)
<1>1. op.kind = "select" /\ op.id = id
  BY SelectKids
<1> HIDE DEF op
<1>2. Rank(op) = IF id = 0 THEN Len(aliases) + 1 ELSE 1
  BY <1>1 DEF Rank
<1> QED BY <1>2 DEF op

LEMMA RankOfJoin ==
    ASSUME NEW id, NEW build, NEW probe, NEW keys
    PROVE  Rank(HashJoin(id, build, probe, keys)) = id + 1
<1> DEFINE op == HashJoin(id, build, probe, keys)
<1>1. op.kind = "join" /\ op.id = id
  BY JoinKids
<1> HIDE DEF op
<1>2. Rank(op) = id + 1
  BY <1>1 DEF Rank
<1> QED BY <1>2 DEF op

(* A scan with its filter, when no alias comes twice.                      *)
LEMMA FilteredOver ==
    ASSUME StmtInv, ScanInv, DistinctAliases(stmt), NEW n \in 1..Len(aliases)
    PROVE  /\ Rank(Filtered(n)) \in 0..1
           /\ Filtered(n) # ScanOf(n) => ScanOf(n) \in Kids(Filtered(n)) /\ Rank(Filtered(n)) = 1
<1>1. scans[aliases[n]] = n
  BY ScansInOrder
<1>2. \/ Filtered(n) = ScanOf(n)
      \/ Filtered(n) = Select(n, ScanOf(n), FiltersOf(aliases[n]))
  BY <1>1 DEF Filtered
<1>3. n # 0
  OBVIOUS
<1>4. CASE Filtered(n) = ScanOf(n)
  BY <1>4, RankOfScan
<1>5. CASE Filtered(n) = Select(n, ScanOf(n), FiltersOf(aliases[n]))
  <2>1. Rank(Filtered(n)) = 1
    BY <1>3, <1>5, RankOfSelect
  <2>2. ScanOf(n) \in Kids(Filtered(n))
    BY <1>5, SelectKids
  <2> QED BY <2>1, <2>2
<1> QED BY <1>2, <1>4, <1>5

LEMMA PlansInOrder ==
    ASSUME StmtInv, ScanInv, WrapScans, DistinctAliases(stmt), NEW n \in 1..Len(aliases)
    PROVE  plans'[aliases[n]] = Filtered(n)
<1>1. \A i \in 1..Len(aliases) : aliases[i] \in ToSet(aliases) /\ scans[aliases[i]] = i
  BY ScansInOrder
<1>2. PICK i \in DOMAIN aliases : aliases[i] = aliases[n] /\ plans'[aliases[n]] = Filtered(i)
  BY <1>1, PlansAreFiltered
<1>3. i \in 1..Len(aliases)
  BY DEF ScanInv
<1>4. scans[aliases[i]] = i /\ scans[aliases[n]] = n
  BY <1>1, <1>3
<1> QED BY <1>2, <1>4

(* A step that adds to the heap takes no operator's parent away.           *)
LEMMA ParentKept ==
    ASSUME aliases' = aliases, heap \subseteq heap', NEW op, HasParent(op)
    PROVE  HasParent(op)'
<1>1. PICK up \in heap : op \in Kids(up) /\ Rank(op) < Rank(up)
  BY DEF HasParent
<1>2. Rank(op)' = Rank(op) /\ Rank(up)' = Rank(up)
  BY DEF Rank
<1> QED BY <1>1, <1>2 DEF HasParent

LEMMA WrapScansTree ==
    ASSUME StmtInv, ScanInv, TreeInv, WrapScans, DistinctAliases(stmt)
    PROVE  TreeInv'
<1> USE DEF Planning, Planned, Cleaning, Ended
<1>1. /\ pc = "classify" /\ pc' = "join" /\ aliases' = aliases /\ joined' = 1
      /\ planRoot' = plans'[aliases[1]]
      /\ heap' = heap \cup {Filtered(n) : n \in DOMAIN aliases}
  BY DEF WrapScans
<1>2. /\ DOMAIN aliases = 1..Len(aliases) /\ Len(aliases) \in Nat /\ Len(aliases) > 0
  BY <1>1, FromIsList DEF ScanInv
<1>3. heap = {ScanOf(n) : n \in 1..Len(aliases)}
  BY <1>1 DEF TreeInv
<1>4. \A n \in 1..Len(aliases) : plans'[aliases[n]] = Filtered(n)
  BY PlansInOrder
<1>5. \A n \in 1..Len(aliases) :
         /\ Rank(Filtered(n)) \in 0..1
         /\ Filtered(n) # ScanOf(n) => ScanOf(n) \in Kids(Filtered(n)) /\ Rank(Filtered(n)) = 1
  BY <1>1, FilteredOver
<1>6. \A op : Rank(op)' = Rank(op)
  BY <1>1 DEF Rank
<1>7. \A op \in heap' : Rank(op) \in 0..Len(aliases)+1
  <2>1. \A n \in 1..Len(aliases) : Rank(ScanOf(n)) = 0
    BY RankOfScan
  <2> QED BY <1>1, <1>2, <1>3, <1>5, <2>1
<1>8. \A a \in ToSet(aliases) : Rank(plans'[a]) \in 0..1
  BY <1>2, <1>4, <1>5 DEF ToSet
<1>9. planRoot' = Filtered(1) /\ Rank(planRoot') \in 0..1
  <2>1. 1 \in 1..Len(aliases)
    BY <1>2
  <2> QED BY <1>1, <1>4, <1>5, <2>1
<1>10. \A n \in 1..Len(aliases) :
          Filtered(n) = planRoot' \/ \E i \in 2..Len(aliases) : Filtered(n) = plans'[aliases[i]]
  <2> TAKE n \in 1..Len(aliases)
  <2>1. n = 1 \/ n \in 2..Len(aliases)
    BY <1>2
  <2> QED BY <1>4, <1>9, <2>1
<1>11. ASSUME NEW n \in 1..Len(aliases), Filtered(n) # ScanOf(n)
       PROVE  \E up \in heap' : ScanOf(n) \in Kids(up) /\ Rank(ScanOf(n)) < Rank(up)
  <2>1. /\ Filtered(n) \in heap' /\ ScanOf(n) \in Kids(Filtered(n))
        /\ Rank(Filtered(n)) = 1 /\ Rank(ScanOf(n)) = 0
    BY <1>1, <1>2, <1>5, <1>11, RankOfScan
  <2>2. Rank(ScanOf(n)) < Rank(Filtered(n))
    BY <2>1
  <2> QED BY <2>1, <2>2
<1>12. ASSUME NEW op \in heap'
       PROVE  \/ op = planRoot'
              \/ \E up \in heap' : op \in Kids(up) /\ Rank(op) < Rank(up)
              \/ \E i \in 2..Len(aliases) : op = plans'[aliases[i]]
  <2>1. \E n \in 1..Len(aliases) : op = ScanOf(n) \/ op = Filtered(n)
    BY <1>1, <1>2, <1>3
  <2> QED BY <1>10, <1>11, <2>1
<1>13. \A op : HasParent(op)' <=> \E up \in heap' : op \in Kids(up) /\ Rank(op) < Rank(up)
  BY <1>6 DEF HasParent
<1>14. \A a \in ToSet(aliases) : Rank(plans[a])' \in 0..1
  <2>1. \A a : Rank(plans[a])' = Rank(plans'[a])
    BY <1>1 DEF Rank
  <2> QED BY <1>8, <2>1
<1>15. Rank(planRoot)' \in 0..1
  <2>1. Rank(planRoot)' = Rank(planRoot')
    BY <1>1 DEF Rank
  <2> QED BY <1>9, <2>1
<1>16. /\ pc' \notin {"text", "scan", "classify"}
       /\ pc' \notin {"select"} \cup Planned
  BY <1>1
<1>17. Rank(planRoot)' \in 0..joined' /\ planRoot' = plans'[aliases'[1]]
  BY <1>1, <1>15
<1>18. \A op \in heap' :
          \/ op = planRoot'
          \/ HasParent(op)'
          \/ \E i \in joined'+1..Len(aliases') : op = plans'[aliases'[i]]
  BY <1>1, <1>12, <1>13
<1>19. \A op \in heap' : Rank(op)' \in 0..Len(aliases')+1
  BY <1>1, <1>6, <1>7
<1> HIDE DEF Planning, Planned, Cleaning, Ended
<1> QED BY <1>1, <1>14, <1>16, <1>17, <1>18, <1>19 DEF TreeInv

LEMMA JoinNextTree ==
    ASSUME StmtInv, ScanInv, TreeInv, JoinNext
    PROVE  TreeInv'
<1> USE DEF Planning, Planned, Cleaning, Ended
<1> DEFINE new == plans[aliases[joined + 1]]
<1>1. /\ pc = "join" /\ pc' = pc /\ aliases' = aliases /\ plans' = plans
      /\ joined' = joined + 1 /\ joined < Len(aliases)
      /\ heap' = heap \cup {planRoot'}
  BY DEF JoinNext
<1>2. joined \in Nat /\ joined # 0 /\ Len(aliases) \in Nat
  BY <1>1 DEF ScanInv
<1>3. PICK b, p, keys :
         /\ planRoot' = HashJoin(joined, b, p, keys)
         /\ \/ b = planRoot /\ p = new
            \/ b = new /\ p = planRoot
  <2>1. CASE joined = 1
    <3>1. planRoot' = HashJoin(1, plans[aliases[1]], new, KeysOf(aliases[1], {aliases[joined + 1]}))
      BY <2>1 DEF JoinNext
    <3>2. plans[aliases[1]] = planRoot
      BY <1>1, <2>1 DEF TreeInv
    <3> QED BY <2>1, <3>1, <3>2
  <2>2. CASE joined # 1
    <3>1. planRoot' = HashJoin(joined, new, planRoot, LaterKeys(aliases[joined + 1]))
      BY <2>2 DEF JoinNext
    <3> QED BY <3>1
  <2> QED BY <2>1, <2>2
<1>4. Kids(planRoot') = {planRoot, new} /\ Rank(planRoot') = joined + 1
  BY <1>3, JoinKids, RankOfJoin
<1>5. Rank(planRoot) \in 0..joined /\ Rank(new) \in 0..1
  <2>1. aliases[joined + 1] \in ToSet(aliases)
    BY <1>1, <1>2 DEF ScanInv, ToSet
  <2> QED BY <1>1, <2>1 DEF TreeInv
<1> HIDE DEF new
<1>6. \A op : Rank(op)' = Rank(op)
  BY <1>1 DEF Rank
<1>7. \A op : HasParent(op)' <=> \E up \in heap' : op \in Kids(up) /\ Rank(op) < Rank(up)
  BY <1>6 DEF HasParent
<1>8. \A op : op \in {planRoot, new} => HasParent(op)'
  <2>1. Rank(planRoot) < Rank(planRoot') /\ Rank(new) < Rank(planRoot')
    BY <1>2, <1>4, <1>5
  <2>2. planRoot' \in heap' /\ planRoot \in Kids(planRoot') /\ new \in Kids(planRoot')
    BY <1>1, <1>4
  <2>3. \A op : op \in {planRoot, new} =>
            planRoot' \in heap' /\ op \in Kids(planRoot') /\ Rank(op) < Rank(planRoot')
    BY <2>1, <2>2
  <2> QED BY <1>7, <2>3
<1>9. ASSUME NEW op \in heap'
      PROVE  \/ op = planRoot'
             \/ HasParent(op)'
             \/ \E i \in joined'+1..Len(aliases) : op = plans[aliases[i]]
  <2>1. CASE op = planRoot'
    BY <2>1
  <2>2. CASE op \in heap /\ HasParent(op)
    BY <1>1, <2>2, ParentKept
  <2>3. CASE op = planRoot
    BY <1>8, <2>3
  <2>4. ASSUME NEW i \in joined+1..Len(aliases), op = plans[aliases[i]]
        PROVE  HasParent(op)' \/ \E k \in joined'+1..Len(aliases) : op = plans[aliases[k]]
    <3>1. CASE i = joined + 1
      BY <1>8, <2>4, <3>1 DEF new
    <3>2. CASE i # joined + 1
      <4>1. i \in joined'+1..Len(aliases)
        BY <1>1, <1>2, <3>2
      <4> QED BY <2>4, <4>1
    <3> QED BY <3>1, <3>2
  <2>5. op \in heap /\ op # planRoot' => \/ op = planRoot
                                        \/ HasParent(op)
                                        \/ \E i \in joined+1..Len(aliases) : op = plans[aliases[i]]
    BY <1>1 DEF TreeInv
  <2> QED BY <1>1, <2>1, <2>2, <2>3, <2>4, <2>5
<1>10. \A op \in heap' : Rank(op)' \in 0..Len(aliases)+1
  <2>1. \A op \in heap : Rank(op) \in 0..Len(aliases)+1
    BY DEF TreeInv
  <2>2. Rank(planRoot') \in 0..Len(aliases)+1
    BY <1>1, <1>2, <1>4
  <2> QED BY <1>1, <1>6, <2>1, <2>2
<1>11. \A a \in ToSet(aliases) : Rank(plans[a])' \in 0..1
  <2>1. \A a : Rank(plans[a])' = Rank(plans[a])
    BY <1>1 DEF Rank
  <2> QED BY <1>1, <2>1 DEF TreeInv
<1>12. Rank(planRoot)' \in 0..joined'
  <2>1. Rank(planRoot)' = Rank(planRoot')
    BY <1>1 DEF Rank
  <2> QED BY <1>1, <1>2, <1>4, <2>1
<1>13. joined' # 1
  BY <1>1, <1>2
<1> QED BY <1>1, <1>9, <1>10, <1>11, <1>12, <1>13 DEF TreeInv

LEMMA WrapPostJoinTree ==
    ASSUME StmtInv, ScanInv, TreeInv, WrapPostJoin
    PROVE  TreeInv'
<1> USE DEF Planning, Planned, Cleaning, Ended
<1>1. /\ pc = "join" /\ pc' = "select" /\ aliases' = aliases /\ joined = Len(aliases)
      /\ heap' = heap \cup {planRoot'}
      /\ planRoot' = planRoot \/ planRoot' = Select(0, planRoot, postFilters)
  BY DEF WrapPostJoin
<1>2. Len(aliases) \in Nat
  BY DEF ScanInv
<1>3. Rank(planRoot) \in 0..Len(aliases)
  BY <1>1 DEF TreeInv
<1>4. planRoot' # planRoot => Kids(planRoot') = {planRoot} /\ Rank(planRoot') = Len(aliases) + 1
  BY <1>1, SelectKids, RankOfSelect
<1>5. \A op : Rank(op)' = Rank(op)
  BY <1>1 DEF Rank
<1>6. \A op : HasParent(op)' <=> \E up \in heap' : op \in Kids(up) /\ Rank(op) < Rank(up)
  BY <1>5 DEF HasParent
<1>7. ASSUME NEW op \in heap'
      PROVE  op = planRoot' \/ HasParent(op)'
  <2>1. CASE op = planRoot /\ planRoot' # planRoot
    <3>1. /\ planRoot' \in heap' /\ planRoot \in Kids(planRoot')
          /\ Rank(planRoot) < Rank(planRoot')
      BY <1>1, <1>2, <1>3, <1>4, <2>1
    <3> QED BY <1>6, <2>1, <3>1
  <2>2. CASE op \in heap /\ HasParent(op)
    BY <1>1, <2>2, ParentKept
  <2>3. ~\E i \in joined+1..Len(aliases) : TRUE
    BY <1>1, <1>2
  <2> QED BY <1>1, <2>1, <2>2, <2>3 DEF TreeInv
<1>8. \A op \in heap' : Rank(op)' \in 0..Len(aliases)+1
  <2>1. \A op \in heap : Rank(op) \in 0..Len(aliases)+1
    BY DEF TreeInv
  <2>2. Rank(planRoot') \in 0..Len(aliases)+1
    BY <1>2, <1>3, <1>4
  <2> QED BY <1>1, <1>5, <2>1, <2>2
<1> QED BY <1>1, <1>7, <1>8 DEF TreeInv

LEMMA TreeInvStep ==
    ASSUME StmtInv, ScanInv, TreeInv, [RunNext]_allRunVars, DistinctAliases(stmt)
    PROVE  TreeInv'
<1> USE DEF Planning, Planned, Cleaning, Ended
<1>1. CASE \E s \in Statements : Parse(s)
  <2>1. /\ pc = "text" /\ aliases = <<>> /\ aliases' = <<>> /\ heap' = heap /\ pc' = "scan"
    BY <1>1 DEF Parse, ScanInv
  <2>2. heap = {} /\ 1..Len(aliases') = {}
    BY <2>1 DEF TreeInv
  <2> QED BY <2>1, <2>2 DEF TreeInv
<1>2. CASE CreateScan
  <2> DEFINE n == Len(aliases) + 1
  <2>1. /\ pc = "scan" /\ pc' = pc /\ stmt' = stmt /\ Len(aliases) \in Nat
        /\ aliases' = Append(aliases, stmt.from[n].alias)
        /\ heap' = heap \cup {ScanOf(n)}
    BY <1>2 DEF CreateScan, ScanInv
  <2>2. Len(aliases') = n
    BY <2>1 DEF ScanInv
  <2>3. \A i : ScanOf(i)' = ScanOf(i)
    BY <2>1 DEF ScanOf, Columns
  <2>4. heap = {ScanOf(i) : i \in 1..Len(aliases)}
    BY <2>1 DEF TreeInv
  <2>5. 1..n = 1..Len(aliases) \cup {n}
    BY <2>1
  <2>6. heap' = {ScanOf(i) : i \in 1..n}
    BY <2>1, <2>4, <2>5
  <2>7. \A op \in heap' : Rank(op)' = 0
    <3>1. \A op : op.kind = "scan" => Rank(op)' = 0
      BY DEF Rank
    <3> QED BY <2>6, <3>1, ScanKids
  <2>8. (heap = {ScanOf(i) : i \in 1..Len(aliases)})'
    BY <2>2, <2>3, <2>6
  <2>9. 0 \in 0..n+1
    BY <2>1
  <2> QED BY <2>1, <2>2, <2>7, <2>8, <2>9 DEF TreeInv
<1>3. CASE WrapScans
  BY <1>3, WrapScansTree
<1>4. CASE JoinNext
  BY <1>4, JoinNextTree
<1>5. CASE WrapPostJoin
  BY <1>5, WrapPostJoinTree
<1>6. CASE Rest \/ ResolveItem
  <2>1. UNCHANGED <<stmt, aliases, plans, joined, planRoot, heap>>
    BY <1>6 DEF Rest, ResolveItem, tree
  <2>2. /\ \A i : ScanOf(i)' = ScanOf(i)
        /\ \A op : Rank(op)' = Rank(op)
    BY <2>1 DEF ScanOf, Columns, Rank
  <2>3. \A op : HasParent(op)' <=> HasParent(op)
    BY <2>1, <2>2 DEF HasParent
  <2>4. Rank(planRoot)' = Rank(planRoot) /\ \A a : Rank(plans[a])' = Rank(plans[a])
    BY <2>1 DEF Rank
  <2>5. /\ pc' \in {"text", "scan", "classify"} => pc \in {"text", "scan", "classify"}
        /\ pc' = "join" => pc = "join"
        /\ pc' \in {"select"} \cup Planned => pc \in {"select"} \cup Planned
    BY <1>6 DEF Rest, ResolveItem, Selecting, StmtInv
  <2>6. (\A op \in heap : Rank(op) \in 0..Len(aliases)+1)'
    BY <2>1, <2>2 DEF TreeInv
  <2>7. pc' \in {"text", "scan", "classify"} => (heap = {ScanOf(n) : n \in 1..Len(aliases)})'
    BY <2>1, <2>2, <2>5 DEF TreeInv
  <2>8. pc' \in {"select"} \cup Planned => \A op \in heap' : op = planRoot' \/ HasParent(op)'
    BY <2>1, <2>3, <2>5 DEF TreeInv
  <2> QED BY <2>1, <2>3, <2>4, <2>5, <2>6, <2>7, <2>8 DEF TreeInv
<1> QED BY <1>1, <1>2, <1>3, <1>4, <1>5, <1>6, Course

(* When the walk is over, it has seen every operator: one it has not, as   *)
(* far up as any, would have a parent it has.                              *)
LEMMA WalkReachesAll ==
    ASSUME CallsInv, WalkInv, TreeInv, pc \in Ended
    PROVE  heap \subseteq ToSet(freed)
<1>1. calls = <<>> /\ seen = ToSet(freed) /\ planRoot \in seen
      /\ \A op \in seen : Kids(op) \subseteq seen
  <2>1. calls = <<>> /\ DOMAIN calls = {}
    BY DEF CallsInv
  <2>2. Deleting = {}
    BY <2>1 DEF Deleting
  <2> QED BY <2>1, <2>2 DEF WalkInv
<1> DEFINE missed == heap \ seen
           depths == {Len(aliases) + 1 - Rank(op) : op \in missed}
<1> SUFFICES ASSUME missed # {} PROVE FALSE
  BY <1>1
<1>2. \A op \in heap : Len(aliases) + 1 - Rank(op) \in Nat /\ Rank(op) \in Nat
  BY DEF TreeInv
<1>3. depths \subseteq Nat /\ depths # {}
  BY <1>2
<1>4. PICK d \in depths : \A e \in depths : ~(e < d)
  BY <1>3, LeastNatural
<1>5. PICK op \in missed : d = Len(aliases) + 1 - Rank(op)
  OBVIOUS
<1>6. HasParent(op)
  BY <1>1 DEF TreeInv, Planned
<1>7. PICK up \in heap : op \in Kids(up) /\ Rank(op) < Rank(up)
  BY <1>6 DEF HasParent
<1>8. up \notin missed
  <2> SUFFICES ASSUME up \in missed PROVE FALSE
    OBVIOUS
  <2>1. Len(aliases) + 1 - Rank(up) \in depths
    OBVIOUS
  <2>2. Len(aliases) + 1 - Rank(up) < Len(aliases) + 1 - Rank(op)
    BY <1>2, <1>5, <1>7
  <2> QED BY <1>4, <1>5, <2>1, <2>2
<1> QED BY <1>1, <1>5, <1>7, <1>8

-----------------------------------------------------------------------------
LEMMA EmptyTyped == ASSUME NEW S PROVE <<>> \in Seq(S)
OBVIOUS

LEMMA RunInitInv == ASSUME RunInit PROVE StmtInv /\ ScanInv /\ OutsInv /\ HeapInv /\ CallsInv
<1>1. /\ pc = "text" /\ stmt = NoStatement /\ aliases = <<>> /\ joined = 0 /\ outs = <<>>
      /\ heap = {} /\ calls = <<>> /\ freed = <<>> /\ scans = [a \in {} |-> 0]
  BY DEF RunInit, PlanInit
<1>2. StmtInv
  BY <1>1 DEF StmtInv, Planning, Planned, Cleaning, Ended
<1>3. ScanInv
  <2>1. ToSet(aliases) = {} /\ Len(aliases) = 0 /\ aliases \in Seq(ToSet(aliases))
    BY <1>1 DEF ToSet
  <2>2. Len(stmt.from) \in Nat
    BY <1>2, FromIsList
  <2> QED BY <1>1, <2>1, <2>2 DEF ScanInv, Planning, Planned, Cleaning, Ended
<1>4. OutsInv
  BY <1>1, EmptyTyped DEF OutsInv
<1>5. HeapInv
  BY <1>1 DEF HeapInv, Planned, Cleaning, Ended
<1>6. CallsInv
  BY <1>1, EmptyTyped DEF CallsInv, Cleaning, Ended
<1> QED BY <1>2, <1>3, <1>4, <1>5, <1>6

Inv ==
    /\ explain \in BOOLEAN /\ jit \in {"none", "live", "released"}
    /\ StmtInv
    /\ ScanInv
    /\ OutsInv
    /\ HeapInv
    /\ CallsInv

LEMMA FlagsStep ==
    ASSUME explain \in BOOLEAN, jit \in {"none", "live", "released"}, [RunNext]_allRunVars
    PROVE  explain' \in BOOLEAN /\ jit' \in {"none", "live", "released"}
<1>1. explain' = explain
  BY DEF RunNext, Parse, ParseThrows, Plan, Produce, ProduceThrows, Compile, CompileThrows,
     ReturnExplained, Execute, Release, Collect, DeleteChild, Delete, Leave, CleanUp, Goto, Still,
     runVars, allRunVars
<1>2. jit' \in {jit, "live", "released"}
  BY DEF RunNext, Parse, ParseThrows, Plan, Produce, ProduceThrows, Compile, CompileThrows,
     ReturnExplained, Execute, Release, Collect, DeleteChild, Delete, Leave, CleanUp, Goto, Still,
     runVars, allRunVars
<1> QED BY <1>1, <1>2

(* What the planner holds is about the tables of FROM, whatever the        *)
(* statement; freed are operators that were allocated.                     *)
THEOREM TypeCorrect == RunSpec => []TypeOK
<1>1. RunInit => Inv
  BY RunInitInv DEF Inv, RunInit
<1>2. Inv /\ [RunNext]_allRunVars => Inv'
  BY FlagsStep, StmtInvStep, ScanInvStep, OutsInvStep, HeapInvStep, CallsInvStep DEF Inv
<1>3. Inv => TypeOK
  <2> SUFFICES ASSUME Inv PROVE TypeOK
    OBVIOUS
  <2> USE DEF Inv
  <2>1. DOMAIN scans = ToSet(aliases)
    BY DEF ScanInv
  <2>2. \A a \in DOMAIN scans : scans[a] \in DOMAIN stmt.from
    BY FromIsList DEF ScanInv
  <2>3. joined \in 0..Len(stmt.from)
    BY FromIsList DEF ScanInv
  <2>4. ToSet(outs) \subseteq IUs
    BY DEF OutsInv, ToSet
  <2>5. ToSet(freed) \subseteq heap
    BY DEF CallsInv, ToSet
  <2> QED BY <2>1, <2>2, <2>3, <2>4, <2>5 DEF TypeOK, IUs
<1> QED BY <1>1, <1>2, <1>3, PTL DEF RunSpec, allRunVars

(* Whenever runQuery ends after a plan was made (with rows, with the text  *)
(* of EXPLAIN, with an exception from code generation or without a         *)
(* function), deleteOperatorTree has deleted every operator once, if no    *)
(* two tables of FROM have the same alias.                                 *)
THEOREM TreeDeletedOnce ==
    ASSUME \A s \in Statements : DistinctAliases(s)
    PROVE  RunSpec => []DeletesTreeOnce
<1> DEFINE IInv == Inv /\ WalkInv /\ TreeInv
<1>1. RunInit => IInv
  <2> SUFFICES ASSUME RunInit PROVE IInv
    OBVIOUS
  <2>1. Inv
    BY RunInitInv DEF Inv, RunInit
  <2>2. pc = "text" /\ heap = {} /\ Len(aliases) = 0
    BY DEF RunInit, PlanInit
  <2>3. WalkInv
    BY <2>2 DEF WalkInv, Cleaning, Ended
  <2>4. TreeInv
    BY <2>2 DEF TreeInv, Planned, Cleaning, Ended
  <2> QED BY <2>1, <2>3, <2>4
<1>2. IInv /\ [RunNext]_allRunVars => IInv'
  <2> SUFFICES ASSUME IInv, [RunNext]_allRunVars PROVE IInv'
    OBVIOUS
  <2>1. Inv'
    BY FlagsStep, StmtInvStep, ScanInvStep, OutsInvStep, HeapInvStep, CallsInvStep DEF Inv
  <2>2. WalkInv'
    BY WalkInvStep DEF Inv
  <2>3. TreeInv'
    BY StmtDistinct, TreeInvStep DEF Inv
  <2> QED BY <2>1, <2>2, <2>3
<1>3. IInv => DeletesTreeOnce
  <2> SUFFICES ASSUME IInv, pc \in Ended PROVE ToSet(freed) = heap /\ Len(freed) = Cardinality(heap)
    BY DEF DeletesTreeOnce, Ended
  <2>1. heap \subseteq ToSet(freed)
    BY WalkReachesAll DEF Inv
  <2>2. ToSet(freed) \subseteq heap
    BY DEF Inv, CallsInv, ToSet
  <2>3. Cardinality(ToSet(freed)) = Len(freed)
    BY DEF WalkInv
  <2>4. ToSet(freed) = heap
    BY <2>1, <2>2
  <2> QED BY <2>3, <2>4
<1> QED BY <1>1, <1>2, <1>3, PTL DEF RunSpec, allRunVars
=============================================================================
