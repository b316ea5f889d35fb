------------------------------- MODULE Planner -------------------------------
(***************************************************************************)
(* QueryPlanner::plan (src/sql/sql_planner.cpp): from a parsed SELECT      *)
(* statement to an operator tree and the IUs of the SELECT list, one loop  *)
(* iteration at a time.                                                    *)
(*                                                                         *)
(*  - A scan is known by its position in the FROM list, and its IUs are    *)
(*    <<position, column>>.                                                *)
(*  - A column's name is the sequence of its parts between dots; an        *)
(*    identifier of SQL has one part.                                      *)
(*  - The predicate of a select is the list of its conjuncts, which are    *)
(*    resolved when code is generated for it.                              *)
(***************************************************************************)
EXTENDS SqlAst, SequencesExt, FiniteSets

CONSTANTS
    Catalog,           \* name of a table -> names of its columns
    ConjunctsOf(_),    \* the terms of a condition, and the columns in one:
    RefsOf(_)          \* FlattenAnd and ColumnRefs of Expressions

ASSUME CatalogAssumption ==
    \A table \in DOMAIN Catalog :
        /\ Catalog[table] \in Seq(ToSet(Catalog[table]))
        /\ \A name \in ToSet(Catalog[table]) : name \in Seq(ToSet(name))

VARIABLES
    stmt,         \* the statement, once it is parsed
    pc,           \* where plan() is
    aliases,      \* in FROM order
    scans,        \* alias -> its scan's position
    conjuncts,    \* still to be classified
    filters, joinKeys, postFilters,
    plans,        \* alias -> scan, with its filter
    joined,       \* how many aliases planRoot joins
    planRoot,
    items,        \* of the SELECT list, still to be resolved
    outs,         \* the IUs of those that are
    heap          \* the operators allocated so far

planVars == <<stmt, pc, aliases, scans, conjuncts, filters, joinKeys,
              postFilters, plans, joined, planRoot, items, outs, heap>>
classes  == <<filters, joinKeys, postFilters>>
tree     == <<plans, joined, planRoot>>

(* f[x] = v on a map *)
Put(f, x, v) == [y \in DOMAIN f \cup {x} |-> IF y = x THEN v ELSE f[y]]

NoTree  == [kind |-> "none"]

-----------------------------------------------------------------------------
(* Expressions and names *)

(* An unqualified reference has the alias "".                              *)
ConjunctAliases(e) == {ref.alias : ref \in RefsOf(e)} \ {""}

IsJoinKey(c) ==
    /\ Cardinality(ConjunctAliases(c)) = 2
    /\ c.kind = "bin" /\ c.op = "CmpEq"
    /\ c.left.kind = "col" /\ c.right.kind = "col"

(* The columns of a scan that getIU may take a name for: the name of its   *)
(* IU ends in ".name".  It takes the first.                                *)
Columns(n)     == Catalog[stmt.from[n].table]
Found(n, name) == {c \in DOMAIN Columns(n) : IsSuffix(name, Columns(n)[c])}
GetIU(n, name) == <<n, Min(Found(n, name))>>

(* resolveAlias and resolveColumn *)
Owners(ref) ==
    IF ref.alias # "" THEN {ref.alias} \cap DOMAIN scans
    ELSE {a \in DOMAIN scans : Found(scans[a], <<ref.name>>) # {}}
Resolves(ref) ==
    \E a \in Owners(ref) : Owners(ref) = {a} /\ Found(scans[a], <<ref.name>>) # {}
IUOf(ref) == GetIU(scans[CHOOSE a \in Owners(ref) : TRUE], <<ref.name>>)

-----------------------------------------------------------------------------
(* Operators *)

ScanOf(n) == [kind |-> "scan", alias |-> n, table |-> stmt.from[n].table,
              cols |-> Len(Columns(n)), rows |-> 0]
Select(id, child, conds) ==
    [kind |-> "select", id |-> id, child |-> child, conjuncts |-> conds]
HashJoin(id, build, probe, keys) ==
    [kind |-> "join", id |-> id, build |-> build, probe |-> probe,
     buildKeys |-> [i \in DOMAIN keys |-> keys[i].new],
     probeKeys |-> [i \in DOMAIN keys |-> keys[i].old]]

-----------------------------------------------------------------------------
PlanInit ==
    /\ stmt = NoStatement
    /\ pc = "text"
    /\ aliases = <<>> /\ scans = [a \in {} |-> 0]
    /\ conjuncts = <<>>
    /\ filters = [a \in {} |-> <<>>] /\ joinKeys = <<>> /\ postFilters = <<>>
    /\ plans = [a \in {} |-> NoTree] /\ joined = 0 /\ planRoot = NoTree
    /\ items = <<>> /\ outs = <<>>
    /\ heap = {}

(* An exception leaves plan(). *)
Throw ==
    /\ pc' = "thrown"
    /\ UNCHANGED <<stmt, aliases, scans, conjuncts, classes, tree, items, outs, heap>>

(* Phase 1: create the scans *)

(* (fault: scans are kept by the name of the table) *)
CreateScanByTable ==
    /\ pc = "scan" /\ Len(aliases) < Len(stmt.from)
    /\ LET n == Len(aliases) + 1
           ref == stmt.from[n]
       IN  /\ ref.table \in DOMAIN Catalog
           /\ scans' = Put(scans, ref.table, n)
           /\ aliases' = Append(aliases, ref.alias)
           /\ heap' = heap \cup {ScanOf(n)}
    /\ UNCHANGED <<stmt, pc, conjuncts, classes, tree, items, outs>>

CreateScan ==
    /\ pc = "scan" /\ Len(aliases) < Len(stmt.from)
    /\ LET n == Len(aliases) + 1
           ref == stmt.from[n]
       IN  /\ ref.table \in DOMAIN Catalog
           /\ scans' = Put(scans, ref.alias, n)
           /\ aliases' = Append(aliases, ref.alias)
           /\ heap' = heap \cup {ScanOf(n)}
    /\ UNCHANGED <<stmt, pc, conjuncts, classes, tree, items, outs>>

UnknownTable ==
    /\ pc = "scan" /\ Len(aliases) < Len(stmt.from)
    /\ stmt.from[Len(aliases) + 1].table \notin DOMAIN Catalog
    /\ Throw

(* Phase 2: classify the conjuncts of WHERE *)

Terms == IF stmt.where = NoWhere THEN <<>> ELSE ConjunctsOf(stmt.where)

FlattenWhere ==
    /\ pc = "scan" /\ Len(aliases) = Len(stmt.from)
    /\ pc' = "classify"
    /\ conjuncts' = Terms
    /\ UNCHANGED <<stmt, aliases, scans, classes, tree, items, outs, heap>>

Classifying == pc = "classify" /\ conjuncts # <<>>
FiltersOf(alias) == IF alias \in DOMAIN filters THEN filters[alias] ELSE <<>>

(* (fault: a later filter of an alias takes the place of an earlier one) *)
ClassifyFilterAgain ==
    /\ Classifying
    /\ \E alias \in ConjunctAliases(Head(conjuncts)) :
          /\ ConjunctAliases(Head(conjuncts)) = {alias}
          /\ filters' = Put(filters, alias, <<Head(conjuncts)>>)
    /\ conjuncts' = Tail(conjuncts)
    /\ UNCHANGED <<stmt, pc, aliases, scans, joinKeys, postFilters, tree, items, outs, heap>>

ClassifyFilter ==
    /\ Classifying
    /\ \E alias \in ConjunctAliases(Head(conjuncts)) :
          /\ ConjunctAliases(Head(conjuncts)) = {alias}
          /\ filters' = Put(filters, alias, Append(FiltersOf(alias), Head(conjuncts)))
    /\ conjuncts' = Tail(conjuncts)
    /\ UNCHANGED <<stmt, pc, aliases, scans, joinKeys, postFilters, tree, items, outs, heap>>

(* The two sides in FROM order; an alias that is not there comes last.     *)
Position(alias) ==
    IF alias \in ToSet(aliases) THEN Min({n \in DOMAIN aliases : aliases[n] = alias})
    ELSE Len(aliases) + 1
Sides(c) ==
    IF Position(c.left.alias) <= Position(c.right.alias) THEN <<c.left, c.right>>
    ELSE <<c.right, c.left>>
Known(ref) == ref.alias \in DOMAIN scans
HasColumn(ref) == Known(ref) /\ Found(scans[ref.alias], <<ref.name>>) # {}

(* (fault: one side is looked up twice) *)
ClassifyJoinKeySame ==
    /\ Classifying /\ IsJoinKey(Head(conjuncts))
    /\ LET side == Sides(Head(conjuncts))
       IN  /\ HasColumn(side[1]) /\ HasColumn(side[2])
           /\ joinKeys' = Append(joinKeys,
                  [buildAlias |-> side[1].alias, buildIU |-> IUOf(side[1]),
                   probeAlias |-> side[2].alias, probeIU |-> IUOf(side[1])])
    /\ conjuncts' = Tail(conjuncts)
    /\ UNCHANGED <<stmt, pc, aliases, scans, filters, postFilters, tree, items, outs, heap>>

ClassifyJoinKey ==
    /\ Classifying /\ IsJoinKey(Head(conjuncts))
    /\ LET side == Sides(Head(conjuncts))
       IN  /\ HasColumn(side[1]) /\ HasColumn(side[2])
           /\ joinKeys' = Append(joinKeys,
                  [buildAlias |-> side[1].alias, buildIU |-> IUOf(side[1]),
                   probeAlias |-> side[2].alias, probeIU |-> IUOf(side[2])])
    /\ conjuncts' = Tail(conjuncts)
    /\ UNCHANGED <<stmt, pc, aliases, scans, filters, postFilters, tree, items, outs, heap>>

(* getIU is called on scans[alias], a null pointer for an unknown alias.   *)
JoinKeyOnUnknownAlias ==
    /\ Classifying /\ IsJoinKey(Head(conjuncts))
    /\ LET side == Sides(Head(conjuncts))
       IN  ~Known(side[1]) \/ (HasColumn(side[1]) /\ ~Known(side[2]))
    /\ pc' = "crash"
    /\ UNCHANGED <<stmt, aliases, scans, conjuncts, classes, tree, items, outs, heap>>

JoinKeyOnUnknownColumn ==
    /\ Classifying /\ IsJoinKey(Head(conjuncts))
    /\ LET side == Sides(Head(conjuncts))
       IN  \/ Known(side[1]) /\ ~HasColumn(side[1])
           \/ HasColumn(side[1]) /\ Known(side[2]) /\ ~HasColumn(side[2])
    /\ Throw

ClassifyPostJoin ==
    /\ Classifying
    /\ Cardinality(ConjunctAliases(Head(conjuncts))) # 1 /\ ~IsJoinKey(Head(conjuncts))
    /\ postFilters' = Append(postFilters, Head(conjuncts))
    /\ conjuncts' = Tail(conjuncts)
    /\ UNCHANGED <<stmt, pc, aliases, scans, filters, joinKeys, tree, items, outs, heap>>

(* Phase 3: the tree *)

Filtered(n) ==
    LET alias == aliases[n]
        scan  == ScanOf(scans[alias])
    IN  IF FiltersOf(alias) = <<>> THEN scan ELSE Select(n, scan, FiltersOf(alias))

WrapScans ==
    /\ pc = "classify" /\ conjuncts = <<>>
    /\ pc' = "join"
    /\ plans' = [alias \in ToSet(aliases) |->
                    Filtered(Max({n \in DOMAIN aliases : aliases[n] = alias}))]
    /\ planRoot' = plans'[aliases[1]]
    /\ joined' = 1
    /\ heap' = heap \cup {Filtered(n) : n \in DOMAIN aliases}
    /\ UNCHANGED <<stmt, aliases, scans, conjuncts, classes, items, outs>>

(* The join keys between alias and the others, alias's IU first. *)
(* (fault: the sides are taken as they are) *)
OrientedAsWritten(jk, alias) == [new |-> jk.buildIU, old |-> jk.probeIU]
Oriented(jk, alias) ==
    IF jk.buildAlias = alias THEN [new |-> jk.buildIU, old |-> jk.probeIU]
    ELSE [new |-> jk.probeIU, old |-> jk.buildIU]
Connects(jk, alias, others) ==
    \E other \in others : {jk.buildAlias, jk.probeAlias} = {alias, other}
KeysOf(alias, others) ==
    LET among[n \in 0..Len(joinKeys)] ==
            IF n = 0 THEN <<>>
            ELSE IF Connects(joinKeys[n], alias, others)
                 THEN Append(among[n - 1], Oriented(joinKeys[n], alias))
                 ELSE among[n - 1]
    IN  among[Len(joinKeys)]
Anyone == {jk.buildAlias : jk \in ToSet(joinKeys)} \cup {jk.probeAlias : jk \in ToSet(joinKeys)}

(* (fault: only the keys that connect a table to the first one) *)
LaterKeysOfFirst(alias) == KeysOf(alias, {aliases[1]})
LaterKeys(alias) == KeysOf(alias, Anyone)

(* The first table is the build side of the first join; after that a new   *)
(* table is the build side, and the tree so far the probe side.            *)
JoinNext ==
    /\ pc = "join" /\ joined < Len(aliases)
    /\ LET new  == aliases[joined + 1]
           join == IF joined = 1
                   THEN HashJoin(1, plans[aliases[1]], plans[new], KeysOf(aliases[1], {new}))
                   ELSE HashJoin(joined, plans[new], planRoot, LaterKeys(new))
       IN  planRoot' = join /\ heap' = heap \cup {join}
    /\ joined' = joined + 1
    /\ UNCHANGED <<stmt, pc, aliases, scans, conjuncts, classes, plans, items, outs>>

WrapPostJoin ==
    /\ pc = "join" /\ joined = Len(aliases)
    /\ pc' = "select"
    /\ planRoot' = IF postFilters = <<>> THEN planRoot ELSE Select(0, planRoot, postFilters)
    /\ heap' = heap \cup {planRoot'}
    /\ items' = stmt.select
    /\ UNCHANGED <<stmt, aliases, scans, conjuncts, classes, plans, joined, outs>>

(* Phase 4: resolve the SELECT list *)

(* (fault: the scans in the order of their map, the last one first) *)
ExpandedByMap ==
    LET ofAlias(n) == LET scan == scans[Reverse(aliases)[n]]
                      IN  [c \in DOMAIN Columns(scan) |-> GetIU(scan, Columns(scan)[c])]
    IN  FlattenSeq([n \in DOMAIN aliases |-> ofAlias(n)])

Expanded ==
    LET ofAlias(n) == LET scan == scans[aliases[n]]
                      IN  [c \in DOMAIN Columns(scan) |-> GetIU(scan, Columns(scan)[c])]
    IN  FlattenSeq([n \in DOMAIN aliases |-> ofAlias(n)])

Selecting == pc = "select" /\ items # <<>>
ResolveItem ==
    /\ Selecting
    /\ LET item == Head(items)
       IN  \/ item = Star /\ outs' = outs \o Expanded
           \/ item.kind = "col" /\ Resolves(item) /\ outs' = Append(outs, IUOf(item))
    /\ items' = Tail(items)
    /\ UNCHANGED <<stmt, pc, aliases, scans, conjuncts, classes, tree, heap>>

RejectItem ==
    /\ Selecting
    /\ LET item == Head(items)
       IN  item # Star /\ ~(item.kind = "col" /\ Resolves(item))
    /\ Throw

ReturnPlan ==
    /\ pc = "select" /\ items = <<>>
    /\ pc' = "planned"
    /\ UNCHANGED <<stmt, aliases, scans, conjuncts, classes, tree, items, outs, heap>>

PlanNext ==
    \/ CreateScan
    \/ UnknownTable
    \/ FlattenWhere
    \/ ClassifyFilter
    \/ ClassifyJoinKey
    \/ JoinKeyOnUnknownAlias
    \/ JoinKeyOnUnknownColumn
    \/ ClassifyPostJoin
    \/ WrapScans
    \/ JoinNext
    \/ WrapPostJoin
    \/ ResolveItem
    \/ RejectItem
    \/ ReturnPlan
=============================================================================
