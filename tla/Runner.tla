-------------------------------- MODULE Runner --------------------------------
(***************************************************************************)
(* The course of runQuery (src/sql/sql_runner.cpp): plan a statement,      *)
(* generate code, compile it, run or explain it, and delete the operator   *)
(* tree, on every path.  What the text is and which rows the function      *)
(* collects is left open here; QueryRun adds it.                           *)
(***************************************************************************)
EXTENDS Planner

CONSTANTS
    Statements,     \* what parseSQL may return
    OutSlots        \* value slots of the result trampoline (8)

(* parseSQL returns lists, and at least one table, or throws.              *)
ASSUME StatementAssumption ==
    \A s \in Statements :
        /\ s.from # <<>>
        /\ \A list \in {s.from, s.select} : list \in Seq(ToSet(list))

(* A condition is a list of terms, its columns are theirs; an equation of  *)
(* two columns has those.                                                  *)
ASSUME TermAssumption ==
    \A s \in Statements : s.where # NoWhere =>
        /\ ConjunctsOf(s.where) \in Seq(ToSet(ConjunctsOf(s.where)))
        /\ RefsOf(s.where) = UNION {RefsOf(c) : c \in ToSet(ConjunctsOf(s.where))}
        /\ \A ref \in RefsOf(s.where) : ref.kind = "col"
        /\ \A c \in ToSet(ConjunctsOf(s.where)) :
              c.kind = "bin" /\ c.left.kind = "col" /\ c.right.kind = "col" =>
                  RefsOf(c) = {c.left, c.right}

VARIABLES
    explain,    \* the caller asked for EXPLAIN
    jit,        \* the compiled function: "none", "live" or "released"
    seen,       \* operators deleteOperatorTree has been called on,
    calls,      \* its calls that have not returned, the last one first,
    freed       \* and the operators it has deleted, in order

cleanup == <<seen, calls, freed>>
runVars == <<explain, jit, cleanup>>

RunInit ==
    /\ PlanInit
    /\ explain \in BOOLEAN
    /\ jit = "none"
    /\ seen = {} /\ calls = <<>> /\ freed = <<>>

(* parseSQL is before the guard and before any operator is made. *)
Parse(s) ==
    /\ pc = "text"
    /\ pc' = "scan"
    /\ stmt' = s
    /\ UNCHANGED <<aliases, scans, conjuncts, classes, tree, items, outs, heap, runVars>>

ParseThrows ==
    /\ pc = "text"
    /\ Throw
    /\ UNCHANGED runVars

Plan == PlanNext /\ UNCHANGED runVars

Still == UNCHANGED <<stmt, aliases, scans, conjuncts, classes, tree, items, outs, heap, explain>>
Goto(from, to) == pc = from /\ pc' = to /\ Still

-----------------------------------------------------------------------------
(* Code generation, as far as it can fail *)

InputsOf(op) ==
    CASE op.kind = "scan"   -> {}
      [] op.kind = "select" -> {op.child}
      [] op.kind = "join"   -> {op.build, op.probe}

(* The IUs in the scope an operator hands to its parent: a scan's own, or  *)
(* all that its inputs have.                                               *)
Scope ==
    LET scope[op \in heap] ==
            IF op.kind = "scan" THEN {op.alias} \X (1..op.cols)
            ELSE UNION {scope[input] : input \in InputsOf(op)}
    IN  scope

(* Every name is resolved and in the scope of the operator that uses it.   *)
InScope(conds, op) ==
    \A c \in ToSet(conds) : \A ref \in RefsOf(c) : Resolves(ref) /\ IUOf(ref) \in Scope[op]
Fits(op) ==
    /\ op.kind = "select" => InScope(op.conjuncts, op.child)
    /\ op.kind = "join" => /\ ToSet(op.buildKeys) \subseteq Scope[op.build]
                           /\ ToSet(op.probeKeys) \subseteq Scope[op.probe]
Generates ==
    LET code[op \in heap] == (\A input \in InputsOf(op) : code[input]) /\ Fits(op)
    IN  code

(* (fault: nine columns are let through) *)
HasCodeNine == Len(outs) <= OutSlots + 1 /\ Generates[planRoot]

HasCode == Len(outs) <= OutSlots /\ Generates[planRoot]

Produce ==
    /\ Goto("planned", "generated")
    /\ HasCode
    /\ UNCHANGED <<jit, cleanup>>

Compile ==
    /\ Goto("generated", "compiled")
    /\ jit' = "live"
    /\ UNCHANGED cleanup

Execute ==
    /\ ~explain
    /\ Goto("compiled", "executed")
    /\ UNCHANGED <<jit, cleanup>>

Release ==
    /\ Goto("executed", "released")
    /\ jit' = "released"
    /\ UNCHANGED cleanup

-----------------------------------------------------------------------------
(* deleteOperatorTree: a call with what it has still to call itself on *)

(* (fault: the probe side of a join is forgotten) *)
ChildrenBuilt(op) ==
    CASE op.kind = "scan"   -> <<>>
      [] op.kind = "select" -> <<op.child>>
      [] op.kind = "join"   -> <<op.build>>

Children(op) ==
    CASE op.kind = "scan"   -> <<>>
      [] op.kind = "select" -> <<op.child>>
      [] op.kind = "join"   -> <<op.build, op.probe>>

Call(op) == [op |-> op, left |-> Children(op)]

(* cleanupPlan, called at the end, or by the guard declared after planning *)
(* when an exception passes it.                                            *)
CleanUp(from, to) ==
    /\ Goto(from, to)
    /\ seen' = {planRoot}
    /\ calls' = <<Call(planRoot)>>
    /\ UNCHANGED freed

ProduceThrows ==
    /\ CleanUp("planned", "unwind")
    /\ ~HasCode
    /\ UNCHANGED jit

(* asmjit could not finish the function or had no memory for it. *)
CompileThrows == CleanUp("generated", "nojit") /\ UNCHANGED jit

(* (fault: what EXPLAIN compiled is kept) *)
ReturnExplainedLive ==
    /\ explain
    /\ CleanUp("compiled", "explained")
    /\ UNCHANGED jit

ReturnExplained ==
    /\ explain
    /\ CleanUp("compiled", "explained")
    /\ jit' = "released"

Collect == CleanUp("released", "collected") /\ UNCHANGED jit

CleaningUp == pc \in {"unwind", "nojit", "explained", "collected"}

(* A call on an operator that has been seen returns at once. *)
DeleteChild ==
    /\ CleaningUp /\ calls # <<>> /\ calls[1].left # <<>>
    /\ LET child == Head(calls[1].left)
           rest  == [calls EXCEPT ![1].left = Tail(@)]
       IN  /\ calls' = IF child \in seen THEN rest ELSE <<Call(child)>> \o rest
           /\ seen' = seen \cup {child}
    /\ UNCHANGED <<pc, jit, freed>> /\ Still

Delete ==
    /\ CleaningUp /\ calls # <<>> /\ calls[1].left = <<>>
    /\ freed' = Append(freed, calls[1].op)
    /\ calls' = Tail(calls)
    /\ UNCHANGED <<pc, jit, seen>> /\ Still

Leave ==
    /\ calls = <<>>
    /\ \/ Goto("unwind", "failed")
       \/ Goto("nojit", "nocode")
       \/ Goto("explained", "returned")
       \/ Goto("collected", "returned")
    /\ UNCHANGED <<jit, cleanup>>

-----------------------------------------------------------------------------
RunNext ==
    \/ \E s \in Statements : Parse(s)
    \/ ParseThrows
    \/ Plan
    \/ Produce
    \/ ProduceThrows
    \/ Compile
    \/ CompileThrows
    \/ ReturnExplained
    \/ Execute
    \/ Release
    \/ Collect
    \/ DeleteChild
    \/ Delete
    \/ Leave

RunSpec == RunInit /\ [][RunNext]_<<planVars, runVars>>

-----------------------------------------------------------------------------
(* Type invariant: what the planner has built is about the tables of FROM, *)
(* and only operators that were allocated are deleted.                     *)
TypeOK ==
    /\ explain \in BOOLEAN /\ jit \in {"none", "live", "released"}
    /\ DOMAIN scans = ToSet(aliases)
    /\ \A a \in DOMAIN scans : scans[a] \in DOMAIN stmt.from
    /\ joined \in 0..Len(stmt.from)
    /\ ToSet(outs) \subseteq UNION {{n} \X DOMAIN Columns(n) : n \in 1..Len(aliases)}
    /\ ToSet(freed) \subseteq heap

(* Of what WHERE asks, nothing is lost on the way to the tree: a planned   *)
(* statement has each term in a select, or as keys of a join.  Only the    *)
(* filter of an alias that is not in FROM is nowhere.                      *)
Applies(op, c) ==
    \/ op.kind = "select" /\ c \in ToSet(op.conjuncts)
    \/ /\ op.kind = "join" /\ IsJoinKey(c)
       /\ \E i \in DOMAIN op.buildKeys :
             {op.buildKeys[i], op.probeKeys[i]} = {IUOf(c.left), IUOf(c.right)}
AppliesEveryTerm ==
    pc = "planned" =>
        \A c \in ToSet(Terms) :
            \/ \E op \in heap : Applies(op, c)
            \/ Cardinality(ConjunctAliases(c)) = 1 /\ ConjunctAliases(c) \cap DOMAIN scans = {}

(* And nothing is made up: what a select or a join asks is a term.         *)
AppliesOnlyTerms ==
    pc = "planned" =>
        /\ \A op \in heap : op.kind = "select" => ToSet(op.conjuncts) \subseteq ToSet(Terms)
        /\ \A op \in heap : op.kind = "join" =>
              \A i \in DOMAIN op.buildKeys :
                  \E c \in ToSet(Terms) :
                      /\ IsJoinKey(c)
                      /\ {op.buildKeys[i], op.probeKeys[i]} = {IUOf(c.left), IUOf(c.right)}

(* Whenever a plan was made, on whatever path the query ends, each of its  *)
(* operators has been deleted, once.                                       *)
DeletesTreeOnce ==
    pc \in {"returned", "failed", "nocode"} =>
        /\ ToSet(freed) = heap
        /\ Len(freed) = Cardinality(heap)

-----------------------------------------------------------------------------
(* What the names of a statement mean, without a plan *)

Entries == DOMAIN stmt.from
Named(ref) ==
    {iu \in UNION {{n} \X DOMAIN Columns(n) : n \in Entries} :
        ref.alias \in {"", stmt.from[iu[1]].alias} /\ Columns(iu[1])[iu[2]] = <<ref.name>>}

RefsIn(s) ==
    (IF s.where = NoWhere THEN {} ELSE RefsOf(s.where)) \cup (ToSet(s.select) \ {Star})
Refs == RefsIn(stmt)

(* A statement is well formed if it has tables, they exist, its aliases are *)
(* distinct, every name means one column and the SELECT list is a list of  *)
(* at most OutSlots columns.                                               *)
Wanted ==
    FlattenSeq([i \in DOMAIN stmt.select |->
        IF stmt.select[i] = Star
        THEN FlattenSeq([n \in Entries |-> [c \in DOMAIN Columns(n) |-> <<n, c>>]])
        ELSE <<CHOOSE iu \in Named(stmt.select[i]) : TRUE>>])
WellFormed ==
    /\ stmt.from # <<>>
    /\ \A n \in Entries : stmt.from[n].table \in DOMAIN Catalog
    /\ \A m, n \in Entries : stmt.from[m].alias = stmt.from[n].alias => m = n
    /\ \A ref \in Refs : ref.kind = "col" /\ \E iu \in Named(ref) : Named(ref) = {iu}
    /\ Len(Wanted) <= OutSlots

(* The columns that leave the plan are those the SELECT list names, in its *)
(* order, a star's in the order of FROM.                                   *)
SelectsWanted == pc = "planned" /\ WellFormed => outs = Wanted

(* No well-formed statement is rejected: names mean what the SQL says,     *)
(* wherever the planner has put the conjunct that uses them.               *)
AcceptsWellFormed == pc \in {"thrown", "unwind", "crash"} => ~WellFormed

(* Every other statement is: an unknown name is an error, and not a        *)
(* condition that is never applied ("Unknown table alias",                 *)
(* sql_planner.cpp:45 and :76).                                            *)
RejectsIllFormed == pc = "generated" => WellFormed

-----------------------------------------------------------------------------
(* What the theorems ask of a statement.  Where one of these fails the code *)
(* is wrong or has no answer, as the violated runs and the hazards show.   *)

(* The tables of FROM have aliases of their own.  (The scan of an alias    *)
(* that comes again is not in the tree: nobody deletes the first one.)     *)
DistinctAliases(s) ==
    \A m, n \in DOMAIN s.from : s.from[m].alias = s.from[n].alias => m = n

(* The first column of a table whose name ends in "." and this one has     *)
(* this name itself: getIU takes no "b.c" for "c".                         *)
FindsNamed(table, name) ==
    \A c \in DOMAIN Catalog[table] :
        IsSuffix(name, Catalog[table][c]) => \E b \in 1..c : Catalog[table][b] = name

(* The tables of a statement have no column twice, and no column whose     *)
(* name has dots is taken for another.                                     *)
NamesFound(s) ==
    \A n \in DOMAIN s.from : s.from[n].table \in DOMAIN Catalog =>
        LET table == s.from[n].table
        IN  /\ \A b, c \in DOMAIN Catalog[table] : Catalog[table][b] = Catalog[table][c] => b = c
            /\ \A name \in ToSet(Catalog[table]) : FindsNamed(table, name)
            /\ \A ref \in RefsIn(s) : ref.kind = "col" => FindsNamed(table, <<ref.name>>)

(* A filter of one alias uses no unqualified column of another table.      *)
FiltersLocal(s) ==
    s.where # NoWhere =>
        \A c \in ToSet(ConjunctsOf(s.where)) : \A ref \in RefsOf(c) : \A n \in DOMAIN s.from :
            ref.alias = "" /\ ConjunctAliases(c) = {s.from[n].alias} /\ s.from[n].table \in DOMAIN Catalog =>
                <<ref.name>> \in ToSet(Catalog[s.from[n].table])

(* Each key names one of the first two tables: the join with a later one   *)
(* has those on its probe side, whatever comes between.                    *)
KeysReach(s) ==
    s.where # NoWhere =>
        \A c \in ToSet(ConjunctsOf(s.where)) : IsJoinKey(c) =>
            \E n \in {1, 2} \cap DOMAIN s.from : s.from[n].alias \in {c.left.alias, c.right.alias}

(* The alias of a filter is in FROM.                                       *)
FiltersKnown(s) ==
    s.where # NoWhere =>
        \A c \in ToSet(ConjunctsOf(s.where)) :
            Cardinality(ConjunctAliases(c)) = 1 =>
                ConjunctAliases(c) \subseteq {s.from[n].alias : n \in DOMAIN s.from}
=============================================================================
