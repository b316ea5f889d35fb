------------------------------ MODULE QueryRun ------------------------------
(***************************************************************************)
(* runQuery (src/sql/sql_runner.cpp) from a text to its rows: Runner, with *)
(* what the text says and the rows the compiled function collects.  What   *)
(* the function does is one step here: it collects the rows its operator   *)
(* tree stands for, which is what QueryMachine establishes.                *)
(***************************************************************************)
EXTENDS Runner, Expressions, OperatorTree, SqlParser, SqlGrammar, Relational

CONSTANTS
    Texts,      \* the queries that may be asked
    Inputs      \* what the tables of the catalog may hold

VARIABLES
    text,       \* of the query
    data,       \* the tables, from when they are read
    rows,       \* rows of the PrintTranslator
    result      \* rows of the QueryResult

results == <<text, data, rows, result>>
vars    == <<planVars, runVars, results>>

NoData  == [t \in {} |-> <<>>]

(* The tree with the names of its conjuncts resolved. *)
RECURSIVE ResolvedExpr(_)
ResolvedExpr(e) ==
    CASE e.kind = "col" -> [kind |-> "col", iu |-> IUOf(e)]
      [] e.kind = "int" -> e
      [] e.kind = "bin" -> [e EXCEPT !.left = ResolvedExpr(@), !.right = ResolvedExpr(@)]

RECURSIVE Resolved(_)
Resolved(op) ==
    CASE op.kind = "scan"   -> op
      [] op.kind = "select" -> [op EXCEPT !.child = Resolved(@),
                                          !.conjuncts = [i \in DOMAIN @ |-> ResolvedExpr(@[i])]]
      [] op.kind = "join"   -> [op EXCEPT !.build = Resolved(@), !.probe = Resolved(@)]

-----------------------------------------------------------------------------
Init ==
    /\ RunInit
    /\ text \in Texts
    /\ data = NoData
    /\ rows = <<>> /\ result = <<>>

(* What the texts are parsed to: Statements of Runner *)
ParsedTexts ==
    LET parsed == {ParseSelect(Tokenize(t)) : t \in {u \in Texts : Tokenizes(u)}}
    IN  {p.ast : p \in {q \in parsed : q.ok}}

ParseSQL == ParseSelect(Tokenize(text))
Parses   == Tokenizes(text) /\ ParseSQL.ok

ParseText ==
    /\ pc = "text" /\ Parses
    /\ Parse(ParseSQL.ast)
    /\ UNCHANGED results

RefuseText ==
    /\ ParseThrows /\ ~Parses
    /\ UNCHANGED results

GenerateCode ==
    /\ Produce
    /\ UNCHANGED results

RefusePlan ==
    /\ ProduceThrows
    /\ UNCHANGED results

RunCode ==
    /\ Execute
    /\ data' \in Inputs
    /\ rows' = AnswerOf(Resolved(planRoot), outs, data')
    /\ UNCHANGED <<text, result>>

CollectRows ==
    /\ Collect
    /\ result' = IF stmt.limit >= 0 /\ Len(rows) > stmt.limit
                 THEN SubSeq(rows, 1, stmt.limit) ELSE rows
    /\ rows' = <<>>
    /\ UNCHANGED <<text, data>>

(* The steps of Runner that have no part in the result *)
BeforeRun ==
    \/ Plan
    \/ Compile
    \/ CompileThrows
AfterRun ==
    \/ ReturnExplained
    \/ Release
    \/ DeleteChild
    \/ Delete
    \/ Leave

Next ==
    \/ ParseText
    \/ RefuseText
    \/ GenerateCode
    \/ RefusePlan
    \/ BeforeRun /\ UNCHANGED results
    \/ RunCode
    \/ CollectRows
    \/ AfterRun /\ UNCHANGED results

Spec == Init /\ [][Next]_vars

-----------------------------------------------------------------------------
(* What a statement means, without a plan: the combinations of rows of its *)
(* FROM tables that satisfy WHERE, projected to the SELECT list.           *)

RECURSIVE Meaning(_, _)
Meaning(e, row) ==
    CASE e.kind = "col" -> row[CHOOSE iu \in Named(e) : TRUE]
      [] e.kind = "int" -> e.val
      [] e.kind = "bin" -> FoldValue(e.op, Meaning(e.left, row), Meaning(e.right, row))

Combinations ==
    LET size(n) == Len(data[stmt.from[n].table])
        all     == [Entries -> UNION {1..size(n) : n \in Entries}]
        row(ix) == [iu \in UNION {{n} \X DOMAIN Columns(n) : n \in Entries} |->
                       data[stmt.from[iu[1]].table][ix[iu[1]]][iu[2]]]
    IN  {ix \in all : /\ \A n \in Entries : ix[n] <= size(n)
                      /\ stmt.where = NoWhere \/ Meaning(stmt.where, row(ix)) # 0}
Projected(ix, ius) ==
    [i \in DOMAIN ius |-> data[stmt.from[ius[i][1]].table][ix[ius[i][1]]][ius[i][2]]]

CountIn(s, row) == Cardinality({n \in DOMAIN s : s[n] = row})

-----------------------------------------------------------------------------
(* A query's result is the rows the statement means, each as often as it   *)
(* means it; with a LIMIT, that many of them at most, and no fewer than    *)
(* there are.                                                              *)
AnswersQuery ==
    pc = "returned" /\ ~explain =>
        \E ius \in {Wanted}, all \in {Combinations} :
            LET total == Cardinality(all)
                limit == IF stmt.limit = NoLimit THEN total ELSE stmt.limit
            IN  /\ Len(result) = Min({limit, total})
                /\ \A row \in ToSet(result) :
                      CountIn(result, row) <= Cardinality({ix \in all : Projected(ix, ius) = row})

(* An alias that is not in FROM is reported ("Unknown table alias",        *)
(* sql_planner.cpp:45), wherever it is used.                               *)
ReportsUnknownAlias ==
    pc \in {"generated", "crash"} =>
        \A ref \in Refs : ref.alias \in {""} \cup {stmt.from[n].alias : n \in Entries}

(* A text is parsed to the one tree the grammar in sql_parser.cpp gives    *)
(* its tokens, each as long as it can be, and refused if there is none:    *)
(* no piece of it is passed over.                                          *)
ParsesGrammar ==
    [][pc = "text" =>
          StatementTrees(Spelled(text)) = IF pc' = "thrown" THEN {} ELSE {stmt'}]_vars

(* "For each subsequent alias, find a join key connecting it to what we    *)
(* have so far" (sql_planner.cpp:237): what a join is probed with is there.*)
JoinsWhatItHas ==
    [][JoinNext =>
          ToSet(planRoot'.probeKeys) \subseteq ToSet(OutputIUs(planRoot'.probe))]_vars
=============================================================================
