# Verification of the Tidy Tuples / Flying Start query compiler

The program compiles a `SELECT` statement to machine code and runs it:

    SQL text -> parser -> planner -> operator tree
             -> produce/consume -> Umbra IR -> dead code elimination
             -> Flying Start (one pass) -> x86-64 code -> call -> rows

Around it, an interactive shell loads CSV files into the tables queries read.

It has one thread. What is hard in it is not scheduling but *staging*: the
order in which code is generated, the order in which it runs, and the order in
which blocks are laid out are three different orders, and values (constants,
registers, phi inputs, pointers into hash tables) are handed from one to the
other. These modules check that a query delivers the rows its operator tree
stands for, that this is what its text says, that the tables it reads are what
the files say, and that the pieces it is made of keep what they promise.

## Components

| Component (`src/src/...`) | State | Operations | What makes it correct |
|---|---|---|---|
| Umbra IR, `ir/umbra_ir.*` | `instrData`, functions and blocks, insertion point, `constIntCache` | `beginFunction`, `addBlock`, `setInsertionPoint`, 13 `add*` builders, `patchPhiEntry`, `eliminateDeadCode` | references stay valid, an instruction is in one block, constants denote what was asked for, elimination removes only dead code and keeps the control flow |
| Codegen types, `codegen/*` | none of its own: wraps the IR | `IfStmt`, SQL value operations, `hashValues` | an `if` always reaches its merge block; build and probe hash alike |
| Operator translators, `operators/*` | parents, IUs, key and payload lists, the hash table | `produce`, `consume` | every row of a child reaches the parent's code once, with its IUs in scope; build before probe |
| Runtime hash table, `operators/hash_join_translator.cpp` | bucket lists, `matchBuffer` | `insert`, `lookupAll`, `matchCount`, `matchAt` | a probe finds every entry with its key once, whatever collides |
| Flying Start, `backend/flying_start.cpp` | `regMap`, `phiRegs`, labels, `deferredCmps` | one translation per opcode, edges, calls | the code computes what the IR says; a register is written before it is read |
| Planner, `sql/sql_planner.cpp` | scans, conjunct lists, join keys | `plan`, `evalExpr` | no conjunct is lost, keys are in scope, names are resolved |
| Runner, `sql/sql_runner.cpp` | operator tree, compiled function, rows | `runQuery`, the print operator | the result is the query's; the tree is deleted once on every path |
| Lexer and parser, `sql/sql_lexer.cpp`, `sql/sql_parser.cpp`, `sql/sql_ast.hpp` | tokens, the position in them | `tokenize`, `parseSQL` | the tree is the grammar's; every character is consumed, or the text refused |
| Catalog, REPL registry, `sql/sql_catalog.hpp`, `main.cpp` | owners, and a parallel vector of pointers to what they own | `.load`, `--csv`, `.tables`, `.schema`, queries | pointers are to live tables; all searches find the same one; a failed load changes nothing |
| CSV loader, `io/csv_loader.hpp` | rows, column types, the string dictionary, columns | `loadCSV`, `intern`, `lookup` | every cell is represented where it belongs; ids stand for their texts for good |
| IR printer, asmjit, demos | | | output, vendored code, fixed drivers |

They interact by calls only: the runner asks the planner for a tree, calls
`produce` on its root, and each translator calls `consume` of its parent, all
of them emitting into the one IR program; the backend reads the program; the
compiled function calls back into precompiled functions of the translators,
which share the hash tables and the row vector with it by embedded addresses.
The shell passes the registry's pointers to the runner, whose catalog keeps the
last table of each name, and asks the dictionaries for texts when it shows rows.

The hazards of this code, each at its line, are in `PROJECT.json`.

## Modules

| Module | Models |
|---|---|
| `UmbraIR` | `IRProgram` as a record and each builder call as an operator from programs to programs |
| `HostInt` | two's complement words of any width, the switch of `tryConstFold`, the cache key |
| `IRBuilder` | a client that calls every builder method in any legal order; the IR's properties |
| `IRBuilder_proofs` | theorems about `IRBuilder`: types, places, the cache, folding |
| `Elimination_proofs` | theorems about `IRBuilder`'s dead code elimination |
| `Induction` | induction and recursion over the natural numbers, as lemmas about sets |
| `JoinTable` | `RuntimeHashTable` and the order in which a compiled join calls it; the loop of `lookupAll` one entry at a time |
| `Multimap` | abstract: what a hash table promises a join |
| `JoinTable_proofs` | theorems about `JoinTable`, `Multimap` among them |
| `OperatorTree` | the operators between planner and translators, and their IUs |
| `Translators` | `produce` and `consume` of scan, select, join and print; expressions; hashing |
| `FlyingStart` | the translation of an IR function into machine instructions over virtual registers |
| `Relational` | reference semantics of operator trees, with no code in it |
| `QueryResult` | abstract: what running a query promises |
| `Execution` | the compiled function of a plan running, one machine instruction per step, with its calls |
| `QueryMachine` | `Execution` of given plans on given tables; its properties |
| `SqlAst`, `SqlLexer`, `SqlParser` | syntax trees, `tokenize`, the recursive descent |
| `SqlGrammar` | reference: the grammar in the parser's comments, read as a grammar |
| `Planner` | `QueryPlanner::plan`, one loop iteration per step, and the exceptions that leave it |
| `Expressions` | the terms of a condition and the columns in it, by recursion over expressions |
| `Runner` | the course of `runQuery` on every path: parse, plan, generate, compile, run or explain, collect, and `deleteOperatorTree` call by call; for which plans code can be generated; what the names of a statement mean |
| `Runner_proofs` | theorems about `Runner`, and `Planner` in it |
| `Planner_proofs` | theorems about what a plan says: the terms of WHERE, the SELECT list, the scopes of its operators and which statements have code |
| `QueryRun` | `Runner` with the text that is parsed and the rows that are collected; what rows a SELECT statement means, without a plan |
| `SqlPipeline` | `QueryRun` with the planner's tree compiled and run by `Execution` |
| `CsvLine` | `csvTrim`, `csvSplitLine`, `tryParseInt`, on characters |
| `CsvLoader` | `loadCSV`, a line or a cell per step, and `StringDict` |
| `TableRegistry` | the owners, the pointers and the heap they point into; the three searches by name |
| `Repl` | `main`'s `--csv` loads and the shell's commands over both |
| `TableStore` | abstract: what the shell promises about its tables |
| `Repl_proofs` | theorems about `Repl`: the registry, the dictionary |
| `TableStore_proofs` | that `Repl` implements `TableStore` |
| `MCIRBuilder`, `MCJoinTable`, `MCQueryMachine`, `MCQueryRun`, `MCPipeline`, `MCRepl` | instances for TLC: word sizes, hashes, queries, texts, files and tables |
| `MCText` | the text of a statement, for the instances |

`Execution` composes `Translators`, `FlyingStart` and the hash table's
operations. `QueryMachine` runs it and is shown to implement `QueryResult` with
the answer that `Relational` defines. `JoinTable` is shown to implement
`Multimap`. `Runner` composes `Planner` with the runner. `QueryRun` adds lexer and parser to it and
takes the run of the compiled function as one step with `Relational`'s answer;
the reference it is checked against is the meaning of FROM, WHERE and the SELECT
list, in which no tree occurs. `SqlPipeline` replaces that one step by
`Execution` of the planner's own tree and is shown to implement `QueryRun`, which
closes the chain from the characters of a query to its rows. `Repl` composes
`CsvLoader` and `TableRegistry` and is shown to implement `TableStore`; the
names of tables a query finds are those of `Catalogued` there.

### How they correspond to the code

*References.* An `IRValueRef` is a byte offset that only grows; the model
numbers instructions 1, 2, .... A block's list only grows at its end and
elimination keeps the order, so a block is the set of its references.
Parameters are negative, as they are outside the offsets in the code; `NullRef`
is one of them, because `isParam` says so of it too.

*Builder results.* Builder calls return a reference; here it is the program's
field `ret`. Code that emits several instructions is a chain of programs.

*Machine code.* The few instructions that an `emit_*` helper writes for one
opcode are one step: they read their sources and write a fresh register, and
nothing jumps between them. Register allocation by asmjit is left out: there
are as many registers as the translator asks for. A register nothing has
written holds any value of `Garbage`; this is the only nondeterminism of
`Execution` once query and data are chosen.

*Calls.* A Call instruction names one of eight precompiled functions, and each
is an action of `Execution`. A load outside a column, or through the null
pointer of `matchAt`, moves the machine to `status = "crash"`: the properties
say whether the access is reached. Reading past the end of `insertFn`'s local arrays gives
a value of `Garbage`. Addresses are small numbers; a column has one per table,
which all scans of that table share, and like the code's they take part in
constant deduplication.

*Texts.* A query is a sequence of words, numbers, blanks and single characters;
which characters make a word is left out, and what `tokenize` decides about them
is not: keywords in either case, operators of one and two characters, numbers
too large for `stoll`, characters that are not SQL. `<` and `>` stay open until
the next character is known, which stands for the code's look at `sql[i+1]`. A parse
function is an operator from the tokens left to a tree and the tokens left;
`parseSQL` runs before anything is allocated and is one step.

*The composed run.* `Generate` reads the tables' sizes into the code; cells are
read when the function runs. `rows` is shared by the runner and the machine,
everything else of the machine has variables of its own.

*Files and tables.* A line and a cell are sequences of characters, a byte order
mark counts as one. `loadCSV` takes a step per line and per cell. The registry's
vectors hold addresses; `heap` has the tables that exist, and the address of a
destroyed table may be given to the next. `FinishLoad` is `registerCSVTable`
whole. An id of text is shown as its text by `.schema` and as itself by a query;
`TableStore!Represents` says what such ids are good for.

*Planning.* A scan is known by its position in FROM, so its IUs are
<<position, column>>; two scans of one table are different operators, as in the
code. Names of columns are sequences of their parts between dots, because
`getIU` looks for a column whose full name ends in ".name". `heap` holds every
operator made by `new` and `freed` those deleted, in order. The lambda of a
SelectTranslator is its list of conjuncts; they are resolved, as in the code,
when code is generated, which is where an error in them ends the query
(`ProduceThrows`). `pc` says where control is; "thrown" is an exception out of
`plan`, "failed" and "nocode" are those out of code generation and compilation,
after the clean-up guard has run. The terms and columns of a condition are found
by recursion over it; `Planner` has operators for them as parameters
(`ConjunctsOf`, `RefsOf`), to which every instance gives those of `Expressions`.

*Clean-up.* `CleanUp` is the call of `cleanupPlan`, or of the guard that makes
it. `calls` is the stack of `deleteOperatorTree`: each call has its operator and
the inputs it has still to call itself on. `DeleteChild` is such a call, which
returns at once for an operator in `seen`; `Delete` is the `delete` at its end.

*Code generation in `Runner`.* Generating code may fail in two ways, and they
are the guard `HasCode` of `Produce`: more than `OutSlots` output columns, or an
operator that uses an IU not in the `ConsumerScope` it gets. `Scope` is what an
operator hands to its parent. A join's is what `mergeFrom` leaves, the probe
side's values with the build side's keys and payload, which together are all its
inputs have.

*`Runner` and `QueryRun`.* `Runner` leaves open what `QueryRun` decides:
which of its `Statements` a text is parsed to, or that it is refused, and what
is collected. Each action of `QueryRun` is one
of `Runner` with a condition on, and a value for, what it adds. So what is
proved of `Runner` holds of `QueryRun`; `SqlPipeline` is checked to implement that.

*Auxiliary variables.* `fn`, the compiled function, depends only on the query
and the table sizes. `answer` is the answer of the query by `Relational`; no
action reads it, it is there for the refinement.

## Runs

| Run | Instance | Shows |
|---|---|---|
| `ir_builder` | all 13 emitting methods, 2 instructions, 2 functions, 1 block | `TypeOK`, `PlacedOnce`, `CacheSound` |
| `ir_folding` | constants, two pairs of them with one cache key, folding, branches, 3 instructions, 2 blocks | `ConstantsAsAsked`, `FoldsAsComputed`, `DceRemovesOnlyDead`, `DceKeepsFlow` |
| `join_table` | 2 buckets, 4 two-field keys, up to 3 rows | `MatchesExact`, `ProbesEnd`, `Implements` (`Multimap`) |
| `query` | six queries on all their small tables | `NoWildAccess`, `ProbesSeeWholeBuild`, `ReadsWritten`, `Returned`, `ImplementsPlan` (`QueryResult`) |
| `query_bound` | a literal equal to the number of rows of a later table | violates `NoWildAccess` |
| `query_and` | AND of integer columns | violates `ImplementsPlan` |
| `query_payload` | five payload columns | violates `EntriesArePacked` |
| `query_run` | 3475 texts over up to four tables and aliases, with and without EXPLAIN, each on three databases | `ParsesGrammar`, `AppliesEveryTerm`, `AppliesOnlyTerms`, `SelectsWanted`, `AnswersQuery`, `AcceptsWellFormed`, `RejectsIllFormed`, `DeletesTreeOnce` |
| `pipeline` | thirteen statements, and texts cut short, on four databases | `AnswersQuery`, `ImplementsRun` (`QueryRun`), `Releases` |
| `repl` | up to three loads of four files and a missing one, under three names, one of them a built-in table's | `RegistrySound`, `FoundAlike`, `TextsDecode`, `Implements` (`TableStore`) |
| `plan_later_key` | four tables, keys among the last three | violates `JoinsWhatItHas` |
| `plan_unknown_alias` | a condition on an alias that is not in FROM | violates `ReportsUnknownAlias` |

The six queries of `query` are: a filter with two conjuncts, arithmetic and OR;
a join of two filtered tables with a filter above it; a three-way join, where
one join's loop runs inside the other's; a product (no join key); a constant
predicate that folds to false; a join on two columns.

### Bounds and why they are enough

* `WordBits = 16` in `query`, 7 in the IR runs (64 in the code); the other
  widths are scaled with it (`TypeShift`, `HalfWord`, `ZExtBits`), and the hash
  constants are the code's low 16 bits. Wrap-around, sign and the type tag's
  overlap with the value all occur. Join keys and tables of `query` avoid the
  literals that `query_bound` is about.
* `NumBuckets = 2` (1024 in the code): keys collide and do not. In `join_table`
  the hash is chosen so that keys sharing the first field, and keys sharing the
  second, share a bucket. `Crc` is an arbitrary function with collisions: no
  property may depend on its values.
* Tables of at most 2 or 3 rows: no row, one, two with equal keys, two with
  different ones, a first iteration, a later one and the exit of each loop.
* `Slots = 4` and `OutSlots = 8` are the code's.
* `Garbage = {0, 3}`: a loop bound that is too small and one that is too large.
* `MaxInstrs`, `MaxBlocks`, `MaxFunctions`: three instructions over two blocks
  are the smallest programs with a folded constant, a branch and an unreachable
  block; elimination may happen at any time between builder calls.
* `Emits` chooses which builder methods a run calls, so that the runs that need
  longer programs do not multiply them by methods they are not about.
* `query_run`: FROM lists of one to four entries, self joins and a later table
  first among them; WHERE with no, one, two or three conjuncts out of filters,
  keys in either order, a disjunction over two tables and unknown columns;
  SELECT lists with stars, qualified, unqualified, unknown and non-column
  items and nine columns, a column whose name ends like another's; LIMIT absent, 0, 1 and more than there are rows. The
  texts are these statements with the parentheses they need, expressions of up
  to three operators in every nesting, and for some statements every text that
  one dropped, inserted or doubled piece makes of them. Its
  statements leave out what the two `plan_` runs are about; an assumption of the
  instance says that they are as the theorems about plans ask. No build side has
  more than four payload columns and no conjunct is an integer, so that what
  `query_payload` and `query_and` show does not bear on it.

* `pipeline`: the statements are few because each is run instruction by
  instruction; among them a filter, products, joins of two and three tables with
  keys in either order, a self join on two columns, predicates that fold to true
  and to false, limits, names unknown to the planner and to the generated
  predicates, two conditions with an unqualified column of another table, and
  every statement without its last piece. They avoid what the `query_` runs are about.
* `repl`: `TypeCheckRows = 2` (200) and `SchemaRows = 2` (20), so files have rows
  that are checked, the last that is, and rows that are not; `MaxInt = 99`, so a
  cell may be too large a number; `OutSlots = 2` (8), so that one table is too wide
  for a star and the others are not. The files have doubled quotes and commas in
  quotes, blank lines and cells, long and short rows, returns before line ends, a
  byte order mark, a header alone, no line at all. `MaxLoads = 3`: a new name, its replacement and the replacement
  of that, at an address used before. Five addresses are one more than tables
  that exist at once; they are symmetric.

Deadlock is not checked in the query runs: the program ends when the query
returns.

### Fairness

`QueryMachine` has `WF_vars(Next)`: `execute` calls the compiled function and
the thread runs it until it returns. `JoinTable` has weak fairness of the steps inside its two loops
only; nothing makes a client insert or probe. `SqlPipeline` has weak fairness of
`Running`: once the function is compiled, the thread calls it, runs it and
leaves `runQuery`. Planning and code generation need none: `Releases` is about
what happens from there on. `IRBuilder`, `QueryResult`, `QueryRun`, `Repl` and
`TableStore` have no fairness: their properties are about safety, and nothing
makes a user type.

## What the violated runs show

1. `query_bound`. The constant cache spans the whole program, but a constant is
   an instruction of the block that first asked for it. `numRows` of a scan may
   therefore be a literal of an earlier loop's filter. If that loop has no row
   to filter, nothing writes the register, and the scan runs to whatever it
   holds: rows are missed or columns are read past their end
   (`umbra_ir.cpp:46`, `scan_translator.cpp:46`). A query `WHERE e.k = b.k AND
   e.k = 5` with an empty `e` and a `b` of five rows is enough.
2. `query_and`. `LAnd` is folded as a logical and (`umbra_ir.cpp:257`), compiled
   as a bitwise one (`flying_start.cpp:488`), and the planner applies it to
   conjuncts that need not be Boolean (`sql_planner.cpp:222`).
3. `query_payload`. The insert call has four payload slots, and nothing limits
   `numPayloadFields` to four (`hash_join_translator.cpp:121-137`).
4. `plan_later_key`. From the third table on, a join takes every key that names
   the new table, also those whose other side comes later (`sql_planner.cpp:272`,
   against 237). `FROM a, b, c, d WHERE a.k = b.k AND c.k = d.k` fails with "IU
   not in scope: d.k".
5. `plan_unknown_alias`. A conjunct with one alias is filed under it whether or
   not FROM has it; nothing looks there again, and the condition is dropped
   (`sql_planner.cpp:157`). In an equality, `scans[ra]` of an unknown alias is a
   null pointer (`sql_planner.cpp:180-186`).

Seen while modelling, and left out of the passing runs' statements:

* `conjunctAliases` skips unqualified columns (`sql_planner.cpp:22`, against
  `sql_planner.hpp:59`): `a.v = w`, with `w` a column of `b`, becomes a filter
  of `a` and fails with "IU not in scope: b.w".
* `getIU` compares suffixes (`scan_translator.cpp:20-23`): with columns
  `cust.id` and `id`, in this order, a star lists `cust.id` twice.
* `FROM a, a` should be rejected and is not: both entries share the second's
  scan, which then only builds the join and never probes it.

Of the CSV loader and the shell:

* Blank cells and late texts in a numeric column become 0, and blank cells of a
  text column are not interned but 0 (`csv_loader.hpp:150-181`, against the
  comment at 9: "Blank cells and non-numeric values use the string intern
  table"). `TableStore` says what the code does, and `repl` has such cells; the
  disagreement has no run of its own.
* The comment at `csv_loader.hpp:47` has dictionaries per column; there is one
  per table. Ids of two tables are not comparable, so a join on text columns
  pairs unrelated texts.
* `csvTrim` strips quotes too, so a cell that ends in an escaped quote loses it
  (`csv_loader.hpp:54`). A row of one blank cell is skipped as a blank line. A
  cell with the text "(null)" is shown like a blank one.

And of the pieces below SQL:

* The constant cache's key XORs the type into the value's top byte
  (`umbra_ir.cpp:47`), so that 0 as UInt64 has the key of some Int64; with such
  values `addConstInt` returns the other constant. They are wide: values below
  2^56 and their negatives have keys of their own (`NarrowKeysApart`, evaluated
  for the widths of `ir_builder`). `ConstantsAsAsked` and `FoldsAsComputed`
  exclude the case by name (`Clashes`), `ir_folding` has constants that clash,
  and the theorems below say that nothing else can go wrong there.

* `movzx r32, r32` does not exist and is encoded with a 16-bit source
  (`flying_start.cpp:128`), modelled by `ZExtBits`. Results stay right, as both
  sides of a join hash alike, which `query` checks; distinct keys collide.
* Elimination clears unreachable blocks, and leaves the cache as it is
  (`umbra_ir.cpp:301`). Nothing in the repository emits a constant into an
  unreachable block, so no cached constant is lost.
* A register may be read before it is written, apart from `query_bound`: if the
  loop that holds a hash's constants never starts, a later hash is computed
  without them. A table of the join is then empty, and no row is lost.
  `ReadsWritten` says that this is all.

## What is proved

For every value of the constants, from the named assumptions of the modules:

* `IRBuilder_proofs`. `TypeCorrect`, `InstructionsPlacedOnce`,
  `CacheStaysSound`. The three rest on one inductive invariant, `Good(prog)`:
  the program is well formed, blocks are disjoint, the cache is sound. They
  need each other: that a new reference is in no other block follows from all
  references being at most `Len(instrs)`, and that the cache is sound after a
  patch from cached references being constants, which are not phis. There is
  one lemma per kind of builder call (`EmitGood`, `AddConstIntGood`, ...) and
  `StepGood` has one step per action.
  `DeduplicationDenotes` and `FoldingDenotes`: `ConstantsAsAsked` and
  `FoldsAsComputed`, for any `CacheKey`, the code's included. They need of the
  invariant that a cached reference is a constant with the entry's key: if no
  constant of the program clashes with the one asked for, it is that one. The second takes
  from `BuilderAssumption` that comparisons and logical operations fold to 0 or
  1, as the switch of `tryConstFold` does, since their result is a Boolean.
* `Elimination_proofs`. `OnlyDeadRemoved`: `DceRemovesOnlyDead` holds of every
  program, of any size. `BuilderKeepsRefs` shows that no builder call but
  `eliminateDeadCode` takes a reference out of the blocks, one lemma per kind of
  call; `EliminateKeeps` that what elimination takes out of a reachable block
  `Keeps` rejects. `Good` is needed for the insertion point to name a block.
  `FlowKept`: `DceKeepsFlow` holds as well. It needs one invariant more,
  `TerminatorsLast`: a terminator is the last instruction of its block. Then
  elimination, which keeps every terminator, leaves the last instruction of a
  reachable block where it was, so each round of the search for reachable blocks
  finds after it what it found before. That is an induction over the rounds,
  which `Induction` provides from < being well founded on the naturals; the
  rounds exist as a function by `RecursionExists`.
* `JoinTable_proofs`. `TypeCorrect` and `LookupExact`, by the invariant `IInv`,
  which adds that every entry is in the bucket of its key, and that while
  `lookupAll` runs the buffer holds the matches among the entries it has passed.
  `TableIsMultimap`: whatever the hash, the table implements the steps of
  `Multimap`, the payloads stored under a key being those of the entries with
  that key in its bucket, in order (`PayloadsUnder`, a recursion over the bucket
  that exists by `RecursionExists`). `RInv` adds what the buffer holds while
  `lookupAll` is under way: the payloads under the key among the entries passed.
* `Repl_proofs`. Three inductive invariants that do not need each other.
  `RegistryInv` is `RegistrySound` with each table's name unique among the
  entries; `RegistryStaysSound` follows, and with it `SearchesAgree`: with unique
  names the first and the last entry of a name are one (`SearchesFind`).
  Replacement keeps it because the new table is not at an address that is in
  use, whatever was destroyed before. `LoaderInv` adds to `TextsDecode` that the
  dictionary's two halves are inverse on what it knows (`Sound`) and where the
  loop over the cells is; `InternKeeps` is the heart of `TextsKeepTheirIds`:
  interning changes no id given out before. `TypeCorrect` joins it with the
  bounds of mode and loads. What `Split` and `IntOf` return is a constant there
  with the assumption `LoaderAssumption`; that `CsvLine` satisfies it is
  evaluated on `repl`'s files.
* `TableStore_proofs`. `ShellIsTableStore`: the shell implements `TableStore`,
  after any loads, replacements and failed loads, under the hypothesis
  `FilesAsRead`. That relates two constants, the characters of the files and
  what they are taken to say: `TableStore` has a file as a sheet of cells, and
  the loader reads lines of characters, so something has to say which sheet the
  lines are. It also asks that no cell reads "(null)", which `.schema` shows for
  a blank. TLC evaluates it on the files of `repl`.
  The invariants are what a load knows at each line and cell: the rows read are
  the first of the sheet (`ReadsFile`), a column is text if one of the rows
  checked so far is (`ChecksRows`), the numbers filled in are the sheet's
  (`NumbersParsed`), no two texts have one id (`Injective`). `HeapInv` keeps this
  for every table in the registry when the loader's variables are reset, and
  `ScreenInv` that nothing is shown while a load runs. `RegisterPlaces` says
  where a loaded table is found afterwards, under a name of its own, of an
  earlier load or of a built-in table; it is what makes a replacement one step
  of `TableStore`.
* `Runner_proofs`. For any statements `parseSQL` may return, any catalog, and
  whatever terms and columns conditions have. `TypeCorrect`: `TypeOK` of
  `Runner`, which is that of `QueryRun`. It rests on `ScanInv` (the aliases are
  those of the first entries of FROM, and a scan has its alias), on `OutsInv`
  (the IUs of the SELECT list are columns of FROM's tables, those a star
  stands for among them: `ExpandedAreIUs` by induction over the list of lists)
  and on `HeapInv` (the heap has with every operator its inputs).
  `TreeDeletedOnce`: `DeletesTreeOnce`, for statements without a repeated alias,
  `DistinctAliases`. Two invariants meet in it. `WalkInv` is about
  `deleteOperatorTree`: what has been seen is either deleted or on the stack,
  never both, never twice; an input of what has been seen is seen or still to be
  called on. So when the stack is empty what was deleted is closed under inputs
  and has the root. `TreeInv` is about the planner: every operator but the
  root has a parent of higher `Rank` in the heap, and while joins are made only
  the scans that have not been joined are waiting for theirs. An operator the
  walk missed would, taken of highest rank, have a parent it did not miss
  (`WalkReachesAll`). The hypothesis is needed: for FROM a, a the map of scans
  keeps the second only, the first is in no tree, and nothing deletes it.
  `CatalogAssumption` and `StatementAssumption` say that names, columns and
  lists are sequences and that FROM is not empty, which the parser ensures.
* `Planner_proofs`. `NoTermLost`: `AppliesEveryTerm`. The invariant `TermsInv`
  follows each term of WHERE through `plan`. While terms are classified, it is
  still to come, or a filter of its one alias, or the keys of two aliases, or a
  late filter. While joins are made, the filters are in selects above their
  scans, and a key that no join has yet waits for the later of its two tables
  (`Keyed`); that is why joining the tables in the order of FROM, each with all
  the tables any key names, takes every key. `KeysOfTakes` says what the loop
  over the join keys collects, by induction over it. The keys of a term name the
  same IUs in a join whichever side each is on. The step lemmas use `ScanInv`
  and the other invariants of `Runner_proofs`, for which columns resolve.
  `TermAssumption` says that a condition is a list of terms, that its columns
  are theirs, and that an equation of two columns has these two and no more, as
  `flattenAnd` and `collectAliases` ensure; TLC evaluates it on the conditions of
  `query_run`.
  `NothingMadeUp`: `AppliesOnlyTerms`. `OriginInv` says that what the lists hold
  are terms, and a join key the two columns of one (`KeyFrom`); `FormInv` what
  each operator of the heap is made of: a scan's filters, the late filters, or
  pairs out of the join keys, each turned to the side of its table.
  `ColumnsSelected`: `SelectsWanted`. `ItemsInv` says that `outs` is what the
  items of the SELECT list done so far stand for (`Runs`); at a star the scans in
  the order of aliases are the entries of FROM in theirs (`ExpandedInOrder`).
  `NamedMeans` says that the column an alias and a name resolve to, by suffixes
  of names, is the one column the statement means.
  `WellFormedAccepted`: `AcceptsWellFormed`, and `CodeOnlyForWellFormed`:
  `RejectsIllFormed`. Together they say which statements get code. Their
  invariant is `WholeInv`, which adds `TreeInv` and `TablesInv` where no alias is
  repeated: each operator is over certain tables of FROM, one for a scan and its
  filter, the new one and all before it for a join, and its inputs are over the
  parts of that. From it follows, by induction up the tree, that the scope of an
  operator is the columns of the tables it is over (`ScopeIsColumns`). In one
  direction each filter and key then finds its columns there, so every operator
  `Fits` and the root has code; in the other, code for the root
  means that every operator `Fits`, and since no term is lost (`NoTermLost`) each
  name of the WHERE resolves.

The last three hold of statements as named below, and `query_run` has only
such (an assumption of `MCQueryRun`). The set `Statements` is arbitrary, so each
theorem is about every statement that has the property, among any others that do.
Each hypothesis marks a place where code and promise part:

| Hypothesis | Without it |
|---|---|
| `KeysReach`: a key names one of the first two tables | `plan_later_key`: a well-formed statement fails in code generation |
| `FiltersLocal`: a filter of one alias has no unqualified column of another table | `a.v = w`, above, fails in code generation |
| `FiltersKnown`: the alias of a filter is in FROM | `plan_unknown_alias`: the filter is dropped and the statement gets code |
| `DistinctAliases`: no alias comes twice | `FROM a, a` gets code |
| `NamesFound`: no name is found as the suffix of an earlier one | `cust.id` and `id`, above |

Only model-checked:

* everything about `Execution`, the translators, the backend, the parser, and
  what of `QueryRun` is about the meaning of a text:
  what they compute is defined by recursion over operator trees, expressions
  and tokens. Hence `NoWildAccess`, `TypeOK` of the machine, `ImplementsPlan`,
  `ImplementsRun`, `ParsesGrammar` and what rows a query answers.
* liveness and fairness: `ProbesEnd`, `Returned`, `Releases`, and the fairness
  in `Multimap` that `Implements` of `join_table` includes.

## Not modelled

Left out: reading a line, EXPLAIN's options and the shell's layout; the IR
printer and EXPLAIN's output (layout), ARM64 code (the build for x86-64 is modelled), asmjit (vendored), demos, `LoopStmt`,
`TupleLayout` and NULL tracking (no SQL statement reaches them), and execution
of `Load`, `Store`, `GEP`, `SExt`, `LNot` and `IsNull` (translated in
`FlyingStart`; no operator emits them).
