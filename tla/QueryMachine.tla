---------------------------- MODULE QueryMachine ----------------------------
(***************************************************************************)
(* Running a query: the function runQuery generates and compiles for one   *)
(* of some plans is executed on one of the plan's inputs.                  *)
(***************************************************************************)
EXTENDS Execution, Relational

CONSTANT
    Queries       \* sequence of [plan, outs, inputs: the data it is run on]

VARIABLES
    query,        \* the query being run
    answer        \* the rows its plan stands for; no action reads it

vars == <<query, answer, execVars>>

(* The compiled function of every query, for the sizes of its tables. *)
Sizes(q) == {SizesOf(d) : d \in Queries[q].inputs}
Compiled ==
    [q \in DOMAIN Queries |-> [sizes \in Sizes(q) |->
        CodeFor(Queries[q].plan, Queries[q].outs, sizes)]]

Init ==
    /\ query \in DOMAIN Queries
    /\ plan = Queries[query].plan
    /\ data \in Queries[query].inputs
    /\ fn = Compiled[query][SizesOf(data)]
    /\ answer = AnswerOf(plan, Queries[query].outs, data)
    /\ Ready

Next == Execute /\ UNCHANGED <<query, answer>>

(* execute() calls the function and waits for it. *)
Spec == Init /\ [][Next]_vars /\ WF_vars(Next)

-----------------------------------------------------------------------------
(* Type invariant: the code, the tables of the plan's joins and the rows   *)
(* have the shapes the plan gives them.                                    *)
TypeOK ==
    /\ query \in DOMAIN Queries /\ data \in Queries[query].inputs
    /\ status \in {"run", "done", "crash"}
    /\ pc \in DOMAIN fn.code \/ status = "crash"
    /\ DOMAIN regs \subseteq 1..fn.regsUsed
    /\ \A addr \in DOMAIN tables : DOMAIN tables[addr].buckets = 0..NumBuckets-1
    /\ \A n \in DOMAIN rows : DOMAIN rows[n] = DOMAIN Queries[query].outs

(* No load is past the end of a column ("while (i < numRows)",             *)
(* scan_translator.cpp:38) and no entry is read through a null pointer.    *)
NoWildAccess == status # "crash"

(* When a join is first probed its table is complete: at every lookup it   *)
(* holds one entry for each row of the build side.                         *)
EntriesIn(ht) ==
    MapThenSumSet(LAMBDA b : Len(tables[ht].buckets[b]), 0..NumBuckets-1)
ProbesSeeWholeBuild ==
    [][LookupAll =>
          LET ht == Current.srcs[1][2]
          IN  EntriesIn(ht) = Len(RowsOf(JoinOf(ht).build, data))]_vars

(* "Packs all key+payload values into a temporary array"                   *)
(* (hash_join_translator.cpp:87): an entry is a row of the build side.     *)
Packs(entry, join) ==
    \E n \in DOMAIN RowsOf(join.build, data) :
        LET row == RowsOf(join.build, data)[n]
        IN  /\ entry.keyData = [i \in DOMAIN join.buildKeys |-> row[join.buildKeys[i]]]
            /\ entry.payloadData =
                  [i \in DOMAIN PayloadIUs(join) |-> row[PayloadIUs(join)[i]]]
EntriesArePacked ==
    [][InsertEntry =>
          LET ht == Current.srcs[1][2]
          IN  \A b \in 0..NumBuckets-1 :
                 tables'[ht].buckets[b] # tables[ht].buckets[b]
                    => Packs(Last(tables'[ht].buckets[b]), JoinOf(ht))]_vars

(* What one block leaves in a register - a constant that addConstInt gives *)
(* out again, a value, a phi's entry, a comparison that was not deferred - *)
(* has been written on every path to the blocks that read it.  Only a hash *)
(* may be computed from a register nothing has written, when the code that *)
(* writes its constants was skipped: then no row is the query's answer.    *)
Unwritten(instr) ==
    (IF instr.kind = "call" THEN {s[2] : s \in {s \in ToSet(instr.srcs) : s[1] = "reg"}}
     ELSE ToSet(instr.srcs)) \ DOMAIN regs
ReadsWritten ==
    [][Unwritten(Current) # {} =>
          Current.op \in {"CRC32", "RotateRight", "Xor", "Mul"} /\ answer = <<>>]_vars

(* The query delivers exactly the rows its plan stands for, each once and  *)
(* in order, and has delivered them all when it returns.                   *)
Answers == INSTANCE QueryResult WITH
    ended  <- status = "done"
ImplementsPlan == Answers!Spec

(* Every loop the translators emit ends: the query returns. *)
Returned == <>(status # "run")
=============================================================================
