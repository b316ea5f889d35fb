----------------------------- MODULE SqlPipeline -----------------------------
(***************************************************************************)
(* runQuery again, from the text to the rows, with the compiled function   *)
(* run one instruction at a time: QueryRun in which the code is that of    *)
(* the operator tree the planner made (Execution).  The tables are read    *)
(* when code is generated, because their sizes are in the code, and their  *)
(* cells when it runs.                                                     *)
(***************************************************************************)
EXTENDS QueryRun

CONSTANTS
    Slots, HashSeed1, HashSeed2, HashFactor, HalfWord, ColumnAddr(_, _),
    Words, FoldInt(_, _, _), CacheKey(_, _),
    Garbage, NumBuckets, Crc(_, _), ZExtBits

VARIABLES
    root,           \* of Execution: its plan
    fn, mpc,        \* and its pc
    regs, tables, status

memory  == <<mpc, regs, tables, status>>
machine == <<root, fn, memory>>
allVars == <<vars, machine>>

Machine == INSTANCE Execution WITH
    plan <- root, pc <- mpc

-----------------------------------------------------------------------------
PipelineInit ==
    /\ Init
    /\ root = NoTree
    /\ fn = [code |-> <<>>]
    /\ mpc = 1 /\ regs = Machine!NoRegs /\ tables = NoData /\ status = "idle"

Generate ==
    /\ Produce
    /\ data' \in Inputs
    /\ root' = Resolved(planRoot)
    /\ fn' = Machine!CodeFor(root', outs, Machine!SizesOf(data'))
    /\ UNCHANGED <<text, rows, result, memory>>

EnterFunction ==
    /\ ~explain
    /\ Goto("compiled", "executing")
    /\ status' = "run"
    /\ tables' = Machine!NewTables(root)
    /\ UNCHANGED <<results, jit, cleanup, root, fn, mpc, regs>>

RunFunction ==
    /\ pc = "executing"
    /\ UNCHANGED <<planVars, runVars, text, data, result>>
    /\ Machine!Execute

LeaveFunction ==
    /\ status = "done"
    /\ Goto("executing", "executed")
    /\ UNCHANGED <<results, jit, cleanup, machine>>

(* The steps of runQuery that are those of QueryRun, before and after the  *)
(* function runs *)
Before ==
    \/ ParseText
    \/ RefuseText
    \/ RefusePlan
    \/ BeforeRun /\ UNCHANGED results
After ==
    \/ CollectRows
    \/ AfterRun /\ UNCHANGED results

Running ==
    \/ EnterFunction
    \/ RunFunction
    \/ LeaveFunction
    \/ After /\ UNCHANGED machine

PipelineNext ==
    \/ Before /\ UNCHANGED machine
    \/ Generate
    \/ Running

(* The function that was compiled is called by runQuery's thread, which    *)
(* goes on when it returns.                                                *)
PipelineSpec == PipelineInit /\ [][PipelineNext]_allVars /\ WF_allVars(Running)

-----------------------------------------------------------------------------
(* Running the machine code of a planned statement is, on all its paths,   *)
(* the one step of QueryRun that collects the rows of the operator tree.   *)
Ran == pc \in {"executed", "released", "collected", "returned"} /\ ~explain
Run == INSTANCE QueryRun WITH
    pc   <- IF pc = "executing" THEN "compiled" ELSE pc,
    data <- IF Ran THEN data ELSE NoData,
    rows <- IF pc = "executing" THEN <<>> ELSE rows
ImplementsRun == Run!Spec

(* What was compiled is released: the function returns, whatever plan it   *)
(* is the code of, and the query with it.                                  *)
Releases == jit = "live" ~> pc = "returned" /\ jit = "released"
=============================================================================
