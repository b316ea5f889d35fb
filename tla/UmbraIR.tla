------------------------------ MODULE UmbraIR ------------------------------
(***************************************************************************)
(* IRProgram of src/ir/umbra_ir.{hpp,cpp}: the intermediate representation *)
(* between the operator translators and the Flying Start backend.  A       *)
(* program is a record and a builder call is an operator from programs to  *)
(* programs; the field "ret" holds the call's result.                      *)
(*                                                                         *)
(*  - A reference (IRValueRef) is a byte offset into instrData.  Offsets   *)
(*    only grow, so the model numbers instructions 1, 2, ... instead.      *)
(*  - A block's instruction list receives new references only, at its end, *)
(*    and eliminateDeadCode keeps the order, so the list is always in      *)
(*    increasing order: a block is the SET of its references.              *)
(*  - Functions and blocks are numbered from 1 (from 0 in the code).       *)
(***************************************************************************)
EXTENDS Integers, Sequences, SequencesExt

CONSTANTS
    Words,            \* the values a constant may have (int64_t)
    FoldInt(_, _, _), \* FoldInt(op, va, vb): C++'s value of va op vb
    CacheKey(_, _)    \* CacheKey(value, type): key of constIntCache

ASSUME WordsAssumption == Words \subseteq Int /\ {0, 1, 8} \subseteq Words

Types == {"Void", "Bool", "Int32", "Int64", "UInt64", "Double", "Ptr"}

Comparisons == {"CmpEq", "CmpNe", "CmpLt", "CmpGt", "CmpLe", "CmpGe"}
Logical     == {"LAnd", "LOr"}
Arithmetic  == {"Add", "Sub", "Mul", "Div", "Rem",
                "And", "Or", "Xor", "Shl", "Shr", "CRC32"}
BinaryOps   == Comparisons \cup Logical \cup Arithmetic
UnaryOps    == {"ZExt", "SExt", "LNot", "IsNull", "Load"}
Constants   == {"ConstInt", "ConstBool"}
Terminators == {"Branch", "CondBranch", "Return"}
Effects     == Terminators \cup {"Store", "Call"}
Opcodes     == BinaryOps \cup UnaryOps \cup Constants \cup Effects
               \cup {"RotateRight", "GEP", "Phi"}

(* Parameter references live above every offset; NullRef is UINT32_MAX,    *)
(* which the mask of isParam also recognises as a parameter.               *)
ParamRef(f, i) == -(65536 * f + i)
NullRef        == -16777216
IsParam(ref)   == ref < 0

(* The functions whose addresses the translators embed in Call             *)
(* instructions ("" in every other instruction).                           *)
Callees == {"", "load", "insert", "lookupAll", "matchCount", "matchAt",
            "getKey", "getPayload", "appendRow"}

(* One shape for every instruction struct: args are the operands (for a    *)
(* phi the incoming values), targets the blocks it names (for a phi the    *)
(* incoming edges), imm the literal (value, shift, byte offset), callee    *)
(* the function a Call names.                                              *)
Instr == [op : Opcodes, type : Types, args : Seq(Int), imm : Words,
          targets : Seq(Nat), callee : Callees]

MkInstr(op, t, args, imm) ==
    [op |-> op, type |-> t, args |-> args, imm |-> imm,
     targets |-> <<>>, callee |-> ""]

EmptyProgram == [instrs |-> <<>>, functions |-> <<>>, fn |-> 1, blk |-> 1,
                 cache |-> [k \in {} |-> 0], ret |-> NullRef]

-----------------------------------------------------------------------------
(* Functions and blocks *)

(* (fault: no entry block) *)
BeginFunctionNoEntry(p, params) ==
    [p EXCEPT !.functions = Append(@, [params |-> params, blocks |-> <<>>]),
              !.fn = Len(p.functions) + 1, !.blk = 1,
              !.ret = Len(p.functions) + 1]

BeginFunction(p, params) ==
    [p EXCEPT !.functions = Append(@, [params |-> params, blocks |-> <<{}>>]),
              !.fn = Len(p.functions) + 1, !.blk = 1,
              !.ret = Len(p.functions) + 1]

Blocks(p) == p.functions[p.fn].blocks

AddBlock(p) ==
    [p EXCEPT !.functions[p.fn].blocks = Append(@, {}),
              !.ret = Len(Blocks(p)) + 1]

SetInsertionPoint(p, f, b) == [p EXCEPT !.fn = f, !.blk = b]

-----------------------------------------------------------------------------
(* Instruction builders *)

PlaceIn(functions, f, b, ref) ==
    [functions EXCEPT ![f].blocks[b] = @ \cup {ref}]

Emit(p, instr) ==
    LET ref == Len(p.instrs) + 1
    IN  [p EXCEPT !.instrs = Append(@, instr),
                  !.functions = PlaceIn(@, p.fn, p.blk, ref),
                  !.ret = ref]

CacheNew(p, key, instr) ==
    [Emit(p, instr) EXCEPT
        !.cache = [k \in DOMAIN p.cache \cup {key} |->
                     IF k = key THEN Len(p.instrs) + 1 ELSE p.cache[k]]]

(* (fault: a cached constant is placed in the current block as well) *)
AddConstIntPlacedAgain(p, v, t) ==
    LET key == CacheKey(v, t)
    IN  IF key \in DOMAIN p.cache
        THEN [p EXCEPT !.ret = p.cache[key],
                       !.functions = PlaceIn(@, p.fn, p.blk, p.cache[key])]
        ELSE CacheNew(p, key, MkInstr("ConstInt", t, <<>>, v))

(* (fault: the type is no part of the key) *)
AddConstIntAnyType(p, v, t) ==
    LET key == CacheKey(v, "Int64")
    IN  IF key \in DOMAIN p.cache THEN [p EXCEPT !.ret = p.cache[key]]
        ELSE CacheNew(p, key, MkInstr("ConstInt", t, <<>>, v))

AddConstInt(p, v, t) ==
    LET key == CacheKey(v, t)
    IN  IF key \in DOMAIN p.cache
        THEN [p EXCEPT !.ret = p.cache[key]]
        ELSE CacheNew(p, key, MkInstr("ConstInt", t, <<>>, v))

(* (fault: Booleans share the cache of the integers) *)
AddConstBoolCached(p, b) ==
    LET v == IF b THEN 1 ELSE 0
    IN  CacheNew(p, CacheKey(v, "Int64"), MkInstr("ConstBool", "Bool", <<>>, v))

AddConstBool(p, b) ==
    Emit(p, MkInstr("ConstBool", "Bool", <<>>, IF b THEN 1 ELSE 0))

IsConstant(p, ref) == ~IsParam(ref) /\ p.instrs[ref].op \in Constants
ConstIntValue(p, ref) == p.instrs[ref].imm

FoldableOps == (BinaryOps \ {"Rem", "Shl", "Shr", "CRC32"})
CanFold(p, op, a, b) ==
    /\ op \in FoldableOps
    /\ IsConstant(p, a) /\ IsConstant(p, b)
    /\ op = "Div" => ConstIntValue(p, b) # 0
FoldType(op, t) == IF op \in Comparisons \cup Logical THEN "Bool" ELSE t

(* (fault: the operands are swapped) *)
TryConstFoldSwapped(p, op, t, a, b) ==
    LET result == FoldInt(op, ConstIntValue(p, b), ConstIntValue(p, a))
    IN  IF FoldType(op, t) = "Bool"
        THEN AddConstBool(p, result # 0)
        ELSE AddConstInt(p, result, FoldType(op, t))

TryConstFold(p, op, t, a, b) ==
    LET result == FoldInt(op, ConstIntValue(p, a), ConstIntValue(p, b))
    IN  IF FoldType(op, t) = "Bool"
        THEN AddConstBool(p, result # 0)
        ELSE AddConstInt(p, result, FoldType(op, t))

AddBinary(p, op, t, a, b) ==
    IF CanFold(p, op, a, b)
    THEN TryConstFold(p, op, t, a, b)
    ELSE Emit(p, MkInstr(op, t, <<a, b>>, 0))

AddUnary(p, op, t, a)     == Emit(p, MkInstr(op, t, <<a>>, 0))
AddRotateRight(p, a, sh)  == Emit(p, MkInstr("RotateRight", "UInt64", <<a>>, sh))
AddLoad(p, t, ptr)        == Emit(p, MkInstr("Load", t, <<ptr>>, 0))
AddStore(p, ptr, v)       == Emit(p, MkInstr("Store", "Void", <<ptr, v>>, 0))
AddReturn(p, v)           == Emit(p, MkInstr("Return", "Void", <<v>>, 0))
AddGEP(p, base, off) ==
    IF off = 0 THEN [p EXCEPT !.ret = base]
    ELSE Emit(p, MkInstr("GEP", "Ptr", <<base>>, off))
AddBranch(p, target) ==
    Emit(p, [MkInstr("Branch", "Void", <<>>, 0) EXCEPT !.targets = <<target>>])
AddCondBranch(p, cond, t, f) ==
    Emit(p, [MkInstr("CondBranch", "Void", <<cond>>, 0) EXCEPT !.targets = <<t, f>>])
AddPhi(p, t, values, from) ==
    Emit(p, [MkInstr("Phi", t, values, 0) EXCEPT !.targets = from])
AddCall(p, t, callee, args) ==
    Emit(p, [MkInstr("Call", t, args, 0) EXCEPT !.callee = callee])

Patched(instr, e, v, from) ==
    [instr EXCEPT !.args = [instr.args EXCEPT ![e] = v],
                  !.targets = [instr.targets EXCEPT ![e] = from]]
PatchPhiEntry(p, phi, e, v, from) ==
    [p EXCEPT !.instrs[phi] = Patched(p.instrs[phi], e, v, from)]

-----------------------------------------------------------------------------
(* Dead code elimination *)

LastOf(S) == CHOOSE r \in S : \A s \in S : s <= r

(* The blocks the terminator of block b names: only the last instruction   *)
(* of a block is looked at, and an empty block has no successor.           *)
Successors(p, blocks, b) ==
    IF blocks[b] = {} THEN {}
    ELSE LET term == p.instrs[LastOf(blocks[b])]
         IN  IF term.op \in {"Branch", "CondBranch"}
             THEN ToSet(term.targets) \cap DOMAIN blocks ELSE {}

(* What n rounds over the blocks reach from the entry block.               *)
Within(p, blocks) ==
    LET within[n \in 0..Len(blocks)] ==
            IF n = 0 THEN {1}
            ELSE LET R == within[n - 1]
                 IN  R \cup UNION {Successors(p, blocks, b) : b \in R}
    IN  within
Reachable(p, blocks) == Within(p, blocks)[Len(blocks)]

(* (fault: unreachable blocks keep their instructions) *)
ClearNothing(p) == p.functions

ClearUnreachable(p) ==
    [f \in DOMAIN p.functions |->
        LET blocks == p.functions[f].blocks
        IN  [p.functions[f] EXCEPT !.blocks =
                [b \in DOMAIN blocks |->
                    IF b \in Reachable(p, blocks) THEN blocks[b] ELSE {}]]]

(* countUse skips NullRef and parameters; one-operand shapes count arg0.   *)
Operands(instr) ==
    {r \in (IF instr.op \in UnaryOps THEN {instr.args[1]} ELSE ToSet(instr.args)) :
        ~IsParam(r)}

RefsIn(functions) ==
    UNION {UNION {functions[f].blocks[b] : b \in DOMAIN functions[f].blocks} :
              f \in DOMAIN functions}
UsedIn(p, functions) == UNION {Operands(p.instrs[r]) : r \in RefsIn(functions)}

(* (fault: a terminator is kept only if it is used) *)
KeepsUsed(p, used, ref) == p.instrs[ref].op \in {"Store", "Call"} \/ ref \in used

Keeps(p, used, ref) == p.instrs[ref].op \in Effects \/ ref \in used

EliminateDeadCode(p) ==
    LET cleared == ClearUnreachable(p)
        used    == UsedIn(p, cleared)
    IN  [p EXCEPT !.functions =
            [f \in DOMAIN cleared |->
                [cleared[f] EXCEPT !.blocks =
                    [b \in DOMAIN cleared[f].blocks |->
                        {r \in cleared[f].blocks[b] : Keeps(p, used, r)}]]]]
=============================================================================
