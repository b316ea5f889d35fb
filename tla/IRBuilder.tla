----------------------------- MODULE IRBuilder -----------------------------
(***************************************************************************)
(* A client that drives IRProgram's builder API in every order its callers *)
(* could: one action per public builder method, with the references it was *)
(* handed back so far as operands.                                         *)
(*                                                                         *)
(* What every caller in src/ respects is in the guards: it never emits     *)
(* into a block after that block's terminator (Open), names blocks of the  *)
(* current function only, and patches only a phi's existing entries (the   *)
(* assertions of patchPhiEntry).                                           *)
(***************************************************************************)
EXTENDS UmbraIR

CONSTANTS
    MaxInstrs, MaxBlocks, MaxFunctions,   \* bounds of the exploration
    Emits,                                \* the emitting methods it calls
    BinOps,                               \* the binary opcodes tried
    Literals, ConstTypes                  \* the constants tried

ASSUME BuilderAssumption ==
    /\ MaxInstrs \in Nat /\ MaxBlocks \in Nat /\ MaxFunctions \in Nat
    /\ BinOps \subseteq BinaryOps
    /\ Literals \subseteq Words
    /\ ConstTypes \subseteq Types
    /\ \A op \in BinOps \cap FoldableOps : \A a, b \in Words :
           (op = "Div" => b # 0) => FoldInt(op, a, b) \in Words
    /\ \A op \in BinOps \cap (Comparisons \cup Logical) : \A a, b \in Words :
           FoldInt(op, a, b) \in {0, 1}

VARIABLE prog

Refs == 1..Len(prog.instrs)
HasFunction == prog.functions # <<>>
Params == {ParamRef(prog.fn, i) : i \in DOMAIN prog.functions[prog.fn].params}
Operand == IF HasFunction THEN Refs \cup Params ELSE {}
BlockIds == IF HasFunction THEN DOMAIN Blocks(prog) ELSE {}
CurrentBlock == Blocks(prog)[prog.blk]
Open(method) ==
    /\ method \in Emits
    /\ HasFunction
    /\ Len(prog.instrs) < MaxInstrs
    /\ CurrentBlock # {} => prog.instrs[LastOf(CurrentBlock)].op \notin Terminators

ResultType(op) == IF op \in Comparisons \cup Logical THEN "Bool" ELSE "Int64"

DoBeginFunction ==
    \E params \in {<<>>, <<"Int64">>} :
        /\ Len(prog.functions) < MaxFunctions
        /\ prog' = BeginFunction(prog, params)

DoAddBlock ==
    /\ HasFunction
    /\ Len(Blocks(prog)) < MaxBlocks
    /\ prog' = AddBlock(prog)

DoSetInsertionPoint ==
    \E f \in DOMAIN prog.functions :
        \E b \in DOMAIN prog.functions[f].blocks :
            prog' = SetInsertionPoint(prog, f, b)

DoAddConstInt(v, t) == Open("addConstInt") /\ prog' = AddConstInt(prog, v, t)

DoAddConstBool == \E b \in BOOLEAN : Open("addConstBool") /\ prog' = AddConstBool(prog, b)

DoAddBinary(op, a, b) == Open("addBinary") /\ prog' = AddBinary(prog, op, ResultType(op), a, b)

DoAddUnary == \E a \in Operand : Open("addUnary") /\ prog' = AddUnary(prog, "LNot", "Bool", a)

DoAddRotateRight == \E a \in Operand : Open("addRotateRight") /\ prog' = AddRotateRight(prog, a, 1)

DoAddGEP == \E a \in Operand, off \in {0, 8} : Open("addGEP") /\ prog' = AddGEP(prog, a, off)

DoAddLoad == \E a \in Operand : Open("addLoad") /\ prog' = AddLoad(prog, "Int64", a)

DoAddStore == \E a, b \in Operand : Open("addStore") /\ prog' = AddStore(prog, a, b)

DoAddBranch == \E b \in BlockIds : Open("addBranch") /\ prog' = AddBranch(prog, b)

DoAddCondBranch ==
    \E c \in Operand, t, f \in BlockIds : Open("addCondBranch") /\ prog' = AddCondBranch(prog, c, t, f)

DoAddReturn ==
    \E v \in Operand \cup {NullRef} : Open("addReturn") /\ prog' = AddReturn(prog, v)

DoAddPhi ==
    \E v \in Operand, from \in BlockIds :
        Open("addPhi") /\ prog' = AddPhi(prog, "Int64", <<v, NullRef>>, <<from, 1>>)

DoPatchPhiEntry ==
    \E phi \in Refs, v \in Operand, from \in BlockIds :
        /\ prog.instrs[phi].op = "Phi"
        /\ prog.instrs[phi].args[2] = NullRef
        /\ prog' = PatchPhiEntry(prog, phi, 2, v, from)

DoAddCall == \E a \in Operand : Open("addCall") /\ prog' = AddCall(prog, "Int64", "load", <<a>>)

DoEliminateDeadCode == prog' = EliminateDeadCode(prog)

Init == prog = EmptyProgram

Next ==
    \/ DoBeginFunction
    \/ DoAddBlock
    \/ DoSetInsertionPoint
    \/ \E v \in Literals, t \in ConstTypes : DoAddConstInt(v, t)
    \/ DoAddConstBool
    \/ \E op \in BinOps, a, b \in Operand : DoAddBinary(op, a, b)
    \/ DoAddUnary
    \/ DoAddRotateRight
    \/ DoAddGEP
    \/ DoAddLoad
    \/ DoAddStore
    \/ DoAddBranch
    \/ DoAddCondBranch
    \/ DoAddReturn
    \/ DoAddPhi
    \/ DoPatchPhiEntry
    \/ DoAddCall
    \/ DoEliminateDeadCode

Spec == Init /\ [][Next]_prog

-----------------------------------------------------------------------------
(* Type invariant: instrData, the functions and their blocks, the          *)
(* insertion point and constIntCache are well formed, and every reference  *)
(* a block or the cache holds has been emitted.                            *)
IsProgram(p) ==
    /\ p \in [instrs    : Seq(Instr),
              functions : Seq([params : Seq(Types), blocks : Seq(SUBSET Nat)]),
              fn        : Nat,
              blk       : Nat,
              cache     : [DOMAIN p.cache -> 1..Len(p.instrs)],
              ret       : Int]
    /\ \A f \in DOMAIN p.functions :
          /\ p.functions[f].blocks # <<>>
          /\ \A b \in DOMAIN p.functions[f].blocks :
                p.functions[f].blocks[b] \subseteq 1..Len(p.instrs)
    /\ p.functions # <<>> =>
          p.fn \in DOMAIN p.functions /\ p.blk \in DOMAIN p.functions[p.fn].blocks
TypeOK == IsProgram(prog)

(* An instruction is executed at one place only: no reference is in two    *)
(* blocks.  A constant that addConstInt hands out again stays in the block *)
(* that first emitted it.                                                  *)
Disjoint(functions) ==
    \A f, g \in DOMAIN functions :
        \A b \in DOMAIN functions[f].blocks, c \in DOMAIN functions[g].blocks :
            functions[f].blocks[b] \cap functions[g].blocks[c] # {} => f = g /\ b = c
PlacedOnce == Disjoint(prog.functions)

(* constIntCache only leads to integer constants whose own key is the      *)
(* entry's key: patching, folding and removal never invalidate it.         *)
CacheLeadsTo(p, k) ==
    /\ p.instrs[p.cache[k]].op = "ConstInt"
    /\ CacheKey(p.instrs[p.cache[k]].imm, p.instrs[p.cache[k]].type) = k
CacheSound == \A k \in DOMAIN prog.cache : CacheLeadsTo(prog, k)

(* The program has another constant with the key of this one: the keys of  *)
(* two types meet in the bits from TypeShift up.                           *)
Clashes(p, v, t) ==
    \E r \in DOMAIN p.instrs :
        LET old == p.instrs[r]
        IN  /\ old.op = "ConstInt"
            /\ CacheKey(old.imm, old.type) = CacheKey(v, t)
            /\ <<old.imm, old.type>> # <<v, t>>

(* The reference addConstInt returns denotes the literal it was given, at  *)
(* the type it was given ("Deduplicate constants", umbra_ir.cpp:46); the   *)
(* one way for it not to is a constant of the program whose key clashes.   *)
Denotes(p, ref, v, t) ==
    /\ p.instrs[ref].op = "ConstInt"
    /\ p.instrs[ref].imm = v
    /\ p.instrs[ref].type = t
ConstantsAsAsked ==
    [][\A v \in Literals, t \in ConstTypes :
          DoAddConstInt(v, t) /\ ~Clashes(prog, v, t) => Denotes(prog', prog'.ret, v, t)]_prog

(* addBinary of two constants denotes the folded value, whether it is a    *)
(* Boolean, a new constant or a cached one; of numbers, unless the key of  *)
(* the folded value clashes.                                               *)
FoldsAsComputed ==
    [][\A op \in BinOps, a, b \in Operand :
          DoAddBinary(op, a, b) /\ CanFold(prog, op, a, b)
            => LET v == FoldInt(op, ConstIntValue(prog, a), ConstIntValue(prog, b))
               IN  ResultType(op) = "Bool" \/ ~Clashes(prog, v, ResultType(op)) =>
                   /\ IsConstant(prog', prog'.ret)
                   /\ ConstIntValue(prog', prog'.ret) = v
                   /\ prog'.instrs[prog'.ret].type = ResultType(op)]_prog

Removed == RefsIn(prog.functions) \ RefsIn(prog'.functions)

(* eliminateDeadCode only removes what nothing uses or what no path        *)
(* reaches: an instruction of a reachable block goes only if it is pure    *)
(* and no instruction of any reachable block has it as an operand.         *)
ReachableRefs(p) == RefsIn(ClearUnreachable(p))
DceRemovesOnlyDead ==
    [][\A r \in Removed \cap ReachableRefs(prog) :
          /\ prog.instrs[r].op \notin Effects
          /\ r \notin UsedIn(prog, ClearUnreachable(prog))]_prog

(* eliminateDeadCode leaves the control flow as it was: the same blocks    *)
(* are reachable afterwards, from the same terminators, and every block    *)
(* that is not is empty.                                                   *)
DceKeepsFlow ==
    [][DoEliminateDeadCode =>
          \A f \in DOMAIN prog.functions :
             LET before == prog.functions[f].blocks
                 after  == prog'.functions[f].blocks
             IN  /\ Reachable(prog', after) = Reachable(prog, before)
                 /\ \A b \in DOMAIN before :
                       IF b \in Reachable(prog, before)
                       THEN Successors(prog', after, b) = Successors(prog, before, b)
                       ELSE after[b] = {}]_prog
=============================================================================
