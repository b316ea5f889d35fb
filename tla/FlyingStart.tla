----------------------------- MODULE FlyingStart -----------------------------
(***************************************************************************)
(* The Flying Start backend (src/backend/flying_start.cpp): one pass over  *)
(* the blocks of an IR function, in the order they were created, that      *)
(* emits machine code for each instruction.                                *)
(*                                                                         *)
(* A machine instruction is a record.  The target has any number of        *)
(* virtual registers; what asmjit's register allocation does to them is    *)
(* left out.  The short sequences the emit_* helpers write for one IR      *)
(* instruction are one machine instruction here: they read their sources   *)
(* and write the fresh register dst, and nothing jumps into them.          *)
(***************************************************************************)
EXTENDS UmbraIR

Machine == [kind |-> "", op |-> "", dst |-> 0, srcs |-> <<>>, imm |-> 0, target |-> <<>>]

Immediate(dst, v)      == [Machine EXCEPT !.kind = "imm", !.dst = dst, !.imm = v]
Move(dst, src)         == [Machine EXCEPT !.kind = "move", !.dst = dst, !.srcs = <<src>>]
Compute(op, dst, s, v) == [Machine EXCEPT !.kind = "alu", !.op = op, !.dst = dst, !.srcs = s, !.imm = v]
Jump(target)           == [Machine EXCEPT !.kind = "jump", !.target = target]
JumpIf(op, s, target)  == [Machine EXCEPT !.kind = "jumpif", !.op = op, !.srcs = s, !.target = target]
Invoke(callee, s, dst) == [Machine EXCEPT !.kind = "call", !.op = callee, !.srcs = s, !.dst = dst]
StoreTo(s)             == [Machine EXCEPT !.kind = "store", !.srcs = s]
Ret                    == [Machine EXCEPT !.kind = "ret"]

(* Labels: one per block and one per conditional branch's true edge.       *)
BlockLabel(b) == <<"block", b>>
EdgeLabel(b)  == <<"edge", b>>

(* The translator's state: the code and the labels bound in it, regMap     *)
(* (phiRegs is part of it), deferredCmps and the registers given out.      *)
EmptyCode == [code |-> <<>>, labels |-> [l \in {} |-> 0],
              regs |-> [r \in {} |-> 0], deferred |-> {}, regsUsed |-> 0]

Code(t, instr)  == [t EXCEPT !.code = Append(@, instr)]
BindLabel(t, l) == [t EXCEPT !.labels = (l :> Len(t.code) + 1) @@ @]

(* Translate the items of a sequence one after the other.  (Binding t to   *)
(* a set's only element has TLC evaluate one translation before the next.) *)
Chain(Translate(_, _), start, items) ==
    LET after[n \in 0..Len(items)] ==
            IF n = 0 THEN start
            ELSE CHOOSE next \in {Translate(t, items[n]) : t \in {after[n - 1]}} : TRUE
    IN  after[Len(items)]

(* A new register for ref: it replaces the one regMap had.                 *)
NewReg(t, ref) == [t EXCEPT !.regs = (ref :> t.regsUsed + 1) @@ @,
                            !.regsUsed = @ + 1]

(* getValue of every operand: one that has no register yet is given one,   *)
(* which nothing has written.                                              *)
GetValue(t, ref)   == IF ref \in DOMAIN t.regs THEN t ELSE NewReg(t, ref)
GetValues(t, refs) == Chain(GetValue, t, refs)
RegsOf(t, refs)    == [i \in DOMAIN refs |-> t.regs[refs[i]]]

(* The sources are looked up before the result gets its register. *)
Define(t, ref, op, refs, v) ==
    LET found == GetValues(t, refs)
        new   == NewReg(found, ref)
    IN  Code(new, Compute(op, new.regs[ref], RegsOf(found, refs), v))

EmitImm64(t, ref, v) ==
    IF ref \in DOMAIN t.regs THEN t
    ELSE LET new == NewReg(t, ref) IN Code(new, Immediate(new.regs[ref], v))

(* The references of a set in the order of the block lists. *)
InOrder(p, S) == SelectSeq([r \in DOMAIN p.instrs |-> r], LAMBDA r : r \in S)

-----------------------------------------------------------------------------
(* Comparison-branch fusion *)

(* countUse: like the operands eliminateDeadCode counts, one use for each  *)
(* time an instruction of the function names ref.                          *)
UseCount(p, blocks, ref) ==
    LET users == {r \in UNION {blocks[b] : b \in DOMAIN blocks} : ref \in Operands(p.instrs[r])}
        times(r) == IF p.instrs[r].op \in UnaryOps THEN 1
                    ELSE Cardinality({i \in DOMAIN p.instrs[r].args : p.instrs[r].args[i] = ref})
    IN  MapThenSumSet(times, users)

(* (fault: any comparison of a block that ends in a branch is deferred) *)
CanDeferAnyComparison(p, blocks, ref, b) ==
    p.instrs[LastOf(blocks[b])].op = "CondBranch"

CanDeferComparison(p, blocks, ref, b) ==
    LET last == p.instrs[LastOf(blocks[b])]
    IN  /\ UseCount(p, blocks, ref) = 1
        /\ last.op = "CondBranch" /\ last.args[1] = ref

-----------------------------------------------------------------------------
(* Edges *)

LeadingPhis(p, block) ==
    {r \in block : \A s \in block : s <= r => p.instrs[s].op = "Phi"}

(* The move for one phi on the edge from a block: its first entry for that *)
(* block, unless the entry is still the placeholder.                       *)
PhiMove(p, t, phi, from) ==
    LET entries == {e \in DOMAIN p.instrs[phi].targets : p.instrs[phi].targets[e] = from}
        value   == p.instrs[phi].args[Min(entries)]
    IN  IF entries = {} THEN t
        ELSE IF value = NullRef THEN t
        ELSE IF IsConstant(p, value) THEN Code(t, Immediate(t.regs[phi], ConstIntValue(p, value)))
        ELSE IF value \in DOMAIN t.regs THEN Code(t, Move(t.regs[phi], t.regs[value]))
        ELSE t

EmitPhiMovesForEdge(p, blocks, t, from, to) ==
    LET move(s, phi) == PhiMove(p, s, phi, from)
    IN  IF to \in DOMAIN blocks
        THEN Chain(move, t, InOrder(p, LeadingPhis(p, blocks[to])))
        ELSE t

EmitEdge(p, blocks, t, from, to) ==
    Code(EmitPhiMovesForEdge(p, blocks, t, from, to), Jump(BlockLabel(to)))

TranslateCondBranch(p, blocks, t, instr, b) ==
    LET cond  == instr.args[1]
        fused == cond \in t.deferred
        refs  == IF fused THEN p.instrs[cond].args ELSE <<cond>>
        found == GetValues(t, refs)
        test  == JumpIf(IF fused THEN p.instrs[cond].op ELSE "Test",
                        RegsOf(found, refs), EdgeLabel(b))
        falseEdge == EmitEdge(p, blocks, Code(found, test), b, instr.targets[2])
        trueEdge  == EmitEdge(p, blocks, BindLabel(falseEdge, EdgeLabel(b)), b, instr.targets[1])
    IN  [trueEdge EXCEPT !.deferred = @ \ {cond}]

-----------------------------------------------------------------------------
(* Instructions, blocks, functions *)

(* An argument is an immediate (moved into a register of its own first) or *)
(* the register of a value.                                                *)
TranslateCall(p, t, ref, instr) ==
    LET isImm(a) == IsConstant(p, a)
        values   == SelectSeq(instr.args, LAMBDA a : ~isImm(a))
        found    == GetValues(t, values)
        args     == [i \in DOMAIN instr.args |->
                        LET a == instr.args[i]
                        IN  IF isImm(a) THEN <<"imm", ConstIntValue(p, a)>>
                            ELSE <<"reg", found.regs[a]>>]
        result   == IF instr.type = "Void" THEN found ELSE NewReg(found, ref)
    IN  Code(result, Invoke(instr.callee, args,
                            IF instr.type = "Void" THEN 0 ELSE result.regs[ref]))

TwoOperand == {"Add", "Sub", "Mul", "And", "LAnd", "Or", "LOr", "Xor", "CRC32"}
OneOperand == {"LNot", "RotateRight", "ZExt", "SExt", "GEP", "Load"}

TranslateInstr(p, blocks, t, ref, b) ==
    LET instr == p.instrs[ref]
        op    == instr.op
    IN  CASE op \in Constants -> EmitImm64(t, ref, instr.imm)
          [] op \in TwoOperand -> Define(t, ref, op, instr.args, 0)
          [] op \in OneOperand -> Define(t, ref, op, <<instr.args[1]>>, instr.imm)
          [] op \in Comparisons ->
                IF CanDeferComparison(p, blocks, ref, b)
                THEN [t EXCEPT !.deferred = @ \cup {ref}]
                ELSE Define(t, ref, op, instr.args, 0)
          [] op = "Branch"     -> EmitEdge(p, blocks, t, b, instr.targets[1])
          [] op = "CondBranch" -> TranslateCondBranch(p, blocks, t, instr, b)
          [] op = "Call"       -> TranslateCall(p, t, ref, instr)
          [] op = "Return"     -> Code(t, Ret)
          [] op = "Store"      -> LET found == GetValues(t, instr.args)
                                  IN  Code(found, StoreTo(RegsOf(found, instr.args)))
          [] op = "IsNull"     -> Define(t, ref, op, <<>>, 0)
          \* phis are written on edges; Div, Rem, Shl and Shr have no translation
          [] OTHER             -> t

TranslateBlock(p, blocks, t, b) ==
    LET next(s, ref) == TranslateInstr(p, blocks, s, ref, b)
    IN  Chain(next, BindLabel(t, BlockLabel(b)), InOrder(p, blocks[b]))

(* translateFunction: every phi has its register before any code is        *)
(* emitted; a label is known once its block has been reached.              *)
CompileFunction(p, f) ==
    LET blocks == p.functions[f].blocks
        phis   == {r \in UNION {blocks[b] : b \in DOMAIN blocks} : p.instrs[r].op = "Phi"}
        next(t, b) == TranslateBlock(p, blocks, t, b)
    IN  Chain(next, Chain(NewReg, EmptyCode, InOrder(p, phis)),
                 [b \in DOMAIN blocks |-> b])
=============================================================================
