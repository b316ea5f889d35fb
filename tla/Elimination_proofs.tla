-------------------------- MODULE Elimination_proofs --------------------------
(***************************************************************************)
(* eliminateDeadCode, for every program the builder calls can make: what   *)
(* it takes from a reachable block is dead, and it leaves the control flow *)
(* as it was.  The second needs one more invariant (a terminator is the    *)
(* last instruction of its block, so that the terminator of a block stays  *)
(* its terminator) and an induction over the rounds of the search for      *)
(* reachable blocks.                                                       *)
(***************************************************************************)
EXTENDS IRBuilder_proofs, Induction

(* An emitting builder method adds one instruction, in the current block,  *)
(* or none at all.                                                         *)
AddsAtMostOne(p, q) ==
    \/ q.instrs = p.instrs /\ q.functions = p.functions
    \/ \E instr : /\ q.instrs = Append(p.instrs, instr)
                  /\ q.functions = PlaceIn(p.functions, p.fn, p.blk, Len(p.instrs) + 1)

Record(p) ==
    p \in [instrs : Seq(Instr), functions : Seq(Function), fn : Nat,
           blk : Nat, cache : [DOMAIN p.cache -> 1..Len(p.instrs)], ret : Int]

LEMMA GoodRecord == ASSUME NEW p, Good(p) PROVE Record(p)
BY DEF Good, IsProgram, Function, Record

LEMMA EmitAdds ==
    ASSUME NEW p, Good(p), NEW instr
    PROVE  AddsAtMostOne(p, Emit(p, instr))
<1> DEFINE ref == Len(p.instrs) + 1
           new == PlaceIn(p.functions, p.fn, p.blk, ref)
           grown == Append(p.instrs, instr)
           q == Emit(p, instr)
<1>1. q = [p EXCEPT !.instrs = grown, !.functions = new, !.ret = ref]
  BY DEF Emit
<1>2. q.instrs = grown /\ q.functions = new
  <2> HIDE DEF q, new, ref, grown
  <2> QED BY <1>1, GoodRecord DEF Record
<1> HIDE DEF q
<1>3. AddsAtMostOne(p, q)
  BY <1>2 DEF AddsAtMostOne
<1> QED BY <1>3 DEF q

(* A call that finds nothing to emit changes the result only.              *)
LEMMA ReturnAdds ==
    ASSUME NEW p, Good(p), NEW r
    PROVE  AddsAtMostOne(p, [p EXCEPT !.ret = r])
<1> DEFINE q == [p EXCEPT !.ret = r]
<1>1. q.instrs = p.instrs /\ q.functions = p.functions
  BY GoodRecord DEF Record
<1> QED BY <1>1 DEF AddsAtMostOne

LEMMA AddConstIntAdds ==
    ASSUME NEW p, Good(p), NEW v, NEW t
    PROVE  AddsAtMostOne(p, AddConstInt(p, v, t))
<1> DEFINE key == CacheKey(v, t)
           e == Emit(p, MkInstr("ConstInt", t, <<>>, v))
           cache == [k \in DOMAIN p.cache \cup {key} |->
                        IF k = key THEN Len(p.instrs) + 1 ELSE p.cache[k]]
           q == [e EXCEPT !.cache = cache]
<1>1. CASE key \in DOMAIN p.cache
  BY <1>1, ReturnAdds DEF AddConstInt
<1>2. CASE key \notin DOMAIN p.cache
  <2>1. AddsAtMostOne(p, e)
    BY EmitAdds
  <2>2. q.functions = e.functions /\ q.instrs = e.instrs
    OBVIOUS
  <2>3. AddConstInt(p, v, t) = q
    BY <1>2 DEF AddConstInt, CacheNew
  <2> HIDE DEF q, e
  <2> QED BY <2>1, <2>2, <2>3 DEF AddsAtMostOne
<1> QED BY <1>1, <1>2

LEMMA AddBinaryAdds ==
    ASSUME NEW p, Good(p), NEW op, NEW t, NEW a, NEW b
    PROVE  AddsAtMostOne(p, AddBinary(p, op, t, a, b))
<1>1. CASE CanFold(p, op, a, b)
  BY <1>1, AddConstIntAdds, EmitAdds DEF AddBinary, TryConstFold, AddConstBool
<1>2. CASE ~CanFold(p, op, a, b)
  BY <1>2, EmitAdds DEF AddBinary
<1> QED BY <1>1, <1>2

LEMMA SimpleEmitsAdd ==
    ASSUME NEW p, Good(p), NEW a, NEW b, NEW c, NEW d, NEW t
    PROVE  /\ AddsAtMostOne(p, AddConstBool(p, a))
           /\ AddsAtMostOne(p, AddUnary(p, "LNot", t, a))
           /\ AddsAtMostOne(p, AddRotateRight(p, a, b))
           /\ AddsAtMostOne(p, AddGEP(p, a, b))
           /\ AddsAtMostOne(p, AddLoad(p, t, a))
           /\ AddsAtMostOne(p, AddStore(p, a, b))
           /\ AddsAtMostOne(p, AddReturn(p, a))
           /\ AddsAtMostOne(p, AddBranch(p, c))
           /\ AddsAtMostOne(p, AddCondBranch(p, a, c, d))
           /\ AddsAtMostOne(p, AddPhi(p, t, a, c))
           /\ AddsAtMostOne(p, AddCall(p, t, b, a))
BY EmitAdds, ReturnAdds
   DEF AddConstBool, AddUnary, AddRotateRight, AddGEP, AddLoad, AddStore, AddReturn,
       AddBranch, AddCondBranch, AddPhi, AddCall

(* Every call of the client is of one of three kinds.                      *)
LEMMA StepKinds ==
    ASSUME Good(prog), Next
    PROVE  \/ Thins(prog, prog') /\ (DoBeginFunction \/ DoAddBlock \/ DoEliminateDeadCode)
           \/ /\ prog'.functions = prog.functions
              /\ Thins(prog, prog')
           \/ \E method : Open(method) /\ AddsAtMostOne(prog, prog')
<1>1. CASE DoBeginFunction
  <2>1. <<>> \in Seq(Types) /\ <<"Int64">> \in Seq(Types)
    BY DEF Types
  <2> QED BY <1>1, <2>1, BeginFunctionGood DEF DoBeginFunction
<1>2. CASE DoAddBlock
  BY <1>2, AddBlockGood DEF DoAddBlock, HasFunction
<1>3. CASE DoEliminateDeadCode
  BY <1>3, EliminateDeadCodeGood DEF DoEliminateDeadCode
<1>4. CASE DoSetInsertionPoint
  <2>1. PICK f \in DOMAIN prog.functions :
           \E b \in DOMAIN prog.functions[f].blocks : prog' = SetInsertionPoint(prog, f, b)
    BY <1>4 DEF DoSetInsertionPoint
  <2>2. PICK b \in DOMAIN prog.functions[f].blocks : prog' = SetInsertionPoint(prog, f, b)
    BY <2>1
  <2>3. Thins(prog, prog')
    BY <2>2, SetInsertionPointGood
  <2>4. SetInsertionPoint(prog, f, b).functions = prog.functions
    BY GoodRecord DEF Record, SetInsertionPoint
  <2> QED BY <2>2, <2>3, <2>4
<1>5. CASE DoPatchPhiEntry
  <2>1. PICK phi \in Refs, v \in Operand, from \in BlockIds :
           prog.instrs[phi].op = "Phi" /\ prog' = PatchPhiEntry(prog, phi, 2, v, from)
    BY <1>5 DEF DoPatchPhiEntry
  <2>2. v \in Int /\ from \in Nat /\ 2 \in Nat
    BY OperandType, BlockIdType
  <2>3. Thins(prog, prog')
    BY <2>1, <2>2, PatchPhiEntryGood DEF Refs
  <2>4. PatchPhiEntry(prog, phi, 2, v, from).functions = prog.functions
    BY GoodRecord DEF Record, PatchPhiEntry
  <2> QED BY <2>1, <2>3, <2>4
<1>6. CASE \E v \in Literals, t \in ConstTypes : DoAddConstInt(v, t)
  BY <1>6, AddConstIntAdds DEF DoAddConstInt
<1>7. CASE \E op \in BinOps, a, b \in Operand : DoAddBinary(op, a, b)
  BY <1>7, AddBinaryAdds DEF DoAddBinary
<1>8. CASE \/ DoAddConstBool \/ DoAddUnary \/ DoAddRotateRight \/ DoAddGEP
           \/ DoAddLoad \/ DoAddStore
  BY <1>8, SimpleEmitsAdd
     DEF DoAddConstBool, DoAddUnary, DoAddRotateRight, DoAddGEP, DoAddLoad, DoAddStore
<1>9. CASE \/ DoAddBranch \/ DoAddCondBranch \/ DoAddReturn \/ DoAddPhi \/ DoAddCall
  BY <1>9, SimpleEmitsAdd
     DEF DoAddBranch, DoAddCondBranch, DoAddReturn, DoAddPhi, DoAddCall
<1> QED BY <1>1, <1>2, <1>3, <1>4, <1>5, <1>6, <1>7, <1>8, <1>9 DEF Next

-----------------------------------------------------------------------------
(* Builder calls only ever add references to blocks; elimination is the    *)
(* one call that takes some out.                                           *)
KeepsRefs(p, q) == RefsIn(p.functions) \subseteq RefsIn(q.functions)

LEMMA RefsInBlocks ==
    ASSUME NEW fns, NEW r
    PROVE  r \in RefsIn(fns) <=>
              \E f \in DOMAIN fns : \E b \in DOMAIN fns[f].blocks : r \in fns[f].blocks[b]
BY DEF RefsIn

(* Every block of the old functions is part of the same block of the new.  *)
LEMMA GrownKeepsRefs ==
    ASSUME NEW p, NEW q,
           \A f \in DOMAIN p.functions : \A b \in DOMAIN p.functions[f].blocks :
              /\ f \in DOMAIN q.functions
              /\ b \in DOMAIN q.functions[f].blocks
              /\ p.functions[f].blocks[b] \subseteq q.functions[f].blocks[b]
    PROVE  KeepsRefs(p, q)
BY RefsInBlocks DEF KeepsRefs

(* What adding one instruction does to the blocks.                         *)
Placed(p, q) ==
    /\ DOMAIN q.functions = DOMAIN p.functions
    /\ \A g \in DOMAIN p.functions :
          DOMAIN q.functions[g].blocks = DOMAIN p.functions[g].blocks
    /\ \A g \in DOMAIN p.functions : \A c \in DOMAIN p.functions[g].blocks :
          q.functions[g].blocks[c] = p.functions[g].blocks[c] \cup
                (IF g = p.fn /\ c = p.blk THEN {Len(p.instrs) + 1} ELSE {})

LEMMA AddedBlocks ==
    ASSUME NEW p, Good(p), p.functions # <<>>, NEW q, q.functions # p.functions,
           AddsAtMostOne(p, q)
    PROVE  (\E instr : q.instrs = Append(p.instrs, instr)) /\ Placed(p, q)
<1> DEFINE old == p.functions
           ref == Len(p.instrs) + 1
           new == PlaceIn(old, p.fn, p.blk, ref)
<1>1. old \in Seq(Function) /\ p.fn \in DOMAIN old /\ p.blk \in DOMAIN old[p.fn].blocks
  BY DEF Good, IsProgram, Function
<1>2. ref \in Nat
  BY DEF Good, IsProgram
<1>3. /\ DOMAIN new = DOMAIN old
      /\ \A g \in DOMAIN old : DOMAIN new[g].blocks = DOMAIN old[g].blocks
      /\ \A g \in DOMAIN old : \A c \in DOMAIN old[g].blocks :
            new[g].blocks[c] = old[g].blocks[c] \cup
                               (IF g = p.fn /\ c = p.blk THEN {ref} ELSE {})
  <2> DEFINE f == p.fn
             b == p.blk
  <2> HIDE DEF old, ref, f, b
  <2> QED BY <1>1, <1>2, PlaceInFacts DEF f, b
<1>4. q.functions = new /\ \E instr : q.instrs = Append(p.instrs, instr)
  BY DEF AddsAtMostOne
<1> HIDE DEF new
<1> QED BY <1>3, <1>4 DEF Placed

LEMMA AddsKeepsRefs ==
    ASSUME NEW p, Good(p), p.functions # <<>>, NEW q, AddsAtMostOne(p, q)
    PROVE  KeepsRefs(p, q)
<1>1. CASE q.functions = p.functions
  BY <1>1 DEF KeepsRefs
<1>2. CASE q.functions # p.functions
  BY <1>2, AddedBlocks, GrownKeepsRefs DEF Placed
<1> QED BY <1>1, <1>2

LEMMA BeginFunctionKeepsRefs ==
    ASSUME NEW p, Good(p), NEW params
    PROVE  KeepsRefs(p, BeginFunction(p, params))
<1> DEFINE fn == [params |-> params, blocks |-> <<{}>>]
           new == Append(p.functions, fn)
           q == BeginFunction(p, params)
<1>1. p \in [instrs : Seq(Instr), functions : Seq(Function), fn : Nat,
             blk : Nat, cache : [DOMAIN p.cache -> 1..Len(p.instrs)], ret : Int]
  BY DEF Good, IsProgram, Function
<1>2. \A f \in DOMAIN p.functions : f \in DOMAIN new /\ new[f] = p.functions[f]
  <2> HIDE DEF fn
  <2> QED BY <1>1
<1>3. q.functions = new
  <2>1. q = [p EXCEPT !.functions = new, !.fn = Len(p.functions) + 1, !.blk = 1,
                      !.ret = Len(p.functions) + 1]
    BY DEF BeginFunction
  <2> HIDE DEF q, new
  <2> QED BY <1>1, <2>1
<1> HIDE DEF q, new
<1>4. KeepsRefs(p, q)
  BY <1>2, <1>3, GrownKeepsRefs
<1> QED BY <1>4 DEF q

LEMMA AddBlockKeepsRefs ==
    ASSUME NEW p, Good(p), p.functions # <<>>
    PROVE  KeepsRefs(p, AddBlock(p))
<1> DEFINE old == p.functions
           blocks == old[p.fn].blocks
           grown == Append(blocks, {})
           newFn == [old[p.fn] EXCEPT !.blocks = grown]
           new == [old EXCEPT ![p.fn] = newFn]
           q == AddBlock(p)
<1>1. /\ p \in [instrs : Seq(Instr), functions : Seq(Function), fn : Nat,
                blk : Nat, cache : [DOMAIN p.cache -> 1..Len(p.instrs)], ret : Int]
      /\ p.fn \in DOMAIN old
  BY DEF Good, IsProgram, Function
<1>2. old[p.fn] \in Function /\ blocks \in Seq(SUBSET Nat)
  BY <1>1, BlocksType
<1>3. \A b \in DOMAIN blocks : b \in DOMAIN grown /\ grown[b] = blocks[b]
  <2> HIDE DEF blocks
  <2> QED BY <1>2
<1>4. newFn.blocks = grown
  <2> HIDE DEF grown
  <2> QED BY <1>2 DEF Function
<1>5. /\ DOMAIN new = DOMAIN old
      /\ \A f \in DOMAIN old : new[f] = IF f = p.fn THEN newFn ELSE old[f]
  <2> HIDE DEF newFn
  <2> QED BY <1>1
<1>6. q.functions = new
  <2>1. q = [p EXCEPT !.functions = new, !.ret = Len(blocks) + 1]
    BY DEF AddBlock, Blocks
  <2> HIDE DEF q, new
  <2> QED BY <1>1, <2>1
<1> HIDE DEF q, new, newFn, grown
<1>7. ASSUME NEW f \in DOMAIN old, NEW b \in DOMAIN old[f].blocks
      PROVE  /\ f \in DOMAIN q.functions
             /\ b \in DOMAIN q.functions[f].blocks
             /\ old[f].blocks[b] \subseteq q.functions[f].blocks[b]
  <2>1. CASE f = p.fn
    BY <1>3, <1>4, <1>5, <1>6, <2>1
  <2>2. CASE f # p.fn
    BY <1>5, <1>6, <2>2
  <2> QED BY <2>1, <2>2
<1>8. KeepsRefs(p, q)
  BY <1>7, GrownKeepsRefs
<1> QED BY <1>8 DEF q

(* What elimination takes out of a reachable block it does not keep.       *)
LEMMA EliminateKeeps ==
    ASSUME NEW p, Good(p), NEW r \in ReachableRefs(p),
           r \notin RefsIn(EliminateDeadCode(p).functions)
    PROVE  ~Keeps(p, UsedIn(p, ClearUnreachable(p)), r)
<1> DEFINE old == p.functions
           cleared == ClearUnreachable(p)
           used == UsedIn(p, cleared)
           kept == [f \in DOMAIN cleared |->
                      [b \in DOMAIN cleared[f].blocks |->
                          {s \in cleared[f].blocks[b] : Keeps(p, used, s)}]]
           new == [f \in DOMAIN cleared |-> [cleared[f] EXCEPT !.blocks = kept[f]]]
           q == EliminateDeadCode(p)
<1>1. p \in [instrs : Seq(Instr), functions : Seq(Function), fn : Nat,
             blk : Nat, cache : [DOMAIN p.cache -> 1..Len(p.instrs)], ret : Int]
  BY DEF Good, IsProgram, Function
<1>2. \A f \in DOMAIN cleared : DOMAIN cleared[f] = {"params", "blocks"}
  <2> TAKE f \in DOMAIN cleared
  <2> DEFINE live == [b \in DOMAIN old[f].blocks |->
                         IF b \in Reachable(p, old[f].blocks)
                         THEN old[f].blocks[b] ELSE {}]
  <2>1. f \in DOMAIN old /\ cleared[f] = [old[f] EXCEPT !.blocks = live]
    BY DEF ClearUnreachable
  <2>2. old[f] \in Function
    BY <1>1, <2>1, BlocksType
  <2> HIDE DEF live, cleared
  <2> QED BY <2>1, <2>2 DEF Function
<1> HIDE DEF cleared
<1>3. DOMAIN new = DOMAIN cleared /\ \A f \in DOMAIN cleared : new[f].blocks = kept[f]
  <2> HIDE DEF kept
  <2> QED BY <1>2
<1>4. q.functions = new
  <2>1. q = [p EXCEPT !.functions = new]
    BY DEF EliminateDeadCode, cleared
  <2> HIDE DEF q, new
  <2> QED BY <1>1, <2>1
<1>5. PICK f \in DOMAIN cleared : \E b \in DOMAIN cleared[f].blocks : r \in cleared[f].blocks[b]
  BY RefsInBlocks DEF ReachableRefs, cleared
<1>6. PICK b \in DOMAIN cleared[f].blocks : r \in cleared[f].blocks[b]
  BY <1>5
<1>7. ~Keeps(p, used, r)
  <2> SUFFICES ASSUME Keeps(p, used, r) PROVE FALSE
    OBVIOUS
  <2>1. b \in DOMAIN kept[f] /\ r \in kept[f][b]
    <3> HIDE DEF used
    <3> QED BY <1>6
  <2> HIDE DEF kept, new, q
  <2>2. f \in DOMAIN q.functions /\ b \in DOMAIN q.functions[f].blocks
        /\ r \in q.functions[f].blocks[b]
    BY <1>3, <1>4, <2>1
  <2>3. r \in RefsIn(q.functions)
    BY <2>2, RefsInBlocks
  <2> QED BY <2>3 DEF q
<1> QED BY <1>7 DEF cleared

(* Only elimination takes a reference out of every block.                  *)
LEMMA BuilderKeepsRefs ==
    ASSUME Good(prog), Next, ~DoEliminateDeadCode
    PROVE  KeepsRefs(prog, prog')
<1>1. CASE DoBeginFunction
  BY <1>1, BeginFunctionKeepsRefs DEF DoBeginFunction
<1>2. CASE DoAddBlock
  BY <1>2, AddBlockKeepsRefs DEF DoAddBlock, HasFunction
<1>3. CASE prog'.functions = prog.functions
  BY <1>3 DEF KeepsRefs
<1>4. CASE \E method : Open(method) /\ AddsAtMostOne(prog, prog')
  BY <1>4, AddsKeepsRefs DEF Open, HasFunction
<1> QED BY <1>1, <1>2, <1>3, <1>4, StepKinds

(* eliminateDeadCode only removes dead instructions: whatever the program, *)
(* an instruction that goes from a block control can reach has no effect,  *)
(* and no instruction of a reachable block has it as an operand.           *)
THEOREM OnlyDeadRemoved == Spec => DceRemovesOnlyDead
<1>1. ASSUME Good(prog), [Next]_prog,
             NEW r \in Removed \cap ReachableRefs(prog)
      PROVE  /\ prog.instrs[r].op \notin Effects
             /\ r \notin UsedIn(prog, ClearUnreachable(prog))
  <2>1. r \in ReachableRefs(prog) /\ r \in RefsIn(prog.functions)
        /\ r \notin RefsIn(prog'.functions)
    BY <1>1 DEF Removed
  <2>2. CASE DoEliminateDeadCode
    <3>1. r \notin RefsIn(EliminateDeadCode(prog).functions)
      BY <2>1, <2>2 DEF DoEliminateDeadCode
    <3>2. ~Keeps(prog, UsedIn(prog, ClearUnreachable(prog)), r)
      BY <1>1, <2>1, <3>1, EliminateKeeps
    <3> QED BY <3>2 DEF Keeps
  <2>3. CASE Next /\ ~DoEliminateDeadCode
    BY <1>1, <2>1, <2>3, BuilderKeepsRefs DEF KeepsRefs
  <2>4. CASE UNCHANGED prog
    BY <2>1, <2>4
  <2> QED BY <1>1, <2>2, <2>3, <2>4
<1>2. Good(prog) /\ [Next]_prog =>
         [\A r \in Removed \cap ReachableRefs(prog) :
             /\ prog.instrs[r].op \notin Effects
             /\ r \notin UsedIn(prog, ClearUnreachable(prog))]_prog
  BY <1>1
<1> QED BY <1>2, InitGood, StepGood, PTL DEF Spec, DceRemovesOnlyDead

-----------------------------------------------------------------------------
(* Control leaves a block at its last instruction only: no instruction     *)
(* follows a terminator in its block, whatever the client emits.           *)
TerminatorsLast(p) ==
    \A f \in DOMAIN p.functions : \A b \in DOMAIN p.functions[f].blocks :
       \A r, s \in p.functions[f].blocks[b] :
          p.instrs[r].op \in Terminators => s <= r

LEMMA LastOfIs ==
    ASSUME NEW S, S \subseteq Int, NEW r \in S, \A s \in S : s <= r
    PROVE  LastOf(S) = r
<1> DEFINE Is(x) == \A s \in S : s <= x
<1>1. LastOf(S) = CHOOSE x \in S : Is(x)
  BY DEF LastOf
<1>2. LastOf(S) \in S /\ Is(LastOf(S))
  <2>1. Is(r)
    OBVIOUS
  <2> HIDE DEF Is
  <2> QED BY <1>1, <2>1, Zenon
<1>3. LastOf(S) <= r /\ r <= LastOf(S)
  BY <1>2
<1>4. LastOf(S) \in Int /\ r \in Int
  BY <1>2
<1> QED BY <1>3, <1>4

LEMMA LastExists ==
    ASSUME NEW n \in Nat, NEW S, S \subseteq 1..n, S # {}
    PROVE  LastOf(S) \in S /\ \A s \in S : s <= LastOf(S)
<1> DEFINE T == {n - s : s \in S}
<1>1. T \subseteq Nat /\ T # {}
  <2>1. \A s \in S : n - s \in Nat
    OBVIOUS
  <2> QED BY <2>1
<1>2. PICK x \in T : \A y \in T : ~(y < x)
  BY <1>1, LeastNatural
<1>3. PICK r \in S : x = n - r
  OBVIOUS
<1>4. \A s \in S : s <= r
  <2> TAKE s \in S
  <2>1. ~(n - s < n - r) /\ s \in Int /\ r \in Int
    BY <1>2, <1>3
  <2> QED BY <2>1
<1>5. S \subseteq Int
  OBVIOUS
<1>6. LastOf(S) = r
  BY <1>4, <1>5, LastOfIs
<1> QED BY <1>4, <1>6

LEMMA BlockRefs ==
    ASSUME NEW p, Good(p), NEW f \in DOMAIN p.functions
    PROVE  LET blocks == p.functions[f].blocks
           IN  /\ blocks \in Seq(SUBSET Nat)
               /\ Len(blocks) \in Nat /\ DOMAIN blocks = 1..Len(blocks)
               /\ 1 \in DOMAIN blocks
               /\ \A b \in DOMAIN blocks : blocks[b] \subseteq 1..Len(p.instrs)
               /\ Len(p.instrs) \in Nat
<1> DEFINE blocks == p.functions[f].blocks
<1>1. blocks \in Seq(SUBSET Nat)
  BY BlocksType DEF Good, IsProgram, Function
<1>2. blocks # <<>> /\ \A b \in DOMAIN blocks : blocks[b] \subseteq 1..Len(p.instrs)
  BY DEF Good, IsProgram
<1>3. Len(p.instrs) \in Nat
  BY DEF Good, IsProgram
<1> HIDE DEF blocks
<1>4. Len(blocks) \in Nat /\ DOMAIN blocks = 1..Len(blocks) /\ 1 \in DOMAIN blocks
  BY <1>1, <1>2
<1> QED BY <1>1, <1>2, <1>3, <1>4 DEF blocks

(* A method that is called only while the current block has no terminator  *)
(* puts its instruction behind none.                                       *)
LEMMA OpenBlock ==
    ASSUME Good(prog), TerminatorsLast(prog), NEW method, Open(method)
    PROVE  \A r \in Blocks(prog)[prog.blk] : prog.instrs[r].op \notin Terminators
<1> DEFINE block == prog.functions[prog.fn].blocks[prog.blk]
<1>1. /\ prog.fn \in DOMAIN prog.functions
      /\ prog.blk \in DOMAIN prog.functions[prog.fn].blocks
  BY DEF Good, IsProgram, Open, HasFunction
<1>2. CurrentBlock = block /\ Blocks(prog)[prog.blk] = block /\ block \subseteq Int
  BY <1>1, BlockRefs DEF CurrentBlock, Blocks
<1> SUFFICES ASSUME NEW r \in block, prog.instrs[r].op \in Terminators
             PROVE  FALSE
  BY <1>2
<1>3. \A s \in block : s <= r
  BY <1>1 DEF TerminatorsLast
<1> HIDE DEF block
<1>4. LastOf(block) = r
  BY <1>2, <1>3, LastOfIs
<1> QED BY <1>2, <1>4 DEF Open

LEMMA AddsAfterNoTerminator ==
    ASSUME NEW p, Good(p), TerminatorsLast(p), p.functions # <<>>,
           \A r \in Blocks(p)[p.blk] : p.instrs[r].op \notin Terminators,
           NEW q, AddsAtMostOne(p, q)
    PROVE  TerminatorsLast(q)
<1> DEFINE old == p.functions
           new == q.functions
           ref == Len(p.instrs) + 1
<1>1. CASE q.functions = p.functions /\ q.instrs = p.instrs
  BY <1>1 DEF TerminatorsLast
<1>2. CASE q.functions # p.functions
  <2>1. /\ \E instr : q.instrs = Append(p.instrs, instr)
        /\ DOMAIN new = DOMAIN old
        /\ \A g \in DOMAIN old : DOMAIN new[g].blocks = DOMAIN old[g].blocks
        /\ \A g \in DOMAIN old : \A c \in DOMAIN old[g].blocks :
              new[g].blocks[c] = old[g].blocks[c] \cup
                                 (IF g = p.fn /\ c = p.blk THEN {ref} ELSE {})
    <3>1. (\E instr : q.instrs = Append(p.instrs, instr)) /\ Placed(p, q)
      BY <1>2, AddedBlocks
    <3> QED BY <3>1 DEF Placed
  <2> SUFFICES ASSUME NEW f \in DOMAIN old, NEW b \in DOMAIN old[f].blocks,
                      NEW r \in new[f].blocks[b], NEW s \in new[f].blocks[b],
                      q.instrs[r].op \in Terminators
               PROVE  s <= r
    BY <2>1 DEF TerminatorsLast
  <2>2. /\ old[f].blocks[b] \subseteq 1..Len(p.instrs)
        /\ Len(p.instrs) \in Nat /\ p.instrs \in Seq(Instr)
    BY BlockRefs DEF Good, IsProgram
  <2>3. \A i \in 1..Len(p.instrs) : q.instrs[i] = p.instrs[i]
    BY <2>1, <2>2
  <2>4. CASE f = p.fn /\ b = p.blk
    <3>1. Blocks(p)[p.blk] = old[f].blocks[b]
      BY <2>4 DEF Blocks
    <3>2. r = ref
      BY <2>1, <2>2, <2>3, <2>4, <3>1
    <3>3. s \in old[f].blocks[b] \cup {ref}
      BY <2>1, <2>4
    <3> QED BY <2>2, <3>2, <3>3
  <2>5. CASE ~(f = p.fn /\ b = p.blk)
    <3>1. r \in old[f].blocks[b] /\ s \in old[f].blocks[b]
      BY <2>1, <2>5
    <3>2. p.instrs[r].op \in Terminators
      BY <2>2, <2>3, <3>1
    <3> QED BY <3>1, <3>2 DEF TerminatorsLast
  <2> QED BY <2>4, <2>5
<1>3. q.functions = p.functions => q.instrs = p.instrs
  <2> SUFFICES ASSUME q.functions = p.functions, q.instrs # p.instrs
               PROVE  FALSE
    OBVIOUS
  <2>1. new = PlaceIn(old, p.fn, p.blk, ref)
    BY DEF AddsAtMostOne
  <2>2. old \in Seq(Function) /\ p.fn \in DOMAIN old /\ p.blk \in DOMAIN old[p.fn].blocks
    BY DEF Good, IsProgram, Function
  <2>3. /\ ref \in Nat /\ ref \notin 1..Len(p.instrs)
        /\ old[p.fn].blocks[p.blk] \subseteq 1..Len(p.instrs)
    BY <2>2, BlockRefs
  <2>4. ref \in PlaceIn(old, p.fn, p.blk, ref)[p.fn].blocks[p.blk]
    <3> DEFINE f == p.fn
               b == p.blk
    <3> HIDE DEF old, ref, f, b
    <3>1. PlaceIn(old, f, b, ref)[f].blocks[b] = old[f].blocks[b] \cup {ref}
      BY <2>2, <2>3, PlaceInFacts DEF f, b
    <3> QED BY <3>1 DEF f, b
  <2> QED BY <2>1, <2>3, <2>4
<1> QED BY <1>1, <1>2, <1>3

LEMMA ThinsKeepsLast ==
    ASSUME NEW p, Good(p), TerminatorsLast(p), NEW q, Thins(p, q)
    PROVE  TerminatorsLast(q)
<1> SUFFICES ASSUME NEW f \in DOMAIN q.functions, NEW b \in DOMAIN q.functions[f].blocks,
                    NEW r \in q.functions[f].blocks[b], NEW s \in q.functions[f].blocks[b],
                    q.instrs[r].op \in Terminators
             PROVE  s <= r
  BY DEF TerminatorsLast
<1>1. /\ f \in DOMAIN p.functions /\ b \in DOMAIN p.functions[f].blocks
      /\ r \in p.functions[f].blocks[b] /\ s \in p.functions[f].blocks[b]
  BY DEF Thins
<1>2. r \in 1..Len(p.instrs)
  BY <1>1, BlockRefs
<1>3. p.instrs[r].op \in Terminators
  BY <1>2 DEF Thins
<1> QED BY <1>1, <1>3 DEF TerminatorsLast

LEMMA InitLast == Init => TerminatorsLast(prog)
BY DEF Init, EmptyProgram, TerminatorsLast

LEMMA StepLast ==
    Good(prog) /\ TerminatorsLast(prog) /\ [Next]_prog => TerminatorsLast(prog)'
<1> SUFFICES ASSUME Good(prog), TerminatorsLast(prog), [Next]_prog
             PROVE  TerminatorsLast(prog')
  OBVIOUS
<1>1. CASE Thins(prog, prog')
  BY <1>1, ThinsKeepsLast
<1>2. CASE \E method : Open(method) /\ AddsAtMostOne(prog, prog')
  <2>1. PICK method : Open(method) /\ AddsAtMostOne(prog, prog')
    BY <1>2
  <2>2. prog.functions # <<>>
    BY <2>1 DEF Open, HasFunction
  <2> QED BY <2>1, <2>2, OpenBlock, AddsAfterNoTerminator
<1>3. CASE UNCHANGED prog
  BY <1>3
<1> QED BY <1>1, <1>2, <1>3, StepKinds

-----------------------------------------------------------------------------
(* The rounds of the search: round n adds the successors of what round     *)
(* n - 1 had reached.                                                      *)
LEMMA WithinFacts ==
    ASSUME NEW p, NEW blocks, Len(blocks) \in Nat, DOMAIN blocks = 1..Len(blocks)
    PROVE  LET w == Within(p, blocks)
           IN  /\ w \in [0..Len(blocks) -> SUBSET (DOMAIN blocks \cup {1})]
               /\ w[0] = {1}
               /\ \A n \in 1..Len(blocks) :
                     w[n] = w[n - 1] \cup UNION {Successors(p, blocks, b) : b \in w[n - 1]}
<1> DEFINE m == Len(blocks)
           S == SUBSET (DOMAIN blocks \cup {1})
           Grow(R) == R \cup UNION {Successors(p, blocks, b) : b \in R}
           step == [n \in 1..m |-> [R \in S |-> Grow(R)]]
           Is(w) == w = [n \in 0..m |->
                           IF n = 0 THEN {1}
                           ELSE w[n - 1] \cup UNION {Successors(p, blocks, b) : b \in w[n - 1]}]
<1>1. \A b : Successors(p, blocks, b) \subseteq DOMAIN blocks
  BY DEF Successors
<1>2. \A R \in S : Grow(R) \in S
  BY <1>1
<1>3. step \in [1..m -> [S -> S]]
  <2> HIDE DEF S, Grow
  <2> QED BY <1>2
<1>4. PICK f : Recursive(f, m, S, {1}, step)
  <2>1. {1} \in S /\ m \in Nat
    OBVIOUS
  <2> HIDE DEF S, step, m
  <2> QED BY <1>3, <2>1, RecursionExists
<1>5. /\ f \in [0..m -> S]
       /\ f[0] = {1}
       /\ \A n \in 1..m : f[n] = step[n][f[n - 1]]
  BY <1>4, Zenon DEF Recursive
<1>6. \A n \in 1..m : f[n] = Grow(f[n - 1])
  <2> TAKE n \in 1..m
  <2>1. n - 1 \in 0..m
    OBVIOUS
  <2>2. f[n - 1] \in S
    <3> HIDE DEF S
    <3> QED BY <1>5, <2>1
  <2> HIDE DEF S, Grow
  <2> QED BY <1>5, <2>2
<1>7. Is(f)
  <2>1. f = [n \in 0..m |-> f[n]]
    <3> HIDE DEF S
    <3> QED BY <1>5
  <2>2. \A n \in 0..m : f[n] = IF n = 0 THEN {1} ELSE Grow(f[n - 1])
    <3> HIDE DEF S, Grow
    <3> QED BY <1>5, <1>6
  <2> QED BY <2>1, <2>2, Zenon
<1>8. Within(p, blocks) = CHOOSE w : Is(w)
  BY Zenon DEF Within
<1>9. Is(Within(p, blocks))
  <2> HIDE DEF Is
  <2> QED BY <1>7, <1>8, Zenon
<1> DEFINE w == Within(p, blocks)
<1> HIDE DEF w
<1>10. w = [n \in 0..m |-> IF n = 0 THEN {1} ELSE Grow(w[n - 1])]
  BY <1>9, Zenon DEF w
<1>11. w[0] = {1} /\ \A n \in 1..m : w[n] = Grow(w[n - 1])
  <2> DEFINE value(n) == IF n = 0 THEN {1} ELSE Grow(w[n - 1])
  <2>1. w = [n \in 0..m |-> value(n)]
    BY <1>10, Zenon
  <2> HIDE DEF value
  <2>2. \A n \in 0..m : w[n] = value(n)
    BY <2>1
  <2>3. 0 \in 0..m /\ \A n \in 1..m : n \in 0..m /\ n # 0
    OBVIOUS
  <2> HIDE DEF Grow
  <2> QED BY <2>2, <2>3 DEF value
<1>12. DOMAIN w = 0..m /\ w = [n \in 0..m |-> w[n]]
  <2> HIDE DEF Grow
  <2> QED BY <1>10
<1>13. w \in [0..m -> S]
  <2> DEFINE T == {n \in 0..m : w[n] \in S}
  <2> HIDE DEF S, Grow
  <2>1. 0 \in T
    BY <1>11 DEF S
  <2>2. \A n \in 0..m : n < m /\ n \in T => n + 1 \in T
    <3> SUFFICES ASSUME NEW n \in 0..m, n < m, w[n] \in S PROVE w[n + 1] \in S
      OBVIOUS
    <3>1. n + 1 \in 1..m /\ (n + 1) - 1 = n
      OBVIOUS
    <3>2. w[n + 1] = Grow(w[n])
      BY <1>11, <3>1
    <3> QED BY <1>2, <3>2
  <2>3. 0..m \subseteq T
    <3> HIDE DEF T
    <3> QED BY <2>1, <2>2, UpTo
  <2> QED BY <1>12, <2>3
<1> QED BY <1>11, <1>13 DEF w

(* A later round has reached everything an earlier one had.                *)
LEMMA WithinGrows ==
    ASSUME NEW p, NEW blocks, Len(blocks) \in Nat, DOMAIN blocks = 1..Len(blocks),
           NEW n \in 0..Len(blocks)
    PROVE  Within(p, blocks)[n] \subseteq Reachable(p, blocks)
<1> DEFINE m == Len(blocks)
           w == Within(p, blocks)
           T == {k \in 0..m : \A i \in 0..k : w[i] \subseteq w[k]}
<1>1. \A k \in 1..m : w[k - 1] \subseteq w[k]
  BY WithinFacts
<1> HIDE DEF w
<1>2. 0 \in T
  OBVIOUS
<1>3. ASSUME NEW k \in 0..m, k < m, k \in T
      PROVE  k + 1 \in T
  <2>1. w[k] \subseteq w[k + 1]
    <3>1. k + 1 \in 1..m /\ (k + 1) - 1 = k
      BY <1>3
    <3> QED BY <1>1, <3>1
  <2>2. \A i \in 0..k+1 : i \in 0..k \/ i = k + 1
    OBVIOUS
  <2> QED BY <1>3, <2>1, <2>2
<1>4. 0..m \subseteq T
  <2> HIDE DEF T
  <2> QED BY <1>2, <1>3, UpTo
<1>5. m \in T
  BY <1>4
<1> QED BY <1>5 DEF Reachable, w

(* What elimination leaves in each block.                                  *)
LEMMA EliminatedBlocks ==
    ASSUME NEW p, Good(p), NEW f \in DOMAIN p.functions
    PROVE  LET before == p.functions[f].blocks
               q      == EliminateDeadCode(p)
               after  == q.functions[f].blocks
           IN  /\ q.instrs = p.instrs
               /\ DOMAIN after = DOMAIN before /\ Len(after) = Len(before)
               /\ \A b \in DOMAIN before :
                     after[b] = IF b \in Reachable(p, before)
                                THEN {r \in before[b] : Keeps(p, UsedIn(p, ClearUnreachable(p)), r)}
                                ELSE {}
<1> DEFINE old == p.functions
           before == old[f].blocks
           cleared == ClearUnreachable(p)
           used == UsedIn(p, cleared)
           live(g) == [b \in DOMAIN old[g].blocks |->
                         IF b \in Reachable(p, old[g].blocks) THEN old[g].blocks[b] ELSE {}]
           kept(g) == [b \in DOMAIN cleared[g].blocks |->
                         {r \in cleared[g].blocks[b] : Keeps(p, used, r)}]
           new == [g \in DOMAIN cleared |-> [cleared[g] EXCEPT !.blocks = kept(g)]]
           q == EliminateDeadCode(p)
<1>1. Record(p) /\ old[f] \in Function
  BY GoodRecord, BlocksType DEF Record
<1>2. DOMAIN cleared = DOMAIN old /\ cleared[f] = [old[f] EXCEPT !.blocks = live(f)]
  BY DEF ClearUnreachable
<1>3. cleared[f].blocks = live(f) /\ DOMAIN cleared[f] = {"params", "blocks"}
  <2> HIDE DEF live, cleared
  <2> QED BY <1>1, <1>2 DEF Function
<1>4. q = [p EXCEPT !.functions = new]
  BY DEF EliminateDeadCode
<1> HIDE DEF cleared
<1>5. q.instrs = p.instrs /\ q.functions = new
  <2> HIDE DEF new, q
  <2> QED BY <1>1, <1>4 DEF Record
<1>6. new[f] = [cleared[f] EXCEPT !.blocks = kept(f)]
  BY <1>2
<1>7. new[f].blocks = kept(f)
  <2> HIDE DEF kept, new
  <2> QED BY <1>3, <1>6
<1>8. \A b \in DOMAIN before :
         /\ b \in DOMAIN live(f)
         /\ live(f)[b] = IF b \in Reachable(p, before) THEN before[b] ELSE {}
  OBVIOUS
<1>9. DOMAIN live(f) = DOMAIN before
  OBVIOUS
<1> HIDE DEF live
<1>10. /\ DOMAIN kept(f) = DOMAIN before
       /\ \A b \in DOMAIN before : kept(f)[b] = {r \in live(f)[b] : Keeps(p, used, r)}
  <2> HIDE DEF used
  <2> QED BY <1>3, <1>9
<1>11. Len(kept(f)) = Len(before)
  <2>1. DOMAIN before = 1..Len(before) /\ Len(before) \in Nat
    BY BlockRefs
  <2>2. DOMAIN kept(f) = 1..Len(before)
    BY <1>10, <2>1
  <2> DEFINE k == kept(f)
  <2>3. k = [b \in 1..Len(before) |-> {r \in live(f)[b] : Keeps(p, used, r)}]
    <3> HIDE DEF used
    <3> QED BY <1>3, <1>9, <2>1
  <2> DEFINE n == Len(before)
             value(b) == {r \in live(f)[b] : Keeps(p, used, r)}
  <2> HIDE DEF k, n, value
  <2>4. Len([b \in 1..n |-> value(b)]) = n
    BY <2>1 DEF n
  <2> QED BY <2>3, <2>4 DEF k, n, value
<1> HIDE DEF kept, new, q, used
<1>12. \A b \in DOMAIN before :
         kept(f)[b] = IF b \in Reachable(p, before)
                      THEN {r \in before[b] : Keeps(p, used, r)} ELSE {}
  BY <1>8, <1>10
<1> QED BY <1>5, <1>7, <1>10, <1>11, <1>12 DEF q, used, cleared

(* The terminator of a reachable block is still its last instruction.      *)
LEMMA SuccessorsKept ==
    ASSUME NEW p, Good(p), TerminatorsLast(p), NEW f \in DOMAIN p.functions,
           NEW b \in DOMAIN p.functions[f].blocks, b \in Reachable(p, p.functions[f].blocks)
    PROVE  Successors(EliminateDeadCode(p), EliminateDeadCode(p).functions[f].blocks, b)
             = Successors(p, p.functions[f].blocks, b)
<1> DEFINE before == p.functions[f].blocks
           q == EliminateDeadCode(p)
           after == q.functions[f].blocks
           used == UsedIn(p, ClearUnreachable(p))
           Jumps == {r \in before[b] : p.instrs[r].op \in {"Branch", "CondBranch"}}
<1>1. /\ q.instrs = p.instrs /\ DOMAIN after = DOMAIN before
      /\ after[b] = {r \in before[b] : Keeps(p, used, r)}
  BY EliminatedBlocks
<1>2. before[b] \subseteq 1..Len(p.instrs) /\ Len(p.instrs) \in Nat
  BY BlockRefs
<1>3. after[b] \subseteq before[b]
  BY <1>1
<1> HIDE DEF used, q, after
<1>4. CASE Jumps # {}
  <2>1. PICK r \in before[b] : p.instrs[r].op \in {"Branch", "CondBranch"}
    BY <1>4
  <2>2. p.instrs[r].op \in Terminators /\ p.instrs[r].op \in Effects
    BY <2>1 DEF Terminators, Effects
  <2>3. \A s \in before[b] : s <= r
    BY <2>2 DEF TerminatorsLast
  <2>4. r \in after[b]
    BY <1>1, <2>2 DEF Keeps
  <2> HIDE DEF before
  <2>5. LastOf(before[b]) = r
    BY <1>2, <2>3, LastOfIs
  <2>6. LastOf(after[b]) = r
    BY <1>2, <1>3, <2>3, <2>4, LastOfIs
  <2>7. Successors(q, after, b) = Successors(p, before, b)
    BY <1>1, <2>4, <2>5, <2>6 DEF Successors
  <2> QED BY <2>7 DEF q, after, before
<1>5. CASE Jumps = {}
  <2>1. \A r \in before[b] : p.instrs[r].op \notin {"Branch", "CondBranch"}
    BY <1>5
  <2> HIDE DEF before, Jumps
  <2>2. before[b] # {} => LastOf(before[b]) \in before[b]
    BY <1>2, LastExists
  <2>3. after[b] # {} => LastOf(after[b]) \in before[b]
    BY <1>2, <1>3, LastExists
  <2>4. Successors(q, after, b) = {} /\ Successors(p, before, b) = {}
    BY <1>1, <2>1, <2>2, <2>3 DEF Successors
  <2> QED BY <2>4 DEF q, after, before
<1> QED BY <1>4, <1>5

(* Round by round, the search reaches what it reached before.              *)
LEMMA ReachableKept ==
    ASSUME NEW p, Good(p), TerminatorsLast(p), NEW f \in DOMAIN p.functions
    PROVE  Reachable(EliminateDeadCode(p), EliminateDeadCode(p).functions[f].blocks)
             = Reachable(p, p.functions[f].blocks)
<1> DEFINE before == p.functions[f].blocks
           q == EliminateDeadCode(p)
           after == q.functions[f].blocks
           m == Len(before)
           v == Within(p, before)
           w == Within(q, after)
           T == {n \in 0..m : w[n] = v[n]}
<1>1. /\ m \in Nat /\ DOMAIN before = 1..m /\ 1 \in DOMAIN before
      /\ Len(after) = m /\ DOMAIN after = 1..m
  BY EliminatedBlocks, BlockRefs
<1>2. \A b \in DOMAIN before : b \in Reachable(p, before) =>
         Successors(q, after, b) = Successors(p, before, b)
  BY SuccessorsKept
<1> HIDE DEF before, q, after
<1>3. /\ v \in [0..m -> SUBSET (DOMAIN before \cup {1})]
      /\ v[0] = {1}
      /\ \A n \in 1..m : v[n] = v[n - 1] \cup UNION {Successors(p, before, b) : b \in v[n - 1]}
  BY <1>1, WithinFacts
<1>4. /\ w[0] = {1}
      /\ \A n \in 1..m : w[n] = w[n - 1] \cup UNION {Successors(q, after, b) : b \in w[n - 1]}
  <2>1. /\ w[0] = {1}
        /\ \A n \in 1..Len(after) :
              w[n] = w[n - 1] \cup UNION {Successors(q, after, b) : b \in w[n - 1]}
    BY <1>1, WithinFacts
  <2> HIDE DEF w, m
  <2> QED BY <1>1, <2>1
<1>5. \A n \in 0..m : v[n] \subseteq Reachable(p, before) \cap DOMAIN before
  BY <1>1, <1>3, WithinGrows
<1> HIDE DEF v, w, m
<1>6. 0 \in T
  <2>1. w[0] = v[0]
    BY <1>3, <1>4, Zenon
  <2>2. 0 \in 0..m
    BY <1>1
  <2> QED BY <2>1, <2>2
<1>7. ASSUME NEW n \in 0..m, n < m, n \in T
      PROVE  n + 1 \in T
  <2>1. n + 1 \in 1..m /\ (n + 1) - 1 = n /\ n + 1 \in 0..m
    BY <1>1, <1>7
  <2>2. /\ v[n + 1] = v[n] \cup UNION {Successors(p, before, b) : b \in v[n]}
        /\ w[n + 1] = w[n] \cup UNION {Successors(q, after, b) : b \in w[n]}
    BY <1>3, <1>4, <2>1
  <2>3. w[n] = v[n]
    BY <1>7
  <2>4. \A b \in v[n] : Successors(q, after, b) = Successors(p, before, b)
    BY <1>2, <1>5
  <2>5. {Successors(q, after, b) : b \in v[n]} = {Successors(p, before, b) : b \in v[n]}
    BY <2>4
  <2> QED BY <2>1, <2>2, <2>3, <2>5
<1>8. 0..m \subseteq T
  <2> HIDE DEF T
  <2> QED BY <1>1, <1>6, <1>7, UpTo
<1>9. w[m] = v[m]
  BY <1>1, <1>8
<1> QED BY <1>1, <1>9 DEF Reachable, v, w, m, before, q, after

(* eliminateDeadCode leaves the control flow as it was: whatever program   *)
(* the builder calls made, the same blocks are reachable afterwards, from  *)
(* the same terminators, and the others are empty.                         *)
THEOREM FlowKept == Spec => DceKeepsFlow
<1> DEFINE Flow(f) ==
              LET before == prog.functions[f].blocks
                  after  == prog'.functions[f].blocks
              IN  /\ Reachable(prog', after) = Reachable(prog, before)
                  /\ \A b \in DOMAIN before :
                        IF b \in Reachable(prog, before)
                        THEN Successors(prog', after, b) = Successors(prog, before, b)
                        ELSE after[b] = {}
<1>1. ASSUME Good(prog), TerminatorsLast(prog), DoEliminateDeadCode,
             NEW f \in DOMAIN prog.functions
      PROVE  Flow(f)
  <2>1. prog' = EliminateDeadCode(prog)
    BY <1>1 DEF DoEliminateDeadCode
  <2>2. Reachable(prog', prog'.functions[f].blocks) = Reachable(prog, prog.functions[f].blocks)
    BY <1>1, <2>1, ReachableKept
  <2>3. \A b \in DOMAIN prog.functions[f].blocks :
           b \in Reachable(prog, prog.functions[f].blocks) =>
              Successors(prog', prog'.functions[f].blocks, b)
                 = Successors(prog, prog.functions[f].blocks, b)
    BY <1>1, <2>1, SuccessorsKept
  <2>4. \A b \in DOMAIN prog.functions[f].blocks :
           b \notin Reachable(prog, prog.functions[f].blocks) =>
              prog'.functions[f].blocks[b] = {}
    BY <1>1, <2>1, EliminatedBlocks
  <2> QED BY <2>2, <2>3, <2>4
<1>2. Good(prog) /\ TerminatorsLast(prog) =>
         [DoEliminateDeadCode => \A f \in DOMAIN prog.functions : Flow(f)]_prog
  BY <1>1
<1> QED BY <1>2, InitGood, StepGood, InitLast, StepLast, PTL DEF Spec, DceKeepsFlow
=============================================================================
