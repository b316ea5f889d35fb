-------------------------- MODULE IRBuilder_proofs --------------------------
(***************************************************************************)
(* What holds of IRProgram for every word size, every folding arithmetic   *)
(* and every cache key function: the program stays well formed, every      *)
(* instruction is placed at most once, and the constant cache is sound.    *)
(* The three are proved together, as one inductive invariant of the        *)
(* program record, with one lemma per kind of builder call.  From it       *)
(* follow what addConstInt returns and what elimination may remove.        *)
(***************************************************************************)
EXTENDS IRBuilder, TLAPS, SequenceTheorems

Good(p) ==
    /\ IsProgram(p)
    /\ Disjoint(p.functions)
    /\ \A k \in DOMAIN p.cache : CacheLeadsTo(p, k)

Function == [params : Seq(Types), blocks : Seq(SUBSET Nat)]

(* From p to q no block gets a reference and no instruction another opcode. *)
Thins(p, q) ==
    /\ \A r \in 1..Len(p.instrs) : q.instrs[r].op = p.instrs[r].op
    /\ \A f \in DOMAIN q.functions : \A b \in DOMAIN q.functions[f].blocks :
          q.functions[f].blocks[b] # {} =>
             /\ f \in DOMAIN p.functions
             /\ b \in DOMAIN p.functions[f].blocks
             /\ q.functions[f].blocks[b] \subseteq p.functions[f].blocks[b]

(* What appending a reference to one block does to the functions.          *)
LEMMA PlaceInFacts ==
    ASSUME NEW fns \in Seq(Function), NEW f \in DOMAIN fns,
           NEW b \in DOMAIN fns[f].blocks, NEW ref \in Nat
    PROVE  LET new == PlaceIn(fns, f, b, ref)
           IN  /\ new \in Seq(Function)
               /\ DOMAIN new = DOMAIN fns
               /\ \A g \in DOMAIN fns : DOMAIN new[g].blocks = DOMAIN fns[g].blocks
               /\ \A g \in DOMAIN fns : \A c \in DOMAIN fns[g].blocks :
                     new[g].blocks[c] = fns[g].blocks[c] \cup
                                        (IF g = f /\ c = b THEN {ref} ELSE {})
<1> DEFINE blocks == fns[f].blocks
           grown == [blocks EXCEPT ![b] = blocks[b] \cup {ref}]
           newFn == [fns[f] EXCEPT !.blocks = grown]
           new == [fns EXCEPT ![f] = newFn]
<1>1. fns[f] \in Function /\ blocks \in Seq(SUBSET Nat) /\ blocks[b] \in SUBSET Nat
  <2>1. fns[f] \in Function
    OBVIOUS
  <2>2. blocks \in Seq(SUBSET Nat)
    BY <2>1 DEF Function
  <2> QED BY <2>1, <2>2
<1>2. /\ grown \in Seq(SUBSET Nat)
      /\ DOMAIN grown = DOMAIN blocks
      /\ \A c \in DOMAIN blocks :
            grown[c] = blocks[c] \cup (IF c = b THEN {ref} ELSE {})
  <2>1. grown \in Seq(SUBSET Nat) /\ Len(grown) = Len(blocks)
    BY <1>1, ExceptSeq
  <2>2. DOMAIN grown = DOMAIN blocks
    BY <1>1, <2>1
  <2>3. \A c \in DOMAIN blocks :
            grown[c] = blocks[c] \cup (IF c = b THEN {ref} ELSE {})
    OBVIOUS
  <2> QED BY <2>1, <2>2, <2>3
<1>3. newFn \in Function /\ newFn.blocks = grown
  <2> HIDE DEF grown
  <2> QED BY <1>1, <1>2 DEF Function
<1>4. PlaceIn(fns, f, b, ref) = new
  BY DEF PlaceIn
<1>5. /\ new \in Seq(Function)
      /\ DOMAIN new = DOMAIN fns
      /\ \A g \in DOMAIN fns : new[g] = IF g = f THEN newFn ELSE fns[g]
  <2> HIDE DEF newFn
  <2>1. new \in Seq(Function) /\ DOMAIN new = DOMAIN fns
    BY <1>3
  <2>2. \A g \in DOMAIN fns : new[g] = IF g = f THEN newFn ELSE fns[g]
    OBVIOUS
  <2> QED BY <2>1, <2>2
<1> HIDE DEF new, newFn, grown
<1>6. \A g \in DOMAIN fns : DOMAIN new[g].blocks = DOMAIN fns[g].blocks
  BY <1>2, <1>3, <1>5
<1>7. \A g \in DOMAIN fns : \A c \in DOMAIN fns[g].blocks :
         new[g].blocks[c] = fns[g].blocks[c] \cup
                            (IF g = f /\ c = b THEN {ref} ELSE {})
  <2> TAKE g \in DOMAIN fns
  <2> TAKE c \in DOMAIN fns[g].blocks
  <2>1. CASE g = f
    BY <1>2, <1>3, <1>5, <2>1
  <2>2. CASE g # f
    BY <1>5, <2>2
  <2> QED BY <2>1, <2>2
<1> QED BY <1>4, <1>5, <1>6, <1>7

(* Emission appends one instruction and puts its reference, which no block *)
(* holds yet, in the current block.                                        *)
LEMMA EmitGood ==
    ASSUME NEW p, Good(p), p.functions # <<>>, NEW instr \in Instr
    PROVE  /\ Good(Emit(p, instr))
           /\ Emit(p, instr).instrs = Append(p.instrs, instr)
           /\ Emit(p, instr).cache = p.cache
           /\ Emit(p, instr).ret = Len(p.instrs) + 1
           /\ Emit(p, instr).functions # <<>>
<1> DEFINE ref == Len(p.instrs) + 1
           q == Emit(p, instr)
           old == p.functions
           new == PlaceIn(old, p.fn, p.blk, ref)
<1>0. /\ p \in [instrs : Seq(Instr), functions : Seq(Function), fn : Nat,
                blk : Nat, cache : [DOMAIN p.cache -> 1..Len(p.instrs)], ret : Int]
      /\ \A f \in DOMAIN old :
            /\ old[f].blocks # <<>>
            /\ \A b \in DOMAIN old[f].blocks : old[f].blocks[b] \subseteq 1..Len(p.instrs)
      /\ Disjoint(old)
      /\ \A k \in DOMAIN p.cache : CacheLeadsTo(p, k)
      /\ p.fn \in DOMAIN old
      /\ p.blk \in DOMAIN old[p.fn].blocks
  BY DEF Good, IsProgram, Function
<1>2. /\ Append(p.instrs, instr) \in Seq(Instr)
      /\ Len(Append(p.instrs, instr)) = ref
      /\ ref \in Nat \ {0} /\ ref \notin 1..Len(p.instrs)
      /\ \A i \in 1..Len(p.instrs) : Append(p.instrs, instr)[i] = p.instrs[i]
  BY <1>0
<1>3. /\ new \in Seq(Function)
      /\ DOMAIN new = DOMAIN old
      /\ \A g \in DOMAIN old : DOMAIN new[g].blocks = DOMAIN old[g].blocks
      /\ \A g \in DOMAIN old : \A c \in DOMAIN old[g].blocks :
            new[g].blocks[c] = old[g].blocks[c] \cup
                               (IF g = p.fn /\ c = p.blk THEN {ref} ELSE {})
  BY <1>0, <1>2, PlaceInFacts
<1>1. /\ q \in [instrs : Seq(Instr), functions : Seq(Function), fn : Nat,
                blk : Nat, cache : [DOMAIN p.cache -> 1..ref], ret : Int]
      /\ q.instrs = Append(p.instrs, instr)
      /\ q.functions = new
      /\ q.fn = p.fn /\ q.blk = p.blk
      /\ q.cache = p.cache
      /\ q.ret = ref
  <2>1. p.cache \in [DOMAIN p.cache -> 1..ref]
    BY <1>0, <1>2
  <2> HIDE DEF new
  <2>2. q = [p EXCEPT !.instrs = Append(p.instrs, instr),
                      !.functions = new, !.ret = ref]
    BY DEF Emit, new
  <2>3. p \in [instrs : Seq(Instr), functions : Seq(Function), fn : Nat,
               blk : Nat, cache : [DOMAIN p.cache -> 1..ref], ret : Int]
    BY <1>0, <2>1
  <2>4. Append(p.instrs, instr) \in Seq(Instr) /\ new \in Seq(Function) /\ ref \in Int
    BY <1>2, <1>3
  <2> HIDE DEF q, ref
  <2> QED BY <2>2, <2>3, <2>4
<1> HIDE DEF new, q
<1>4. \A f \in DOMAIN new :
        /\ new[f].blocks # <<>>
        /\ \A b \in DOMAIN new[f].blocks : new[f].blocks[b] \subseteq 1..ref
  <2> TAKE f \in DOMAIN new
  <2>1. /\ old[f].blocks # <<>> /\ old[f] \in Function /\ new[f] \in Function
    BY <1>0, <1>3
  <2>2. new[f].blocks # <<>>
    BY <1>3, <2>1 DEF Function
  <2>3. \A b \in DOMAIN new[f].blocks : new[f].blocks[b] \subseteq 1..ref
    BY <1>0, <1>2, <1>3
  <2> QED BY <2>2, <2>3
<1>5. IsProgram(q)
  <2>1. new # <<>> /\ p.fn \in DOMAIN new /\ p.blk \in DOMAIN new[p.fn].blocks
    BY <1>0, <1>3
  <2> QED BY <1>1, <1>2, <1>4, <2>1 DEF IsProgram, Function
<1>6. Disjoint(new)
  <2> SUFFICES ASSUME NEW f \in DOMAIN old, NEW g \in DOMAIN old,
                      NEW b \in DOMAIN old[f].blocks,
                      NEW c \in DOMAIN old[g].blocks,
                      NEW r \in new[f].blocks[b] \cap new[g].blocks[c]
               PROVE  f = g /\ b = c
    BY <1>3 DEF Disjoint
  <2>1. CASE r = ref
    BY <1>0, <1>2, <1>3, <2>1
  <2>2. CASE r # ref
    <3>1. r \in old[f].blocks[b] \cap old[g].blocks[c]
      BY <1>3, <2>2
    <3> QED BY <1>0, <3>1 DEF Disjoint
  <2> QED BY <2>1, <2>2
<1>7. \A k \in DOMAIN q.cache : CacheLeadsTo(q, k)
  BY <1>0, <1>1, <1>2 DEF CacheLeadsTo
<1>8. q.functions # <<>>
  BY <1>0, <1>1, <1>3
<1> QED BY <1>1, <1>5, <1>6, <1>7, <1>8 DEF Good, q

LEMMA MkInstrType ==
    ASSUME NEW op \in Opcodes, NEW t \in Types, NEW args \in Seq(Int), NEW imm \in Words
    PROVE  MkInstr(op, t, args, imm) \in Instr
BY DEF MkInstr, Instr, Callees

(* A builder call that finds nothing to emit changes the result only.      *)
LEMMA ReturnGood ==
    ASSUME NEW p, Good(p), NEW r \in Int
    PROVE  Good([p EXCEPT !.ret = r])
<1> DEFINE q == [p EXCEPT !.ret = r]
<1>1. p \in [instrs : Seq(Instr), functions : Seq(Function), fn : Nat,
             blk : Nat, cache : [DOMAIN p.cache -> 1..Len(p.instrs)], ret : Int]
  BY DEF Good, IsProgram, Function
<1>2. /\ q \in [instrs : Seq(Instr), functions : Seq(Function), fn : Nat,
                blk : Nat, cache : [DOMAIN p.cache -> 1..Len(p.instrs)], ret : Int]
      /\ q.instrs = p.instrs /\ q.functions = p.functions
      /\ q.fn = p.fn /\ q.blk = p.blk /\ q.cache = p.cache
  BY <1>1
<1> HIDE DEF q
<1>3. Good(q)
  BY <1>2 DEF Good, IsProgram, CacheLeadsTo, Function
<1> QED BY <1>3 DEF q

LEMMA AddConstIntGood ==
    ASSUME NEW p, Good(p), p.functions # <<>>, NEW v \in Words, NEW t \in Types
    PROVE  Good(AddConstInt(p, v, t))
<1> DEFINE key == CacheKey(v, t)
           ref == Len(p.instrs) + 1
           instr == MkInstr("ConstInt", t, <<>>, v)
           e == Emit(p, instr)
           cache == [k \in DOMAIN p.cache \cup {key} |->
                        IF k = key THEN ref ELSE p.cache[k]]
           q == [e EXCEPT !.cache = cache]
<1>1. CASE key \in DOMAIN p.cache
  <2>1. p.cache[key] \in Int
    BY <1>1 DEF Good, IsProgram
  <2> QED BY <1>1, <2>1, ReturnGood DEF AddConstInt
<1>2. CASE key \notin DOMAIN p.cache
  <2>1. instr \in Instr /\ instr.op = "ConstInt" /\ instr.imm = v /\ instr.type = t
    <3>1. "ConstInt" \in Opcodes /\ <<>> \in Seq(Int)
      BY DEF Opcodes, Constants
    <3> QED BY <3>1, MkInstrType DEF MkInstr
  <2>2. /\ Good(e) /\ e.cache = p.cache /\ e.instrs = Append(p.instrs, instr)
    BY <2>1, EmitGood
  <2>3. /\ e \in [instrs : Seq(Instr), functions : Seq(Function), fn : Nat,
                  blk : Nat, cache : [DOMAIN p.cache -> 1..Len(e.instrs)], ret : Int]
        /\ p.instrs \in Seq(Instr)
        /\ p.cache \in [DOMAIN p.cache -> 1..Len(p.instrs)]
    BY <2>2 DEF Good, IsProgram, Function
  <2>4. Len(e.instrs) = ref /\ e.instrs[ref] = instr
    BY <2>1, <2>2, <2>3
  <2>5. cache \in [DOMAIN p.cache \cup {key} -> 1..ref] /\ DOMAIN cache = DOMAIN p.cache \cup {key}
    BY <2>3
  <2> HIDE DEF cache, e
  <2>6. /\ q \in [instrs : Seq(Instr), functions : Seq(Function), fn : Nat,
                  blk : Nat, cache : [DOMAIN cache -> 1..Len(e.instrs)], ret : Int]
        /\ q.instrs = e.instrs /\ q.functions = e.functions
        /\ q.fn = e.fn /\ q.blk = e.blk /\ q.cache = cache
    <3>1. cache \in [DOMAIN cache -> 1..Len(e.instrs)]
      BY <2>4, <2>5
    <3> HIDE DEF instr, ref, key
    <3> QED BY <2>3, <3>1
  <2> HIDE DEF q
  <2>7. \A k \in DOMAIN q.cache : CacheLeadsTo(q, k)
    <3> TAKE k \in DOMAIN q.cache
    <3>1. CASE k = key
      <4>1. q.cache[k] = ref
        BY <2>5, <2>6, <3>1 DEF cache
      <4> QED BY <2>1, <2>4, <2>6, <3>1, <4>1 DEF CacheLeadsTo
    <3>2. CASE k # key
      <4>1. k \in DOMAIN p.cache /\ q.cache[k] = p.cache[k]
        BY <2>5, <2>6, <3>2 DEF cache
      <4> QED BY <2>2, <2>6, <4>1 DEF CacheLeadsTo, Good
    <3> QED BY <3>1, <3>2
  <2>8. Good(q)
    BY <2>2, <2>6, <2>7 DEF Good, IsProgram, Function
  <2> QED BY <1>2, <2>8 DEF AddConstInt, CacheNew, q, e, cache
<1> QED BY <1>1, <1>2

LEMMA AddConstBoolGood ==
    ASSUME NEW p, Good(p), p.functions # <<>>, NEW b \in BOOLEAN
    PROVE  Good(AddConstBool(p, b))
<1>1. MkInstr("ConstBool", "Bool", <<>>, IF b THEN 1 ELSE 0) \in Instr
  <2>1. /\ "ConstBool" \in Opcodes /\ "Bool" \in Types /\ <<>> \in Seq(Int)
        /\ (IF b THEN 1 ELSE 0) \in Words
    BY WordsAssumption DEF Opcodes, Constants, Types
  <2> QED BY <2>1, MkInstrType
<1> QED BY <1>1, EmitGood DEF AddConstBool

(* A folded constant is a word, so it is a constant the cache may hold.    *)
LEMMA AddBinaryGood ==
    ASSUME NEW p, Good(p), p.functions # <<>>, NEW op \in BinOps, NEW t \in Types,
           NEW a \in Int, NEW b \in Int,
           a > 0 => a \in 1..Len(p.instrs),
           b > 0 => b \in 1..Len(p.instrs),
           a # 0, b # 0
    PROVE  Good(AddBinary(p, op, t, a, b))
<1>1. CASE CanFold(p, op, a, b)
  <2>1. p.instrs \in Seq(Instr)
    BY DEF Good, IsProgram
  <2>2. /\ a \in 1..Len(p.instrs) /\ b \in 1..Len(p.instrs)
        /\ op \in FoldableOps /\ (op = "Div" => ConstIntValue(p, b) # 0)
    BY <1>1 DEF CanFold, IsConstant, IsParam
  <2>3. p.instrs[a] \in Instr /\ p.instrs[b] \in Instr
    BY <2>1, <2>2
  <2>4. ConstIntValue(p, a) \in Words /\ ConstIntValue(p, b) \in Words
    BY <2>3 DEF ConstIntValue, Instr
  <2>5. FoldInt(op, ConstIntValue(p, a), ConstIntValue(p, b)) \in Words
    BY <2>2, <2>4, BuilderAssumption
  <2>6. FoldType(op, t) \in Types
    BY DEF FoldType, Types
  <2> QED BY <1>1, <2>5, <2>6, AddConstIntGood, AddConstBoolGood DEF AddBinary, TryConstFold
<1>2. CASE ~CanFold(p, op, a, b)
  <2>1. op \in Opcodes /\ 0 \in Words /\ <<a, b>> \in Seq(Int)
    BY BuilderAssumption, WordsAssumption DEF Opcodes
  <2>2. MkInstr(op, t, <<a, b>>, 0) \in Instr
    BY <2>1, MkInstrType
  <2> QED BY <1>2, <2>2, EmitGood DEF AddBinary
<1> QED BY <1>1, <1>2

(* Instructions that name blocks or a runtime function.                    *)
LEMMA TargetsType ==
    ASSUME NEW i \in Instr, NEW ts \in Seq(Nat)
    PROVE  [i EXCEPT !.targets = ts] \in Instr
BY DEF Instr

LEMMA CalleeType ==
    ASSUME NEW i \in Instr, NEW c \in Callees
    PROVE  [i EXCEPT !.callee = c] \in Instr
BY DEF Instr

LEMMA ExceptAnywhere ==
    ASSUME NEW S, NEW s \in Seq(S), NEW e \in Nat, NEW v \in S
    PROVE  [s EXCEPT ![e] = v] \in Seq(S)
<1>1. CASE e \in 1..Len(s)
  BY <1>1, ExceptSeq
<1>2. CASE e \notin 1..Len(s)
  <2>1. s \in [1..Len(s) -> S] /\ Len(s) \in Nat
    OBVIOUS
  <2>2. [s EXCEPT ![e] = v] \in [1..Len(s) -> S]
    BY <1>2, <2>1
  <2> QED BY <2>1, <2>2
<1> QED BY <1>1, <1>2

(* Patching a phi leaves every constant, and so the cache, alone.          *)
LEMMA PatchPhiEntryGood ==
    ASSUME NEW p, Good(p), NEW phi \in 1..Len(p.instrs), NEW e \in Nat,
           p.instrs[phi].op = "Phi", NEW v \in Int, NEW from \in Nat
    PROVE  /\ Good(PatchPhiEntry(p, phi, e, v, from))
           /\ Thins(p, PatchPhiEntry(p, phi, e, v, from))
<1> DEFINE i == p.instrs[phi]
           args == [i.args EXCEPT ![e] = v]
           targets == [i.targets EXCEPT ![e] = from]
           patched == Patched(i, e, v, from)
           instrs == [p.instrs EXCEPT ![phi] = patched]
           q == [p EXCEPT !.instrs = instrs]
<1>1. p \in [instrs : Seq(Instr), functions : Seq(Function), fn : Nat,
             blk : Nat, cache : [DOMAIN p.cache -> 1..Len(p.instrs)], ret : Int]
  BY DEF Good, IsProgram, Function
<1>2. i \in Instr
  BY <1>1
<1>3. args \in Seq(Int) /\ targets \in Seq(Nat)
  <2>1. i.args \in Seq(Int) /\ i.targets \in Seq(Nat)
    BY <1>2 DEF Instr
  <2>2. args \in Seq(Int)
    BY <2>1, ExceptAnywhere
  <2>3. targets \in Seq(Nat)
    BY <2>1, ExceptAnywhere
  <2> QED BY <2>2, <2>3
<1> HIDE DEF args, targets
<1>4. patched \in Instr /\ patched.op = "Phi"
  <2>1. patched = [i EXCEPT !.args = args, !.targets = targets]
    BY DEF Patched, args, targets
  <2>2. i \in [op : Opcodes, type : Types, args : Seq(Int), imm : Words,
               targets : Seq(Nat), callee : Callees] /\ i.op = "Phi"
    BY <1>2 DEF Instr
  <2> HIDE DEF patched, i
  <2>3. /\ patched \in [op : Opcodes, type : Types, args : Seq(Int), imm : Words,
                         targets : Seq(Nat), callee : Callees]
        /\ patched.op = "Phi"
    BY <1>3, <2>1, <2>2
  <2> QED BY <2>3 DEF Instr
<1> HIDE DEF patched
<1>5. /\ instrs \in Seq(Instr) /\ Len(instrs) = Len(p.instrs)
      /\ \A r \in 1..Len(p.instrs) : r # phi => instrs[r] = p.instrs[r]
      /\ instrs[phi] = patched
  <2>1. p.instrs \in Seq(Instr)
    BY <1>1
  <2>2. instrs \in Seq(Instr) /\ Len(instrs) = Len(p.instrs)
    BY <1>4, <2>1, ExceptSeq
  <2>3. DOMAIN p.instrs = 1..Len(p.instrs)
    BY <2>1
  <2>4. \A r \in 1..Len(p.instrs) : r # phi => instrs[r] = p.instrs[r]
    BY <2>3
  <2>5. instrs[phi] = patched
    BY <2>3
  <2> QED BY <2>2, <2>4, <2>5
<1>6. PatchPhiEntry(p, phi, e, v, from) = q
  BY DEF PatchPhiEntry, patched
<1> HIDE DEF instrs
<1>7. /\ q \in [instrs : Seq(Instr), functions : Seq(Function), fn : Nat,
                blk : Nat, cache : [DOMAIN p.cache -> 1..Len(p.instrs)], ret : Int]
      /\ q.instrs = instrs /\ q.functions = p.functions
      /\ q.fn = p.fn /\ q.blk = p.blk /\ q.cache = p.cache
  <2>1. instrs \in Seq(Instr)
    BY <1>5
  <2> QED BY <1>1, <2>1
<1> HIDE DEF q
<1>8. \A k \in DOMAIN q.cache : CacheLeadsTo(q, k)
  <2> TAKE k \in DOMAIN q.cache
  <2>1. CacheLeadsTo(p, k) /\ p.cache[k] \in 1..Len(p.instrs)
    BY <1>1, <1>7 DEF Good
  <2>2. p.cache[k] # phi
    BY <2>1 DEF CacheLeadsTo
  <2> QED BY <1>5, <1>7, <2>1, <2>2 DEF CacheLeadsTo
<1>9. Good(q)
  BY <1>5, <1>7, <1>8 DEF Good, IsProgram, Function
<1>10. Thins(p, q)
  BY <1>4, <1>5, <1>7 DEF Thins
<1> QED BY <1>6, <1>9, <1>10

(* The functions of a program may be replaced by any that hold the same    *)
(* references or fewer, in at least the same blocks, plus empty ones.      *)
LEMMA NewFunctionsGood ==
    ASSUME NEW p, Good(p), NEW new \in Seq(Function), NEW f \in Nat, NEW b \in Nat,
           NEW ret \in Int,
           \A g \in DOMAIN new : new[g].blocks # <<>>,
           \A g \in DOMAIN new : \A c \in DOMAIN new[g].blocks :
              new[g].blocks[c] # {} =>
                 /\ g \in DOMAIN p.functions
                 /\ c \in DOMAIN p.functions[g].blocks
                 /\ new[g].blocks[c] \subseteq p.functions[g].blocks[c],
           new # <<>> => f \in DOMAIN new /\ b \in DOMAIN new[f].blocks
    PROVE  LET q == [p EXCEPT !.functions = new, !.fn = f, !.blk = b, !.ret = ret]
           IN  Good(q) /\ Thins(p, q)
<1> DEFINE q == [p EXCEPT !.functions = new, !.fn = f, !.blk = b, !.ret = ret]
<1>1. p \in [instrs : Seq(Instr), functions : Seq(Function), fn : Nat,
             blk : Nat, cache : [DOMAIN p.cache -> 1..Len(p.instrs)], ret : Int]
  BY DEF Good, IsProgram, Function
<1>2. /\ q \in [instrs : Seq(Instr), functions : Seq(Function), fn : Nat,
                blk : Nat, cache : [DOMAIN p.cache -> 1..Len(p.instrs)], ret : Int]
      /\ q.instrs = p.instrs /\ q.functions = new
      /\ q.fn = f /\ q.blk = b /\ q.cache = p.cache
  BY <1>1
<1> HIDE DEF q
<1>3. \A g \in DOMAIN new : \A c \in DOMAIN new[g].blocks :
         new[g].blocks[c] \subseteq 1..Len(p.instrs)
  BY DEF Good, IsProgram
<1>4. Disjoint(new)
  <2> SUFFICES ASSUME NEW g \in DOMAIN new, NEW h \in DOMAIN new,
                      NEW c \in DOMAIN new[g].blocks,
                      NEW d \in DOMAIN new[h].blocks,
                      new[g].blocks[c] \cap new[h].blocks[d] # {}
               PROVE  g = h /\ c = d
    BY DEF Disjoint
  <2>1. new[g].blocks[c] # {} /\ new[h].blocks[d] # {}
    OBVIOUS
  <2>2. /\ g \in DOMAIN p.functions /\ h \in DOMAIN p.functions
        /\ c \in DOMAIN p.functions[g].blocks
        /\ d \in DOMAIN p.functions[h].blocks
        /\ p.functions[g].blocks[c] \cap p.functions[h].blocks[d] # {}
    BY <2>1
  <2> QED BY <2>2 DEF Good, Disjoint
<1>5. \A k \in DOMAIN q.cache : CacheLeadsTo(q, k)
  BY <1>2 DEF Good, CacheLeadsTo
<1>6. IsProgram(q)
  BY <1>2, <1>3 DEF IsProgram, Function
<1>7. Thins(p, q)
  BY <1>2 DEF Thins
<1>8. Good(q)
  BY <1>2, <1>4, <1>5, <1>6 DEF Good
<1> QED BY <1>7, <1>8 DEF q

LEMMA BeginFunctionGood ==
    ASSUME NEW p, Good(p), NEW params \in Seq(Types)
    PROVE  Good(BeginFunction(p, params)) /\ Thins(p, BeginFunction(p, params))
<1> DEFINE fn == [params |-> params, blocks |-> <<{}>>]
           new == Append(p.functions, fn)
           f == Len(p.functions) + 1
<1>1. p.functions \in Seq(Function)
  BY DEF Good, IsProgram, Function
<1>2. fn \in Function /\ fn.blocks = <<{}>> /\ fn.blocks # <<>>
  <2>1. <<{}>> # <<>>
    BY SMTT(10), <<{}>>[1] = {}, Len(<<{}>>) = 1, Len(<<>>) = 0
  <2> QED BY <2>1 DEF Function
<1> HIDE DEF fn
<1>3. /\ new \in Seq(Function) /\ DOMAIN new = 1..f /\ new[f] = fn /\ f \in Nat
      /\ \A g \in DOMAIN new : g # f => g \in DOMAIN p.functions /\ new[g] = p.functions[g]
  BY <1>1, <1>2
<1> HIDE DEF new
<1>4. \A g \in DOMAIN new : new[g].blocks # <<>>
  <2> TAKE g \in DOMAIN new
  <2>1. CASE g = f
    BY <1>2, <1>3, <2>1
  <2>2. CASE g # f
    BY <1>3, <2>2 DEF Good, IsProgram
  <2> QED BY <2>1, <2>2
<1>5. \A g \in DOMAIN new : \A c \in DOMAIN new[g].blocks :
         new[g].blocks[c] # {} =>
            /\ g \in DOMAIN p.functions
            /\ c \in DOMAIN p.functions[g].blocks
            /\ new[g].blocks[c] \subseteq p.functions[g].blocks[c]
  BY <1>2, <1>3
<1>6. f \in DOMAIN new /\ 1 \in DOMAIN new[f].blocks
  BY <1>2, <1>3
<1> DEFINE q == [p EXCEPT !.functions = new, !.fn = f, !.blk = 1, !.ret = f]
<1>7. Good(q) /\ Thins(p, q)
  <2>1. f \in Int
    BY <1>3
  <2> HIDE DEF f
  <2>2. 1 \in Nat
    OBVIOUS
  <2> QED BY <1>3, <1>4, <1>5, <1>6, <2>1, <2>2, NewFunctionsGood, Zenon
<1> QED BY <1>7 DEF BeginFunction, new, fn

LEMMA AddBlockGood ==
    ASSUME NEW p, Good(p), p.functions # <<>>
    PROVE  Good(AddBlock(p)) /\ Thins(p, AddBlock(p))
<1> DEFINE old == p.functions
           blocks == Append(old[p.fn].blocks, {})
           fn == [old[p.fn] EXCEPT !.blocks = blocks]
           new == [old EXCEPT ![p.fn] = fn]
           ret == Len(old[p.fn].blocks) + 1
<1>1. /\ old \in Seq(Function) /\ p.fn \in DOMAIN old /\ p.fn \in Nat /\ p.blk \in Nat
      /\ p.blk \in DOMAIN old[p.fn].blocks
  BY DEF Good, IsProgram, Function
<1>2. old[p.fn] \in Function /\ old[p.fn].blocks \in Seq(SUBSET Nat)
  <2>1. old[p.fn] \in Function
    BY <1>1
  <2> QED BY <2>1 DEF Function
<1>3. /\ blocks \in Seq(SUBSET Nat)
      /\ DOMAIN blocks = 1..ret /\ blocks[ret] = {} /\ ret \in Nat \ {0}
      /\ \A c \in DOMAIN blocks :
            c # ret => c \in DOMAIN old[p.fn].blocks /\ blocks[c] = old[p.fn].blocks[c]
      /\ p.blk \in DOMAIN blocks
  <2> DEFINE b == old[p.fn].blocks
  <2>1. b \in Seq(SUBSET Nat) /\ p.blk \in DOMAIN b /\ {} \in SUBSET Nat
    BY <1>1, <1>2
  <2> HIDE DEF b
  <2>2. blocks = Append(b, {}) /\ ret = Len(b) + 1
    BY DEF blocks, b
  <2>3. /\ Append(b, {}) \in Seq(SUBSET Nat)
        /\ Len(Append(b, {})) = Len(b) + 1
        /\ \A c \in 1..Len(b) : Append(b, {})[c] = b[c]
        /\ Append(b, {})[Len(b) + 1] = {}
        /\ Len(b) \in Nat /\ DOMAIN b = 1..Len(b)
    BY <2>1
  <2>4. DOMAIN blocks = 1..ret
    BY <2>2, <2>3
  <2> HIDE DEF ret
  <2>5. \A c \in DOMAIN blocks : c # ret => c \in DOMAIN b /\ blocks[c] = b[c]
    BY <2>2, <2>3, <2>4
  <2>6. /\ blocks \in Seq(SUBSET Nat) /\ blocks[ret] = {} /\ ret \in Nat \ {0}
        /\ p.blk \in DOMAIN blocks
    <3> HIDE DEF blocks
    <3>1. blocks \in Seq(SUBSET Nat)
      BY <2>2, <2>3
    <3>2. blocks[ret] = {}
      BY <2>2, <2>3
    <3>3. ret \in Nat \ {0}
      BY <2>2, <2>3
    <3>4. p.blk \in DOMAIN blocks
      BY <2>1, <2>2, <2>3, <2>4
    <3> QED BY <3>1, <3>2, <3>3, <3>4
  <2> HIDE DEF blocks
  <2> QED BY <2>4, <2>5, <2>6 DEF b
<1> HIDE DEF blocks
<1>4. fn \in Function /\ fn.blocks = blocks
  BY <1>2, <1>3 DEF Function
<1> HIDE DEF fn
<1>5. /\ new \in Seq(Function) /\ DOMAIN new = DOMAIN old
      /\ \A g \in DOMAIN new : new[g] = IF g = p.fn THEN fn ELSE old[g]
  <2>1. new \in Seq(Function) /\ DOMAIN new = DOMAIN old
    BY <1>1, <1>4
  <2>2. \A g \in DOMAIN new : new[g] = IF g = p.fn THEN fn ELSE old[g]
    OBVIOUS
  <2> QED BY <2>1, <2>2
<1> HIDE DEF new
<1>6. \A g \in DOMAIN new : new[g].blocks # <<>>
  <2> TAKE g \in DOMAIN new
  <2>1. CASE g = p.fn
    <3>1. blocks # <<>>
      BY <1>3
    <3> QED BY <1>4, <1>5, <2>1, <3>1
  <2>2. CASE g # p.fn
    BY <1>5, <2>2 DEF Good, IsProgram
  <2> QED BY <2>1, <2>2
<1>7. \A g \in DOMAIN new : \A c \in DOMAIN new[g].blocks :
         new[g].blocks[c] # {} =>
            /\ g \in DOMAIN old
            /\ c \in DOMAIN old[g].blocks
            /\ new[g].blocks[c] \subseteq old[g].blocks[c]
  BY <1>3, <1>4, <1>5
<1>8. p.fn \in DOMAIN new /\ p.blk \in DOMAIN new[p.fn].blocks
  BY <1>1, <1>3, <1>4, <1>5
<1> DEFINE q == [p EXCEPT !.functions = new, !.fn = p.fn, !.blk = p.blk, !.ret = ret]
<1>9. Good(q) /\ Thins(p, q)
  <2>1. ret \in Int
    BY <1>3
  <2> HIDE DEF ret
  <2> QED BY <1>1, <1>5, <1>6, <1>7, <1>8, <2>1, NewFunctionsGood, Zenon
<1>10. AddBlock(p) = [p EXCEPT !.functions = new, !.ret = ret]
  BY DEF AddBlock, Blocks, new, fn, blocks
<1>11. [p EXCEPT !.functions = new, !.ret = ret] =
       [p EXCEPT !.functions = new, !.fn = p.fn, !.blk = p.blk, !.ret = ret]
  <2>1. p \in [instrs : Seq(Instr), functions : Seq(Function), fn : Nat,
               blk : Nat, cache : [DOMAIN p.cache -> 1..Len(p.instrs)], ret : Int]
    BY DEF Good, IsProgram, Function
  <2> HIDE DEF ret
  <2> QED BY <2>1
<1> QED BY <1>9, <1>10, <1>11

LEMMA SetInsertionPointGood ==
    ASSUME NEW p, Good(p), NEW f \in DOMAIN p.functions,
           NEW b \in DOMAIN p.functions[f].blocks
    PROVE  Good(SetInsertionPoint(p, f, b)) /\ Thins(p, SetInsertionPoint(p, f, b))
<1> DEFINE q == [p EXCEPT !.fn = f, !.blk = b]
<1>1. p \in [instrs : Seq(Instr), functions : Seq(Function), fn : Nat,
             blk : Nat, cache : [DOMAIN p.cache -> 1..Len(p.instrs)], ret : Int]
  BY DEF Good, IsProgram, Function
<1>2. f \in Nat /\ p.functions[f] \in Function
  BY <1>1
<1>3. b \in Nat
  BY <1>2 DEF Function
<1>4. /\ q \in [instrs : Seq(Instr), functions : Seq(Function), fn : Nat,
                blk : Nat, cache : [DOMAIN p.cache -> 1..Len(p.instrs)], ret : Int]
      /\ q.instrs = p.instrs /\ q.functions = p.functions
      /\ q.fn = f /\ q.blk = b /\ q.cache = p.cache
  BY <1>1, <1>2, <1>3
<1> HIDE DEF q
<1>5. Good(q)
  BY <1>4 DEF Good, IsProgram, CacheLeadsTo, Function
<1>6. Thins(p, q)
  BY <1>4 DEF Thins
<1> QED BY <1>5, <1>6 DEF SetInsertionPoint, q

LEMMA SeqIntro ==
    ASSUME NEW S, NEW n \in Nat, NEW w \in [1..n -> S]
    PROVE  w \in Seq(S)
OBVIOUS

LEMMA BlocksType ==
    ASSUME NEW fns \in Seq(Function), NEW f \in DOMAIN fns
    PROVE  fns[f] \in Function /\ fns[f].blocks \in Seq(SUBSET Nat)
<1>1. fns[f] \in Function
  OBVIOUS
<1> QED BY <1>1 DEF Function

(* A function whose blocks are thinned out.                                *)
LEMMA ThinnedFunction ==
    ASSUME NEW fn \in Function, NEW thin \in [DOMAIN fn.blocks -> SUBSET Nat]
    PROVE  /\ [fn EXCEPT !.blocks = thin] \in Function
           /\ [fn EXCEPT !.blocks = thin].blocks = thin
<1>1. fn.blocks \in Seq(SUBSET Nat)
  BY DEF Function
<1>2. DOMAIN fn.blocks = 1..Len(fn.blocks) /\ Len(fn.blocks) \in Nat
  BY <1>1
<1>3. thin \in Seq(SUBSET Nat)
  BY <1>2, SeqIntro
<1> QED BY <1>3 DEF Function

LEMMA EliminateDeadCodeGood ==
    ASSUME NEW p, Good(p)
    PROVE  Good(EliminateDeadCode(p)) /\ Thins(p, EliminateDeadCode(p))
<1> DEFINE old == p.functions
           cleared == ClearUnreachable(p)
           used == UsedIn(p, cleared)
           live == [f \in DOMAIN old |->
                      [b \in DOMAIN old[f].blocks |->
                          IF b \in Reachable(p, old[f].blocks)
                          THEN old[f].blocks[b] ELSE {}]]
           kept == [f \in DOMAIN cleared |->
                      [b \in DOMAIN cleared[f].blocks |->
                          {r \in cleared[f].blocks[b] : Keeps(p, used, r)}]]
           new == [f \in DOMAIN cleared |-> [cleared[f] EXCEPT !.blocks = kept[f]]]
<1>1. p \in [instrs : Seq(Instr), functions : Seq(Function), fn : Nat,
             blk : Nat, cache : [DOMAIN p.cache -> 1..Len(p.instrs)], ret : Int]
  BY DEF Good, IsProgram, Function
<1>2. /\ cleared \in Seq(Function) /\ DOMAIN cleared = DOMAIN old
      /\ \A f \in DOMAIN old : cleared[f].blocks = live[f]
  <2>1. cleared = [f \in DOMAIN old |-> [old[f] EXCEPT !.blocks = live[f]]]
    BY DEF ClearUnreachable
  <2>2. ASSUME NEW f \in DOMAIN old
        PROVE  cleared[f] \in Function /\ cleared[f].blocks = live[f]
    <3>1. old[f] \in Function /\ old[f].blocks \in Seq(SUBSET Nat)
      BY <1>1, BlocksType
    <3>2. live[f] \in [DOMAIN old[f].blocks -> SUBSET Nat]
      BY <3>1
    <3>3. cleared[f] = [old[f] EXCEPT !.blocks = live[f]]
      BY <2>1
    <3> HIDE DEF live, cleared
    <3> QED BY <3>1, <3>2, <3>3, ThinnedFunction
  <2>3. cleared \in [1..Len(old) -> Function] /\ Len(old) \in Nat
    <3> HIDE DEF live, cleared
    <3> QED BY <1>1, <2>1, <2>2
  <2> HIDE DEF live, cleared
  <2> QED BY <1>1, <2>2, <2>3, SeqIntro
<1>3. \A f \in DOMAIN old : /\ DOMAIN live[f] = DOMAIN old[f].blocks
                           /\ \A b \in DOMAIN live[f] : live[f][b] \subseteq old[f].blocks[b]
  OBVIOUS
<1> HIDE DEF cleared, live
<1>4. /\ new \in Seq(Function) /\ DOMAIN new = DOMAIN cleared
      /\ \A f \in DOMAIN cleared : new[f].blocks = kept[f]
  <2>1. ASSUME NEW f \in DOMAIN cleared
        PROVE  new[f] \in Function /\ new[f].blocks = kept[f]
    <3>1. cleared[f] \in Function /\ cleared[f].blocks \in Seq(SUBSET Nat)
      BY <1>2, BlocksType
    <3>2. kept[f] \in [DOMAIN cleared[f].blocks -> SUBSET Nat]
      BY <3>1
    <3>3. new[f] = [cleared[f] EXCEPT !.blocks = kept[f]]
      OBVIOUS
    <3> HIDE DEF kept, new
    <3> QED BY <3>1, <3>2, <3>3, ThinnedFunction
  <2>2. DOMAIN new = DOMAIN cleared
    OBVIOUS
  <2>3. new \in [1..Len(cleared) -> Function] /\ Len(cleared) \in Nat
    <3>1. new = [f \in DOMAIN cleared |-> new[f]]
      OBVIOUS
    <3> HIDE DEF kept, new
    <3>2. new \in [DOMAIN cleared -> Function]
      BY <2>1, <3>1
    <3> QED BY <1>2, <3>2
  <2> HIDE DEF kept, new
  <2> QED BY <1>2, <2>1, <2>2, <2>3, SeqIntro
<1>5. \A f \in DOMAIN cleared : /\ DOMAIN kept[f] = DOMAIN cleared[f].blocks
                              /\ \A b \in DOMAIN kept[f] : kept[f][b] \subseteq cleared[f].blocks[b]
  OBVIOUS
<1>6. EliminateDeadCode(p) = [p EXCEPT !.functions = new]
  BY DEF EliminateDeadCode, cleared
<1> HIDE DEF kept, new
<1>7. \A f \in DOMAIN new :
         /\ f \in DOMAIN old
         /\ DOMAIN new[f].blocks = DOMAIN old[f].blocks
         /\ \A b \in DOMAIN new[f].blocks : new[f].blocks[b] \subseteq old[f].blocks[b]
  <2> TAKE f \in DOMAIN new
  <2>1. f \in DOMAIN old /\ new[f].blocks = kept[f] /\ cleared[f].blocks = live[f]
    BY <1>2, <1>4
  <2> QED BY <1>2, <1>3, <1>4, <1>5, <2>1
<1>8. \A f \in DOMAIN new : new[f].blocks # <<>>
  <2> TAKE f \in DOMAIN new
  <2>1. /\ old[f].blocks # <<>> /\ old[f].blocks \in Seq(SUBSET Nat)
        /\ DOMAIN new[f].blocks = DOMAIN old[f].blocks
    BY <1>1, <1>7, BlocksType DEF Good, IsProgram
  <2>2. 1 \in DOMAIN old[f].blocks
    BY <2>1
  <2> QED BY <2>1, <2>2
<1>9. new # <<>> => p.fn \in DOMAIN new /\ p.blk \in DOMAIN new[p.fn].blocks
  <2> HAVE new # <<>>
  <2>1. DOMAIN new = DOMAIN old
    BY <1>2, <1>4
  <2>2. old # <<>>
    BY <1>1, <1>4, <2>1
  <2> QED BY <1>7, <2>1, <2>2 DEF Good, IsProgram
<1> DEFINE q == [p EXCEPT !.functions = new, !.fn = p.fn, !.blk = p.blk, !.ret = p.ret]
<1>10. Good(q) /\ Thins(p, q)
  <2>1. /\ p.fn \in Nat /\ p.blk \in Nat /\ p.ret \in Int
        /\ \A g \in DOMAIN new : \A c \in DOMAIN new[g].blocks :
              new[g].blocks[c] # {} =>
                 /\ g \in DOMAIN p.functions
                 /\ c \in DOMAIN p.functions[g].blocks
                 /\ new[g].blocks[c] \subseteq p.functions[g].blocks[c]
    BY <1>1, <1>7
  <2> QED BY <1>4, <1>8, <1>9, <2>1, NewFunctionsGood, Zenon
<1>11. [p EXCEPT !.functions = new] =
       [p EXCEPT !.functions = new, !.fn = p.fn, !.blk = p.blk, !.ret = p.ret]
  BY <1>1
<1> QED BY <1>6, <1>10, <1>11

(* What the client passes as an operand is a parameter or a reference.     *)
LEMMA OperandType ==
    ASSUME Good(prog), NEW a \in Operand
    PROVE  a \in Int /\ a # 0 /\ (a > 0 => a \in 1..Len(prog.instrs))
<1>1. HasFunction
  BY DEF Operand
<1>2. /\ prog.fn \in Nat /\ prog.fn \in DOMAIN prog.functions
      /\ prog.functions \in Seq(Function) /\ prog.instrs \in Seq(Instr)
  BY <1>1 DEF Good, IsProgram, Function, HasFunction
<1>3. prog.functions[prog.fn].params \in Seq(Types)
  <2>1. prog.functions[prog.fn] \in Function
    BY <1>2, BlocksType
  <2> QED BY <2>1 DEF Function
<1>4. CASE a \in Refs
  BY <1>2, <1>4 DEF Refs
<1>5. CASE a \in Params
  <2>1. PICK i \in DOMAIN prog.functions[prog.fn].params : a = ParamRef(prog.fn, i)
    BY <1>5 DEF Params
  <2>2. i \in Nat \ {0}
    BY <1>3
  <2> QED BY <1>2, <2>1, <2>2 DEF ParamRef
<1> QED BY <1>1, <1>4, <1>5 DEF Operand

LEMMA BlockIdType ==
    ASSUME Good(prog), NEW b \in BlockIds
    PROVE  b \in Nat
<1>1. HasFunction /\ b \in DOMAIN prog.functions[prog.fn].blocks
  BY DEF BlockIds, Blocks
<1>2. prog.functions \in Seq(Function) /\ prog.fn \in DOMAIN prog.functions
  BY <1>1 DEF Good, IsProgram, Function, HasFunction
<1>3. prog.functions[prog.fn].blocks \in Seq(SUBSET Nat)
  BY <1>2, BlocksType
<1> QED BY <1>1, <1>3

(* The builder methods that emit one fixed instruction.                    *)
LEMMA SimpleEmitsGood ==
    ASSUME NEW p, Good(p), p.functions # <<>>, NEW a \in Int, NEW b \in Int,
           NEW c \in Nat, NEW d \in Nat
    PROVE  /\ Good(AddUnary(p, "LNot", "Bool", a))
           /\ Good(AddRotateRight(p, a, 1))
           /\ Good(AddGEP(p, a, 0)) /\ Good(AddGEP(p, a, 8))
           /\ Good(AddLoad(p, "Int64", a))
           /\ Good(AddStore(p, a, b))
           /\ Good(AddReturn(p, a))
           /\ Good(AddBranch(p, c))
           /\ Good(AddCondBranch(p, a, c, d))
           /\ Good(AddPhi(p, "Int64", <<a, b>>, <<c, d>>))
           /\ Good(AddCall(p, "Int64", "load", <<a>>))
<1>1. /\ {0, 1, 8} \subseteq Words
      /\ {"Bool", "UInt64", "Int64", "Void", "Ptr"} \subseteq Types
      /\ {"LNot", "RotateRight", "GEP", "Load", "Store", "Return", "Branch",
          "CondBranch", "Phi", "Call"} \subseteq Opcodes
      /\ "load" \in Callees
  BY WordsAssumption DEF Types, Opcodes, UnaryOps, Effects, Terminators, Callees
<1>2. <<a>> \in Seq(Int) /\ <<a, b>> \in Seq(Int) /\ <<>> \in Seq(Int)
  OBVIOUS
<1>3. <<c>> \in Seq(Nat) /\ <<c, d>> \in Seq(Nat)
  OBVIOUS
<1>4. Good(AddUnary(p, "LNot", "Bool", a))
  <2>1. MkInstr("LNot", "Bool", <<a>>, 0) \in Instr
    BY <1>1, <1>2, MkInstrType
  <2> QED BY <2>1, EmitGood DEF AddUnary
<1>5. Good(AddRotateRight(p, a, 1))
  <2>1. MkInstr("RotateRight", "UInt64", <<a>>, 1) \in Instr
    BY <1>1, <1>2, MkInstrType
  <2> QED BY <2>1, EmitGood DEF AddRotateRight
<1>6. Good(AddGEP(p, a, 0)) /\ Good(AddGEP(p, a, 8))
  <2>1. MkInstr("GEP", "Ptr", <<a>>, 8) \in Instr
    BY <1>1, <1>2, MkInstrType
  <2>2. Good(Emit(p, MkInstr("GEP", "Ptr", <<a>>, 8)))
    BY <2>1, EmitGood
  <2> QED BY <2>2, ReturnGood DEF AddGEP
<1>7. Good(AddLoad(p, "Int64", a))
  <2>1. MkInstr("Load", "Int64", <<a>>, 0) \in Instr
    BY <1>1, <1>2, MkInstrType
  <2> QED BY <2>1, EmitGood DEF AddLoad
<1>8. Good(AddStore(p, a, b))
  <2>1. MkInstr("Store", "Void", <<a, b>>, 0) \in Instr
    BY <1>1, <1>2, MkInstrType
  <2> QED BY <2>1, EmitGood DEF AddStore
<1>9. Good(AddReturn(p, a))
  <2>1. MkInstr("Return", "Void", <<a>>, 0) \in Instr
    BY <1>1, <1>2, MkInstrType
  <2> QED BY <2>1, EmitGood DEF AddReturn
<1>10. Good(AddBranch(p, c))
  <2>1. MkInstr("Branch", "Void", <<>>, 0) \in Instr
    BY <1>1, <1>2, MkInstrType
  <2> QED BY <1>3, <2>1, TargetsType, EmitGood DEF AddBranch
<1>11. Good(AddCondBranch(p, a, c, d))
  <2>1. MkInstr("CondBranch", "Void", <<a>>, 0) \in Instr
    BY <1>1, <1>2, MkInstrType
  <2> QED BY <1>3, <2>1, TargetsType, EmitGood DEF AddCondBranch
<1>12. Good(AddPhi(p, "Int64", <<a, b>>, <<c, d>>))
  <2>1. MkInstr("Phi", "Int64", <<a, b>>, 0) \in Instr
    BY <1>1, <1>2, MkInstrType
  <2> QED BY <1>3, <2>1, TargetsType, EmitGood DEF AddPhi
<1>13. Good(AddCall(p, "Int64", "load", <<a>>))
  <2>1. MkInstr("Call", "Int64", <<a>>, 0) \in Instr
    BY <1>1, <1>2, MkInstrType
  <2> QED BY <1>1, <2>1, CalleeType, EmitGood DEF AddCall
<1> QED BY <1>4, <1>5, <1>6, <1>7, <1>8, <1>9, <1>10, <1>11, <1>12, <1>13

LEMMA InitGood == Init => Good(prog)
<1> SUFFICES ASSUME Init PROVE Good(prog)
  OBVIOUS
<1>1. prog = EmptyProgram
  BY DEF Init
<1>2. /\ prog.instrs = <<>> /\ prog.functions = <<>> /\ prog.fn = 1 /\ prog.blk = 1
      /\ prog.cache = [k \in {} |-> 0] /\ prog.ret = NullRef
      /\ DOMAIN prog.cache = {}
  BY <1>1 DEF EmptyProgram
<1>3. /\ <<>> \in Seq(Instr) /\ <<>> \in Seq(Function) /\ NullRef \in Int
      /\ prog.cache \in [DOMAIN prog.cache -> 1..Len(prog.instrs)]
      /\ DOMAIN prog.functions = {}
  BY <1>2 DEF NullRef
<1>4. prog \in [instrs : Seq(Instr), functions : Seq(Function), fn : Nat, blk : Nat,
                cache : [DOMAIN prog.cache -> 1..Len(prog.instrs)], ret : Int]
  BY <1>1, <1>2, <1>3 DEF EmptyProgram
<1> QED BY <1>2, <1>3, <1>4 DEF Good, IsProgram, Disjoint, Function

(* Every builder call, whatever its arguments, preserves Good.             *)
LEMMA StepGood == Good(prog) /\ [Next]_prog => Good(prog)'
<1> SUFFICES ASSUME Good(prog), [Next]_prog PROVE Good(prog')
  OBVIOUS
<1> USE DEF HasFunction
<1>1. CASE DoBeginFunction
  <2>1. <<>> \in Seq(Types) /\ <<"Int64">> \in Seq(Types)
    BY DEF Types
  <2> QED BY <1>1, <2>1, BeginFunctionGood DEF DoBeginFunction
<1>2. CASE DoAddBlock
  BY <1>2, AddBlockGood DEF DoAddBlock
<1>3. CASE DoSetInsertionPoint
  BY <1>3, SetInsertionPointGood DEF DoSetInsertionPoint
<1>4. ASSUME NEW v \in Literals, NEW t \in ConstTypes, DoAddConstInt(v, t)
      PROVE  Good(prog')
  BY <1>4, BuilderAssumption, AddConstIntGood DEF DoAddConstInt, Open
<1>5. CASE DoAddConstBool
  BY <1>5, AddConstBoolGood DEF DoAddConstBool, Open
<1>6. ASSUME NEW op \in BinOps, NEW a \in Operand, NEW b \in Operand,
             DoAddBinary(op, a, b)
      PROVE  Good(prog')
  <2>1. ResultType(op) \in Types
    BY DEF ResultType, Types
  <2>2. prog' = AddBinary(prog, op, ResultType(op), a, b) /\ prog.functions # <<>>
    BY <1>6 DEF DoAddBinary, Open
  <2>3. /\ a \in Int /\ a # 0 /\ (a > 0 => a \in 1..Len(prog.instrs))
        /\ b \in Int /\ b # 0 /\ (b > 0 => b \in 1..Len(prog.instrs))
    BY OperandType
  <2> QED BY <2>1, <2>2, <2>3, AddBinaryGood
<1>7. CASE DoAddUnary
  BY <1>7, OperandType, SimpleEmitsGood DEF DoAddUnary, Open
<1>8. CASE DoAddRotateRight
  BY <1>8, OperandType, SimpleEmitsGood DEF DoAddRotateRight, Open
<1>9. CASE DoAddGEP
  BY <1>9, OperandType, SimpleEmitsGood DEF DoAddGEP, Open
<1>10. CASE DoAddLoad
  BY <1>10, OperandType, SimpleEmitsGood DEF DoAddLoad, Open
<1>11. CASE DoAddStore
  BY <1>11, OperandType, SimpleEmitsGood DEF DoAddStore, Open
<1>12. CASE DoAddBranch
  <2>1. PICK b \in BlockIds : Open("addBranch") /\ prog' = AddBranch(prog, b)
    BY <1>12 DEF DoAddBranch
  <2>2. b \in Nat /\ 0 \in Int /\ 0 \in Nat
    BY BlockIdType
  <2> QED BY <2>1, <2>2, SimpleEmitsGood DEF Open
<1>13. CASE DoAddCondBranch
  BY <1>13, OperandType, BlockIdType, SimpleEmitsGood DEF DoAddCondBranch, Open
<1>14. CASE DoAddReturn
  <2>1. PICK v \in Operand \cup {NullRef} : Open("addReturn") /\ prog' = AddReturn(prog, v)
    BY <1>14 DEF DoAddReturn
  <2>2. v \in Int
    BY OperandType DEF NullRef
  <2> QED BY <2>1, <2>2, SimpleEmitsGood DEF Open
<1>15. CASE DoAddPhi
  <2>1. PICK v \in Operand, from \in BlockIds :
           Open("addPhi") /\ prog' = AddPhi(prog, "Int64", <<v, NullRef>>, <<from, 1>>)
    BY <1>15 DEF DoAddPhi
  <2>2. v \in Int /\ NullRef \in Int /\ from \in Nat /\ 1 \in Nat
    BY OperandType, BlockIdType DEF NullRef
  <2> QED BY <2>1, <2>2, SimpleEmitsGood DEF Open
<1>16. CASE DoPatchPhiEntry
  <2>1. PICK phi \in Refs, v \in Operand, from \in BlockIds :
           prog.instrs[phi].op = "Phi" /\ prog' = PatchPhiEntry(prog, phi, 2, v, from)
    BY <1>16 DEF DoPatchPhiEntry
  <2>2. v \in Int /\ from \in Nat /\ 2 \in Nat
    BY OperandType, BlockIdType
  <2> QED BY <2>1, <2>2, PatchPhiEntryGood DEF Refs
<1>17. CASE DoAddCall
  BY <1>17, OperandType, SimpleEmitsGood DEF DoAddCall, Open
<1>18. CASE DoEliminateDeadCode
  BY <1>18, EliminateDeadCodeGood DEF DoEliminateDeadCode
<1>19. CASE UNCHANGED prog
  BY <1>19
<1> QED BY <1>1, <1>2, <1>3, <1>4, <1>5, <1>6, <1>7, <1>8, <1>9, <1>10, <1>11, <1>12,
           <1>13, <1>14, <1>15, <1>16, <1>17, <1>18, <1>19 DEF Next

(* The program and its constant cache are well formed after any sequence   *)
(* of builder calls and dead code eliminations.                            *)
THEOREM TypeCorrect == Spec => []TypeOK
<1>1. Good(prog) => TypeOK
  BY DEF Good, TypeOK
<1> QED BY <1>1, InitGood, StepGood, PTL DEF Spec

(* No instruction is ever in two blocks, so none is executed at two places *)
(* and none is lost when eliminateDeadCode empties a block it is not in.   *)
THEOREM InstructionsPlacedOnce == Spec => []PlacedOnce
<1>1. Good(prog) => PlacedOnce
  BY DEF Good, PlacedOnce
<1> QED BY <1>1, InitGood, StepGood, PTL DEF Spec

(* constIntCache stays sound across folding, phi patching and elimination. *)
THEOREM CacheStaysSound == Spec => []CacheSound
<1>1. Good(prog) => CacheSound
  BY DEF Good, CacheSound
<1> QED BY <1>1, InitGood, StepGood, PTL DEF Spec

-----------------------------------------------------------------------------
(* Nothing is assumed of the key, which two constants may share: where no  *)
(* constant of the program clashes with the one asked for, addConstInt     *)
(* returns a constant with its value and its type.                         *)
LEMMA AddConstIntDenotes ==
    ASSUME NEW p, Good(p), p.functions # <<>>, NEW v \in Words, NEW t \in Types,
           ~Clashes(p, v, t)
    PROVE  LET q == AddConstInt(p, v, t) IN q.ret \in Nat /\ Denotes(q, q.ret, v, t)
<1> DEFINE key == CacheKey(v, t)
           ref == Len(p.instrs) + 1
           instr == MkInstr("ConstInt", t, <<>>, v)
           q == AddConstInt(p, v, t)
<1>1. p \in [instrs : Seq(Instr), functions : Seq(Function), fn : Nat,
             blk : Nat, cache : [DOMAIN p.cache -> 1..Len(p.instrs)], ret : Int]
  BY DEF Good, IsProgram, Function
<1>2. CASE key \in DOMAIN p.cache
  <2> DEFINE old == p.instrs[p.cache[key]]
  <2>1. q.instrs = p.instrs /\ q.ret = p.cache[key]
    <3>1. q = [p EXCEPT !.ret = p.cache[key]]
      BY <1>2 DEF AddConstInt, CacheNew
    <3> HIDE DEF key, q
    <3> QED BY <1>1, <3>1
  <2>2. p.cache[key] \in DOMAIN p.instrs
    BY <1>1, <1>2
  <2>3. old.op = "ConstInt" /\ CacheKey(old.imm, old.type) = CacheKey(v, t)
    BY <1>2 DEF Good, CacheLeadsTo
  <2>4. <<old.imm, old.type>> = <<v, t>>
    BY <2>2, <2>3 DEF Clashes
  <2>5. old.imm = v /\ old.type = t
    BY <2>4
  <2>6. p.cache[key] \in Nat
    BY <1>1, <1>2
  <2> QED BY <2>1, <2>3, <2>5, <2>6 DEF Denotes
<1>3. CASE key \notin DOMAIN p.cache
  <2>1. instr \in Instr /\ instr.op = "ConstInt" /\ instr.imm = v /\ instr.type = t
    <3>1. "ConstInt" \in Opcodes /\ <<>> \in Seq(Int)
      BY DEF Opcodes, Constants
    <3> QED BY <3>1, MkInstrType DEF MkInstr
  <2> DEFINE e == Emit(p, instr)
             cache == [k \in DOMAIN p.cache \cup {key} |->
                          IF k = key THEN ref ELSE p.cache[k]]
  <2>2. Good(e) /\ e.instrs = Append(p.instrs, instr) /\ e.ret = ref
    BY <2>1, EmitGood
  <2>3. q = [e EXCEPT !.cache = cache]
    BY <1>3 DEF AddConstInt, CacheNew
  <2>4. e \in [instrs : Seq(Instr), functions : Seq(Function), fn : Nat,
               blk : Nat, cache : [DOMAIN e.cache -> 1..Len(e.instrs)], ret : Int]
    BY <2>2 DEF Good, IsProgram, Function
  <2>5. q.instrs = e.instrs /\ q.ret = e.ret
    <3> HIDE DEF e, q, cache
    <3> QED BY <2>3, <2>4
  <2>6. q.instrs[ref] = instr
    BY <1>1, <2>1, <2>2, <2>5
  <2>7. ref \in Nat
    BY <1>1
  <2> HIDE DEF q, instr, e, ref
  <2>8. q.ret \in Nat /\ Denotes(q, q.ret, v, t)
    BY <2>1, <2>2, <2>5, <2>6, <2>7 DEF Denotes
  <2> QED BY <2>8 DEF q
<1> QED BY <1>2, <1>3

(* For every key, whatever was emitted, folded, patched and eliminated     *)
(* before: the reference addConstInt returns denotes the literal it was    *)
(* given, at its type, unless the program has another constant with its    *)
(* key.  Nothing but a clash makes deduplication go wrong.                 *)
THEOREM DeduplicationDenotes == Spec => ConstantsAsAsked
<1>1. ASSUME Good(prog), NEW v \in Literals, NEW t \in ConstTypes,
             DoAddConstInt(v, t), ~Clashes(prog, v, t)
      PROVE  Denotes(prog', prog'.ret, v, t)
  <2>1. /\ prog.functions # <<>> /\ v \in Words /\ t \in Types
        /\ prog' = AddConstInt(prog, v, t)
    BY <1>1, BuilderAssumption DEF DoAddConstInt, Open, HasFunction
  <2>2. LET q == AddConstInt(prog, v, t) IN q.ret \in Nat /\ Denotes(q, q.ret, v, t)
    BY <1>1, <2>1, AddConstIntDenotes
  <2> QED BY <2>1, <2>2
<1>2. Good(prog) =>
         [\A v \in Literals, t \in ConstTypes :
             DoAddConstInt(v, t) /\ ~Clashes(prog, v, t) => Denotes(prog', prog'.ret, v, t)]_prog
  BY <1>1
<1> QED BY <1>2, InitGood, StepGood, PTL DEF Spec, ConstantsAsAsked

(* What a folded operation denotes, for a value and a type FoldInt gives.  *)
FoldedTo(q, v, t) ==
    /\ IsConstant(q, q.ret)
    /\ ConstIntValue(q, q.ret) = v
    /\ q.instrs[q.ret].type = t

LEMMA AddConstBoolDenotes ==
    ASSUME NEW p, Good(p), p.functions # <<>>, NEW v \in {0, 1}
    PROVE  FoldedTo(AddConstBool(p, v # 0), v, "Bool")
<1> DEFINE instr == MkInstr("ConstBool", "Bool", <<>>, IF v # 0 THEN 1 ELSE 0)
           q == Emit(p, instr)
           ref == Len(p.instrs) + 1
<1>1. instr.op = "ConstBool" /\ instr.type = "Bool" /\ instr.imm = v
  BY DEF MkInstr
<1>2. instr \in Instr
  <2>1. /\ "ConstBool" \in Opcodes /\ "Bool" \in Types /\ <<>> \in Seq(Int)
        /\ (IF v # 0 THEN 1 ELSE 0) \in Words
    BY WordsAssumption DEF Opcodes, Constants, Types
  <2> QED BY <2>1, MkInstrType
<1>3. p.instrs \in Seq(Instr)
  BY DEF Good, IsProgram
<1>4. q.instrs = Append(p.instrs, instr) /\ q.ret = ref
  BY <1>2, EmitGood
<1> HIDE DEF instr, q
<1>5. q.instrs[q.ret] = instr /\ q.ret \in Nat
  BY <1>2, <1>3, <1>4
<1>6. FoldedTo(q, v, "Bool")
  BY <1>1, <1>5 DEF FoldedTo, IsConstant, IsParam, ConstIntValue, Constants
<1> QED BY <1>6 DEF AddConstBool, instr, q

LEMMA AddBinaryFolds ==
    ASSUME NEW p, Good(p), p.functions # <<>>, NEW op \in BinOps, NEW t \in Types,
           NEW a \in Int, NEW b \in Int,
           a > 0 => a \in 1..Len(p.instrs), b > 0 => b \in 1..Len(p.instrs),
           a # 0, b # 0, CanFold(p, op, a, b),
           op \notin Comparisons \cup Logical =>
               t # "Bool" /\ ~Clashes(p, FoldInt(op, ConstIntValue(p, a), ConstIntValue(p, b)), t)
    PROVE  FoldedTo(AddBinary(p, op, t, a, b),
                    FoldInt(op, ConstIntValue(p, a), ConstIntValue(p, b)), FoldType(op, t))
<1> DEFINE va == ConstIntValue(p, a)
           vb == ConstIntValue(p, b)
           v == FoldInt(op, va, vb)
           type == FoldType(op, t)
<1>1. op \in FoldableOps /\ va \in Words /\ vb \in Words /\ (op = "Div" => vb # 0)
  <2>1. p.instrs \in Seq(Instr)
    BY DEF Good, IsProgram
  <2>2. /\ a \in 1..Len(p.instrs) /\ b \in 1..Len(p.instrs)
        /\ op \in FoldableOps /\ (op = "Div" => vb # 0)
    BY DEF CanFold, IsConstant, IsParam
  <2>3. p.instrs[a] \in Instr /\ p.instrs[b] \in Instr
    BY <2>1, <2>2
  <2> QED BY <2>2, <2>3 DEF ConstIntValue, Instr
<1>2. v \in Words
  BY <1>1, BuilderAssumption
<1>3. AddBinary(p, op, t, a, b) = IF type = "Bool" THEN AddConstBool(p, v # 0)
                                  ELSE AddConstInt(p, v, type)
  BY DEF AddBinary, TryConstFold
<1>4. CASE op \in Comparisons \cup Logical
  <2>1. type = "Bool" /\ v \in {0, 1}
    BY <1>1, <1>4, BuilderAssumption DEF FoldType
  <2> HIDE DEF v, type
  <2> QED BY <1>3, <2>1, AddConstBoolDenotes DEF type, v
<1>5. CASE op \notin Comparisons \cup Logical
  <2>1. type = t /\ type # "Bool" /\ ~Clashes(p, v, type)
    BY <1>5 DEF FoldType
  <2> DEFINE q == AddConstInt(p, v, type)
  <2> HIDE DEF v, type
  <2>2. q.ret \in Nat /\ Denotes(q, q.ret, v, type)
    BY <1>2, <2>1, AddConstIntDenotes
  <2>3. FoldedTo(q, v, type)
    BY <2>2 DEF FoldedTo, Denotes, IsConstant, IsParam, ConstIntValue, Constants
  <2> QED BY <1>3, <2>1, <2>3 DEF type, v
<1> QED BY <1>4, <1>5

(* For every key: an operation whose operands are constants is replaced by *)
(* a constant with the folded value and the operation's type, a comparison *)
(* always, a number unless another constant of the program has its key.    *)
THEOREM FoldingDenotes == Spec => FoldsAsComputed
<1> DEFINE Folded(op, a, b) ==
              LET v == FoldInt(op, ConstIntValue(prog, a), ConstIntValue(prog, b))
              IN  ResultType(op) = "Bool" \/ ~Clashes(prog, v, ResultType(op)) =>
                  /\ IsConstant(prog', prog'.ret)
                  /\ ConstIntValue(prog', prog'.ret) = v
                  /\ prog'.instrs[prog'.ret].type = ResultType(op)
<1>1. ASSUME Good(prog), NEW op \in BinOps, NEW a \in Operand, NEW b \in Operand,
             DoAddBinary(op, a, b), CanFold(prog, op, a, b)
      PROVE  Folded(op, a, b)
  <2> DEFINE v == FoldInt(op, ConstIntValue(prog, a), ConstIntValue(prog, b))
  <2> SUFFICES ASSUME ResultType(op) = "Bool" \/ ~Clashes(prog, v, ResultType(op))
               PROVE  FoldedTo(prog', v, ResultType(op))
    BY DEF FoldedTo
  <2>1. /\ prog.functions # <<>>
        /\ prog' = AddBinary(prog, op, ResultType(op), a, b)
    BY <1>1 DEF DoAddBinary, Open, HasFunction
  <2>2. /\ ResultType(op) \in Types
        /\ FoldType(op, ResultType(op)) = ResultType(op)
        /\ op \notin Comparisons \cup Logical =>
              ResultType(op) # "Bool" /\ ~Clashes(prog, v, ResultType(op))
    BY DEF ResultType, FoldType, Types
  <2>3. /\ a \in Int /\ a # 0 /\ (a > 0 => a \in 1..Len(prog.instrs))
        /\ b \in Int /\ b # 0 /\ (b > 0 => b \in 1..Len(prog.instrs))
    BY <1>1, OperandType
  <2> QED BY <1>1, <2>1, <2>2, <2>3, AddBinaryFolds
<1>2. Good(prog) =>
         [\A op \in BinOps, a, b \in Operand :
             DoAddBinary(op, a, b) /\ CanFold(prog, op, a, b) => Folded(op, a, b)]_prog
  BY <1>1
<1> QED BY <1>2, InitGood, StepGood, PTL DEF Spec, FoldsAsComputed
=============================================================================
