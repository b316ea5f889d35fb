----------------------------- MODULE Translators -----------------------------
(***************************************************************************)
(* The operator translators (src/operators, src/codegen and PrintTranslator*)
(* of src/sql/sql_runner.cpp): how a tree of scan, select and hash join    *)
(* operators becomes one IR function by produce and consume calls.         *)
(*                                                                         *)
(*  - A ConsumerScope is a function from the IUs in scope to references.   *)
(*  - The chain of parents a translator keeps is the sequence "up" of the  *)
(*    consumers above it; a join is in it as its "build" or "probe" side,  *)
(*    which consume() tells apart by comparing child with buildSide.       *)
(*  - Emitting code is a chain of programs p, each with its ret: "Do" binds*)
(*    the program one builder call leaves for the calls that follow it.    *)
(***************************************************************************)
EXTENDS UmbraIR, OperatorTree

CONSTANTS
    Slots,                            \* key slots and payload slots of a call (4)
    OutSlots,                         \* value slots of the result trampoline (8)
    HashSeed1, HashSeed2, HashFactor, \* the constants of hashValues
    HalfWord,                         \* 32
    ColumnAddr(_, _)                  \* where a table has its n-th column: data()

(* Addresses the translators embed in the code. *)
TableAddr(join) == 1024 + join
RowsAddr        == 512

Do(step, Rest(_)) == CHOOSE result \in {Rest(p) : p \in {step}} : TRUE

(* Run F(p, 1), F(p, 2), ..., F(p, n) one after the other, keeping the     *)
(* reference each of them returns.                                         *)
Gather(p, n, F(_, _)) ==
    LET upTo[k \in 0..n] ==
            IF k = 0 THEN [prog |-> p, refs |-> <<>>]
            ELSE Do(upTo[k - 1], LAMBDA before :
                 Do(F(before.prog, k), LAMBDA after :
                    [prog |-> after, refs |-> Append(before.refs, after.ret)]))
    IN  upTo[n]

Pad(refs, n, ref) ==
    IF Len(refs) < n THEN refs \o [i \in 1..(n - Len(refs)) |-> ref] ELSE refs

-----------------------------------------------------------------------------
(* Expressions (evalExpr of the planner) and hashing *)

ExprType(op) == IF op \in Comparisons \cup Logical THEN "Bool" ELSE "Int64"

RECURSIVE EvalExpr(_, _, _)
EvalExpr(p, e, scope) ==
    CASE e.kind = "col" -> [p EXCEPT !.ret = scope[e.iu]]
      [] e.kind = "int" -> AddConstInt(p, e.val, "Int64")
      [] e.kind = "bin" -> Do(EvalExpr(p, e.left, scope), LAMBDA l :
                           Do(EvalExpr(l, e.right, scope), LAMBDA r :
                              AddBinary(r, e.op, ExprType(e.op), l.ret, r.ret)))

(* The predicate of a select: its conjuncts, joined by LAnd as they come.  *)
RECURSIVE EvalConjuncts(_, _, _)
EvalConjuncts(p, conjuncts, scope) ==
    IF Len(conjuncts) = 1 THEN EvalExpr(p, conjuncts[1], scope)
    ELSE Do(EvalConjuncts(p, Front(conjuncts), scope), LAMBDA result :
         Do(EvalExpr(result, Last(conjuncts), scope), LAMBDA next :
            AddBinary(next, "LAnd", "Bool", result.ret, next.ret)))

HashStep(s, ref) ==
    Do(AddBinary(s.prog, "ZExt", "UInt64", ref, ref), LAMBDA dead :
    Do(AddUnary(dead, "ZExt", "UInt64", ref), LAMBDA v :
    Do(AddBinary(v, "CRC32", "UInt64", s.hash1, v.ret), LAMBDA crc1 :
    Do(AddBinary(crc1, "CRC32", "UInt64", s.hash2, v.ret), LAMBDA crc2 :
       [prog |-> crc2, hash1 |-> crc1.ret, hash2 |-> crc2.ret]))))

HashValues(p, refs) ==
    Do(AddConstInt(p, HashSeed1, "UInt64"), LAMBDA seed1 :
    Do(AddConstInt(seed1, HashSeed2, "UInt64"), LAMBDA seed2 :
    Do(FoldLeft(HashStep, [prog |-> seed2, hash1 |-> seed1.ret, hash2 |-> seed2.ret], refs),
       LAMBDA all :
    Do(AddRotateRight(all.prog, all.hash2, HalfWord), LAMBDA rotated :
    Do(AddBinary(rotated, "Xor", "UInt64", all.hash1, rotated.ret), LAMBDA mixed :
    Do(AddConstInt(mixed, HashFactor, "UInt64"), LAMBDA factor :
       AddBinary(factor, "Mul", "UInt64", mixed.ret, factor.ret)))))))

-----------------------------------------------------------------------------
(* The loop "for i = zero; i < limit; i += one" of a scan and of a probe:  *)
(* BeginLoop leaves the insertion point in its body, EndLoop in its exit.  *)

(* (fault: the bound itself is iterated over) *)
BeginLoopInclusive(p, zero, limit) ==
    LET header == Len(Blocks(p)) + 1
        jump   == AddBranch(AddBlock(AddBlock(AddBlock(p))), header)
    IN  Do(AddPhi(SetInsertionPoint(jump, p.fn, header), "Int64",
                  <<zero, NullRef>>, <<p.blk, 1>>), LAMBDA phi :
        Do(AddBinary(phi, "CmpLe", "Bool", phi.ret, limit), LAMBDA more :
        Do(AddCondBranch(more, more.ret, header + 1, header + 2), LAMBDA test :
           [prog |-> SetInsertionPoint(test, p.fn, header + 1), phi |-> phi.ret,
            header |-> header])))

BeginLoop(p, zero, limit) ==
    LET header == Len(Blocks(p)) + 1
        jump   == AddBranch(AddBlock(AddBlock(AddBlock(p))), header)
    IN  Do(AddPhi(SetInsertionPoint(jump, p.fn, header), "Int64",
                  <<zero, NullRef>>, <<p.blk, 1>>), LAMBDA phi :
        Do(AddBinary(phi, "CmpLt", "Bool", phi.ret, limit), LAMBDA more :
        Do(AddCondBranch(more, more.ret, header + 1, header + 2), LAMBDA test :
           [prog |-> SetInsertionPoint(test, p.fn, header + 1), phi |-> phi.ret,
            header |-> header])))

(* (fault: the phi is fed back unchanged) *)
EndLoopUnchanged(p, loop, one) ==
    SetInsertionPoint(AddBranch(PatchPhiEntry(p, loop.phi, 2, loop.phi, p.blk), loop.header),
                      p.fn, loop.header + 2)

EndLoop(p, loop, one) ==
    Do(AddBinary(p, "Add", "Int64", loop.phi, one), LAMBDA next :
       SetInsertionPoint(AddBranch(PatchPhiEntry(next, loop.phi, 2, next.ret, next.blk),
                                   loop.header),
                         p.fn, loop.header + 2))

Terminated(p) ==
    LET block == Blocks(p)[p.blk]
    IN  block # {} /\ p.instrs[LastOf(block)].op \in Terminators

-----------------------------------------------------------------------------
(* Consumers that end a pipeline *)

(* (fault: one column too many is announced) *)
PrintConsumeOneMore(p, scope, outs) ==
    Do(AddConstInt(p, RowsAddr, "Ptr"), LAMBDA self :
    Do(AddConstInt(self, Len(outs) + 1, "Int64"), LAMBDA nCols :
    Do(AddConstInt(nCols, 0, "Int64"), LAMBDA pad :
       AddCall(pad, "Void", "appendRow",
               <<self.ret, nCols.ret>> \o
                   Pad([i \in DOMAIN outs |-> scope[outs[i]]], OutSlots, pad.ret)))))

PrintConsume(p, scope, outs) ==
    Do(AddConstInt(p, RowsAddr, "Ptr"), LAMBDA self :
    Do(AddConstInt(self, Len(outs), "Int64"), LAMBDA nCols :
    Do(IF Len(outs) < OutSlots THEN AddConstInt(nCols, 0, "Int64") ELSE nCols, LAMBDA pad :
       AddCall(pad, "Void", "appendRow",
               <<self.ret, nCols.ret>> \o
                   Pad([i \in DOMAIN outs |-> scope[outs[i]]], OutSlots, pad.ret)))))

BuildConsume(p, scope, join) ==
    LET keys    == [i \in DOMAIN join.buildKeys |-> scope[join.buildKeys[i]]]
        payload == [i \in DOMAIN PayloadIUs(join) |-> scope[PayloadIUs(join)[i]]]
    IN  Do(HashValues(p, keys), LAMBDA hash :
        Do(AddConstInt(hash, TableAddr(join.id), "Ptr"), LAMBDA ht :
        Do(AddConstInt(ht, 0, "Int64"), LAMBDA zero :
           AddCall(zero, "Void", "insert",
                   Pad(Pad(<<ht.ret, hash.ret>> \o keys, 2 + Slots, zero.ret) \o payload,
                       2 + Slots + Slots, zero.ret)))))

-----------------------------------------------------------------------------
(* produce and consume *)

RECURSIVE Produce(_, _, _), Consume(_, _, _)

LoadColumns(p, op, row) ==
    LET LoadColumn(q, c) ==
            Do(AddConstInt(q, ColumnAddr(op.table, c), "Ptr"), LAMBDA addr :
               AddCall(addr, "Int64", "load", <<addr.ret, row>>))
    IN  Gather(p, op.cols, LoadColumn)

ScanProduce(p, op, up) ==
    Do(AddConstInt(p, 0, "Int64"), LAMBDA zero :
    Do(AddConstInt(zero, op.rows, "Int64"), LAMBDA numRows :
    Do(AddConstInt(numRows, 1, "Int64"), LAMBDA one :
    Do(BeginLoop(one, zero.ret, numRows.ret), LAMBDA loop :
    Do(LoadColumns(loop.prog, op, loop.phi), LAMBDA columns :
       EndLoop(Consume(columns.prog,
                       [iu \in ToSet(OutputIUs(op)) |-> columns.refs[iu[2]]], up),
               loop, one.ret))))))

(* (fault: the probe side is produced before the build side) *)
ProduceProbeFirst(p, op, up) ==
    CASE op.kind = "scan"   -> ScanProduce(p, op, up)
      [] op.kind = "select" -> Produce(p, op.child, <<[side |-> "select", op |-> op]>> \o up)
      [] op.kind = "join"   ->
            Produce(Produce(p, op.probe, <<[side |-> "probe", op |-> op]>> \o up),
                    op.build, <<[side |-> "build", op |-> op]>> \o up)

Produce(p, op, up) ==
    CASE op.kind = "scan"   -> ScanProduce(p, op, up)
      [] op.kind = "select" -> Produce(p, op.child, <<[side |-> "select", op |-> op]>> \o up)
      [] op.kind = "join"   ->
            Produce(Produce(p, op.build, <<[side |-> "build", op |-> op]>> \o up),
                    op.probe, <<[side |-> "probe", op |-> op]>> \o up)

TestThenConsume(cond, scope, up) ==
    LET taken == Len(Blocks(cond)) + 1
        merge == taken + 2
        test  == AddCondBranch(AddBlock(AddBlock(AddBlock(cond))), cond.ret, taken, taken + 1)
    IN  Do(Consume(SetInsertionPoint(test, cond.fn, taken), scope, up), LAMBDA body :
           SetInsertionPoint(IF Terminated(body) THEN body ELSE AddBranch(body, merge),
                             cond.fn, merge))

SelectConsume(p, scope, select, up) ==
    Do(EvalConjuncts(p, select.conjuncts, scope), LAMBDA cond :
       IF IsConstant(cond, cond.ret) /\ ConstIntValue(cond, cond.ret) # 0
       THEN Consume(cond, scope, up)
       ELSE TestThenConsume(cond, scope, up))

(* The values of the entry a match points at: its keys, then its payload.  *)
(* (fault: in the order of the payload first) *)
EntryValuesPayloadFirst(p, join) ==
    LET Get(callee, q, i) ==
            Do(AddConstInt(q, i - 1, "Int32"), LAMBDA index :
               AddCall(index, "Int64", callee, <<p.ret, index.ret>>))
        GetKey(q, i)     == Get("getKey", q, i)
        GetPayload(q, i) == Get("getPayload", q, i)
    IN  Do(Gather(p, Len(PayloadIUs(join)), GetPayload), LAMBDA payload :
        Do(Gather(payload.prog, Len(join.buildKeys), GetKey), LAMBDA keys :
           [prog |-> keys.prog, refs |-> payload.refs \o keys.refs]))

EntryValues(p, join) ==
    LET Get(callee, q, i) ==
            Do(AddConstInt(q, i - 1, "Int32"), LAMBDA index :
               AddCall(index, "Int64", callee, <<p.ret, index.ret>>))
        GetKey(q, i)     == Get("getKey", q, i)
        GetPayload(q, i) == Get("getPayload", q, i)
    IN  Do(Gather(p, Len(join.buildKeys), GetKey), LAMBDA keys :
        Do(Gather(keys.prog, Len(PayloadIUs(join)), GetPayload), LAMBDA payload :
           [prog |-> payload.prog, refs |-> keys.refs \o payload.refs]))

JoinScope(scope, built, refs) ==
    [iu \in DOMAIN scope \cup ToSet(built) |->
        IF iu \in ToSet(built) THEN refs[CHOOSE i \in DOMAIN built : built[i] = iu]
        ELSE scope[iu]]

ProbeConsume(p, scope, join, up) ==
    LET keys == [i \in DOMAIN join.probeKeys |-> scope[join.probeKeys[i]]]
    IN  Do(HashValues(p, keys), LAMBDA hash :
        Do(AddConstInt(hash, TableAddr(join.id), "Ptr"), LAMBDA ht :
        Do(AddConstInt(ht, 0, "Int64"), LAMBDA zero :
        Do(AddCall(zero, "Ptr", "lookupAll",
                   Pad(<<ht.ret, hash.ret>> \o keys, 2 + Slots, zero.ret)), LAMBDA found :
        Do(AddCall(found, "Int64", "matchCount", <<found.ret>>), LAMBDA count :
        Do(AddConstInt(count, 1, "Int64"), LAMBDA one :
        Do(BeginLoop(one, zero.ret, count.ret), LAMBDA loop :
        Do(AddCall(loop.prog, "Ptr", "matchAt", <<found.ret, loop.phi>>), LAMBDA entry :
        Do(EntryValues(entry, join), LAMBDA values :
           EndLoop(Consume(values.prog,
                           JoinScope(scope, join.buildKeys \o PayloadIUs(join), values.refs),
                           up),
                   loop, one.ret))))))))))

Consume(p, scope, up) ==
    LET parent == Head(up)
        above  == Tail(up)
    IN  CASE parent.side = "print"  -> PrintConsume(p, scope, parent.outs)
          [] parent.side = "select" -> SelectConsume(p, scope, parent.op, above)
          [] parent.side = "build"  -> BuildConsume(p, scope, parent.op)
          [] parent.side = "probe"  -> ProbeConsume(p, scope, parent.op, above)

(* Steps 3 to 7 of runQuery, for a plan and the IUs of its SELECT list.    *)
GenerateIR(plan, outs) ==
    LET begin == BeginFunction(EmptyProgram, <<>>)
        body  == Produce(begin, plan, <<[side |-> "print", outs |-> outs]>>)
    IN  EliminateDeadCode(AddReturn(body, NullRef))
=============================================================================
