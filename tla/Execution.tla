----------------------------- MODULE Execution -----------------------------
(***************************************************************************)
(* The compiled function of a plan (Translators, FlyingStart), executed    *)
(* one machine instruction at a time on the data of the plan's tables; its *)
(* calls go to the precompiled functions of the scan, hash join and print  *)
(* translators.  (x86-64 build.)                                           *)
(***************************************************************************)
EXTENDS Translators, FlyingStart, HostInt

CONSTANTS
    Garbage,      \* what a register nothing has written may hold
    NumBuckets,   \* NUM_BUCKETS
    Crc(_, _),    \* the crc32 instruction
    ZExtBits      \* the bits "movzx r32, r32" keeps: 16, as asmjit encodes it

VARIABLES
    plan, data,   \* the operator tree and the rows of its tables
    fn,           \* its compiled function
    pc,           \* next machine instruction
    regs,         \* the registers written so far
    tables,       \* the RuntimeHashTable of each join
    rows,         \* rows of the PrintTranslator
    status        \* "run", "done", or "crash": an access out of bounds

given    == <<plan, data, fn>>
execVars == <<given, pc, regs, tables, rows, status>>

(* The tree with each scan's numRows, as of the moment it is produced. *)
RECURSIVE Sized(_, _)
Sized(op, sizes) ==
    CASE op.kind = "scan"   -> [op EXCEPT !.rows = sizes[op.table]]
      [] op.kind = "select" -> [op EXCEPT !.child = Sized(op.child, sizes)]
      [] op.kind = "join"   -> [op EXCEPT !.build = Sized(op.build, sizes),
                                          !.probe = Sized(op.probe, sizes)]

SizesOf(d) == [table \in DOMAIN d |-> Len(d[table])]

(* produce() and compile() *)
CodeFor(tree, ius, sizes) ==
    Do(GenerateIR(Sized(tree, sizes), ius), LAMBDA program : CompileFunction(program, 1))

Current == fn.code[pc]
JoinOf(addr) == CHOOSE j \in Joins(plan) : TableAddr(j.id) = addr

Null == <<"null">>

-----------------------------------------------------------------------------
(* Registers and arithmetic *)

(* The operand values an instruction may see: one choice of values if all  *)
(* its registers have been written.                                        *)
Holds1(r, g)  == IF r \in DOMAIN regs THEN regs[r] ELSE g
Sources(srcs) == {[i \in DOMAIN srcs |-> Holds1(srcs[i], g)] : g \in Garbage}
Arguments(srcs) ==
    {[i \in DOMAIN srcs |-> IF srcs[i][1] = "imm" THEN srcs[i][2] ELSE Holds1(srcs[i][2], g)] :
        g \in Garbage}

Written(dst, v) == [r \in DOMAIN regs \cup {dst} |-> IF r = dst THEN v ELSE regs[r]]

Unsigned(x) == x % Modulus
RotatedRight(x, n) ==
    Signed(Unsigned(x) \div 2^n + (Unsigned(x) % 2^n) * 2^(WordBits - n))

(* The emit_* helpers, for the opcodes the translators use.                *)
Alu(op, v, literal) ==
    CASE op \in {"And", "LAnd"} -> BitAnd(v[1], v[2])
      [] op \in {"Or", "LOr"}   -> BitOr(v[1], v[2])
      [] op = "CRC32"           -> Crc(v[1], v[2])
      [] op = "RotateRight"     -> RotatedRight(v[1], literal)
      [] op = "ZExt"            -> Unsigned(v[1]) % 2^ZExtBits
      [] OTHER                  -> FoldValue(op, v[1], v[2])

(* Before the function is called *)
NoRegs == [r \in {} |-> 0]
NewTables(tree) ==
    [addr \in {TableAddr(j.id) : j \in Joins(tree)} |->
        [buckets |-> [b \in 0..NumBuckets-1 |-> <<>>], matchBuffer |-> <<>>]]
Ready == pc = 1 /\ regs = NoRegs /\ tables = NewTables(plan) /\ rows = <<>> /\ status = "run"

(* The next instruction is of this kind. *)
At(kind) == status = "run" /\ Current.kind = kind

WriteImmediate ==
    /\ At("imm")
    /\ regs' = Written(Current.dst, Current.imm)
    /\ pc' = pc + 1
    /\ UNCHANGED <<given, tables, rows, status>>

MoveRegister ==
    /\ At("move")
    /\ \E v \in Sources(Current.srcs) : regs' = Written(Current.dst, v[1])
    /\ pc' = pc + 1
    /\ UNCHANGED <<given, tables, rows, status>>

ComputeAlu ==
    /\ At("alu")
    /\ \E v \in Sources(Current.srcs) :
          regs' = Written(Current.dst, Alu(Current.op, v, Current.imm))
    /\ pc' = pc + 1
    /\ UNCHANGED <<given, tables, rows, status>>

TakeJump ==
    /\ At("jump")
    /\ pc' = fn.labels[Current.target]
    /\ UNCHANGED <<given, regs, tables, rows, status>>

Decides(op, v) == IF op = "Test" THEN v[1] # 0 ELSE Holds(op, v[1], v[2])
TestAndJump ==
    /\ At("jumpif")
    /\ \E v \in Sources(Current.srcs) :
          pc' = IF Decides(Current.op, v) THEN fn.labels[Current.target] ELSE pc + 1
    /\ UNCHANGED <<given, regs, tables, rows, status>>

ReturnFromQuery ==
    /\ At("ret")
    /\ status' = "done"
    /\ UNCHANGED <<given, pc, regs, tables, rows>>

-----------------------------------------------------------------------------
(* Calls of the precompiled functions *)

Calls(callee) == At("call") /\ Current.op = callee

(* The call returns v, unless it accesses memory out of bounds. *)
Returns(ok, v) ==
    /\ status' = IF ok THEN "run" ELSE "crash"
    /\ regs' = IF ok THEN Written(Current.dst, v) ELSE regs
    /\ pc' = pc + 1
    /\ UNCHANGED <<given, rows>>

LoadColumnValue ==
    /\ Calls("load")
    /\ \E a \in Arguments(Current.srcs) :
          LET column == CHOOSE c \in (DOMAIN data) \X (1..64) : ColumnAddr(c[1], c[2]) = a[1]
              cells  == data[column[1]]
              inside == a[2] \in 0..(Len(cells) - 1)
          IN  Returns(inside, IF inside THEN cells[a[2] + 1][column[2]] ELSE 0)
    /\ UNCHANGED tables

(* insertFn: fields beyond the slots are read past the end of its arrays.  *)
Field(a, first, i, g) == IF i <= Slots THEN a[first + i] ELSE g
InsertEntry ==
    /\ Calls("insert")
    /\ \E a \in Arguments(Current.srcs), g \in Garbage :
          LET ht     == a[1]
              bucket == Unsigned(a[2]) % NumBuckets
              join   == JoinOf(ht)
              entry  == [keyData     |-> [i \in DOMAIN join.buildKeys |-> Field(a, 2, i, g)],
                         payloadData |-> [i \in DOMAIN PayloadIUs(join) |->
                                             Field(a, 2 + Slots, i, g)]]
          IN  tables' = [tables EXCEPT ![ht].buckets[bucket] = Append(@, entry)]
    /\ pc' = pc + 1
    /\ UNCHANGED <<given, regs, rows, status>>

(* (fault: the matches of the previous probe are kept) *)
LookupAllNoClear ==
    /\ Calls("lookupAll")
    /\ \E a \in Arguments(Current.srcs), g \in Garbage :
          LET ht      == a[1]
              bucket  == Unsigned(a[2]) % NumBuckets
              entries == tables[ht].buckets[bucket]
              match(n) == \A i \in DOMAIN JoinOf(ht).probeKeys :
                             entries[n].keyData[i] = Field(a, 2, i, g)
              found   == SelectSeq([n \in DOMAIN entries |-> n], match)
          IN  /\ tables' = [tables EXCEPT ![ht].matchBuffer = @ \o
                               [n \in DOMAIN found |-> <<bucket, found[n]>>]]
              /\ Returns(TRUE, ht)

LookupAll ==
    /\ Calls("lookupAll")
    /\ \E a \in Arguments(Current.srcs), g \in Garbage :
          LET ht      == a[1]
              bucket  == Unsigned(a[2]) % NumBuckets
              entries == tables[ht].buckets[bucket]
              match(n) == \A i \in DOMAIN JoinOf(ht).probeKeys :
                             entries[n].keyData[i] = Field(a, 2, i, g)
              found   == SelectSeq([n \in DOMAIN entries |-> n], match)
          IN  /\ tables' = [tables EXCEPT ![ht].matchBuffer =
                               [n \in DOMAIN found |-> <<bucket, found[n]>>]]
              /\ Returns(TRUE, ht)

MatchCount ==
    /\ Calls("matchCount")
    /\ \E a \in Arguments(Current.srcs) : Returns(TRUE, Len(tables[a[1]].matchBuffer))
    /\ UNCHANGED tables

MatchAt ==
    /\ Calls("matchAt")
    /\ \E a \in Arguments(Current.srcs) :
          LET matches == tables[a[1]].matchBuffer
          IN  Returns(TRUE, IF a[2] \in 0..(Len(matches) - 1)
                            THEN <<"entry", a[1]>> \o matches[a[2] + 1] ELSE Null)
    /\ UNCHANGED tables

(* getKeyFn and getPayloadFn dereference the pointer they are given. *)
EntryAt(ptr) == tables[ptr[2]].buckets[ptr[3]][ptr[4]]
GetKey ==
    /\ Calls("getKey")
    /\ \E a \in Arguments(Current.srcs) :
          Returns(a[1] # Null, IF a[1] # Null THEN EntryAt(a[1]).keyData[a[2] + 1] ELSE 0)
    /\ UNCHANGED tables

GetPayload ==
    /\ Calls("getPayload")
    /\ \E a \in Arguments(Current.srcs) :
          Returns(a[1] # Null, IF a[1] # Null THEN EntryAt(a[1]).payloadData[a[2] + 1] ELSE 0)
    /\ UNCHANGED tables

AppendRow ==
    /\ Calls("appendRow")
    /\ \E a \in Arguments(Current.srcs) : rows' = Append(rows, SubSeq(a, 3, 2 + a[2]))
    /\ pc' = pc + 1
    /\ UNCHANGED <<given, regs, tables, status>>

Execute ==
    \/ WriteImmediate
    \/ MoveRegister
    \/ ComputeAlu
    \/ TakeJump
    \/ TestAndJump
    \/ ReturnFromQuery
    \/ LoadColumnValue
    \/ InsertEntry
    \/ LookupAll
    \/ MatchCount
    \/ MatchAt
    \/ GetKey
    \/ GetPayload
    \/ AppendRow
=============================================================================
