------------------------------ MODULE HostInt ------------------------------
(***************************************************************************)
(* The integers of the program that compiles and of the program that is    *)
(* compiled: WordBits-bit two's complement words, int64_t in the code.     *)
(* Signed overflow in tryConstFold is undefined in C++; the build wraps.   *)
(***************************************************************************)
EXTENDS Integers, FiniteSetsExt

CONSTANTS
    WordBits,   \* 64 in the code
    TypeShift   \* 56 in the code: the type tag of a cache key starts here

ASSUME HostIntAssumption == WordBits \in Nat /\ TypeShift \in 1..WordBits

Modulus == 2^WordBits
Signed(x) == LET m == x % Modulus IN IF 2 * m >= Modulus THEN m - Modulus ELSE m
Bit(x, i) == (x \div 2^i) % 2 = 1
FromBits(S) == Signed(MapThenSumSet(LAMBDA i : 2^i, S))
BitAnd(a, b) == FromBits({i \in 0..WordBits-1 : Bit(a, i) /\ Bit(b, i)})
BitOr(a, b)  == FromBits({i \in 0..WordBits-1 : Bit(a, i) \/ Bit(b, i)})
BitXor(a, b) == FromBits({i \in 0..WordBits-1 : Bit(a, i) # Bit(b, i)})
Abs(x) == IF x < 0 THEN -x ELSE x
(* C++ division truncates towards zero *)
Quotient(a, b) ==
    LET q == Abs(a) \div Abs(b) IN Signed(IF (a < 0) # (b < 0) THEN -q ELSE q)
Bool01(b) == IF b THEN 1 ELSE 0

Holds(op, a, b) ==
    CASE op = "CmpEq" -> a = b
      [] op = "CmpNe" -> a # b
      [] op = "CmpLt" -> a < b
      [] op = "CmpGt" -> a > b
      [] op = "CmpLe" -> a <= b
      [] op = "CmpGe" -> a >= b

(* The switch of tryConstFold *)
FoldValue(op, a, b) ==
    CASE op = "Add"  -> Signed(a + b)
      [] op = "Sub"  -> Signed(a - b)
      [] op = "Mul"  -> Signed(a * b)
      [] op = "Div"  -> Quotient(a, b)
      [] op = "And"  -> BitAnd(a, b)
      [] op = "Or"   -> BitOr(a, b)
      [] op = "Xor"  -> BitXor(a, b)
      [] op = "LAnd" -> Bool01(a # 0 /\ b # 0)
      [] op = "LOr"  -> Bool01(a # 0 \/ b # 0)
      [] OTHER       -> Bool01(Holds(op, a, b))

TypeTag(t) ==
    CASE t = "Void"   -> 0
      [] t = "Bool"   -> 1
      [] t = "Int32"  -> 2
      [] t = "Int64"  -> 3
      [] t = "UInt64" -> 4
      [] t = "Double" -> 5
      [] t = "Ptr"    -> 6

(* The key addConstInt builds: (type << 56) ^ value *)
TaggedKey(v, t) == BitXor(TypeTag(t) * 2^TypeShift, v)
=============================================================================
