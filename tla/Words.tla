------------------------------- MODULE Words --------------------------------
(***************************************************************************)
(* The words of fastvm's operand stack and the opcodes that compute with   *)
(* them (interpreter/op_arithmetic.go).  A word has WordBytes bytes of     *)
(* ByteBits bits: 32 and 8 in the code.  The library holiman/uint256 is    *)
(* modelled by the algorithms it is documented to use (absolute values and *)
(* signs, masks and shifts), so that the opcodes can be compared with what *)
(* the EVM means by them, which Reference states on signed integers.       *)
(***************************************************************************)
EXTENDS Integers, Sequences, FiniteSetsExt

CONSTANTS WordBytes, ByteBits

ASSUME WordsAssumption == WordBytes \in Nat \ {0} /\ ByteBits \in Nat \ {0}

WordBits == WordBytes * ByteBits
ByteMod == 2 ^ ByteBits
WordMod == 2 ^ WordBits
Half == WordMod \div 2

Byte == 0 .. (ByteMod - 1)
Word == 0 .. (WordMod - 1)

\* What ^ means, as far as words reach: the provers do not know it.
ASSUME PowerAssumption ==
    /\ 2 ^ 0 = 1 /\ \A n \in 0 .. (WordBits - 1) : 2 ^ (n + 1) = 2 * 2 ^ n
    /\ ByteMod ^ 0 = 1 /\ \A n \in 0 .. (WordBytes - 1) : ByteMod ^ (n + 1) = ByteMod * ByteMod ^ n

Bool(b) == IF b THEN 1 ELSE 0

\* Bytes32 and SetBytes: the first byte is the most significant one.
Bytes32(x) == [i \in 1 .. WordBytes |-> (x \div ByteMod ^ (WordBytes - i)) % ByteMod]

SetBytes(bytes) ==
    LET value[n \in 0 .. Len(bytes)] == IF n = 0 THEN 0 ELSE value[n - 1] * ByteMod + bytes[n]
    IN  value[Len(bytes)]
-----------------------------------------------------------------------------
(***************************************************************************)
(* holiman/uint256.                                                        *)
(***************************************************************************)
Negative(x) == x >= Half
Neg(x) == (WordMod - x) % WordMod
Abs(x) == IF Negative(x) THEN Neg(x) ELSE x

SDiv(a, b) ==
    LET q == Abs(a) \div Abs(b)
    IN  IF Negative(a) # Negative(b) THEN Neg(q) ELSE q

SMod(a, b) ==
    LET r == Abs(a) % Abs(b)
    IN  IF Negative(a) THEN Neg(r) ELSE r

Slt(a, b) == IF Negative(a) = Negative(b) THEN a < b ELSE Negative(a)

Bit(x, i) == (x \div 2 ^ i) % 2

\* Square and multiply: power[n] has the n highest bits of the exponent.
Exp(base, exp) ==
    LET power[n \in 0 .. WordBits] ==
            IF n = 0 THEN 1
            ELSE LET r == power[n - 1]
                     s == (r * r) % WordMod
                 IN  IF Bit(exp, WordBits - n) = 1 THEN (s * base) % WordMod ELSE s
    IN  power[WordBits]

\* Byte b, counted from the least significant one, has the sign.
ExtendSign(x, b) ==
    LET m == ByteMod ^ (b + 1)
    IN  IF b >= WordBytes - 1 THEN x
        ELSE IF x % m >= m \div 2 THEN (x % m) + (WordMod - m) ELSE x % m

Lsh(x, n) == (x * 2 ^ n) % WordMod
Rsh(x, n) == x \div 2 ^ n
SRsh(x, n) == IF Negative(x) THEN Rsh(x, n) + (WordMod - 2 ^ (WordBits - n)) ELSE Rsh(x, n)

\* ones are the pairs of bits that make a 1; low[n] has the n lowest bits of the
\* result.
BitByBit(ones, a, b) ==
    LET low[n \in 0 .. WordBits] ==
            IF n = 0 THEN 0
            ELSE low[n - 1] + (IF <<Bit(a, n - 1), Bit(b, n - 1)>> \in ones THEN 2 ^ (n - 1) ELSE 0)
    IN  low[WordBits]
-----------------------------------------------------------------------------
(***************************************************************************)
(* The opcodes.  The first operand is the top of the stack.                *)
(***************************************************************************)
opNot(x) == (WordMod - 1) - x
opIsZero(x) == Bool(x = 0)

Unary == {"NOT", "ISZERO"}

ofUnary(op, x) == IF op = "NOT" THEN opNot(x) ELSE opIsZero(x)

opAdd(a, b) == (a + b) % WordMod
opMul(a, b) == (a * b) % WordMod

\* Fault: the operands are swapped.
opSubSwapped(a, b) == (b - a) % WordMod

opSub(a, b) == (a - b) % WordMod
opDiv(a, b) == IF b = 0 THEN 0 ELSE a \div b
opSDiv(a, b) == IF b = 0 THEN 0 ELSE SDiv(a, b)
opMod(a, b) == IF b = 0 THEN 0 ELSE a % b
opSMod(a, b) == IF b = 0 THEN 0 ELSE SMod(a, b)
opExp(base, exp) == Exp(base, exp)
opSignExtend(b, x) == ExtendSign(x, b)
opLt(a, b) == Bool(a < b)
opGt(a, b) == Bool(a > b)
opSlt(a, b) == Bool(Slt(a, b))
opSgt(a, b) == Bool(Slt(b, a))
opEq(a, b) == Bool(a = b)
opAnd(a, b) == BitByBit({<<1, 1>>}, a, b)
opOr(a, b) == BitByBit({<<0, 1>>, <<1, 0>>, <<1, 1>>}, a, b)
opXor(a, b) == BitByBit({<<0, 1>>, <<1, 0>>}, a, b)
opByte(i, x) == IF i < WordBytes THEN Bytes32(x)[i + 1] ELSE 0
opShl(shift, x) == IF shift < WordBits THEN Lsh(x, shift) ELSE 0
opShr(shift, x) == IF shift < WordBits THEN Rsh(x, shift) ELSE 0
opSar(shift, x) ==
    IF shift > WordBits - 1 THEN (IF Negative(x) THEN WordMod - 1 ELSE 0) ELSE SRsh(x, shift)

Binary ==
    {"ADD", "MUL", "SUB", "DIV", "SDIV", "MOD", "SMOD", "EXP", "SIGNEXTEND", "LT", "GT",
     "SLT", "SGT", "EQ", "AND", "OR", "XOR", "BYTE", "SHL", "SHR", "SAR"}

ofBinary(op, a, b) ==
    CASE op = "ADD" -> opAdd(a, b)   [] op = "MUL" -> opMul(a, b)
      [] op = "SUB" -> opSub(a, b)   [] op = "DIV" -> opDiv(a, b)
      [] op = "SDIV" -> opSDiv(a, b) [] op = "MOD" -> opMod(a, b)
      [] op = "SMOD" -> opSMod(a, b) [] op = "EXP" -> opExp(a, b)
      [] op = "LT" -> opLt(a, b)     [] op = "GT" -> opGt(a, b)
      [] op = "SLT" -> opSlt(a, b)   [] op = "SGT" -> opSgt(a, b)
      [] op = "EQ" -> opEq(a, b)     [] op = "AND" -> opAnd(a, b)
      [] op = "OR" -> opOr(a, b)     [] op = "XOR" -> opXor(a, b)
      [] op = "SHL" -> opShl(a, b)   [] op = "SHR" -> opShr(a, b)
      [] op = "SAR" -> opSar(a, b)   [] op = "BYTE" -> opByte(a, b)
      [] op = "SIGNEXTEND" -> opSignExtend(a, b)

Ternary == {"ADDMOD", "MULMOD"}

opAddMod(a, b, n) == IF n = 0 THEN 0 ELSE (a + b) % n
opMulMod(a, b, n) == IF n = 0 THEN 0 ELSE (a * b) % n

ofTernary(op, a, b, n) ==
    IF op = "ADDMOD" THEN opAddMod(a, b, n) ELSE opMulMod(a, b, n)
-----------------------------------------------------------------------------
(***************************************************************************)
(* What the EVM means by the opcodes: r is the result of op on a (the top  *)
(* of the stack), b and n.                                                 *)
(***************************************************************************)
Signed(x) == IF Negative(x) THEN x - WordMod ELSE x

Magnitude(i) == IF i < 0 THEN 0 - i ELSE i

Reference(op, a, b, n, r) ==
    LET sa == Signed(a)
        sb == Signed(b)
        sr == Signed(r)
    IN  CASE op = "NOT" -> a + r = WordMod - 1
          [] op = "ISZERO" -> r = Bool(a = 0)
          [] op = "ADD" -> (r - a - b) % WordMod = 0
          [] op = "MUL" -> (r - a * b) % WordMod = 0
          [] op = "SUB" -> (r + b) % WordMod = a
          [] op = "DIV" -> IF b = 0 THEN r = 0 ELSE r * b <= a /\ a < (r + 1) * b
          [] op = "MOD" -> IF b = 0 THEN r = 0 ELSE r < b /\ (a - r) % b = 0
          \* rounds towards zero; the quotient of the least word by -1 wraps
          [] op = "SDIV" ->
                IF b = 0 THEN r = 0
                ELSE IF sa = 0 - Half /\ sb = -1 THEN r = a
                ELSE /\ Magnitude(sr * sb) <= Magnitude(sa)
                     /\ Magnitude(sa - sr * sb) < Magnitude(sb)
                     /\ sr # 0 => ((sr > 0) <=> ((sa > 0) = (sb > 0)))
          [] op = "SMOD" ->
                IF b = 0 THEN r = 0
                ELSE /\ Magnitude(sr) < Magnitude(sb)
                     /\ (sa - sr) % Magnitude(sb) = 0
                     /\ sr # 0 => ((sr > 0) <=> (sa > 0))
          [] op = "EXP" -> IF b = 0 THEN r = 1 ELSE r = (Exp(a, b - 1) * a) % WordMod
          [] op = "SIGNEXTEND" ->
                IF a >= WordBytes THEN r = b
                ELSE LET m == ByteMod ^ (a + 1)
                     IN  (sr - b) % m = 0 /\ 0 - m <= 2 * sr /\ 2 * sr < m
          [] op = "LT" -> r = Bool(a < b)
          [] op = "GT" -> r = Bool(a > b)
          [] op = "SLT" -> r = Bool(sa < sb)
          [] op = "SGT" -> r = Bool(sa > sb)
          [] op = "EQ" -> r = Bool(a = b)
          [] op = "AND" -> r + opOr(a, b) = a + b
          [] op = "OR" -> r - opXor(a, b) = opAnd(a, b)
          [] op = "XOR" -> r = a + b - 2 * opAnd(a, b)
          [] op = "BYTE" ->
                r = (IF a >= WordBytes THEN 0 ELSE b \div ByteMod ^ (WordBytes - 1 - a)) % ByteMod
          [] op = "SHL" -> r = IF a >= WordBits THEN 0 ELSE (b * 2 ^ a) % WordMod
          [] op = "SHR" -> r = IF a >= WordBits THEN 0 ELSE b \div 2 ^ a
          [] op = "SAR" -> sr = IF a >= WordBits THEN (IF sb < 0 THEN -1 ELSE 0) ELSE sb \div 2 ^ a
          [] op = "ADDMOD" -> IF n = 0 THEN r = 0 ELSE r < n /\ (a + b - r) % n = 0
          [] op = "MULMOD" -> IF n = 0 THEN r = 0 ELSE r < n /\ (a * b - r) % n = 0
=============================================================================
