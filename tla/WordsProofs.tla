---------------------------- MODULE WordsProofs -----------------------------
(***************************************************************************)
(* Facts about words, bytes and powers, for every size of words and bytes, *)
(* and what the opcodes of op_arithmetic.go compute.                       *)
(***************************************************************************)
EXTENDS Words, Recursion, FiniteSetTheorems

(***************************************************************************)
(* Powers.                                                                 *)
(***************************************************************************)
\* The sizes.
LEMMA Sizes ==
    /\ WordBytes \in Nat \ {0} /\ ByteBits \in Nat \ {0}
    /\ WordBits \in Nat \ {0} /\ ByteBits <= WordBits
<1>1. WordBytes \in Nat \ {0} /\ ByteBits \in Nat \ {0}
  BY WordsAssumption
<1>2. ByteBits * WordBytes >= ByteBits
  BY <1>1, Products
<1>3. WordBits = ByteBits * WordBytes
  BY <1>1 DEF WordBits
<1> QED BY <1>1, <1>2, <1>3

\* Powers of two are positive.
LEMMA Twos == \A n \in 0 .. WordBits : 2 ^ n \in Nat \ {0}
<1> DEFINE T == {n \in 0 .. WordBits : 2 ^ n \in Nat \ {0}}
<1>1. 0 \in T
  BY PowerAssumption, Sizes
<1>2. ASSUME NEW n \in 0 .. WordBits, n \in T, n < WordBits
      PROVE  n + 1 \in T
  <2>1. n \in 0 .. (WordBits - 1) /\ n + 1 \in 0 .. WordBits
    BY <1>2, Sizes
  <2>2. PICK x : x = 2 ^ n
    OBVIOUS
  <2>3. x \in Nat \ {0}
    BY <1>2, <2>2
  <2>4. 2 ^ (n + 1) = 2 * x
    BY <2>1, <2>2, PowerAssumption
  <2>5. 2 * x \in Nat \ {0}
    BY <2>3
  <2> QED BY <2>1, <2>4, <2>5
<1> HIDE DEF T
<1>3. WordBits \in Nat
  BY Sizes
<1>4. \A n \in 0 .. WordBits : n \in T
  BY <1>1, <1>2, <1>3, CountingUp
<1> QED BY <1>4 DEF T

\* The power of a sum is the product of the powers.
LEMMA TwosAdd ==
    ASSUME NEW m \in Nat, NEW k \in Nat, m + k <= WordBits
    PROVE  2 ^ (m + k) = 2 ^ m * 2 ^ k
<1> DEFINE T == {n \in 0 .. k : 2 ^ (m + n) = 2 ^ m * 2 ^ n}
<1>0. WordBits \in Nat
  BY Sizes
<1>1. 0 \in T
  <2>1. m + 0 = m /\ m \in 0 .. WordBits
    BY <1>0
  <2>2. PICK x : x = 2 ^ m
    OBVIOUS
  <2>3. x \in Nat
    BY <2>1, <2>2, Twos
  <2>4. x * 1 = x /\ 2 ^ 0 = 1
    BY <2>3, PowerAssumption
  <2>5. 2 ^ (m + 0) = 2 ^ m * 2 ^ 0
    BY <2>1, <2>2, <2>4
  <2> QED BY <2>5
<1>2. ASSUME NEW n \in 0 .. k, n \in T, n < k
      PROVE  n + 1 \in T
  <2>1. n + 1 \in 0 .. k /\ n \in 0 .. WordBits /\ n \in 0 .. (WordBits - 1) /\ m \in 0 .. WordBits
        /\ m + n \in 0 .. WordBits /\ m + n \in 0 .. (WordBits - 1) /\ m + (n + 1) = (m + n) + 1
    BY <1>0, <1>2
  <2>2. PICK x, y, z : x = 2 ^ m /\ y = 2 ^ n /\ z = 2 ^ (m + n)
    OBVIOUS
  <2>3. x \in Nat /\ y \in Nat /\ z \in Nat
    BY <2>1, <2>2, Twos
  <2>4. z = x * y
    BY <1>2, <2>2
  <2>5. 2 ^ (n + 1) = 2 * y /\ 2 ^ ((m + n) + 1) = 2 * z
    BY <2>1, <2>2, PowerAssumption
  <2>6. 2 * z = x * (2 * y)
    BY <2>3, <2>4
  <2>7. 2 ^ (m + (n + 1)) = 2 ^ m * 2 ^ (n + 1)
    BY <2>1, <2>2, <2>5, <2>6
  <2> QED BY <2>1, <2>7
<1> HIDE DEF T
<1>3. \A n \in 0 .. k : n \in T
  BY <1>1, <1>2, CountingUp
<1> QED BY <1>3 DEF T

\* A byte and a word have more than one value.
LEMMA Moduli ==
    /\ ByteMod \in Nat /\ ByteMod >= 2
    /\ WordMod \in Nat /\ WordMod >= 2
    /\ Half \in Nat \ {0} /\ WordMod = 2 * Half
<1>1. ASSUME NEW n \in 1 .. WordBits
      PROVE  2 ^ n \in Nat /\ 2 ^ n >= 2 /\ 2 ^ n = 2 * 2 ^ (n - 1) /\ 2 ^ (n - 1) \in Nat \ {0}
  <2>1. /\ n - 1 \in 0 .. (WordBits - 1) /\ n \in 0 .. WordBits /\ (n - 1) + 1 = n
        /\ n - 1 \in 0 .. WordBits
    BY Sizes
  <2>2. PICK x, y : x = 2 ^ (n - 1) /\ y = 2 ^ n
    OBVIOUS
  <2>3. x \in Nat \ {0}
    BY <2>1, <2>2, Twos
  <2>4. y = 2 * x
    BY <2>1, <2>2, PowerAssumption
  <2>5. y \in Nat /\ y >= 2
    BY <2>3, <2>4
  <2> QED BY <2>2, <2>3, <2>4, <2>5
<1>2. ByteBits \in 1 .. WordBits /\ WordBits \in 1 .. WordBits
  BY Sizes
<1>3. ByteMod \in Nat /\ ByteMod >= 2 /\ WordMod \in Nat /\ WordMod >= 2
  BY <1>1, <1>2 DEF ByteMod, WordMod
<1>4. PICK x : x \in Nat \ {0} /\ WordMod = 2 * x
  BY <1>1, <1>2 DEF WordMod
<1>5. Half = x
  BY <1>4 DEF Half
<1> QED BY <1>3, <1>4, <1>5

\* The powers of ByteMod are powers of two.
LEMMA BytePowers ==
    ASSUME NEW n \in 0 .. WordBytes
    PROVE  /\ ByteMod ^ n \in Nat \ {0} /\ ByteMod ^ n = 2 ^ (n * ByteBits)
           /\ n * ByteBits \in 0 .. WordBits
<1> DEFINE T == {k \in 0 .. WordBytes : ByteMod ^ k = 2 ^ (k * ByteBits)}
<1>0. WordBytes \in Nat /\ ByteBits \in Nat /\ WordBits \in Nat
  BY Sizes
<1>1. ASSUME NEW k \in 0 .. WordBytes
      PROVE  k * ByteBits \in 0 .. WordBits
  <2>1. (WordBytes - k) * ByteBits >= 0 /\ k * ByteBits >= 0
    BY <1>0
  <2>2. WordBits = k * ByteBits + (WordBytes - k) * ByteBits
    BY <1>0 DEF WordBits
  <2>3. PICK x, y : x = k * ByteBits /\ y = (WordBytes - k) * ByteBits
    OBVIOUS
  <2>4. x \in Int /\ y \in Int
    BY <1>0, <2>3
  <2> QED BY <1>0, <2>1, <2>2, <2>3, <2>4
<1>2. 0 \in T
  <2>1. 0 * ByteBits = 0 /\ 0 \in 0 .. WordBytes
    BY <1>0
  <2>2. ByteMod ^ 0 = 2 ^ (0 * ByteBits)
    BY <2>1, PowerAssumption
  <2> QED BY <2>1, <2>2
<1>3. ASSUME NEW k \in 0 .. WordBytes, k \in T, k < WordBytes
      PROVE  k + 1 \in T
  <2>1. k + 1 \in 0 .. WordBytes /\ k \in 0 .. (WordBytes - 1)
    BY <1>0, <1>3
  <2>2. (k + 1) * ByteBits = ByteBits + k * ByteBits
    BY <1>0
  <2>3. k * ByteBits \in Nat /\ ByteBits + k * ByteBits <= WordBits
    <3>1. (k + 1) * ByteBits \in 0 .. WordBits /\ k * ByteBits \in 0 .. WordBits
      BY <1>1, <2>1
    <3> QED BY <1>0, <2>2, <3>1
  <2>4. 2 ^ (ByteBits + k * ByteBits) = 2 ^ ByteBits * 2 ^ (k * ByteBits)
    <3>1. PICK j : j = k * ByteBits
      OBVIOUS
    <3> QED BY <1>0, <2>3, <3>1, TwosAdd
  <2>5. ByteMod ^ (k + 1) = ByteMod * ByteMod ^ k
    BY <2>1, PowerAssumption
  <2>6. ByteMod ^ k = 2 ^ (k * ByteBits) /\ ByteMod = 2 ^ ByteBits
    BY <1>3 DEF ByteMod
  <2>7. ByteMod ^ (k + 1) = 2 ^ ((k + 1) * ByteBits)
    BY <2>2, <2>4, <2>5, <2>6
  <2> QED BY <2>1, <2>7
<1> HIDE DEF T
<1>4. \A k \in 0 .. WordBytes : k \in T
  BY <1>0, <1>2, <1>3, CountingUp
<1>5. ByteMod ^ n = 2 ^ (n * ByteBits)
  BY <1>4 DEF T
<1>6. n * ByteBits \in 0 .. WordBits
  BY <1>1
<1>7. 2 ^ (n * ByteBits) \in Nat \ {0}
  BY <1>6, Twos
<1> QED BY <1>5, <1>6, <1>7

\* A word is all its bytes.
LEMMA WordOfBytes == ByteMod ^ WordBytes = WordMod
<1>1. WordBytes \in 0 .. WordBytes
  BY Sizes
<1> QED BY <1>1, BytePowers DEF WordMod, WordBits

\* The greater and the smaller of two integers.
LEMMA OfTwo ==
    ASSUME NEW a \in Int, NEW b \in Int
    PROVE  /\ Max({a, b}) = IF a >= b THEN a ELSE b
           /\ Min({a, b}) = IF a <= b THEN a ELSE b
<1>1. \E x \in {a, b} : \A y \in {a, b} : x >= y
  OBVIOUS
<1>2. \E x \in {a, b} : \A y \in {a, b} : x <= y
  OBVIOUS
<1>3. Max({a, b}) \in {a, b} /\ \A y \in {a, b} : Max({a, b}) >= y
  BY <1>1 DEF Max
<1>4. Min({a, b}) \in {a, b} /\ \A y \in {a, b} : Min({a, b}) <= y
  BY <1>2 DEF Min
<1> QED BY <1>3, <1>4

-----------------------------------------------------------------------------
(***************************************************************************)
(* Bytes.                                                                  *)
(***************************************************************************)
\* A byte is a natural number.
LEMMA ByteType == Byte \subseteq Nat /\ Byte \subseteq Word
<1>1. ByteMod \in Nat /\ WordMod \in Nat
  BY Moduli
<1>2. ByteMod <= WordMod
  <2>1. WordBytes - 1 \in 0 .. (WordBytes - 1) /\ WordBytes - 1 \in 0 .. WordBytes
        /\ (WordBytes - 1) + 1 = WordBytes
    BY Sizes
  <2>2. PICK x : x = ByteMod ^ (WordBytes - 1)
    OBVIOUS
  <2>3. x \in Nat \ {0}
    BY <2>1, <2>2, BytePowers
  <2>4. WordMod = ByteMod * x
    BY <2>1, <2>2, PowerAssumption, WordOfBytes
  <2>5. ByteMod * x >= ByteMod
    <3>1. ByteMod \in Nat \ {0} /\ x \in Int /\ x >= 1
      BY <2>3, Moduli
    <3> QED BY <3>1, Products
  <2> QED BY <2>4, <2>5
<1> QED BY <1>1, <1>2 DEF Byte, Word

Horner(bytes) == [p \in (1 .. Len(bytes)) \X Nat |-> p[2] * ByteMod + bytes[p[1]]]

\* SetBytes takes one byte after another.
LEMMA SetBytesIs ==
    ASSUME NEW bytes \in Seq(Byte)
    PROVE  \E g \in [0 .. Len(bytes) -> Nat] :
              /\ SetBytes(bytes) = g[Len(bytes)] /\ g[0] = 0
              /\ \A n \in 1 .. Len(bytes) : g[n] = g[n - 1] * ByteMod + bytes[n]
<1> DEFINE N == Len(bytes)
<1> DEFINE value[n \in 0 .. N] == IF n = 0 THEN 0 ELSE value[n - 1] * ByteMod + bytes[n]
<1>1. N \in Nat /\ \A n \in 1 .. N : bytes[n] \in Byte
  OBVIOUS
<1>2. SetBytes(bytes) = value[N]
  BY DEF SetBytes
<1>3. Horner(bytes) \in [(1 .. N) \X Nat -> Nat]
  <2>1. ASSUME NEW p \in (1 .. N) \X Nat
        PROVE  p[2] * ByteMod + bytes[p[1]] \in Nat
    <3>1. bytes[p[1]] \in Nat /\ ByteMod \in Nat /\ p[2] \in Nat
      BY <1>1, ByteType, Moduli
    <3> QED BY <3>1
  <2> QED BY <2>1 DEF Horner
<1>4. \A n \in 1 .. N, x \in Nat : Horner(bytes)[<<n, x>>] = x * ByteMod + bytes[n]
  BY DEF Horner
<1> HIDE DEF N
<1>5. PICK f \in [0 .. N -> Nat] : Recursive(f, N, 0, Horner(bytes))
  BY <1>1, <1>3, RecursionExists
<1>6. f = [n \in 0 .. N |-> IF n = 0 THEN 0 ELSE f[n - 1] * ByteMod + bytes[n]]
  <2>1. ASSUME NEW n \in 0 .. N
        PROVE  f[n] = IF n = 0 THEN 0 ELSE f[n - 1] * ByteMod + bytes[n]
    <3>1. CASE n = 0
      BY <1>5, <3>1 DEF Recursive
    <3>2. CASE n # 0
      <4>1. n \in 1 .. N /\ n - 1 \in 0 .. N
        BY <1>1, <3>2
      <4>2. f[n - 1] \in Nat
        BY <1>5, <4>1
      <4> QED BY <1>4, <1>5, <3>2, <4>1, <4>2 DEF Recursive
    <3> QED BY <3>1, <3>2
  <2> QED BY <2>1
<1>7. value = [n \in 0 .. N |-> IF n = 0 THEN 0 ELSE value[n - 1] * ByteMod + bytes[n]]
  <2>1. \E g : g = [n \in 0 .. N |-> IF n = 0 THEN 0 ELSE g[n - 1] * ByteMod + bytes[n]]
    BY <1>6
  <2> QED BY <2>1
<1> HIDE DEF value
<1> DEFINE T == {n \in 0 .. N : value[n] = f[n]}
<1>8. 0 \in T
  BY <1>1, <1>6, <1>7
<1>9. ASSUME NEW n \in 0 .. N, n \in T, n < N
      PROVE  n + 1 \in T
  <2>1. n + 1 \in 0 .. N /\ n + 1 # 0 /\ (n + 1) - 1 = n
    BY <1>1, <1>9
  <2>2. value[n + 1] = value[n] * ByteMod + bytes[n + 1] /\ f[n + 1] = f[n] * ByteMod + bytes[n + 1]
    BY <1>6, <1>7, <2>1
  <2> QED BY <1>9, <2>1, <2>2
<1> HIDE DEF T
<1>a. \A n \in 0 .. N : n \in T
  BY <1>1, <1>8, <1>9, CountingUp
<1>10. SetBytes(bytes) = f[N]
  <2>1. N \in T
    BY <1>1, <1>a
  <2> QED BY <1>2, <2>1 DEF T
<1>11. f[0] = 0
  BY <1>5 DEF Recursive
<1>12. ASSUME NEW n \in 1 .. N
       PROVE  f[n] = f[n - 1] * ByteMod + bytes[n]
  <2>1. n \in 0 .. N /\ n # 0
    BY <1>1
  <2> QED BY <1>6, <2>1
<1> QED BY <1>5, <1>10, <1>11, <1>12 DEF N

\* The number that bytes stand for is a natural number.
LEMMA SetBytesType ==
    ASSUME NEW bytes \in Seq(Byte)
    PROVE  SetBytes(bytes) \in Nat
<1>1. PICK g \in [0 .. Len(bytes) -> Nat] : SetBytes(bytes) = g[Len(bytes)]
  BY SetBytesIs
<1>2. Len(bytes) \in 0 .. Len(bytes)
  OBVIOUS
<1> QED BY <1>1, <1>2

\* No more bytes than a word has stand for a word.
LEMMA SetBytesWord ==
    ASSUME NEW bytes \in Seq(Byte), Len(bytes) <= WordBytes
    PROVE  SetBytes(bytes) \in Word
<1> DEFINE N == Len(bytes)
<1>0. N \in Nat /\ N <= WordBytes /\ WordBytes \in Nat
  BY Sizes
<1>1. PICK g \in [0 .. N -> Nat] :
        /\ SetBytes(bytes) = g[N] /\ g[0] = 0
        /\ \A n \in 1 .. N : g[n] = g[n - 1] * ByteMod + bytes[n]
  BY SetBytesIs
<1>2. \A n \in 1 .. N : bytes[n] \in Byte
  OBVIOUS
<1> HIDE DEF N
<1> DEFINE T == {n \in 0 .. N : g[n] < ByteMod ^ n}
<1>3. 0 \in T
  <2>1. g[0] = 0 /\ ByteMod ^ 0 = 1 /\ 0 \in 0 .. N
    BY <1>0, <1>1, PowerAssumption
  <2> QED BY <2>1
<1>4. ASSUME NEW n \in 0 .. N, n \in T, n < N
      PROVE  n + 1 \in T
  <2>1. n + 1 \in 0 .. N /\ n + 1 \in 1 .. N /\ (n + 1) - 1 = n /\ n \in 0 .. (WordBytes - 1)
        /\ n \in 0 .. WordBytes
    BY <1>0, <1>4
  <2>2. g[n + 1] = g[n] * ByteMod + bytes[n + 1]
    BY <1>1, <2>1
  <2>3. ByteMod ^ (n + 1) = ByteMod * ByteMod ^ n
    BY <2>1, PowerAssumption
  <2>4. PICK x, y, b : x = g[n] /\ y = ByteMod ^ n /\ b = bytes[n + 1]
    OBVIOUS
  <2>5. x \in Nat /\ y \in Nat /\ b \in Nat /\ b < ByteMod /\ ByteMod \in Nat /\ x < y
    <3>1. x \in Nat /\ x < y
      BY <1>4, <2>1, <2>4
    <3>2. y \in Nat
      BY <2>1, <2>4, BytePowers
    <3>3. b \in Byte
      BY <1>2, <2>1, <2>4
    <3>4. b \in Nat /\ b < ByteMod /\ ByteMod \in Nat
      BY <3>3, Moduli, ByteType DEF Byte
    <3> QED BY <3>1, <3>2, <3>4
  <2>6. x * ByteMod + b < ByteMod * y
    <3>1. ByteMod * (y - x - 1) >= 0
      BY <2>5
    <3>2. ByteMod * (y - x - 1) = ByteMod * y - x * ByteMod - ByteMod
      BY <2>5
    <3>3. PICK u, v : u = ByteMod * y /\ v = x * ByteMod
      OBVIOUS
    <3>4. u \in Int /\ v \in Int
      BY <2>5, <3>3
    <3> QED BY <2>5, <3>1, <3>2, <3>3, <3>4
  <2>7. g[n + 1] < ByteMod ^ (n + 1)
    BY <2>2, <2>3, <2>4, <2>6
  <2> QED BY <2>1, <2>7
<1> HIDE DEF T
<1>5. \A n \in 0 .. N : n \in T
  BY <1>0, <1>3, <1>4, CountingUp
<1>6. N \in 0 .. N /\ N \in 0 .. WordBytes
  BY <1>0
<1>7. SetBytes(bytes) \in Nat /\ SetBytes(bytes) < ByteMod ^ N
  BY <1>1, <1>5, <1>6 DEF T
<1>8. ByteMod ^ N <= WordMod
  <2>1. WordBytes \in 0 .. WordBytes /\ N * ByteBits \in Nat /\ WordBytes * ByteBits \in Nat
        /\ WordBytes * ByteBits = WordBits
    BY <1>0, Sizes DEF WordBits
  <2>2. PICK j, k : j = N * ByteBits /\ k = (WordBytes - N) * ByteBits
    OBVIOUS
  <2>3. j \in Nat /\ k \in Nat /\ j + k = WordBits
    BY <1>0, <2>1, <2>2, Sizes
  <2>4. 2 ^ (j + k) = 2 ^ j * 2 ^ k
    BY <2>3, TwosAdd, Sizes
  <2>5. PICK x, y : x = 2 ^ j /\ y = 2 ^ k
    OBVIOUS
  <2>6. x \in Nat \ {0} /\ y \in Nat \ {0}
    BY <2>3, <2>5, Twos, Sizes
  <2>7. x * y >= x
    BY <2>6, Products
  <2>8. ByteMod ^ N = x /\ WordMod = x * y
    BY <1>6, <2>2, <2>3, <2>4, <2>5, BytePowers DEF WordMod
  <2> QED BY <2>7, <2>8
<1> QED
  <2>1. PICK x : x = ByteMod ^ N
    OBVIOUS
  <2>2. x \in Nat
    BY <1>6, <2>1, BytePowers
  <2> QED BY <1>7, <1>8, <2>1, <2>2, Moduli DEF Word

\* A word has WordBytes bytes.
LEMMA Bytes32Type ==
    ASSUME NEW x \in Word
    PROVE  Bytes32(x) \in Seq(Byte) /\ Len(Bytes32(x)) = WordBytes
<1>1. ASSUME NEW i \in 1 .. WordBytes
      PROVE  (x \div ByteMod ^ (WordBytes - i)) % ByteMod \in Byte
  <2>1. WordBytes - i \in 0 .. WordBytes
    BY Sizes
  <2>2. PICK p : p = ByteMod ^ (WordBytes - i)
    OBVIOUS
  <2>3. p \in Nat \ {0} /\ x \in Int
    BY <2>1, <2>2, BytePowers, Moduli DEF Word
  <2>4. x \div p \in Int /\ ByteMod \in Nat \ {0}
    BY <2>3, DivMod, Moduli
  <2> QED BY <2>2, <2>4, DivMod DEF Byte
<1>2. WordBytes \in Nat
  BY Sizes
<1> QED BY <1>1, <1>2 DEF Bytes32

-----------------------------------------------------------------------------
(***************************************************************************)
(* The results of the opcodes are words.                                   *)
(***************************************************************************)
\* Words are integers, and remainders by WordMod are words.
LEMMA WordType ==
    /\ Word \subseteq Nat /\ 0 \in Word /\ 1 \in Word /\ WordMod - 1 \in Word
    /\ \A x \in Int : x % WordMod \in Word
<1>1. WordMod \in Nat /\ WordMod >= 2
  BY Moduli
<1>2. \A x \in Int : x % WordMod \in 0 .. (WordMod - 1)
  BY <1>1
<1> QED BY <1>1, <1>2 DEF Word

\* A number up to a word is a word.
LEMMA WordBelow ==
    ASSUME NEW x \in Word, NEW y \in 0 .. x
    PROVE  y \in Word
BY Moduli DEF Word

\* Truth values are words.
LEMMA BoolType == \A b : Bool(b) \in Word
BY WordType DEF Bool

\* Absolute values.
LEMMA AbsType ==
    ASSUME NEW x \in Word
    PROVE  /\ Neg(x) \in Word /\ Neg(x) = (IF x = 0 THEN 0 ELSE WordMod - x)
           /\ Abs(x) \in 0 .. Half /\ Abs(x) \in Word /\ (Abs(x) = 0 <=> x = 0)
           /\ Abs(x) = IF x >= Half THEN WordMod - x ELSE x
<1>1. WordMod \in Nat /\ Half \in Nat \ {0} /\ WordMod = 2 * Half /\ x \in 0 .. (WordMod - 1)
  BY Moduli DEF Word
<1>2. Neg(x) = IF x = 0 THEN 0 ELSE WordMod - x
  <2>1. CASE x = 0
    <3>1. WordMod % WordMod = 0
      BY <1>1
    <3> QED BY <1>1, <2>1, <3>1 DEF Neg
  <2>2. CASE x # 0
    <3>1. WordMod - x \in 0 .. (WordMod - 1)
      BY <1>1, <2>2
    <3>2. (WordMod - x) % WordMod = WordMod - x
      BY <1>1, <3>1
    <3> QED BY <2>2, <3>2 DEF Neg
  <2> QED BY <2>1, <2>2
<1>3. Abs(x) = IF x >= Half THEN WordMod - x ELSE x
  BY <1>1, <1>2 DEF Abs, Negative
<1> QED BY <1>1, <1>2, <1>3 DEF Word

\* Quotients and remainders of words.
LEMMA QuotientType ==
    ASSUME NEW a \in Word, NEW b \in Word, b # 0
    PROVE  a \div b \in Word /\ a % b \in Word
<1>1. a \in Nat /\ b \in Nat \ {0}
  BY WordType
<1>2. a \div b \in Word
  <2>1. a \div b \in 0 .. a
    BY <1>1, DivNat
  <2>2. PICK q : q = a \div b
    OBVIOUS
  <2> QED BY <2>1, <2>2, WordBelow
<1>3. a % b \in Word
  <2>1. a % b \in 0 .. (b - 1)
    BY <1>1, DivMod
  <2>2. PICK r : r = a % b
    OBVIOUS
  <2>3. r \in 0 .. b
    BY <1>1, <2>1, <2>2
  <2> QED BY <2>2, <2>3, WordBelow
<1> QED BY <1>2, <1>3

\* Arithmetic.
LEMMA ArithmeticType ==
    ASSUME NEW a \in Word, NEW b \in Word
    PROVE  /\ opAdd(a, b) \in Word /\ opMul(a, b) \in Word /\ opSub(a, b) \in Word
           /\ opDiv(a, b) \in Word /\ opMod(a, b) \in Word
           /\ opSDiv(a, b) \in Word /\ opSMod(a, b) \in Word
<1>1. a \in Nat /\ b \in Nat
  BY WordType
<1>2. a + b \in Int /\ a * b \in Int /\ a - b \in Int
  BY <1>1
<1>3. opAdd(a, b) \in Word /\ opMul(a, b) \in Word /\ opSub(a, b) \in Word
  BY <1>2, WordType DEF opAdd, opMul, opSub
<1>4. opDiv(a, b) \in Word /\ opMod(a, b) \in Word
  BY QuotientType, WordType DEF opDiv, opMod
<1>5. ASSUME b # 0
      PROVE  SDiv(a, b) \in Word /\ SMod(a, b) \in Word
  <2>1. PICK x, y : x = Abs(a) /\ y = Abs(b)
    OBVIOUS
  <2>2. x \in Word /\ y \in Word /\ y # 0
    BY <1>5, <2>1, AbsType
  <2>3. PICK q, r : q = x \div y /\ r = x % y
    OBVIOUS
  <2>4. q \in Word /\ r \in Word
    BY <2>2, <2>3, QuotientType
  <2>5. Neg(q) \in Word /\ Neg(r) \in Word
    BY <2>4, AbsType
  <2> QED BY <2>1, <2>3, <2>4, <2>5 DEF SDiv, SMod
<1>6. opSDiv(a, b) \in Word /\ opSMod(a, b) \in Word
  BY <1>5, WordType DEF opSDiv, opSMod
<1> QED BY <1>3, <1>4, <1>6

Squaring(base, exp) ==
    [p \in (1 .. WordBits) \X Word |->
        IF Bit(exp, WordBits - p[1]) = 1 THEN (((p[2] * p[2]) % WordMod) * base) % WordMod
        ELSE (p[2] * p[2]) % WordMod]

\* Exp takes one bit of the exponent after another.
LEMMA ExpIs ==
    ASSUME NEW base \in Word, NEW exp \in Word
    PROVE  \E g \in [0 .. WordBits -> Word] :
              /\ Exp(base, exp) = g[WordBits] /\ g[0] = 1
              /\ \A n \in 1 .. WordBits :
                    g[n] = IF Bit(exp, WordBits - n) = 1
                           THEN (((g[n - 1] * g[n - 1]) % WordMod) * base) % WordMod
                           ELSE (g[n - 1] * g[n - 1]) % WordMod
<1> DEFINE N == WordBits
<1> DEFINE step(n, x) == IF Bit(exp, N - n) = 1 THEN (((x * x) % WordMod) * base) % WordMod
                         ELSE (x * x) % WordMod
<1> DEFINE power[n \in 0 .. N] ==
            IF n = 0 THEN 1
            ELSE LET r == power[n - 1]
                     s == (r * r) % WordMod
                 IN  IF Bit(exp, N - n) = 1 THEN (s * base) % WordMod ELSE s
<1>1. N \in Nat
  BY Sizes
<1>2. Exp(base, exp) = power[N]
  BY DEF Exp
<1>3. Squaring(base, exp) \in [(1 .. N) \X Word -> Word]
  <2>1. ASSUME NEW n, NEW x \in Word
        PROVE  step(n, x) \in Word
    <3>1. PICK s : s = (x * x) % WordMod
      OBVIOUS
    <3>2. x * x \in Int
      BY WordType
    <3>3. s \in Word
      BY <3>1, <3>2, WordType
    <3>4. s * base \in Int
      BY <3>3, WordType
    <3>5. (s * base) % WordMod \in Word
      BY <3>4, WordType
    <3> QED BY <3>1, <3>3, <3>5
  <2> QED BY <2>1 DEF Squaring
<1>4. \A n \in 1 .. N, x \in Word : Squaring(base, exp)[<<n, x>>] = step(n, x)
  BY DEF Squaring
<1>5. PICK g \in [0 .. N -> Word] : Recursive(g, N, 1, Squaring(base, exp))
  <2> HIDE DEF N, step
  <2> QED BY <1>1, <1>3, WordType, RecursionExists
<1>6. g[0] = 1 /\ \A n \in 1 .. N : g[n] = step(n, g[n - 1])
  <2>1. g[0] = 1 /\ \A n \in 1 .. N : g[n] = Squaring(base, exp)[<<n, g[n - 1]>>]
    BY <1>5 DEF Recursive
  <2> HIDE DEF N, step
  <2>2. ASSUME NEW n \in 1 .. N
        PROVE  g[n] = step(n, g[n - 1])
    <3>1. n - 1 \in 0 .. N
      BY <1>1
    <3>2. g[n - 1] \in Word
      BY <1>5, <3>1
    <3> QED BY <1>4, <2>1, <3>2
  <2> QED BY <2>1, <2>2
<1>7. g = [n \in 0 .. N |->
            IF n = 0 THEN 1
            ELSE LET r == g[n - 1]
                     s == (r * r) % WordMod
                 IN  IF Bit(exp, N - n) = 1 THEN (s * base) % WordMod ELSE s]
  <2>1. ASSUME NEW n \in 0 .. N
        PROVE  g[n] = IF n = 0 THEN 1 ELSE step(n, g[n - 1])
    <3>1. n = 0 \/ n \in 1 .. N
      BY <1>1
    <3> HIDE DEF N, step
    <3> QED BY <1>6, <3>1
  <2>2. g = [n \in 0 .. N |-> IF n = 0 THEN 1 ELSE step(n, g[n - 1])]
    <3> HIDE DEF N, step
    <3> QED BY <1>5, <2>1
  <2> QED BY <2>2
<1>8. power = [n \in 0 .. N |->
            IF n = 0 THEN 1
            ELSE LET r == power[n - 1]
                     s == (r * r) % WordMod
                 IN  IF Bit(exp, N - n) = 1 THEN (s * base) % WordMod ELSE s]
  <2>1. \E h : h = [n \in 0 .. N |->
            IF n = 0 THEN 1
            ELSE LET r == h[n - 1]
                     s == (r * r) % WordMod
                 IN  IF Bit(exp, N - n) = 1 THEN (s * base) % WordMod ELSE s]
    BY <1>7, Zenon
  <2> QED BY <2>1, Zenon
<1>9. power[0] = 1 /\ \A n \in 1 .. N : power[n] = step(n, power[n - 1])
  <2> HIDE DEF power
  <2>1. 0 \in 0 .. N /\ \A n \in 1 .. N : n \in 0 .. N /\ n # 0
    BY <1>1
  <2> HIDE DEF N
  <2> QED BY <1>8, <2>1
<1> HIDE DEF power, step
<1> DEFINE T == {n \in 0 .. N : power[n] = g[n]}
<1>a. 0 \in T
  BY <1>1, <1>6, <1>9
<1>b. ASSUME NEW n \in 0 .. N, n \in T, n < N
      PROVE  n + 1 \in T
  <2>1. n + 1 \in 0 .. N /\ n + 1 \in 1 .. N /\ (n + 1) - 1 = n
    BY <1>1, <1>b
  <2>2. power[n + 1] = step(n + 1, power[n]) /\ g[n + 1] = step(n + 1, g[n])
    BY <1>6, <1>9, <2>1
  <2> QED BY <1>b, <2>1, <2>2
<1> HIDE DEF T
<1>c. \A n \in 0 .. N : n \in T
  BY <1>1, <1>a, <1>b, CountingUp
<1>d. N \in T
  BY <1>1, <1>c
<1>e. Exp(base, exp) = g[N]
  BY <1>2, <1>d DEF T
<1> QED BY <1>5, <1>6, <1>e DEF N, step

\* Powers of two up to WordBits divide WordMod.
LEMMA TwosDivide ==
    ASSUME NEW n \in 0 .. WordBits
    PROVE  /\ 2 ^ n \in Nat \ {0} /\ 2 ^ (WordBits - n) \in Nat \ {0}
           /\ WordMod = 2 ^ n * 2 ^ (WordBits - n) /\ 2 ^ n <= WordMod
<1>1. n \in Nat /\ WordBits - n \in Nat /\ n + (WordBits - n) = WordBits /\ WordBits - n \in 0 .. WordBits
  BY Sizes
<1>2. PICK k : k = WordBits - n
  OBVIOUS
<1>3. 2 ^ (n + k) = 2 ^ n * 2 ^ k
  BY <1>1, <1>2, TwosAdd, Sizes
<1>4. WordMod = 2 ^ n * 2 ^ (WordBits - n)
  BY <1>1, <1>2, <1>3 DEF WordMod
<1>5. PICK x, y : x = 2 ^ n /\ y = 2 ^ (WordBits - n)
  OBVIOUS
<1>6. x \in Nat \ {0} /\ y \in Nat \ {0}
  BY <1>1, <1>5, Twos
<1>7. x * y >= x
  BY <1>6, Products
<1> QED BY <1>4, <1>5, <1>6, <1>7

\* Powers of ByteMod up to WordBytes divide WordMod.
LEMMA BytesDivide ==
    ASSUME NEW n \in 0 .. WordBytes
    PROVE  ByteMod ^ n \in Nat \ {0} /\ ByteMod ^ n <= WordMod
<1>1. PICK k : k = n * ByteBits
  OBVIOUS
<1>2. ByteMod ^ n = 2 ^ k /\ k \in 0 .. WordBits
  BY <1>1, BytePowers
<1> QED BY <1>2, TwosDivide

\* Shifts and sign extension.
LEMMA ShiftType ==
    ASSUME NEW x \in Word, NEW n \in 0 .. WordBits
    PROVE  Lsh(x, n) \in Word /\ Rsh(x, n) \in Word /\ SRsh(x, n) \in Word
<1>1. PICK p, q : p = 2 ^ n /\ q = 2 ^ (WordBits - n)
  OBVIOUS
<1>2. /\ p \in Nat \ {0} /\ q \in Nat \ {0} /\ WordMod = p * q /\ x \in Nat /\ x < p * q
      /\ WordMod \in Nat /\ q <= WordMod
  <2>1. p \in Nat \ {0} /\ q \in Nat \ {0} /\ WordMod = p * q
    BY <1>1, TwosDivide
  <2>2. WordBits - n \in 0 .. WordBits
    BY Sizes
  <2>3. q <= WordMod
    BY <1>1, <2>2, TwosDivide
  <2> QED BY <2>1, <2>3, Moduli DEF Word
<1>3. Lsh(x, n) \in Word
  <2>1. x * p \in Int
    BY <1>2
  <2> QED BY <1>1, <2>1, WordType DEF Lsh
<1>4. x \div p \in 0 .. (q - 1)
  BY <1>2, DivLess
<1>5. PICK d : d = x \div p
  OBVIOUS
<1>6. d \in Word /\ d + (WordMod - q) \in Word
  BY <1>2, <1>4, <1>5 DEF Word
<1> QED BY <1>1, <1>3, <1>5, <1>6 DEF Rsh, SRsh

\* Sign extension.
LEMMA ExtendSignType ==
    ASSUME NEW x \in Word, NEW b \in Word
    PROVE  ExtendSign(x, b) \in Word
<1>1. CASE b >= WordBytes - 1
  BY <1>1 DEF ExtendSign
<1>2. CASE ~ (b >= WordBytes - 1)
  <2>1. b + 1 \in 0 .. WordBytes
    BY <1>2, Sizes, WordType
  <2>2. PICK m : m = ByteMod ^ (b + 1)
    OBVIOUS
  <2>3. m \in Nat \ {0} /\ m <= WordMod /\ x \in Int /\ WordMod \in Nat
    BY <2>1, <2>2, BytesDivide, WordType, Moduli
  <2>4. PICK r : r = x % m
    OBVIOUS
  <2>5. r \in 0 .. (m - 1)
    BY <2>3, <2>4, DivMod
  <2>6. r \in Word /\ r + (WordMod - m) \in Word
    BY <2>3, <2>5 DEF Word
  <2> QED BY <1>2, <2>2, <2>4, <2>6 DEF ExtendSign
<1> QED BY <1>1, <1>2

BitsOf(ones, a, b) ==
    [p \in (1 .. WordBits) \X Nat |->
        p[2] + (IF <<Bit(a, p[1] - 1), Bit(b, p[1] - 1)>> \in ones THEN 2 ^ (p[1] - 1) ELSE 0)]

\* BitByBit takes one bit of the operands after another.
LEMMA BitByBitIs ==
    ASSUME NEW ones, NEW a, NEW b
    PROVE  \E g \in [0 .. WordBits -> Nat] :
              /\ BitByBit(ones, a, b) = g[WordBits] /\ g[0] = 0
              /\ \A n \in 1 .. WordBits :
                    g[n] = g[n - 1] + (IF <<Bit(a, n - 1), Bit(b, n - 1)>> \in ones
                                       THEN 2 ^ (n - 1) ELSE 0)
<1> DEFINE N == WordBits
<1> DEFINE add(n) == IF <<Bit(a, n - 1), Bit(b, n - 1)>> \in ones THEN 2 ^ (n - 1) ELSE 0
<1> DEFINE low[n \in 0 .. N] == IF n = 0 THEN 0 ELSE low[n - 1] + add(n)
<1>1. N \in Nat
  BY Sizes
<1>2. BitByBit(ones, a, b) = low[N]
  BY DEF BitByBit
<1>3. \A n \in 1 .. N : add(n) \in Nat
  <2>1. ASSUME NEW n \in 1 .. N
        PROVE  2 ^ (n - 1) \in Nat
    <3>1. n - 1 \in 0 .. WordBits
      BY <1>1
    <3> QED BY <3>1, Twos
  <2> QED BY <2>1
<1>4. /\ BitsOf(ones, a, b) \in [(1 .. N) \X Nat -> Nat]
      /\ \A n \in 1 .. N, x \in Nat : BitsOf(ones, a, b)[<<n, x>>] = x + add(n)
  <2>1. BitsOf(ones, a, b) = [p \in (1 .. N) \X Nat |-> p[2] + add(p[1])]
    BY DEF BitsOf
  <2> HIDE DEF N, add
  <2> QED BY <1>3, <2>1
<1> HIDE DEF N, add
<1>5. PICK g \in [0 .. N -> Nat] : Recursive(g, N, 0, BitsOf(ones, a, b))
  BY <1>1, <1>4, RecursionExists
<1>6. g[0] = 0 /\ \A n \in 1 .. N : g[n] = g[n - 1] + add(n)
  <2>1. g[0] = 0 /\ \A n \in 1 .. N : g[n] = BitsOf(ones, a, b)[<<n, g[n - 1]>>]
    BY <1>5 DEF Recursive
  <2>2. ASSUME NEW n \in 1 .. N
        PROVE  g[n] = g[n - 1] + add(n)
    <3>1. n - 1 \in 0 .. N
      BY <1>1
    <3>2. g[n - 1] \in Nat
      BY <1>5, <3>1
    <3> QED BY <1>4, <2>1, <3>2
  <2> QED BY <2>1, <2>2
<1>7. g = [n \in 0 .. N |-> IF n = 0 THEN 0 ELSE g[n - 1] + add(n)]
  <2>1. ASSUME NEW n \in 0 .. N
        PROVE  g[n] = IF n = 0 THEN 0 ELSE g[n - 1] + add(n)
    <3>1. n = 0 \/ n \in 1 .. N
      BY <1>1
    <3> QED BY <1>6, <3>1
  <2> QED BY <1>5, <2>1
<1>8. low = [n \in 0 .. N |-> IF n = 0 THEN 0 ELSE low[n - 1] + add(n)]
  <2>1. \E h : h = [n \in 0 .. N |-> IF n = 0 THEN 0 ELSE h[n - 1] + add(n)]
    BY <1>7, Zenon
  <2> QED BY <2>1, Zenon
<1> HIDE DEF low
<1>9. low[0] = 0 /\ \A n \in 1 .. N : low[n] = low[n - 1] + add(n)
  <2>1. 0 \in 0 .. N /\ \A n \in 1 .. N : n \in 0 .. N /\ n # 0
    BY <1>1
  <2> QED BY <1>8, <2>1
<1> DEFINE T == {n \in 0 .. N : low[n] = g[n]}
<1>a. 0 \in T
  BY <1>1, <1>6, <1>9
<1>b. ASSUME NEW n \in 0 .. N, n \in T, n < N
      PROVE  n + 1 \in T
  <2>1. n + 1 \in 0 .. N /\ n + 1 \in 1 .. N /\ (n + 1) - 1 = n
    BY <1>1, <1>b
  <2>2. low[n + 1] = low[n] + add(n + 1) /\ g[n + 1] = g[n] + add(n + 1)
    BY <1>6, <1>9, <2>1
  <2> QED BY <1>b, <2>1, <2>2
<1> HIDE DEF T
<1>c. \A n \in 0 .. N : n \in T
  BY <1>1, <1>a, <1>b, CountingUp
<1>d. N \in T
  BY <1>1, <1>c
<1>e. BitByBit(ones, a, b) = g[N]
  BY <1>2, <1>d DEF T
<1> QED BY <1>5, <1>6, <1>e DEF N, add

\* The result of a bitwise opcode is a word.
LEMMA BitByBitType ==
    ASSUME NEW ones, NEW a, NEW b
    PROVE  BitByBit(ones, a, b) \in Word
<1>1. PICK g \in [0 .. WordBits -> Nat] :
              /\ BitByBit(ones, a, b) = g[WordBits] /\ g[0] = 0
              /\ \A n \in 1 .. WordBits :
                    g[n] = g[n - 1] + (IF <<Bit(a, n - 1), Bit(b, n - 1)>> \in ones
                                       THEN 2 ^ (n - 1) ELSE 0)
  BY BitByBitIs
<1>2. WordBits \in Nat
  BY Sizes
<1> DEFINE T == {n \in 0 .. WordBits : g[n] < 2 ^ n}
<1>3. 0 \in T
  <2>1. g[0] < 2 ^ 0 /\ 0 \in 0 .. WordBits
    BY <1>1, <1>2, PowerAssumption
  <2> QED BY <2>1
<1>4. ASSUME NEW n \in 0 .. WordBits, n \in T, n < WordBits
      PROVE  n + 1 \in T
  <2>1. n + 1 \in 0 .. WordBits /\ n + 1 \in 1 .. WordBits /\ (n + 1) - 1 = n /\ n \in 0 .. (WordBits - 1)
    BY <1>2, <1>4
  <2>2. PICK x, p : x = g[n] /\ p = 2 ^ n
    OBVIOUS
  <2>3. x \in Nat /\ p \in Nat /\ x < p
    BY <1>1, <1>4, <2>2, Twos
  <2>4. g[n + 1] \in {x, x + p}
    <3>1. g[n + 1] \in {x + 0, x + p}
      BY <1>1, <2>1, <2>2
    <3> QED BY <2>3, <3>1
  <2>5. 2 ^ (n + 1) = 2 * p
    BY <2>1, <2>2, PowerAssumption
  <2>6. g[n + 1] < 2 ^ (n + 1)
    BY <2>3, <2>4, <2>5
  <2> QED BY <2>1, <2>6
<1> HIDE DEF T
<1>5. \A n \in 0 .. WordBits : n \in T
  BY <1>2, <1>3, <1>4, CountingUp
<1>6. WordBits \in 0 .. WordBits
  BY <1>2
<1>7. g[WordBits] < WordMod /\ g[WordBits] \in Nat
  BY <1>1, <1>5, <1>6 DEF T, WordMod
<1> QED BY <1>1, <1>7, Moduli DEF Word

\* Unary opcodes.
LEMMA UnaryType ==
    ASSUME NEW o, NEW x \in Word
    PROVE  ofUnary(o, x) \in Word
<1>1. opNot(x) \in Word
  BY Moduli DEF opNot, Word
<1> QED BY <1>1, BoolType DEF ofUnary, opIsZero

\* Binary opcodes.
LEMMA BinaryType ==
    ASSUME NEW o \in Binary, NEW a \in Word, NEW b \in Word
    PROVE  ofBinary(o, a, b) \in Word
<1>1. opExp(a, b) \in Word
  <2>1. WordBits \in 0 .. WordBits
    BY Sizes
  <2>2. PICK g \in [0 .. WordBits -> Word] : Exp(a, b) = g[WordBits]
    BY ExpIs
  <2> QED BY <2>1, <2>2 DEF opExp
<1>2. opSignExtend(a, b) \in Word
  BY ExtendSignType DEF opSignExtend
<1>3. opLt(a, b) \in Word /\ opGt(a, b) \in Word /\ opSlt(a, b) \in Word /\ opSgt(a, b) \in Word
      /\ opEq(a, b) \in Word
  BY BoolType DEF opLt, opGt, opSlt, opSgt, opEq
<1>4. opAnd(a, b) \in Word /\ opOr(a, b) \in Word /\ opXor(a, b) \in Word
  BY BitByBitType DEF opAnd, opOr, opXor
<1>5. opByte(a, b) \in Word
  <2>1. CASE a < WordBytes
    <3>1. a + 1 \in 1 .. WordBytes
      BY <2>1, Sizes, WordType
    <3>2. PICK s : s = Bytes32(b)
      OBVIOUS
    <3>3. s \in Seq(Byte) /\ Len(s) = WordBytes
      BY <3>2, Bytes32Type
    <3>4. s[a + 1] \in Byte
      BY <3>1, <3>3
    <3> QED BY <2>1, <3>2, <3>4, ByteType DEF opByte
  <2> QED BY <2>1, WordType DEF opByte
<1>6. opShl(a, b) \in Word /\ opShr(a, b) \in Word
  <2>1. a < WordBits => a \in 0 .. WordBits
    BY Sizes, WordType
  <2> QED BY <2>1, ShiftType, WordType DEF opShl, opShr
<1>7. opSar(a, b) \in Word
  <2>1. ~ (a > WordBits - 1) => a \in 0 .. WordBits
    BY Sizes, WordType
  <2> QED BY <2>1, ShiftType, WordType DEF opSar
<1> QED BY <1>1, <1>2, <1>3, <1>4, <1>5, <1>6, <1>7, ArithmeticType DEF Binary, ofBinary

\* Ternary opcodes.
LEMMA TernaryType ==
    ASSUME NEW o, NEW a \in Word, NEW b \in Word, NEW n \in Word
    PROVE  ofTernary(o, a, b, n) \in Word
<1>1. ASSUME NEW x \in Nat, n # 0
      PROVE  x % n \in Word
  <2>1. n \in Nat \ {0} /\ x \in Int
    BY <1>1, WordType
  <2>2. PICK r : r = x % n
    OBVIOUS
  <2>3. r \in 0 .. (n - 1)
    <3>1. x % n \in 0 .. (n - 1)
      BY <2>1, DivMod
    <3> QED BY <2>2, <3>1
  <2>4. r \in 0 .. n
    BY <2>1, <2>3
  <2> QED BY <2>2, <2>4, WordBelow
<1>2. a + b \in Nat /\ a * b \in Nat
  BY WordType
<1> QED BY <1>1, <1>2, WordType DEF ofTernary, opAddMod, opMulMod
-----------------------------------------------------------------------------
(***************************************************************************)
(* The opcodes compute what the EVM means by them.                         *)
(***************************************************************************)

\* A remainder differs from its number by a multiple.
LEMMA RemainderOf ==
    ASSUME NEW x \in Int, NEW n \in Nat \ {0}
    PROVE  ((x % n) - x) % n = 0 /\ (x - (x % n)) % n = 0
<1> DEFINE q == x \div n
<1> DEFINE r == x % n
<1>1. q \in Int /\ r \in 0 .. (n - 1) /\ x = n * q + r
  BY DivMod
<1> HIDE DEF q, r
<1>2. r - x = n * (0 - q) + 0 /\ x - r = n * q + 0
  BY <1>1
<1>3. 0 \in 0 .. (n - 1) /\ 0 - q \in Int /\ r - x \in Int /\ x - r \in Int
  BY <1>1
<1>4. (r - x) % n = 0 /\ (x - r) % n = 0
  BY <1>1, <1>2, <1>3, DivModUnique
<1> QED BY <1>4 DEF r

\* x divided by n is q, and r remains.
Divided(x, n, q, r) ==
    x \in Int /\ n \in Nat \ {0} /\ q \in Int /\ r \in 0 .. (n - 1) /\ x = n * q + r

LEMMA DividedIs ==
    ASSUME NEW x, NEW n, NEW q, NEW r, Divided(x, n, q, r)
    PROVE  x \div n = q /\ x % n = r
<1>1. x \in Int /\ n \in Nat \ {0} /\ q \in Int /\ r \in 0 .. (n - 1) /\ x = n * q + r
  BY DEF Divided
<1> QED BY <1>1, DivModUnique

\* Every number can be divided.
LEMMA CanDivide ==
    ASSUME NEW x \in Int, NEW n \in Nat \ {0}
    PROVE  \E q \in Int, r \in 0 .. (n - 1) : q = x \div n /\ r = x % n /\ x = n * q + r
BY DivMod

\* Natural numbers have natural quotients.
LEMMA CanDivideNat ==
    ASSUME NEW x \in Nat, NEW n \in Nat \ {0}
    PROVE  \E q \in Nat, r \in Nat :
              q = x \div n /\ r = x % n /\ x = n * q + r /\ q <= x /\ r < n
<1>1. PICK q \in Int, r \in 0 .. (n - 1) : q = x \div n /\ r = x % n /\ x = n * q + r
  BY CanDivide, x \in Int
<1>2. x \div n \in 0 .. x
  BY DivNat
<1>3. q \in Nat /\ q <= x /\ r \in Nat /\ r < n
  BY <1>1, <1>2
<1> QED BY <1>1, <1>3

\* The quotient and the remainder of words.
LEMMA QuotientIs ==
    ASSUME NEW a \in Nat, NEW b \in Nat \ {0}
    PROVE  /\ a \div b \in Nat /\ a % b \in 0 .. (b - 1) /\ a = b * (a \div b) + (a % b)
           /\ (a \div b) * b <= a /\ a < ((a \div b) + 1) * b
<1> DEFINE q == a \div b
<1> DEFINE r == a % b
<1>1. q \in Nat /\ r \in 0 .. (b - 1) /\ a = b * q + r
  <2>1. a \div b \in 0 .. a /\ a \in Int
    BY DivNat
  <2> QED BY <2>1, DivMod
<1> HIDE DEF q, r
<1>2. (q + 1) * b = b * q + b /\ q * b = b * q /\ b * q \in Nat
  BY <1>1
<1>3. q * b <= a /\ a < (q + 1) * b
  BY <1>1, <1>2
<1> QED BY <1>1, <1>3 DEF q, r

\* The arithmetic of words without signs.
LEMMA UnsignedIs ==
    ASSUME NEW a \in Word, NEW b \in Word, NEW n \in Word
    PROVE  /\ (opAdd(a, b) - a - b) % WordMod = 0
           /\ (opMul(a, b) - a * b) % WordMod = 0
           /\ (opSub(a, b) + b) % WordMod = a
           /\ IF b = 0 THEN opDiv(a, b) = 0
              ELSE opDiv(a, b) * b <= a /\ a < (opDiv(a, b) + 1) * b
           /\ IF b = 0 THEN opMod(a, b) = 0 ELSE opMod(a, b) < b /\ (a - opMod(a, b)) % b = 0
           /\ IF n = 0 THEN opAddMod(a, b, n) = 0
              ELSE opAddMod(a, b, n) < n /\ (a + b - opAddMod(a, b, n)) % n = 0
           /\ IF n = 0 THEN opMulMod(a, b, n) = 0
              ELSE opMulMod(a, b, n) < n /\ (a * b - opMulMod(a, b, n)) % n = 0
<1>1. a \in Nat /\ b \in Nat /\ n \in Nat /\ WordMod \in Nat \ {0} /\ a \in 0 .. (WordMod - 1)
  BY WordType, Moduli DEF Word
<1>2. (opAdd(a, b) - a - b) % WordMod = 0
  <2>1. PICK x \in Int : x = a + b
    BY <1>1
  <2>2. PICK r \in Int : r = x % WordMod
    BY <1>1, <2>1
  <2>3. (r - x) % WordMod = 0
    BY <1>1, <2>2, RemainderOf
  <2>4. r - x = r - a - b
    BY <1>1, <2>1
  <2> QED BY <2>1, <2>2, <2>3, <2>4 DEF opAdd
<1>3. (opMul(a, b) - a * b) % WordMod = 0
  <2>1. a * b \in Int
    BY <1>1
  <2> QED BY <1>1, <2>1, RemainderOf DEF opMul
<1>4. (opSub(a, b) + b) % WordMod = a
  <2>1. PICK x \in Int : x = a - b
    BY <1>1
  <2>2. PICK q \in Int, r \in Int : q = x \div WordMod /\ r = x % WordMod /\ x = WordMod * q + r
    <3>1. x \div WordMod \in Int /\ x % WordMod \in 0 .. (WordMod - 1)
          /\ x = WordMod * (x \div WordMod) + (x % WordMod)
      BY <1>1, DivMod
    <3>2. x % WordMod \in Int
      BY <1>1, <3>1
    <3> QED BY <3>1, <3>2
  <2>3. r + b = WordMod * (0 - q) + a
    BY <1>1, <2>1, <2>2
  <2>4. (r + b) % WordMod = a
    <3>1. PICK y \in Int : y = r + b
      BY <1>1, <2>2
    <3>2. PICK p \in Int : p = 0 - q
      BY <2>2
    <3>3. Divided(y, WordMod, p, a)
      BY <1>1, <2>3, <3>1, <3>2 DEF Divided
    <3>4. y % WordMod = a
      BY <3>3, DividedIs
    <3> QED BY <3>1, <3>4
  <2>5. opSub(a, b) = r
    BY ONLY <2>1, <2>2, Zenon DEF opSub
  <2> QED BY <2>4, <2>5
<1>5. b # 0 => /\ (a \div b) * b <= a /\ a < ((a \div b) + 1) * b
               /\ a % b < b /\ (a - (a % b)) % b = 0
  <2>1. SUFFICES ASSUME b # 0 PROVE /\ (a \div b) * b <= a /\ a < ((a \div b) + 1) * b
                                    /\ a % b < b /\ (a - (a % b)) % b = 0
    OBVIOUS
  <2>2. b \in Nat \ {0} /\ a \in Int
    BY <1>1, <2>1
  <2>3. a % b \in 0 .. (b - 1)
    BY <2>2
  <2>4. a % b < b
    BY <2>2, <2>3
  <2> QED BY <1>1, <2>2, <2>4, QuotientIs, RemainderOf
<1>6. ASSUME n # 0, NEW x \in Int
      PROVE  x % n < n /\ (x - (x % n)) % n = 0
  <2>1. n \in Nat \ {0}
    BY <1>1, <1>6
  <2>2. x % n \in 0 .. (n - 1)
    BY <2>1
  <2>3. x % n < n
    BY <2>1, <2>2
  <2> QED BY <2>1, <2>3, RemainderOf
<1>7. a + b \in Int /\ a * b \in Int
  BY <1>1
<1>8. IF n = 0 THEN opAddMod(a, b, n) = 0
      ELSE opAddMod(a, b, n) < n /\ (a + b - opAddMod(a, b, n)) % n = 0
  <2>1. CASE n = 0
    BY <2>1 DEF opAddMod
  <2>2. CASE n # 0
    <3>1. PICK x \in Int : x = a + b
      BY <1>7
    <3>2. PICK r \in Int : r = x % n
      BY <1>1, <2>2, <3>1
    <3>3. r < n /\ (x - r) % n = 0
      BY <1>6, <2>2, <3>2
    <3>4. x - r = a + b - r
      BY <1>1, <3>1
    <3>5. opAddMod(a, b, n) = r
      BY <2>2, <3>1, <3>2, Zenon DEF opAddMod
    <3> QED BY <2>2, <3>3, <3>4, <3>5
  <2> QED BY <2>1, <2>2
<1>9. IF n = 0 THEN opMulMod(a, b, n) = 0
      ELSE opMulMod(a, b, n) < n /\ (a * b - opMulMod(a, b, n)) % n = 0
  BY <1>6, <1>7 DEF opMulMod
<1>10. IF b = 0 THEN opDiv(a, b) = 0
       ELSE opDiv(a, b) * b <= a /\ a < (opDiv(a, b) + 1) * b
  BY <1>5 DEF opDiv
<1>11. IF b = 0 THEN opMod(a, b) = 0 ELSE opMod(a, b) < b /\ (a - opMod(a, b)) % b = 0
  BY <1>5 DEF opMod
<1> QED BY <1>2, <1>3, <1>4, <1>8, <1>9, <1>10, <1>11

\* A word as a signed number.
LEMMA SignedIs ==
    ASSUME NEW x \in Word
    PROVE  /\ x \in Int /\ Signed(x) \in Int
           /\ Signed(x) = IF x >= Half THEN x - WordMod ELSE x
           /\ Magnitude(Signed(x)) = Abs(x) /\ Abs(x) \in 0 .. Half
           /\ Signed(x) < 0 <=> Negative(x)
           /\ Negative(x) => Signed(x) = 0 - Abs(x)
           /\ ~ Negative(x) => Signed(x) = Abs(x) /\ Abs(x) < Half
           /\ Negative(x) <=> x >= Half
           /\ Abs(x) = 0 <=> x = 0
<1>1. x \in Nat /\ x < WordMod /\ WordMod \in Nat /\ Half \in Nat \ {0} /\ WordMod = 2 * Half
  BY WordType, Moduli DEF Word
<1>2. Abs(x) = (IF x >= Half THEN WordMod - x ELSE x) /\ Abs(x) \in 0 .. Half /\ (Abs(x) = 0 <=> x = 0)
  BY AbsType
<1>3. Negative(x) <=> x >= Half
  BY DEF Negative
<1>4. Signed(x) = IF x >= Half THEN x - WordMod ELSE x
  BY DEF Signed, Negative
<1> QED BY <1>1, <1>2, <1>3, <1>4 DEF Magnitude

\* Comparisons of signed words.
LEMMA SignedLess ==
    ASSUME NEW a \in Word, NEW b \in Word
    PROVE  Slt(a, b) <=> Signed(a) < Signed(b)
<1>1. /\ a \in Int /\ b \in Int /\ Signed(a) = (IF a >= Half THEN a - WordMod ELSE a)
      /\ Signed(b) = (IF b >= Half THEN b - WordMod ELSE b)
      /\ (Negative(a) <=> a >= Half) /\ (Negative(b) <=> b >= Half)
  BY SignedIs
<1>2. WordMod = 2 * Half /\ Half \in Nat /\ a \in 0 .. (WordMod - 1) /\ b \in 0 .. (WordMod - 1)
  BY Moduli DEF Word
<1> DEFINE x == Signed(a)
<1> DEFINE y == Signed(b)
<1>3. /\ x = (IF a >= Half THEN a - WordMod ELSE a) /\ y = (IF b >= Half THEN b - WordMod ELSE b)
  BY <1>1
<1>4. Slt(a, b) <=> IF a >= Half <=> b >= Half THEN a < b ELSE a >= Half
  BY DEF Slt, Negative
<1> HIDE DEF x, y
<1>5. x < y <=> IF a >= Half <=> b >= Half THEN a < b ELSE a >= Half
  BY <1>1, <1>2, <1>3
<1> QED BY <1>4, <1>5 DEF x, y

\* Quotients with the signs of their operands, rounded towards zero.
LEMMA SDivIs ==
    ASSUME NEW a \in Word, NEW b \in Word
    PROVE  LET sa == Signed(a)
               sb == Signed(b)
               sr == Signed(opSDiv(a, b))
           IN  IF b = 0 THEN opSDiv(a, b) = 0
               ELSE IF sa = 0 - Half /\ sb = -1 THEN opSDiv(a, b) = a
               ELSE /\ Magnitude(sr * sb) <= Magnitude(sa)
                    /\ Magnitude(sa - sr * sb) < Magnitude(sb)
                    /\ sr # 0 => ((sr > 0) <=> ((sa > 0) = (sb > 0)))
<1>0. CASE b = 0
  BY <1>0 DEF opSDiv
<1>1. CASE b # 0
  <2> DEFINE A == Abs(a)
  <2> DEFINE B == Abs(b)
  <2> DEFINE sa == Signed(a)
  <2> DEFINE sb == Signed(b)
  <2> DEFINE q == A \div B
  <2> DEFINE r == opSDiv(a, b)
  <2> DEFINE sr == Signed(r)
  <2>1. /\ A \in 0 .. Half /\ B \in 0 .. Half /\ B # 0 /\ sa \in Int /\ sb \in Int
        /\ (Negative(a) => sa = 0 - A /\ A # 0) /\ (~ Negative(a) => sa = A /\ A < Half)
        /\ (Negative(b) => sb = 0 - B) /\ (~ Negative(b) => sb = B /\ B < Half)
        /\ Magnitude(sa) = A /\ Magnitude(sb) = B
    <3>1. Negative(a) => a # 0
      BY Moduli DEF Negative
    <3> QED BY <1>1, <3>1, SignedIs
  <2>2. /\ WordMod \in Nat \ {0} /\ Half \in Nat \ {0} /\ WordMod = 2 * Half
    BY Moduli
  <2>3. B \in Nat \ {0} /\ A \in Nat
    BY <2>1, <2>2
  <2>4. /\ q \in Nat /\ q <= A /\ q * B <= A /\ A < (q + 1) * B
    <3> HIDE DEF A, B
    <3>1. A \div B \in 0 .. A
      BY <2>3, DivNat
    <3> QED BY <2>3, <3>1, QuotientIs
  <2>5. r = IF Negative(a) # Negative(b) THEN Neg(q) ELSE q
    BY <1>1 DEF opSDiv, SDiv
  <2> HIDE DEF A, B, sa, sb, q, r
  <2>6. q \in Word /\ q <= Half
    BY <2>1, <2>2, <2>4 DEF Word
  <2>7. PICK p \in Nat : p = q * B /\ p <= A /\ A < p + B
    <3>1. q * B \in Nat /\ (q + 1) * B = q * B + B
      BY <2>3, <2>4
    <3> QED BY <2>3, <2>4, <3>1
  <2>8. \A x \in Int : Magnitude(x) = IF x < 0 THEN 0 - x ELSE x
    BY DEF Magnitude
  \* The quotient is a multiple of B of the right sign.
  <2>9. ASSUME NEW s \in Int, s = q \/ s = 0 - q, s = sr,
               (s = q /\ q # 0) => (Negative(a) <=> Negative(b)),
               (s = 0 - q /\ q # 0) => ~ (Negative(a) <=> Negative(b))
        PROVE  /\ Magnitude(s * sb) <= A /\ Magnitude(sa - s * sb) < B
               /\ s # 0 => ((s > 0) <=> ((sa > 0) = (sb > 0)))
    <3>1. q # 0 => A # 0
      BY <2>3, <2>4
    <3>2. PICK t \in Int : t = s * sb
      BY <2>1
    <3>3. CASE q = 0
      <4>1. s = 0 /\ t = 0 /\ p = 0
        BY <2>1, <2>3, <2>7, <2>9, <3>2, <3>3
      <4>2. sa - t = sa /\ A < B
        BY <2>1, <2>3, <2>7, <4>1
      <4>3. Magnitude(0) = 0
        BY <2>8
      <4> QED BY <2>1, <2>3, <3>2, <4>1, <4>2, <4>3
    <3>4. CASE q # 0 /\ Negative(a) /\ Negative(b)
      <4>1. s = q /\ sb = 0 - B /\ sa = 0 - A
        BY <2>1, <2>4, <2>9, <3>4
      <4>2. t = 0 - p
        <5>1. q * (0 - B) = 0 - q * B
          BY <2>3, <2>4
        <5> QED BY <2>7, <3>2, <4>1, <5>1
      <4>3. Magnitude(t) = p /\ Magnitude(sa - t) = A - p
        BY <2>3, <2>7, <2>8, <4>1, <4>2
      <4>4. s > 0 /\ ~ (sa > 0) /\ ~ (sb > 0)
        BY <2>1, <2>3, <2>4, <3>1, <3>4, <4>1
      <4> QED BY <2>3, <2>7, <3>2, <4>3, <4>4
    <3>5. CASE q # 0 /\ Negative(a) /\ ~ Negative(b)
      <4>1. s = 0 - q /\ sb = B /\ sa = 0 - A
        BY <2>1, <2>4, <2>9, <3>5
      <4>2. t = 0 - p
        <5>1. (0 - q) * B = 0 - q * B
          BY <2>3, <2>4
        <5> QED BY <2>7, <3>2, <4>1, <5>1
      <4>3. Magnitude(t) = p /\ Magnitude(sa - t) = A - p
        BY <2>3, <2>7, <2>8, <4>1, <4>2
      <4>4. ~ (s > 0) /\ ~ (sa > 0) /\ sb > 0
        BY <2>1, <2>3, <2>4, <3>1, <3>5, <4>1
      <4> QED BY <2>3, <2>7, <3>2, <4>3, <4>4
    <3>6. CASE q # 0 /\ ~ Negative(a) /\ Negative(b)
      <4>1. s = 0 - q /\ sb = 0 - B /\ sa = A
        BY <2>1, <2>4, <2>9, <3>6
      <4>2. t = p
        <5>1. (0 - q) * (0 - B) = q * B
          BY <2>3, <2>4
        <5> QED BY <2>7, <3>2, <4>1, <5>1
      <4>3. Magnitude(t) = p /\ Magnitude(sa - t) = A - p
        BY <2>3, <2>7, <2>8, <4>1, <4>2
      <4>4. ~ (s > 0) /\ sa > 0 /\ ~ (sb > 0)
        BY <2>1, <2>3, <2>4, <3>1, <3>6, <4>1
      <4> QED BY <2>3, <2>7, <3>2, <4>3, <4>4
    <3>7. CASE q # 0 /\ ~ Negative(a) /\ ~ Negative(b)
      <4>1. s = q /\ sb = B /\ sa = A
        BY <2>1, <2>4, <2>9, <3>7
      <4>2. t = p
        BY <2>7, <3>2, <4>1
      <4>3. Magnitude(t) = p /\ Magnitude(sa - t) = A - p
        BY <2>3, <2>7, <2>8, <4>1, <4>2
      <4>4. s > 0 /\ sa > 0 /\ sb > 0
        BY <2>1, <2>3, <2>4, <3>1, <3>7, <4>1
      <4> QED BY <2>3, <2>7, <3>2, <4>3, <4>4
    <3> QED BY <3>3, <3>4, <3>5, <3>6, <3>7
  <2>10. CASE ~ (Negative(a) <=> Negative(b))
    <3>1. r = Neg(q) /\ Neg(q) = (IF q = 0 THEN 0 ELSE WordMod - q) /\ r \in Word
      BY <2>5, <2>6, <2>10, AbsType
    <3>2. sr = 0 - q
      <4>1. sr = IF r >= Half THEN r - WordMod ELSE r
        BY <3>1, SignedIs
      <4> QED BY <2>2, <2>4, <2>6, <3>1, <4>1
    <3>3. sr \in Int /\ (0 - q = q => q = 0)
      BY <2>4, <3>2
    <3>4. /\ Magnitude(sr * sb) <= A /\ Magnitude(sa - sr * sb) < B
          /\ sr # 0 => ((sr > 0) <=> ((sa > 0) = (sb > 0)))
      <4> HIDE DEF sr
      <4> QED BY <2>9, <2>10, <3>2, <3>3
    <3>5. ~ (sa = 0 - Half /\ sb = -1)
      BY <2>1, <2>2, <2>3, <2>10
    <3>6. b # 0 /\ A = Magnitude(sa) /\ B = Magnitude(sb)
      BY <1>1, <2>1
    <3> HIDE DEF sr
    <3>7. IF b = 0 THEN r = 0 ELSE IF sa = 0 - Half /\ sb = -1 THEN r = a
          ELSE /\ Magnitude(sr * sb) <= Magnitude(sa)
               /\ Magnitude(sa - sr * sb) < Magnitude(sb)
               /\ sr # 0 => ((sr > 0) <=> ((sa > 0) = (sb > 0)))
      BY ONLY <3>4, <3>5, <3>6
    <3> QED BY ONLY <3>7 DEF sa, sb, sr, r
  <2>11. CASE (Negative(a) <=> Negative(b)) /\ q < Half
    <3>1. r = q
      <4>1. Negative(a) = Negative(b)
        BY <2>11 DEF Negative
      <4> QED BY <2>5, <4>1
    <3>2. sr = q
      <4>1. sr = IF r >= Half THEN r - WordMod ELSE r
        BY <2>6, <3>1, SignedIs
      <4> QED BY <2>2, <2>4, <2>11, <3>1, <4>1
    <3>3. sr \in Int /\ (0 - q = q => q = 0)
      BY <2>4, <3>2
    <3>4. /\ Magnitude(sr * sb) <= A /\ Magnitude(sa - sr * sb) < B
          /\ sr # 0 => ((sr > 0) <=> ((sa > 0) = (sb > 0)))
      <4> HIDE DEF sr
      <4> QED BY <2>9, <2>11, <3>2, <3>3
    <3>5. ~ (sa = 0 - Half /\ sb = -1)
      <4>1. sa = 0 - Half /\ sb = -1 => A = Half /\ B = 1
        BY <2>1, <2>2, <2>3
      <4>2. q < Half /\ A < (q + 1) * B
        BY <2>4, <2>11
      <4>3. (q + 1) * 1 = q + 1
        BY <2>4
      <4> QED BY <2>2, <2>4, <4>1, <4>2, <4>3
    <3>6. b # 0 /\ A = Magnitude(sa) /\ B = Magnitude(sb)
      BY <1>1, <2>1
    <3> HIDE DEF sr
    <3>7. IF b = 0 THEN r = 0 ELSE IF sa = 0 - Half /\ sb = -1 THEN r = a
          ELSE /\ Magnitude(sr * sb) <= Magnitude(sa)
               /\ Magnitude(sa - sr * sb) < Magnitude(sb)
               /\ sr # 0 => ((sr > 0) <=> ((sa > 0) = (sb > 0)))
      BY ONLY <3>4, <3>5, <3>6
    <3> QED BY ONLY <3>7 DEF sa, sb, sr, r
  \* Only the least word divided by -1 gives as much as Half.
  <2>12. CASE (Negative(a) <=> Negative(b)) /\ ~ (q < Half)
    <3>1. A = Half /\ q = Half
      BY <2>1, <2>2, <2>3, <2>4, <2>12
    <3>2. B = 1
      <4>1. B >= 2 => q * B >= q * 2
        <5>1. B >= 2 => q * (B - 2) >= 0
          BY <2>3, <2>4
        <5>2. q * B = q * 2 + q * (B - 2)
          BY <2>3, <2>4
        <5> QED BY <2>3, <2>4, <5>1, <5>2
      <4> QED BY <2>2, <2>3, <2>4, <3>1, <4>1
    <3>3. Negative(a) /\ Negative(b)
      BY <2>1, <2>12, <3>1
    <3>4. sa = 0 - Half /\ sb = -1
      BY <2>1, <3>1, <3>2, <3>3
    <3>5. r = a
      <4>1. a = Half
        <5>1. A = WordMod - a /\ a \in Int
          <6>1. A = IF a >= Half THEN WordMod - a ELSE a
            BY AbsType DEF A
          <6>2. a >= Half
            BY <3>3 DEF Negative
          <6>3. a \in Int
            BY WordType
          <6> QED BY <6>1, <6>2, <6>3
        <5> QED BY <2>2, <3>1, <5>1
      <4>2. r = q
        <5>1. Negative(a) = Negative(b)
          BY <2>12 DEF Negative
        <5> QED BY <2>5, <5>1
      <4> QED BY <3>1, <4>1, <4>2
    <3>6. IF b = 0 THEN r = 0 ELSE IF sa = 0 - Half /\ sb = -1 THEN r = a
          ELSE /\ Magnitude(sr * sb) <= Magnitude(sa)
               /\ Magnitude(sa - sr * sb) < Magnitude(sb)
               /\ sr # 0 => ((sr > 0) <=> ((sa > 0) = (sb > 0)))
      BY ONLY <1>1, <3>4, <3>5
    <3> QED BY ONLY <3>6 DEF sa, sb, sr, r
  <2> QED BY <2>10, <2>11, <2>12
<1> QED BY <1>0, <1>1

\* Remainders with the sign of the first operand.
LEMMA SModIs ==
    ASSUME NEW a \in Word, NEW b \in Word
    PROVE  LET sa == Signed(a)
               sb == Signed(b)
               sr == Signed(opSMod(a, b))
           IN  IF b = 0 THEN opSMod(a, b) = 0
               ELSE /\ Magnitude(sr) < Magnitude(sb)
                    /\ (sa - sr) % Magnitude(sb) = 0
                    /\ sr # 0 => ((sr > 0) <=> (sa > 0))
<1>0. CASE b = 0
  BY <1>0 DEF opSMod
<1>1. CASE b # 0
  <2> DEFINE A == Abs(a)
  <2> DEFINE B == Abs(b)
  <2> DEFINE sa == Signed(a)
  <2> DEFINE q == A \div B
  <2> DEFINE e == A % B
  <2> DEFINE r == opSMod(a, b)
  <2> DEFINE sr == Signed(r)
  <2>1. /\ A \in 0 .. Half /\ B \in 0 .. Half /\ B # 0
        /\ (Negative(a) => sa = 0 - A) /\ (~ Negative(a) => sa = A)
        /\ Magnitude(Signed(b)) = B
    BY <1>1, SignedIs
  <2>2. WordMod \in Nat \ {0} /\ Half \in Nat \ {0} /\ WordMod = 2 * Half
    BY Moduli
  <2>3. B \in Nat \ {0} /\ A \in Nat
    BY <2>1, <2>2
  <2>4. q \in Nat /\ e \in 0 .. (B - 1) /\ A = B * q + e
    <3> HIDE DEF A, B
    <3> QED BY <2>3, QuotientIs
  <2>5. r = IF Negative(a) THEN Neg(e) ELSE e
    BY <1>1 DEF opSMod, SMod
  <2> HIDE DEF A, B, sa, q, e, r
  <2>6. PICK p \in Nat : p = B * q /\ A = p + e
    BY <2>3, <2>4
  <2>7. e \in Word /\ e < Half
    BY <2>1, <2>2, <2>4 DEF Word
  <2>8. sr = IF Negative(a) THEN 0 - e ELSE e
    <3>1. Neg(e) = (IF e = 0 THEN 0 ELSE WordMod - e) /\ Neg(e) \in Word
      BY <2>7, AbsType
    <3>2. r \in Word
      BY <2>5, <2>7, <3>1
    <3>3. sr = IF r >= Half THEN r - WordMod ELSE r
      BY <3>2, SignedIs
    <3>4. e \in Nat
      BY <2>7, WordType
    <3>5. CASE Negative(a)
      BY <2>2, <2>5, <2>7, <3>1, <3>3, <3>4, <3>5
    <3>6. CASE ~ Negative(a)
      BY <2>2, <2>5, <2>7, <3>3, <3>4, <3>6
    <3> QED BY <3>5, <3>6
  <2>9. e \in Nat /\ e < B /\ sr \in Int
    BY <2>3, <2>4, <2>8
  <2> HIDE DEF sr
  <2>10. Magnitude(sr) = e
    BY <2>8, <2>9 DEF Magnitude
  <2>11. (sa - sr) % B = 0
    <3>1. CASE Negative(a)
      <4>1. sa - sr = 0 - p
        BY <2>1, <2>3, <2>6, <2>8, <2>9, <3>1
      <4>2. 0 - p = B * (0 - q) + 0
        BY <2>3, <2>4, <2>6
      <4>3. PICK z \in Int : z = 0 - q
        BY <2>4
      <4>4. PICK y \in Int : y = sa - sr
        BY <2>6, <4>1
      <4>5. Divided(y, B, z, 0)
        BY <2>3, <4>1, <4>2, <4>3, <4>4 DEF Divided
      <4>6. y % B = 0
        BY <4>5, DividedIs
      <4> QED BY <4>4, <4>6
    <3>2. CASE ~ Negative(a)
      <4>1. sa - sr = p
        BY <2>1, <2>3, <2>6, <2>8, <2>9, <3>2
      <4>2. Divided(p, B, q, 0)
        BY <2>3, <2>4, <2>6 DEF Divided
      <4>3. p % B = 0
        BY <4>2, DividedIs
      <4> QED BY <4>1, <4>3
    <3> QED BY <3>1, <3>2
  <2>12. sr # 0 => ((sr > 0) <=> (sa > 0))
    BY <2>1, <2>3, <2>6, <2>8, <2>9
  <2>13. Magnitude(sr) < Magnitude(Signed(b)) /\ (sa - sr) % Magnitude(Signed(b)) = 0
    BY <2>1, <2>9, <2>10, <2>11
  <2> QED BY ONLY <1>1, <2>12, <2>13 DEF sa, sr, r
<1> QED BY <1>0, <1>1

(***************************************************************************)
(* Bits.                                                                   *)
(***************************************************************************)

\* A bit is the lowest of the bits from it on, and the highest of those up to it.
LEMMA BitIs ==
    ASSUME NEW x \in Nat, NEW k \in 0 .. (WordBits - 1)
    PROVE  /\ Bit(x, k) \in {0, 1}
           /\ x \div 2 ^ (k + 1) \in Nat /\ x \div 2 ^ k = 2 * (x \div 2 ^ (k + 1)) + Bit(x, k)
           /\ x % 2 ^ k \in Nat /\ x % 2 ^ (k + 1) = (x % 2 ^ k) + Bit(x, k) * 2 ^ k
<1>0. WordBits \in Nat /\ k \in 0 .. WordBits
  BY Sizes
<1>1. PICK p \in Nat \ {0} : p = 2 ^ k /\ 2 ^ (k + 1) = 2 * p
  <2>1. 2 ^ k \in Nat \ {0} /\ 2 ^ (k + 1) = 2 * 2 ^ k
    BY <1>0, Twos, PowerAssumption
  <2> QED BY <2>1
<1>2. PICK q \in Nat, r \in Nat : q = x \div p /\ r = x % p /\ x = p * q + r /\ q <= x /\ r < p
  BY CanDivideNat
<1>3. PICK h \in Nat, b \in Nat : h = q \div 2 /\ b = q % 2 /\ q = 2 * h + b /\ h <= q /\ b < 2
  <2>1. 2 \in Nat \ {0}
    OBVIOUS
  <2> QED BY <2>1, CanDivideNat
<1>4. Bit(x, k) = b
  BY <1>1, <1>2, <1>3 DEF Bit
<1>5. PICK P \in Nat \ {0} : P = 2 * p
  BY <1>1
<1>6. PICK R \in Int : R = p * b + r
  BY <1>1, <1>2, <1>3
<1>7. x = P * h + R
  <2>1. p * (2 * h + b) = (2 * p) * h + p * b
    BY <1>1, <1>3
  <2> QED BY <1>1, <1>2, <1>3, <1>5, <1>6, <2>1
<1>8. R \in 0 .. (P - 1) /\ R = r + b * p
  <2>1. p * 0 = 0 /\ 0 * p = 0 /\ p * 1 = p /\ 1 * p = p
    BY <1>1
  <2>2. p >= 1 /\ P = 2 * p /\ r >= 0 /\ r < p /\ r \in Int /\ p \in Int /\ P \in Int
    BY <1>1, <1>2, <1>5
  <2>3. CASE b = 0
    <3>1. R = r /\ R = r + b * p
      BY <1>6, <2>1, <2>2, <2>3
    <3> QED BY ONLY <2>2, <3>1
  <2>4. CASE b = 1
    <3>1. R = r + p /\ R = r + b * p
      BY <1>6, <2>1, <2>2, <2>4
    <3> QED BY ONLY <2>2, <3>1
  <2>5. b = 0 \/ b = 1
    BY <1>3
  <2> QED BY <2>3, <2>4, <2>5
<1>9. x \div P = h /\ x % P = R
  <2>1. Divided(x, P, h, R)
    BY <1>3, <1>5, <1>7, <1>8 DEF Divided
  <2> QED BY <2>1, DividedIs
<1>10. b \in {0, 1}
  BY <1>3
<1>11. q = 2 * h + b /\ h \in Nat /\ r \in Nat
  BY <1>1, <1>2, <1>3
<1> QED BY ONLY <1>1, <1>2, <1>4, <1>5, <1>8, <1>9, <1>10, <1>11

\* The bitwise opcodes add up: what two words have in common counts twice in their

\* sum, what only one of them has counts once.
LEMMA BitwiseIs ==
    ASSUME NEW a \in Word, NEW b \in Word
    PROVE  /\ opAnd(a, b) + opOr(a, b) = a + b
           /\ opOr(a, b) - opXor(a, b) = opAnd(a, b)
           /\ opXor(a, b) = a + b - 2 * opAnd(a, b)
<1>0. a \in Nat /\ b \in Nat /\ WordBits \in Nat \ {0} /\ a < WordMod /\ b < WordMod
  BY WordType, Sizes, Moduli DEF Word
<1> DEFINE both(i) == <<Bit(a, i), Bit(b, i)>>
<1>1. PICK A \in [0 .. WordBits -> Nat] :
         /\ opAnd(a, b) = A[WordBits] /\ A[0] = 0
         /\ \A n \in 1 .. WordBits :
               A[n] = A[n - 1] + (IF both(n - 1) \in {<<1, 1>>}
                                  THEN 2 ^ (n - 1) ELSE 0)
  <2>1. PICK ones : ones = {<<1, 1>>}
    OBVIOUS
  <2>2. opAnd(a, b) = BitByBit(ones, a, b)
    BY <2>1 DEF opAnd
  <2>3. PICK g \in [0 .. WordBits -> Nat] :
              /\ BitByBit(ones, a, b) = g[WordBits] /\ g[0] = 0
              /\ \A n \in 1 .. WordBits :
                    g[n] = g[n - 1] + (IF <<Bit(a, n - 1), Bit(b, n - 1)>> \in ones
                                       THEN 2 ^ (n - 1) ELSE 0)
    BY BitByBitIs
  <2> QED BY ONLY <2>1, <2>2, <2>3, Zenon
<1>2. PICK O \in [0 .. WordBits -> Nat] :
         /\ opOr(a, b) = O[WordBits] /\ O[0] = 0
         /\ \A n \in 1 .. WordBits :
               O[n] = O[n - 1] + (IF both(n - 1) \in {<<0, 1>>, <<1, 0>>, <<1, 1>>}
                                  THEN 2 ^ (n - 1) ELSE 0)
  <2>1. PICK ones : ones = {<<0, 1>>, <<1, 0>>, <<1, 1>>}
    OBVIOUS
  <2>2. opOr(a, b) = BitByBit(ones, a, b)
    BY <2>1 DEF opOr
  <2>3. PICK g \in [0 .. WordBits -> Nat] :
              /\ BitByBit(ones, a, b) = g[WordBits] /\ g[0] = 0
              /\ \A n \in 1 .. WordBits :
                    g[n] = g[n - 1] + (IF <<Bit(a, n - 1), Bit(b, n - 1)>> \in ones
                                       THEN 2 ^ (n - 1) ELSE 0)
    BY BitByBitIs
  <2> QED BY ONLY <2>1, <2>2, <2>3, Zenon
<1>3. PICK X \in [0 .. WordBits -> Nat] :
         /\ opXor(a, b) = X[WordBits] /\ X[0] = 0
         /\ \A n \in 1 .. WordBits :
               X[n] = X[n - 1] + (IF both(n - 1) \in {<<0, 1>>, <<1, 0>>}
                                  THEN 2 ^ (n - 1) ELSE 0)
  <2>1. PICK ones : ones = {<<0, 1>>, <<1, 0>>}
    OBVIOUS
  <2>2. opXor(a, b) = BitByBit(ones, a, b)
    BY <2>1 DEF opXor
  <2>3. PICK g \in [0 .. WordBits -> Nat] :
              /\ BitByBit(ones, a, b) = g[WordBits] /\ g[0] = 0
              /\ \A n \in 1 .. WordBits :
                    g[n] = g[n - 1] + (IF <<Bit(a, n - 1), Bit(b, n - 1)>> \in ones
                                       THEN 2 ^ (n - 1) ELSE 0)
    BY BitByBitIs
  <2> QED BY ONLY <2>1, <2>2, <2>3, Zenon
<1> DEFINE T == {n \in 0 .. WordBits : /\ A[n] + O[n] = (a % 2 ^ n) + (b % 2 ^ n)
                                       /\ O[n] = A[n] + X[n]}
<1>4. 0 \in T
  <2>1. 2 ^ 0 = 1
    BY PowerAssumption
  <2>2. a % 1 = 0 /\ b % 1 = 0
    BY <1>0
  <2>3. A[0] + O[0] = 0 /\ O[0] = A[0] + X[0] /\ 0 \in 0 .. WordBits
    BY <1>0, <1>1, <1>2, <1>3
  <2> QED BY <2>1, <2>2, <2>3
<1>5. ASSUME NEW n \in 0 .. WordBits, n \in T, n < WordBits
      PROVE  n + 1 \in T
  <2>1. n \in 0 .. (WordBits - 1) /\ n + 1 \in 1 .. WordBits /\ (n + 1) - 1 = n /\ n + 1 \in 0 .. WordBits
    BY <1>0, <1>5
  <2>2. PICK p \in Nat : p = 2 ^ n
    BY Twos
  <2>3. PICK x \in {0, 1}, la \in Nat, ha \in Nat :
           /\ x = Bit(a, n) /\ la = a % 2 ^ n /\ ha = a % 2 ^ (n + 1) /\ ha = la + x * p
    <3>1. Bit(a, n) \in {0, 1} /\ a % 2 ^ n \in Nat /\ a % 2 ^ (n + 1) = (a % 2 ^ n) + Bit(a, n) * p
      BY <1>0, <2>1, <2>2, BitIs
    <3>2. (a % 2 ^ n) + Bit(a, n) * p \in Nat
      BY <2>2, <3>1
    <3> QED BY <3>1, <3>2
  <2>4. PICK y \in {0, 1}, lb \in Nat, hb \in Nat :
           /\ y = Bit(b, n) /\ lb = b % 2 ^ n /\ hb = b % 2 ^ (n + 1) /\ hb = lb + y * p
    <3>1. Bit(b, n) \in {0, 1} /\ b % 2 ^ n \in Nat /\ b % 2 ^ (n + 1) = (b % 2 ^ n) + Bit(b, n) * p
      BY <1>0, <2>1, <2>2, BitIs
    <3>2. (b % 2 ^ n) + Bit(b, n) * p \in Nat
      BY <2>2, <3>1
    <3> QED BY <3>1, <3>2
  <2>5. /\ A[n] \in Nat /\ O[n] \in Nat /\ X[n] \in Nat
        /\ A[n] + O[n] = la + lb /\ O[n] = A[n] + X[n]
    BY <1>1, <1>2, <1>3, <1>5, <2>3, <2>4
  <2>6. /\ A[n + 1] = A[n] + (IF <<x, y>> \in {<<1, 1>>} THEN p ELSE 0)
        /\ O[n + 1] = O[n] + (IF <<x, y>> \in {<<0, 1>>, <<1, 0>>, <<1, 1>>} THEN p ELSE 0)
        /\ X[n + 1] = X[n] + (IF <<x, y>> \in {<<0, 1>>, <<1, 0>>} THEN p ELSE 0)
    BY <1>1, <1>2, <1>3, <2>1, <2>2, <2>3, <2>4
  <2>7. /\ A[n + 1] = A[n] + (IF x = 1 /\ y = 1 THEN p ELSE 0)
        /\ O[n + 1] = O[n] + (IF x = 1 \/ y = 1 THEN p ELSE 0)
        /\ X[n + 1] = X[n] + (IF x # y THEN p ELSE 0)
    BY ONLY <2>6, x \in {0, 1}, y \in {0, 1}
  <2>8. A[n + 1] + O[n + 1] = ha + hb /\ O[n + 1] = A[n + 1] + X[n + 1]
    <3>1. /\ (x = 0 => x * p = 0) /\ (x = 1 => x * p = p)
          /\ (y = 0 => y * p = 0) /\ (y = 1 => y * p = p)
      BY <2>2
    <3>2. /\ (x = 0 => ha = la) /\ (x = 1 => ha = la + p)
          /\ (y = 0 => hb = lb) /\ (y = 1 => hb = lb + p)
      <4>1. ha = la + x * p /\ hb = lb + y * p /\ la \in Int /\ lb \in Int
        BY <2>3, <2>4
      <4> QED BY ONLY <3>1, <4>1, p \in Nat
    <3>0. PICK u \in Int, v \in Int, w \in Int : u = A[n] /\ v = O[n] /\ w = X[n]
      BY <2>5
    <3>3. CASE x = 0 /\ y = 0
      <4>1. /\ A[n + 1] = u + 0 /\ O[n + 1] = v + 0
            /\ X[n + 1] = w + 0
        BY ONLY <2>7, <3>0, <3>3
      <4>2. ha = la /\ hb = lb /\ u + v = la + lb /\ v = u + w
        BY <2>5, <3>0, <3>2, <3>3
      <4>3. p \in Int /\ la \in Int /\ lb \in Int /\ u \in Int /\ v \in Int /\ w \in Int
        BY <2>2, <2>3, <2>4, <3>0
      <4> QED BY ONLY <4>1, <4>2, <4>3
    <3>4. CASE x = 1 /\ y = 0
      <4>1. /\ A[n + 1] = u + 0 /\ O[n + 1] = v + p
            /\ X[n + 1] = w + p
        BY ONLY <2>7, <3>0, <3>4
      <4>2. ha = la + p /\ hb = lb /\ u + v = la + lb /\ v = u + w
        BY <2>5, <3>0, <3>2, <3>4
      <4>3. p \in Int /\ la \in Int /\ lb \in Int /\ u \in Int /\ v \in Int /\ w \in Int
        BY <2>2, <2>3, <2>4, <3>0
      <4> QED BY ONLY <4>1, <4>2, <4>3
    <3>5. CASE x = 0 /\ y = 1
      <4>1. /\ A[n + 1] = u + 0 /\ O[n + 1] = v + p
            /\ X[n + 1] = w + p
        BY ONLY <2>7, <3>0, <3>5
      <4>2. ha = la /\ hb = lb + p /\ u + v = la + lb /\ v = u + w
        BY <2>5, <3>0, <3>2, <3>5
      <4>3. p \in Int /\ la \in Int /\ lb \in Int /\ u \in Int /\ v \in Int /\ w \in Int
        BY <2>2, <2>3, <2>4, <3>0
      <4> QED BY ONLY <4>1, <4>2, <4>3
    <3>6. CASE x = 1 /\ y = 1
      <4>1. /\ A[n + 1] = u + p /\ O[n + 1] = v + p
            /\ X[n + 1] = w + 0
        BY ONLY <2>7, <3>0, <3>6
      <4>2. ha = la + p /\ hb = lb + p /\ u + v = la + lb /\ v = u + w
        BY <2>5, <3>0, <3>2, <3>6
      <4>3. p \in Int /\ la \in Int /\ lb \in Int /\ u \in Int /\ v \in Int /\ w \in Int
        BY <2>2, <2>3, <2>4, <3>0
      <4> QED BY ONLY <4>1, <4>2, <4>3
    <3> QED BY <3>3, <3>4, <3>5, <3>6
  <2> QED BY <2>1, <2>3, <2>4, <2>8
<1> HIDE DEF T
<1>6. \A n \in 0 .. WordBits : n \in T
  BY <1>0, <1>4, <1>5, CountingUp
<1>7. A[WordBits] + O[WordBits] = (a % WordMod) + (b % WordMod) /\ O[WordBits] = A[WordBits] + X[WordBits]
  BY <1>0, <1>6 DEF T, WordMod
<1>8. a % WordMod = a /\ b % WordMod = b
  <2>1. Divided(a, WordMod, 0, a) /\ Divided(b, WordMod, 0, b)
    BY <1>0, Moduli DEF Divided
  <2> QED BY <2>1, DividedIs
<1>9. A[WordBits] \in Nat /\ O[WordBits] \in Nat /\ X[WordBits] \in Nat
  BY <1>0, <1>1, <1>2, <1>3
<1>10. PICK u \in Nat, v \in Nat, w \in Nat : u = opAnd(a, b) /\ v = opOr(a, b) /\ w = opXor(a, b)
  BY <1>1, <1>2, <1>3, <1>9
<1>11. u + v = a + b /\ v = u + w
  BY <1>1, <1>2, <1>3, <1>7, <1>8, <1>10
<1>13. a \in Int /\ b \in Int /\ u \in Int /\ v \in Int /\ w \in Int
  BY <1>0, <1>10
<1>12. v - w = u /\ w = a + b - 2 * u
  BY ONLY <1>11, <1>13
<1> QED BY ONLY <1>10, <1>11, <1>12, <1>13

\* A shift to the right that keeps the sign is a division that rounds down.
LEMMA SarIs ==
    ASSUME NEW a \in Word, NEW b \in Word
    PROVE  Signed(opSar(a, b)) = IF a >= WordBits THEN (IF Signed(b) < 0 THEN -1 ELSE 0)
                                 ELSE Signed(b) \div 2 ^ a
<1> DEFINE r == opSar(a, b)
<1>0. /\ a \in Nat /\ b \in Nat /\ b < WordMod /\ WordBits \in Nat
      /\ WordMod \in Nat \ {0} /\ Half \in Nat \ {0} /\ WordMod = 2 * Half
  BY WordType, Sizes, Moduli DEF Word
<1>1. /\ Signed(b) = (IF b >= Half THEN b - WordMod ELSE b)
      /\ (Negative(b) <=> b >= Half) /\ (Signed(b) < 0 <=> Negative(b))
  BY SignedIs
<1>2. CASE a >= WordBits
  <2>1. r = IF Negative(b) THEN WordMod - 1 ELSE 0
    BY <1>0, <1>2 DEF opSar
  <2>2. WordMod - 1 \in Word /\ 0 \in Word
    BY WordType
  <2>3. Signed(WordMod - 1) = -1 /\ Signed(0) = 0
    <3>1. PICK w \in Word : w = WordMod - 1
      BY <2>2
    <3>2. Signed(w) = IF w >= Half THEN w - WordMod ELSE w
      BY SignedIs
    <3>3. Signed(0) = IF 0 >= Half THEN 0 - WordMod ELSE 0
      BY <2>2, SignedIs
    <3>4. Signed(w) = -1 /\ Signed(0) = 0
      BY <1>0, <3>1, <3>2, <3>3
    <3> QED BY <3>1, <3>4
  <2> QED BY <1>1, <1>2, <2>1, <2>3
<1>3. CASE a < WordBits
  <2>1. a \in 0 .. WordBits
    BY <1>0, <1>3
  <2>2. PICK p \in Nat \ {0}, k \in Nat \ {0} :
           p = 2 ^ a /\ k = 2 ^ (WordBits - a) /\ WordMod = p * k /\ k <= WordMod
    <3>1. /\ 2 ^ a \in Nat \ {0} /\ 2 ^ (WordBits - a) \in Nat \ {0}
          /\ WordMod = 2 ^ a * 2 ^ (WordBits - a)
      BY <2>1, TwosDivide
    <3>2. WordBits - a \in 0 .. WordBits
      BY <1>0, <2>1
    <3>3. 2 ^ (WordBits - a) <= WordMod
      BY <3>2, TwosDivide
    <3> QED BY <3>1, <3>3
  <2>3. PICK q \in Nat, e \in 0 .. (p - 1) : q = b \div p /\ b = p * q + e
    <3>1. PICK q \in Nat, e \in Nat : q = b \div p /\ e = b % p /\ b = p * q + e /\ q <= b /\ e < p
      BY <1>0, CanDivideNat
    <3>2. e \in 0 .. (p - 1)
      BY <3>1
    <3> QED BY <3>1, <3>2
  <2>4. r = IF Negative(b) THEN q + (WordMod - k) ELSE q
    <3>1. ~ (a > WordBits - 1)
      BY <1>0, <1>3
    <3> QED BY <2>2, <2>3, <3>1 DEF opSar, SRsh, Rsh
  <2>5. q <= b
    <3>1. b \div p \in 0 .. b
      BY <1>0, DivNat
    <3> QED BY <1>0, <2>3, <3>1
  <2>6. CASE ~ Negative(b)
    <3>1. r = q /\ q \in Word /\ q < Half /\ Signed(b) = b
      BY <1>0, <1>1, <2>4, <2>5, <2>6 DEF Word
    <3>2. Signed(q) = IF q >= Half THEN q - WordMod ELSE q
      BY <3>1, SignedIs
    <3>3. Signed(r) = q
      BY <1>0, <3>1, <3>2
    <3>4. ~ (a >= WordBits)
      BY <1>0, <1>3
    <3> QED BY <2>2, <2>3, <3>1, <3>3, <3>4
  <2>7. CASE Negative(b)
    <3>1. b >= Half /\ Signed(b) = b - WordMod
      BY <1>1, <2>7
    \* the quotient is less than k, by at most Half
    <3>2. PICK d \in Int : d = k - q
      BY <2>2, <2>3
    <3>3. p * d = WordMod - b + e
      <4>1. p * (k - q) = p * k - p * q
        BY <2>2, <2>3
      <4>2. p * k \in Int /\ p * q \in Int
        BY <2>2, <2>3
      <4> QED BY <1>0, <2>2, <2>3, <3>2, <4>1, <4>2
    <3>4. d >= 1
      <4>1. d <= 0 => p * d <= 0
        BY <2>2, <3>2
      <4> QED BY <1>0, <2>3, <3>2, <3>3, <4>1
    <3>5. d <= Half
      <4>1. PICK c \in Nat : c = d - 1
        BY <3>4
      <4>2. p * d = p * c + p
        BY <2>2, <4>1
      <4>3. p * c >= c
        BY <2>2, <4>1
      <4>4. p * c < Half + 0
        BY <1>0, <2>2, <2>3, <3>1, <3>3, <4>1, <4>2
      <4> QED BY <1>0, <3>2, <4>1, <4>3, <4>4, p * c \in Int
    <3>6. r = WordMod - d /\ r \in Int
      BY <1>0, <2>2, <2>3, <2>4, <2>7, <3>2
    <3>7. r \in Word /\ r >= Half
      BY <1>0, <3>2, <3>4, <3>5, <3>6 DEF Word
    <3>8. Signed(r) = r - WordMod
      <4>1. Signed(r) = IF r >= Half THEN r - WordMod ELSE r
        BY <3>7, SignedIs
      <4> QED BY <3>7, <4>1
    <3>9. Signed(r) = 0 - d
      BY <1>0, <3>2, <3>6, <3>8
    <3>10. Signed(b) \div p = 0 - d
      <4>1. PICK y \in Int, z \in Int : y = b - WordMod /\ z = 0 - d
        BY <1>0, <3>2
      <4>2. p * z = 0 - p * d /\ p * d \in Int
        BY <2>2, <3>2, <4>1
      <4>3. Divided(y, p, z, e)
        BY <1>0, <2>2, <2>3, <3>3, <4>1, <4>2 DEF Divided
      <4>4. y \div p = z
        BY <4>3, DividedIs
      <4> QED BY <3>1, <4>1, <4>4
    <3>11. ~ (a >= WordBits)
      BY <1>0, <1>3
    <3> QED BY <2>2, <3>9, <3>10, <3>11
  <2> QED BY <2>6, <2>7
<1> QED BY <1>0, <1>2, <1>3

\* The sign of a number of fewer bytes fills the word.
LEMMA SignExtendIs ==
    ASSUME NEW a \in Word, NEW b \in Word
    PROVE  IF a >= WordBytes THEN opSignExtend(a, b) = b
           ELSE LET m == ByteMod ^ (a + 1)
                    sr == Signed(opSignExtend(a, b))
                IN  (sr - b) % m = 0 /\ 0 - m <= 2 * sr /\ 2 * sr < m
<1> DEFINE r == opSignExtend(a, b)
<1> DEFINE sr == Signed(r)
<1>0. /\ a \in Nat /\ b \in Nat /\ b < WordMod /\ WordBytes \in Nat \ {0} /\ WordBits \in Nat
      /\ WordMod \in Nat \ {0} /\ Half \in Nat \ {0} /\ WordMod = 2 * Half
  BY WordType, Sizes, Moduli DEF Word
<1>1. CASE a >= WordBytes
  BY <1>0, <1>1 DEF opSignExtend, ExtendSign
<1>2. CASE a = WordBytes - 1
  <2>1. r = b /\ a + 1 = WordBytes
    BY <1>0, <1>2 DEF opSignExtend, ExtendSign
  <2>2. ByteMod ^ (a + 1) = WordMod
    BY <2>1, WordOfBytes
  <2>3. sr = IF b >= Half THEN b - WordMod ELSE b
    BY <2>1, SignedIs
  <2> HIDE DEF sr
  <2>4. \E z \in Int : Divided(sr - b, WordMod, z, 0)
    <3>1. b >= Half => Divided(sr - b, WordMod, -1, 0)
      BY <1>0, <2>3 DEF Divided
    <3>2. ~ (b >= Half) => Divided(sr - b, WordMod, 0, 0)
      BY <1>0, <2>3 DEF Divided
    <3> QED BY <3>1, <3>2
  <2>6. (sr - b) % WordMod = 0
    BY <2>4, DividedIs
  <2>7. 0 - WordMod <= 2 * sr /\ 2 * sr < WordMod
    BY <1>0, <2>3
  <2>8. ~ (a >= WordBytes)
    BY <1>0, <1>2
  <2> QED BY ONLY <2>2, <2>6, <2>7, <2>8 DEF sr, r
<1>3. CASE a < WordBytes - 1
  <2>1. a + 1 \in 0 .. WordBytes /\ a + 1 >= 1 /\ ~ (a >= WordBytes) /\ ~ (a >= WordBytes - 1)
    BY <1>0, <1>3
  <2>2. PICK n \in 1 .. (WordBits - 1) : n = (a + 1) * ByteBits
    <3>1. ByteBits \in Nat \ {0} /\ WordBits = WordBytes * ByteBits
      BY Sizes DEF WordBits
    <3>2. PICK k \in Nat \ {0} : WordBytes = (a + 1) + k
      <4>1. WordBytes - (a + 1) \in Nat \ {0} /\ WordBytes = (a + 1) + (WordBytes - (a + 1))
        BY <1>0, <1>3
      <4> QED BY <4>1
    <3>3. WordBits = (a + 1) * ByteBits + k * ByteBits
      BY <1>0, <3>1, <3>2
    <3>4. ByteBits * k >= ByteBits /\ ByteBits * (a + 1) >= ByteBits
      BY <1>0, <2>1, <3>1, <3>2, Products
    <3>5. ByteBits * k = k * ByteBits /\ ByteBits * (a + 1) = (a + 1) * ByteBits
          /\ k * ByteBits \in Nat /\ (a + 1) * ByteBits \in Nat
      BY <1>0, <3>1, <3>2
    <3> QED BY <1>0, <3>1, <3>3, <3>4, <3>5
  <2>3. PICK m \in Nat \ {0}, h \in Nat \ {0} :
           m = ByteMod ^ (a + 1) /\ m = 2 * h /\ m <= Half
    <3>1. ByteMod ^ (a + 1) = 2 ^ n
      BY <2>1, <2>2, BytePowers
    <3>2. PICK j \in 0 .. (WordBits - 1) : n = j + 1 /\ j \in 0 .. WordBits
      <4>1. n - 1 \in 0 .. (WordBits - 1) /\ n = (n - 1) + 1 /\ n - 1 \in 0 .. WordBits
        BY <1>0, <2>2
      <4> QED BY <4>1
    <3>3. 2 ^ j \in Nat \ {0} /\ 2 ^ n = 2 * 2 ^ j
      BY <3>2, Twos, PowerAssumption
    <3>4. 2 ^ n <= Half
      <4>1. n \in 0 .. WordBits /\ WordBits - n \in Nat \ {0}
        BY <1>0, <2>2
      <4>2. PICK p \in Nat \ {0}, k \in Nat \ {0} : p = 2 ^ n /\ k = 2 ^ (WordBits - n) /\ WordMod = p * k
        BY <4>1, TwosDivide
      <4>3. PICK i \in 0 .. (WordBits - 1) : WordBits - n = i + 1 /\ i \in 0 .. WordBits
        <5>1. (WordBits - n) - 1 \in 0 .. (WordBits - 1) /\ WordBits - n = ((WordBits - n) - 1) + 1
              /\ (WordBits - n) - 1 \in 0 .. WordBits
          BY <1>0, <4>1
        <5> QED BY <5>1
      <4>4. PICK l \in Nat \ {0} : l = 2 ^ i /\ k = 2 * l
        BY <4>2, <4>3, Twos, PowerAssumption
      <4>5. p * l >= p
        BY <4>2, <4>4, Products
      <4>6. p * k = 2 * (p * l) /\ p * l \in Nat
        BY <4>2, <4>4
      <4>7. p <= Half
        BY <1>0, <4>2, <4>5, <4>6
      <4> QED BY <4>2, <4>7
    <3> QED BY <3>1, <3>3, <3>4
  <2>4. PICK q \in Nat, l \in 0 .. (m - 1) : l = b % m /\ b = m * q + l
    <3>1. PICK q \in Nat, l \in Nat : q = b \div m /\ l = b % m /\ b = m * q + l /\ q <= b /\ l < m
      BY <1>0, CanDivideNat
    <3>2. l \in 0 .. (m - 1)
      BY <3>1
    <3> QED BY <3>1, <3>2
  <2>5. m \div 2 = h
    <3>1. Divided(m, 2, h, 0)
      BY <2>3 DEF Divided
    <3> QED BY <3>1, DividedIs
  <2>6. r = IF l >= h THEN l + (WordMod - m) ELSE l
    BY <2>1, <2>3, <2>4, <2>5 DEF opSignExtend, ExtendSign
  <2>7. r \in Word /\ (l >= h => r >= Half) /\ (~ (l >= h) => r < Half) /\ r \in Int
    BY <1>0, <2>3, <2>4, <2>6 DEF Word
  <2>8. sr = IF r >= Half THEN r - WordMod ELSE r
    BY <2>7, SignedIs
  <2>9. sr = IF l >= h THEN l - m ELSE l
    <3> HIDE DEF r, sr
    <3> QED BY <1>0, <2>3, <2>4, <2>6, <2>7, <2>8
  <2> HIDE DEF sr, r
  <2>10. \E z \in Int : Divided(sr - b, m, z, 0)
    <3>1. PICK p \in Int : p = m * q
      BY <2>3, <2>4
    <3>2. PICK u \in Int, v \in Int : u = 0 - q /\ v = (0 - q) - 1
      BY <2>4
    <3>3. m * u = 0 - p /\ m * v = (0 - p) - m
      <4>1. m * (0 - q) = 0 - m * q
        BY <2>3, <2>4
      <4>2. m * (u - 1) = m * u - m
        BY <2>3, <3>2
      <4>3. v = u - 1 /\ m * u = 0 - p
        BY <3>1, <3>2, <4>1
      <4> QED BY <4>2, <4>3
    <3>4. b = p + l /\ l \in Int /\ m \in Int
      BY <2>3, <2>4, <3>1
    <3>5. l >= h => sr - b = (0 - p) - m
      BY <2>9, <3>1, <3>4
    <3>6. ~ (l >= h) => sr - b = 0 - p
      BY <2>9, <3>1, <3>4
    <3>7. l >= h => Divided(sr - b, m, v, 0)
      BY <2>3, <3>1, <3>2, <3>3, <3>5 DEF Divided
    <3>8. ~ (l >= h) => Divided(sr - b, m, u, 0)
      BY <2>3, <3>1, <3>2, <3>3, <3>6 DEF Divided
    <3> QED BY <3>2, <3>7, <3>8
  <2>12. (sr - b) % m = 0
    BY <2>10, DividedIs
  <2>13. 0 - m <= 2 * sr /\ 2 * sr < m
    BY <2>3, <2>4, <2>9
  <2> QED BY ONLY <2>1, <2>3, <2>12, <2>13 DEF sr, r
<1>4. a >= WordBytes \/ a = WordBytes - 1 \/ a < WordBytes - 1
  BY <1>0
<1> QED BY <1>1, <1>2, <1>3, <1>4

\* One byte of a word.
LEMMA ByteIs ==
    ASSUME NEW a \in Word, NEW b \in Word
    PROVE  opByte(a, b)
              = (IF a >= WordBytes THEN 0 ELSE b \div ByteMod ^ (WordBytes - 1 - a)) % ByteMod
<1>0. a \in Nat /\ WordBytes \in Nat \ {0} /\ ByteMod \in Nat \ {0}
  BY WordType, Sizes, Moduli
<1>1. CASE a >= WordBytes
  <2>1. opByte(a, b) = 0
    BY <1>0, <1>1 DEF opByte
  <2>2. 0 % ByteMod = 0
    <3>1. Divided(0, ByteMod, 0, 0)
      BY <1>0 DEF Divided
    <3> QED BY <3>1, DividedIs
  <2> QED BY <1>1, <2>1, <2>2
<1>2. CASE a < WordBytes
  <2>1. a + 1 \in 1 .. WordBytes /\ WordBytes - (a + 1) = WordBytes - 1 - a /\ ~ (a >= WordBytes)
    BY <1>0, <1>2
  <2>2. Bytes32(b)[a + 1] = (b \div ByteMod ^ (WordBytes - (a + 1))) % ByteMod
    BY <2>1 DEF Bytes32
  <2>3. opByte(a, b) = (b \div ByteMod ^ (WordBytes - (a + 1))) % ByteMod
    BY <1>2, <2>2 DEF opByte
  <2> QED BY ONLY <2>1, <2>3
<1> QED BY <1>0, <1>1, <1>2
(***************************************************************************)
(* Powers modulo WordMod.                                                  *)
(***************************************************************************)

\* A factor may be reduced before the product is.
LEMMA ReduceFactor ==
    ASSUME NEW x \in Int, NEW y \in Int
    PROVE  ((x % WordMod) * y) % WordMod = (x * y) % WordMod
<1>0. WordMod \in Nat \ {0}
  BY Moduli
<1>1. PICK q \in Int, r \in 0 .. (WordMod - 1) : r = x % WordMod /\ x = WordMod * q + r
  BY <1>0, CanDivide
<1>2. PICK s \in Int : s = r * y
  BY <1>1
<1>3. PICK p \in Int, t \in 0 .. (WordMod - 1) : t = s % WordMod /\ s = WordMod * p + t
  <2>1. \A n \in Nat \ {0} : \E j \in Int, k \in 0 .. (n - 1) : j = s \div n /\ k = s % n /\ s = n * j + k
    BY ONLY s \in Int, CanDivide
  <2> QED BY ONLY <1>0, <2>1
<1>4. PICK z \in Int : z = q * y + p
  BY <1>1, <1>3
<1>5. x * y = WordMod * z + t /\ x * y \in Int
  <2>1. (WordMod * q + r) * y = WordMod * (q * y) + r * y
    BY <1>0, <1>1
  <2>2. WordMod * (q * y + p) = WordMod * (q * y) + WordMod * p
    BY <1>0, <1>1, <1>3
  <2>3. WordMod * (q * y) \in Int /\ WordMod * p \in Int /\ x * y \in Int
    BY <1>0, <1>1, <1>3
  <2> QED BY <1>1, <1>2, <1>3, <1>4, <2>1, <2>2, <2>3
<1>6. PICK w \in Int : w = x * y
  BY <1>5
<1>7. w % WordMod = t
  <2>1. Divided(w, WordMod, z, t)
    BY <1>0, <1>3, <1>4, <1>5, <1>6 DEF Divided
  <2> QED BY <2>1, DividedIs
<1> QED BY <1>1, <1>2, <1>3, <1>6, <1>7

\* The powers of a base, one after the other.
Powers(base, p) ==
    /\ p \in [0 .. (WordMod - 1) -> Word]
    /\ p[0] = 1
    /\ \A n \in 1 .. (WordMod - 1) : p[n] = (p[n - 1] * base) % WordMod

LEMMA PowersExist ==
    ASSUME NEW base \in Word
    PROVE  \E p : Powers(base, p)
<1> DEFINE step == [x \in (1 .. (WordMod - 1)) \X Word |-> (x[2] * base) % WordMod]
<1>1. WordMod - 1 \in Nat /\ 1 \in Word /\ base \in Int /\ \A w \in Word : w \in Int
  BY Moduli, WordType
<1>2. step \in [(1 .. (WordMod - 1)) \X Word -> Word]
  <2>1. \A v \in Word : (v * base) % WordMod \in Word
    <3>1. \A v \in Word : v * base \in Int
      BY <1>1
    <3> QED BY <3>1, WordType
  <2> QED BY <2>1
<1>3. \A n \in 1 .. (WordMod - 1), v \in Word : step[<<n, v>>] = (v * base) % WordMod
  OBVIOUS
<1> HIDE DEF step
<1>4. PICK p \in [0 .. (WordMod - 1) -> Word] : Recursive(p, WordMod - 1, 1, step)
  BY <1>1, <1>2, RecursionExists
<1>5. p[0] = 1 /\ \A n \in 1 .. (WordMod - 1) : p[n] = step[<<n, p[n - 1]>>]
  BY <1>4 DEF Recursive
<1>6. \A n \in 1 .. (WordMod - 1) : p[n - 1] \in Word
  BY <1>1, <1>4
<1>7. Powers(base, p)
  BY <1>3, <1>4, <1>5, <1>6 DEF Powers
<1> QED BY <1>7

\* The power of a sum is the product of the powers.
LEMMA PowersAdd ==
    ASSUME NEW base \in Word, NEW p, Powers(base, p), NEW m \in Nat, NEW k \in Nat, m + k < WordMod
    PROVE  p[m + k] = (p[m] * p[k]) % WordMod
<1>0. WordMod \in Nat \ {0} /\ base \in Int /\ Word \subseteq Int
  BY Moduli, WordType
<1> DEFINE T == {n \in 0 .. k : p[m + n] = (p[m] * p[n]) % WordMod}
<1>1. 0 \in T
  <2>1. m \in 0 .. (WordMod - 1) /\ m + 0 = m
    BY <1>0
  <2>2. PICK x \in Word : x = p[m]
    BY <2>1 DEF Powers
  <2>3. p[0] = 1 /\ x * 1 = x /\ x \in Int
    BY <1>0 DEF Powers
  <2>4. x % WordMod = x
    <3>1. Divided(x, WordMod, 0, x)
      BY <1>0, <2>3 DEF Divided, Word
    <3> QED BY <3>1, DividedIs
  <2>5. 0 \in 0 .. k
    OBVIOUS
  <2> QED BY <2>1, <2>2, <2>3, <2>4, <2>5
<1>2. ASSUME NEW n \in 0 .. k, n \in T, n < k
      PROVE  n + 1 \in T
  <2>1. /\ n + 1 \in 0 .. k /\ m + (n + 1) \in 1 .. (WordMod - 1) /\ (m + (n + 1)) - 1 = m + n
        /\ n + 1 \in 1 .. (WordMod - 1) /\ (n + 1) - 1 = n
        /\ m \in 0 .. (WordMod - 1) /\ n \in 0 .. (WordMod - 1) /\ m + n \in 0 .. (WordMod - 1)
    BY <1>0, <1>2
  <2>2. PICK x \in Int, y \in Int : x = p[m] /\ y = p[n]
    BY <1>0, <2>1 DEF Powers
  <2>3. p[m + (n + 1)] = (p[m + n] * base) % WordMod /\ p[n + 1] = (y * base) % WordMod
    BY <2>1, <2>2 DEF Powers
  <2>4. p[m + n] = (x * y) % WordMod
    BY <1>2, <2>2
  <2>5. PICK s \in Int : s = x * y
    BY <2>2
  <2>6. ((s % WordMod) * base) % WordMod = (s * base) % WordMod
    BY <1>0, ReduceFactor
  <2>7. PICK t \in Int : t = y * base
    BY <1>0, <2>2
  <2>8. ((t % WordMod) * x) % WordMod = (t * x) % WordMod
    BY ReduceFactor, <2>2
  <2>9. t * x = s * base /\ (t % WordMod) * x = x * (t % WordMod)
    <3>1. (y * base) * x = (x * y) * base
      BY <1>0, <2>2
    <3>2. t % WordMod \in Int
      BY <1>0, <2>7
    <3> QED BY <2>2, <2>5, <2>7, <3>1, <3>2
  <2>10. p[m + (n + 1)] = (p[m] * p[n + 1]) % WordMod
    BY ONLY <2>2, <2>3, <2>4, <2>5, <2>6, <2>7, <2>8, <2>9
  <2> QED BY <2>1, <2>10
<1> HIDE DEF T
<1>3. \A n \in 0 .. k : n \in T
  BY <1>1, <1>2, CountingUp
<1>4. k \in T
  BY <1>3
<1> QED BY <1>4 DEF T

\* Square and multiply computes the power.
LEMMA ExpIsPower ==
    ASSUME NEW base \in Word, NEW p, Powers(base, p), NEW x \in Word
    PROVE  Exp(base, x) = p[x]
<1>0. /\ WordMod \in Nat \ {0} /\ WordMod >= 2 /\ base \in Int /\ x \in Nat /\ x < WordMod
      /\ WordBits \in Nat \ {0} /\ Word \subseteq Int
  BY Moduli, WordType, Sizes DEF Word
<1>1. PICK g \in [0 .. WordBits -> Word] :
         /\ Exp(base, x) = g[WordBits] /\ g[0] = 1
         /\ \A n \in 1 .. WordBits :
               g[n] = IF Bit(x, WordBits - n) = 1
                      THEN (((g[n - 1] * g[n - 1]) % WordMod) * base) % WordMod
                      ELSE (g[n - 1] * g[n - 1]) % WordMod
  BY ExpIs
<1> DEFINE top(n) == x \div 2 ^ (WordBits - n)
<1> DEFINE T == {n \in 0 .. WordBits : top(n) \in 0 .. x /\ g[n] = p[top(n)]}
<1>2. 0 \in T
  <2>1. top(0) = x \div WordMod /\ 0 \in 0 .. WordBits /\ 0 \in 0 .. x
    <3>1. WordBits - 0 = WordBits /\ 0 \in 0 .. WordBits /\ 0 \in 0 .. x
      BY <1>0
    <3>2. x \div 2 ^ (WordBits - 0) = x \div 2 ^ WordBits
      BY <3>1, Zenon
    <3> QED BY ONLY <3>1, <3>2, Zenon DEF WordMod
  <2>2. Divided(x, WordMod, 0, x)
    BY <1>0 DEF Divided
  <2>3. x \div WordMod = 0
    BY <2>2, DividedIs
  <2>4. p[0] = 1
    BY DEF Powers
  <2> QED BY <1>1, <2>1, <2>3, <2>4
<1>3. ASSUME NEW n \in 0 .. WordBits, n \in T, n < WordBits
      PROVE  n + 1 \in T
  <2>1. PICK k \in 0 .. (WordBits - 1) : k = WordBits - (n + 1) /\ k + 1 = WordBits - n
    <3>1. WordBits - (n + 1) \in 0 .. (WordBits - 1) /\ (WordBits - (n + 1)) + 1 = WordBits - n
      BY <1>0, <1>3
    <3> QED BY <3>1
  <2>2. n + 1 \in 1 .. WordBits /\ n + 1 \in 0 .. WordBits /\ (n + 1) - 1 = n
    BY <1>0, <1>3
  <2>3. PICK P \in Nat \ {0}, Q \in Nat \ {0} : P = 2 ^ k /\ Q = 2 ^ (k + 1)
    <3>1. k \in 0 .. WordBits /\ k + 1 \in 0 .. WordBits
      BY <1>0
    <3> QED BY <3>1, Twos
  <2>4. PICK t \in Nat, u \in Nat, b \in {0, 1} :
           /\ t = top(n) /\ u = top(n + 1) /\ b = Bit(x, WordBits - (n + 1))
           /\ u = 2 * t + b /\ u <= x
    <3>1. Bit(x, k) \in {0, 1} /\ x \div Q \in Nat /\ x \div P = 2 * (x \div Q) + Bit(x, k)
      BY <1>0, <2>3, BitIs
    <3>2. x \div P \in 0 .. x /\ x \in Nat
      BY <1>0, DivNat
    <3>3. top(n) = x \div Q /\ top(n + 1) = x \div P
      BY <2>1, <2>3, Zenon
    <3>4. Bit(x, WordBits - (n + 1)) = Bit(x, k)
      BY <2>1, Zenon
    <3>5. x \div P \in Nat /\ x \div P <= x
      BY <3>2
    <3> HIDE DEF top
    <3> QED BY <3>1, <3>3, <3>4, <3>5
  <2>11. t \in 0 .. (WordMod - 1) /\ t + t < WordMod /\ t \in Nat
    <3>1. u = t + t + b
      BY <2>4
    <3>2. b = 0 \/ b = 1
      BY <2>4
    <3>3. u <= x /\ x < WordMod /\ t \in Nat /\ u \in Int /\ x \in Int /\ WordMod \in Int
      BY <1>0, <2>4
    <3>4. CASE b = 0
      BY ONLY <3>1, <3>3, <3>4
    <3>5. CASE b = 1
      BY ONLY <3>1, <3>3, <3>5
    <3> QED BY <3>2, <3>4, <3>5
  <2>5. g[n] = p[t]
    BY <1>3, <2>4
  <2>6. PICK y \in Int, s \in Int : y = p[t] /\ s = (y * y) % WordMod
    <3>2. p[t] \in Int
      BY <1>0, <2>11 DEF Powers
    <3>3. \A z \in Int : z % WordMod \in Int
      BY <1>0
    <3>4. p[t] * p[t] \in Int
      BY <3>2
    <3> QED BY <3>2, <3>3, <3>4
  <2>7. p[t + t] = s
    <3>1. p[t + t] = (p[t] * p[t]) % WordMod
      BY <2>11, PowersAdd
    <3> QED BY <2>6, <3>1
  <2>8. g[n + 1] = IF b = 1 THEN (s * base) % WordMod ELSE s
    BY <1>1, <2>2, <2>4, <2>5, <2>6
  <2>9. g[n + 1] = p[u]
    <3>1. CASE b = 0
      <4>1. u = t + t
        BY <2>4, <3>1
      <4> QED BY <2>7, <2>8, <3>1, <4>1
    <3>2. CASE b = 1
      <4>0. u <= x /\ x < WordMod /\ t \in Nat /\ u \in Nat /\ x \in Int /\ WordMod \in Int /\ u = 2 * t + b
        BY <1>0, <2>4
      <4>1. u - 1 = t + t /\ u \in 1 .. (WordMod - 1)
        BY ONLY <3>2, <4>0
      <4>2. p[u] = (p[u - 1] * base) % WordMod
        BY SMTT(30), <4>1 DEF Powers
      <4> QED BY <2>7, <2>8, <3>2, <4>1, <4>2
    <3> QED BY <2>4, <3>1, <3>2
  <2>10. u \in 0 .. x
    BY <1>0, <2>4
  <2> QED BY <2>2, <2>4, <2>9, <2>10
<1> HIDE DEF T
<1>4. \A n \in 0 .. WordBits : n \in T
  BY <1>0, <1>2, <1>3, CountingUp
<1>5. WordBits \in T
  BY <1>0, <1>4
<1>6. top(WordBits) = x
  <2>1. WordBits - WordBits = 0 /\ 2 ^ 0 = 1
    BY <1>0, PowerAssumption
  <2>2. x \div 1 = x
    BY <1>0
  <2> QED BY <2>1, <2>2
<1> QED BY <1>1, <1>5, <1>6 DEF T

\* A power is the power before it times the base.
LEMMA ExpSteps ==
    ASSUME NEW a \in Word, NEW b \in Word
    PROVE  IF b = 0 THEN opExp(a, b) = 1 ELSE opExp(a, b) = (Exp(a, b - 1) * a) % WordMod
<1>0. WordMod \in Nat \ {0} /\ b \in Nat /\ b < WordMod
  BY Moduli, WordType DEF Word
<1>1. PICK p : Powers(a, p)
  BY PowersExist
<1>2. opExp(a, b) = p[b]
  BY <1>1, ExpIsPower DEF opExp
<1>3. CASE b = 0
  BY <1>1, <1>2, <1>3 DEF Powers
<1>4. CASE b # 0
  <2>1. b \in 1 .. (WordMod - 1) /\ b - 1 \in Word
    BY <1>0, <1>4 DEF Word
  <2>2. Exp(a, b - 1) = p[b - 1]
    BY <1>1, <2>1, ExpIsPower
  <2>3. p[b] = (p[b - 1] * a) % WordMod
    BY <1>1, <2>1 DEF Powers
  <2> QED BY <1>2, <1>4, <2>2, <2>3
<1> QED BY <1>3, <1>4
(***************************************************************************)
(* What every opcode computes.                                             *)
(***************************************************************************)

\* The opcodes with one operand.
LEMMA UnaryComputes ==
    ASSUME NEW o \in Unary, NEW a \in Word, NEW b, NEW n
    PROVE  Reference(o, a, b, n, ofUnary(o, a))
<1>1. CASE o = "NOT"
  <2>1. a \in Int /\ WordMod \in Int
    BY WordType, Moduli
  <2>2. a + opNot(a) = WordMod - 1
    BY <2>1 DEF opNot
  <2> QED BY <1>1, <2>2 DEF Reference, ofUnary
<1>2. CASE o = "ISZERO"
  BY <1>2 DEF Reference, ofUnary, opIsZero
<1> QED BY <1>1, <1>2 DEF Unary

\* The opcodes with two operands.
LEMMA BinaryComputes ==
    ASSUME NEW o \in Binary, NEW a \in Word, NEW b \in Word, NEW n
    PROVE  Reference(o, a, b, n, ofBinary(o, a, b))
<1>0. a \in Nat /\ b \in Nat
  BY WordType
<1>1. CASE o = "ADD"
  BY <1>1, UnsignedIs, WordType DEF Reference, ofBinary
<1>2. CASE o = "MUL"
  BY <1>2, UnsignedIs, WordType DEF Reference, ofBinary
<1>3. CASE o = "SUB"
  BY <1>3, UnsignedIs, WordType DEF Reference, ofBinary
<1>4. CASE o = "DIV"
  BY <1>4, UnsignedIs, WordType DEF Reference, ofBinary
<1>5. CASE o = "MOD"
  BY <1>5, UnsignedIs, WordType DEF Reference, ofBinary
<1>6. CASE o = "SDIV"
  BY <1>6, SDivIs DEF Reference, ofBinary
<1>7. CASE o = "SMOD"
  BY <1>7, SModIs DEF Reference, ofBinary
<1>8. CASE o = "EXP"
  BY <1>8, ExpSteps DEF Reference, ofBinary
<1>9. CASE o = "SIGNEXTEND"
  BY <1>9, SignExtendIs DEF Reference, ofBinary
<1>10. CASE o = "LT"
  BY <1>10 DEF Reference, ofBinary, opLt
<1>11. CASE o = "GT"
  BY <1>11 DEF Reference, ofBinary, opGt
<1>12. CASE o = "SLT"
  <2>1. Bool(Slt(a, b)) = Bool(Signed(a) < Signed(b))
    BY SignedLess DEF Bool
  <2> QED BY <1>12, <2>1 DEF Reference, ofBinary, opSlt
<1>13. CASE o = "SGT"
  <2>1. Signed(b) < Signed(a) <=> Signed(a) > Signed(b)
    <3>1. PICK x \in Int, y \in Int : x = Signed(a) /\ y = Signed(b)
      BY SignedIs
    <3>2. y < x <=> x > y
      OBVIOUS
    <3> QED BY <3>1, <3>2
  <2>2. Bool(Slt(b, a)) = Bool(Signed(a) > Signed(b))
    BY <2>1, SignedLess DEF Bool
  <2> QED BY <1>13, <2>2 DEF Reference, ofBinary, opSgt
<1>14. CASE o = "EQ"
  BY <1>14 DEF Reference, ofBinary, opEq
<1>15. CASE o = "AND"
  BY <1>15, BitwiseIs DEF Reference, ofBinary
<1>16. CASE o = "OR"
  BY <1>16, BitwiseIs DEF Reference, ofBinary
<1>17. CASE o = "XOR"
  BY <1>17, BitwiseIs DEF Reference, ofBinary
<1>18. CASE o = "BYTE"
  BY <1>18, ByteIs DEF Reference, ofBinary
<1>19. CASE o = "SHL"
  <2>1. a < WordBits <=> ~ (a >= WordBits)
    BY <1>0, Sizes
  <2> QED BY <1>19, <2>1 DEF Reference, ofBinary, opShl, Lsh
<1>20. CASE o = "SHR"
  <2>1. a < WordBits <=> ~ (a >= WordBits)
    BY <1>0, Sizes
  <2> QED BY <1>20, <2>1 DEF Reference, ofBinary, opShr, Rsh
<1>21. CASE o = "SAR"
  BY <1>21, SarIs DEF Reference, ofBinary
<1> QED BY <1>1, <1>2, <1>3, <1>4, <1>5, <1>6, <1>7, <1>8, <1>9, <1>10, <1>11, <1>12, <1>13,
           <1>14, <1>15, <1>16, <1>17, <1>18, <1>19, <1>20, <1>21 DEF Binary

\* The opcodes with three operands.
LEMMA TernaryComputes ==
    ASSUME NEW o \in Ternary, NEW a \in Word, NEW b \in Word, NEW n \in Word
    PROVE  Reference(o, a, b, n, ofTernary(o, a, b, n))
<1>1. CASE o = "ADDMOD"
  BY <1>1, UnsignedIs DEF Reference, ofTernary
<1>2. CASE o = "MULMOD"
  BY <1>2, UnsignedIs DEF Reference, ofTernary
<1> QED BY <1>1, <1>2 DEF Ternary
=============================================================================
