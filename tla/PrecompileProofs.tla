--------------------------- MODULE PrecompileProofs --------------------------
(***************************************************************************)
(* Proofs about the precompiled contracts, for every input, every amount   *)
(* of gas, every size of words, bytes and machine integers and every       *)
(* price: what a call leaves of its gas, when it panics, what an input     *)
(* that is cut off means, and what MODEXP answers and charges.             *)
(***************************************************************************)
EXTENDS Precompile, WordsProofs

(***************************************************************************)
(* Numbers.                                                                *)
(***************************************************************************)
\* Remainders of uint64 arithmetic.
LEMMA Wraps ==
    ASSUME NEW a \in Int
    PROVE  /\ a % U64 \in 0 .. (U64 - 1)
           /\ a \in 0 .. (U64 - 1) => a % U64 = a
<1>1. U64 \in Nat \ {0}
  BY PrecompileAssumption
<1>2. a % U64 \in 0 .. (U64 - 1)
  BY <1>1
<1>3. ASSUME a \in 0 .. (U64 - 1)
      PROVE  a % U64 = a
  BY <1>1, <1>3
<1> QED BY <1>2, <1>3

\* The types of the sizes and prices.
LEMMA Constants ==
    /\ WordBytes \in Nat \ {0} /\ PairBytes \in Nat \ {0}
    /\ U64 \in Nat \ {0} /\ LimbBytes \in Nat \ {0} /\ MaxAlloc \in Nat
    /\ RoundBytes \in Nat \ {0} /\ BlakeBytes \in Nat \ {0}
    /\ EcRecoverGas \in Nat /\ Sha256Gas \in Nat /\ Sha256Word \in Nat
    /\ RipemdGas \in Nat /\ RipemdWord \in Nat /\ IdentityGas \in Nat /\ IdentityWord \in Nat
    /\ Bn256AddGas \in Nat /\ Bn256MulGas \in Nat /\ PairingGas \in Nat /\ PairingPairGas \in Nat
    /\ MinModexpGas \in Nat
BY WordsAssumption, PrecompileAssumption DEF PairBytes
-----------------------------------------------------------------------------
(***************************************************************************)
(* Gas.                                                                    *)
(***************************************************************************)
\* What EVM.execCall relies on of an answer to a call with this much gas.
WithinGas(r, gas) == r.gasLeft \in 0 .. gas /\ (r.err = "error" => r.gasLeft = 0)

\* The functions with a fixed price.
LEMMA FixedPrices ==
    ASSUME NEW input \in Seq(Byte), NEW gas \in Nat
    PROVE  /\ WithinGas(ecRecover(input, gas), gas) /\ ecRecover(input, gas).err # "panic"
           /\ WithinGas(bn256Add(input, gas), gas) /\ bn256Add(input, gas).err # "panic"
           /\ WithinGas(bn256ScalarMul(input, gas), gas) /\ bn256ScalarMul(input, gas).err # "panic"
<1>1. /\ EcRecoverGas \in Nat /\ Bn256AddGas \in Nat /\ Bn256MulGas \in Nat
  BY Constants
<1>2. WithinGas(ecRecover(input, gas), gas) /\ ecRecover(input, gas).err # "panic"
  BY <1>1 DEF ecRecover, Paying, WithinGas, Ok, Refused
<1>3. WithinGas(bn256Add(input, gas), gas) /\ bn256Add(input, gas).err # "panic"
  BY <1>1 DEF bn256Add, Paying, WithinGas, Ok, Refused
<1>4. WithinGas(bn256ScalarMul(input, gas), gas) /\ bn256ScalarMul(input, gas).err # "panic"
  BY <1>1 DEF bn256ScalarMul, Paying, WithinGas, Ok, Refused
<1> QED BY <1>2, <1>3, <1>4

\* The functions with a price by the word, by the pair or by the round.
LEMMA LengthPrices ==
    ASSUME NEW input \in Seq(Byte), NEW gas \in Nat
    PROVE  /\ WithinGas(sha256hash(input, gas), gas) /\ sha256hash(input, gas).err # "panic"
           /\ WithinGas(ripemd160hash(input, gas), gas) /\ ripemd160hash(input, gas).err # "panic"
           /\ WithinGas(identity(input, gas), gas) /\ identity(input, gas).err # "panic"
           /\ WithinGas(bn256Pairing(input, gas), gas) /\ bn256Pairing(input, gas).err # "panic"
           /\ WithinGas(blake2F(input, gas), gas) /\ blake2F(input, gas).err # "panic"
<1>1. wordCount(input) \in Nat
  <2>1. Len(input) \in Nat /\ WordBytes \in Nat \ {0}
    BY Constants
  <2>2. Len(input) + WordBytes - 1 \in Nat
    BY <2>1
  <2> QED BY <2>1, <2>2 DEF wordCount
<1>2. ASSUME NEW base \in Nat, NEW word \in Nat, NEW n \in Nat
      PROVE  base + word * n \in Nat
  OBVIOUS
<1>3. WithinGas(sha256hash(input, gas), gas) /\ sha256hash(input, gas).err # "panic"
  <2>1. PICK cost : cost \in Nat /\ cost = Sha256Gas + Sha256Word * wordCount(input)
    BY <1>1, <1>2, Constants
  <2> QED BY <2>1 DEF sha256hash, Paying, WithinGas, Ok, Refused
<1>4. WithinGas(ripemd160hash(input, gas), gas) /\ ripemd160hash(input, gas).err # "panic"
  <2>1. PICK cost : cost \in Nat /\ cost = RipemdGas + RipemdWord * wordCount(input)
    BY <1>1, <1>2, Constants
  <2> QED BY <2>1 DEF ripemd160hash, Paying, WithinGas, Ok, Refused
<1>5. WithinGas(identity(input, gas), gas) /\ identity(input, gas).err # "panic"
  <2>1. PICK cost : cost \in Nat /\ cost = IdentityGas + IdentityWord * wordCount(input)
    BY <1>1, <1>2, Constants
  <2> QED BY <2>1 DEF identity, Paying, WithinGas, Ok, Refused
<1>6. WithinGas(bn256Pairing(input, gas), gas) /\ bn256Pairing(input, gas).err # "panic"
  <2>1. Len(input) \div PairBytes \in Nat
    <3>1. Len(input) \in Nat /\ PairBytes \in Nat \ {0}
      BY Constants
    <3> QED BY <3>1
  <2>2. PICK cost : cost \in Nat /\ cost = PairingGas + PairingPairGas * (Len(input) \div PairBytes)
    BY <1>2, <2>1, Constants
  <2> QED BY <2>2 DEF bn256Pairing, Paying, WithinGas, Ok, Refused
<1>7. WithinGas(blake2F(input, gas), gas) /\ blake2F(input, gas).err # "panic"
  <2>1. SubSeq(input, 1, RoundBytes) \in Seq(Byte) \/ Len(input) # BlakeBytes
    BY Constants, PrecompileAssumption
  <2>2. CASE Len(input) # BlakeBytes
    BY <2>2 DEF blake2F, WithinGas, Refused
  <2>3. CASE Len(input) = BlakeBytes
    <3>1. PICK cost : cost \in Nat /\ cost = SetBytes(SubSeq(input, 1, RoundBytes))
      BY <2>1, <2>3, SetBytesType
    <3> QED BY <2>3, <3>1 DEF blake2F, Paying, WithinGas, Ok, Refused
  <2> QED BY <2>2, <2>3
<1> QED BY <1>3, <1>4, <1>5, <1>6, <1>7
-----------------------------------------------------------------------------
(***************************************************************************)
(* The price of MODEXP.                                                    *)
(***************************************************************************)
\* A slice of the input is bytes.
LEMMA SliceType ==
    ASSUME NEW input \in Seq(Byte), NEW start \in Nat, NEW end \in Int, end <= Len(input)
    PROVE  Slice(input, start, end) \in Seq(Byte)
BY DEF Slice

\* A declared length is a uint64.
LEMMA LengthType ==
    ASSUME NEW input \in Seq(Byte), NEW off \in Nat
    PROVE  readLen(input, off) \in 0 .. (U64 - 1)
<1> DEFINE end == Min({off + WordBytes, Len(input)})
<1>1. Len(input) \in Nat /\ off + WordBytes \in Nat
  BY Constants
<1>2. end \in Int /\ end <= Len(input)
  <2>1. PICK a, b : a = off + WordBytes /\ b = Len(input)
    OBVIOUS
  <2>2. a \in Int /\ b \in Int
    BY <1>1, <2>1
  <2>3. Min({a, b}) = IF a <= b THEN a ELSE b
    BY <2>2, OfTwo
  <2> QED BY <2>1, <2>2, <2>3
<1> HIDE DEF end
<1>3. SetBytes(Slice(input, off, end)) \in Nat
  BY <1>2, SliceType, SetBytesType
<1> QED BY <1>3, Wraps DEF readLen, end

\* Where the lengths are.
LEMMA LengthsType ==
    ASSUME NEW input \in Seq(Byte)
    PROVE  /\ readLen(input, 0) \in 0 .. (U64 - 1)
           /\ readLen(input, WordBytes) \in 0 .. (U64 - 1)
           /\ readLen(input, 2 * WordBytes) \in 0 .. (U64 - 1)
<1>1. 0 \in Nat /\ WordBytes \in Nat /\ 2 * WordBytes \in Nat
  BY Constants
<1> QED BY <1>1, LengthType

\* The number of bits of a number is a natural number.
LEMMA BitLenType ==
    ASSUME NEW n
    PROVE  BitLen(n) \in Nat
<1> DEFINE S == {i \in 0 .. (WordBits - 1) : 2 ^ i <= n}
<1>1. IsFiniteSet(0 .. (WordBits - 1))
  <2>1. WordBits - 1 \in Int
    BY WordsAssumption DEF WordBits
  <2> QED BY <2>1, FS_Interval
<1>2. IsFiniteSet(S)
  BY <1>1, FS_Subset
<1> QED BY <1>2, FS_CardinalityType DEF BitLen

\* As long as it does not panic, the price is a natural number.
LEMMA ModexpGasType ==
    ASSUME NEW input \in Seq(Byte), NEW bLen \in Nat, NEW eLen \in Nat, NEW mLen \in Nat,
           ~ GasPanics(bLen, eLen, input)
    PROVE  modexpGasEIP2565(bLen, eLen, mLen, input) \in Nat
<1> DEFINE start == ExpStart(bLen)
<1> DEFINE end == ExpEnd(bLen, HeadBytes(eLen), input)
<1> DEFINE head == ExponentHead(bLen, eLen, input)
<1>1. start \in Nat
  <2>1. Header + bLen \in Int
    BY Constants DEF Header
  <2> QED BY <2>1, Wraps DEF ExpStart
<1>2. end \in Int
  <2>1. HeadBytes(eLen) \in Nat
    <3>1. eLen \in Int /\ WordBytes \in Int /\ WordBytes \in Nat
      BY Constants
    <3> QED BY <3>1, OfTwo DEF HeadBytes
  <2>2. start + HeadBytes(eLen) \in Int
    BY <1>1, <2>1
  <2>3. (start + HeadBytes(eLen)) % U64 \in Int
    BY <2>2, Wraps
  <2> QED BY <2>3 DEF ExpEnd
<1>3. head \in Nat
  <2>1. CASE eLen = 0 \/ ~ ReadsExponent(bLen, input)
    BY <2>1 DEF ExponentHead
  <2>2. CASE ~ (eLen = 0 \/ ~ ReadsExponent(bLen, input))
    <3>1. Slices(input, start, end)
      BY <2>2 DEF GasPanics
    <3> HIDE DEF start, end
    <3>2. SetBytes(Slice(input, start, end)) \in Nat
      BY <1>1, <1>2, <3>1, SliceType, SetBytesType DEF Slices
    <3> QED BY <2>2, <3>2 DEF ExponentHead, start, end
  <2> QED BY <2>1, <2>2
<1> HIDE DEF start, end, head
<1>4. iterCount(head, eLen) \in Nat
  <2> DEFINE bits == IF head = 0 THEN 0 ELSE BitLen(head) - 1
  <2> DEFINE more == ByteBits * (IF eLen > WordBytes THEN eLen - WordBytes ELSE 0)
  <2>1. bits \in Int
    BY BitLenType
  <2>2. more \in Int
    BY WordsAssumption
  <2> HIDE DEF bits, more
  <2>3. bits + more \in Int
    BY <2>1, <2>2
  <2>4. PICK n : n = (bits + more) % U64 /\ n \in Nat
    BY <2>3, Wraps
  <2>5. Max({1, n}) \in Nat
    BY <2>4, OfTwo
  <2> QED BY <2>4, <2>5 DEF iterCount, bits, more
<1> DEFINE words == ((Max({bLen, mLen}) + LimbBytes - 1) % U64) \div LimbBytes
<1> DEFINE mult == (words * words) % U64
<1> DEFINE count == iterCount(head, eLen)
<1> DEFINE price == ((mult * count) % U64) \div 3
<1>5. words \in Nat
  <2>1. Max({bLen, mLen}) \in Nat /\ LimbBytes \in Nat \ {0}
    BY OfTwo, Constants
  <2>2. Max({bLen, mLen}) + LimbBytes - 1 \in Int
    BY <2>1
  <2>3. (Max({bLen, mLen}) + LimbBytes - 1) % U64 \in Nat
    BY <2>2, Wraps
  <2> QED BY <2>1, <2>3
<1> HIDE DEF words
<1>6. mult \in Nat
  <2>1. words * words \in Int
    BY <1>5
  <2> QED BY <2>1, Wraps
<1> HIDE DEF mult
<1>7. price \in Nat
  <2> HIDE DEF count
  <2>0. count \in Nat
    BY <1>4 DEF count
  <2>1. mult * count \in Int
    BY <1>6, <2>0
  <2>2. (mult * count) % U64 \in Nat
    BY <2>1, Wraps
  <2> QED BY <2>2
<1> HIDE DEF price
<1>8. MinModexpGas \in Nat /\ Max({MinModexpGas, price}) \in Nat
  BY <1>7, OfTwo, Constants
<1> QED BY <1>8 DEF modexpGasEIP2565, price, mult, words, count, head

\* MODEXP keeps to its gas.
LEMMA ModexpGas ==
    ASSUME NEW input \in Seq(Byte), NEW gas \in Nat
    PROVE  WithinGas(modexp(input, gas), gas)
<1> DEFINE bLen == readLen(input, 0)
<1> DEFINE eLen == readLen(input, WordBytes)
<1> DEFINE mLen == readLen(input, 2 * WordBytes)
<1>1. bLen \in Nat /\ eLen \in Nat /\ mLen \in Nat
  BY LengthsType
<1>2. CASE GasPanics(bLen, eLen, input)
  <2>1. modexp(input, gas) = Panic
    BY <1>2 DEF modexp
  <2> QED BY <2>1 DEF WithinGas, Panic
<1>3. CASE ~ GasPanics(bLen, eLen, input)
  <2>1. PICK cost : cost \in Nat /\ cost = modexpGasEIP2565(bLen, eLen, mLen, input)
    BY <1>1, <1>3, ModexpGasType
  <2> QED BY <1>3, <2>1 DEF modexp, Paying, WithinGas, Ok, Refused, Panic
<1> QED BY <1>2, <1>3
-----------------------------------------------------------------------------
(***************************************************************************)
(* Panics.                                                                 *)
(***************************************************************************)
\* What stays below half of the range of uint64 neither wraps nor becomes
\* negative as an int.
LEMMA BelowHalf ==
    ASSUME NEW x \in Nat, x < U64 \div 2
    PROVE  x % U64 = x /\ AsInt(x) = x
<1>1. U64 \in Nat \ {0} /\ U64 \div 2 \in Nat /\ U64 \div 2 <= U64
  BY Constants
<1>2. x \in 0 .. (U64 - 1)
  BY <1>1
<1> QED BY <1>1, <1>2, Wraps DEF AsInt

\* Lengths that can be allocated, and everything that is added up of them.
LEMMA SmallLengths ==
    ASSUME NEW input \in Seq(Byte), Fits(input)
    PROVE  /\ readLen(input, 0) \in 0 .. MaxAlloc
           /\ readLen(input, WordBytes) \in 0 .. MaxAlloc
           /\ readLen(input, 2 * WordBytes) \in 0 .. MaxAlloc
<1>1. 1 \in 1 .. 3 /\ 2 \in 1 .. 3 /\ 3 \in 1 .. 3
  OBVIOUS
<1>2. /\ readLen(input, 0) <= MaxAlloc
      /\ readLen(input, WordBytes) <= MaxAlloc
      /\ readLen(input, 2 * WordBytes) <= MaxAlloc
  BY <1>1 DEF Fits, Lengths
<1>3. /\ readLen(input, 0) \in Nat
      /\ readLen(input, WordBytes) \in Nat
      /\ readLen(input, 2 * WordBytes) \in Nat
  BY LengthsType
<1> QED BY <1>2, <1>3, Constants

\* The price of such lengths is computed without a panic.
LEMMA PricePanicsNot ==
    ASSUME NEW input \in Seq(Byte), NEW bLen \in 0 .. MaxAlloc, NEW eLen \in 0 .. MaxAlloc
    PROVE  ~ GasPanics(bLen, eLen, input)
<1> DEFINE start == Header + bLen
<1> DEFINE n == HeadBytes(eLen)
<1>1. /\ WordBytes \in Nat \ {0} /\ MaxAlloc \in Nat /\ U64 \div 2 \in Nat /\ Len(input) \in Nat
      /\ Header = 3 * WordBytes
      /\ 3 * WordBytes + 2 * MaxAlloc + WordBytes < U64 \div 2
  BY Constants, PrecompileAssumption DEF Header
<1>2. n \in 0 .. WordBytes
  <2>1. eLen \in Int /\ WordBytes \in Int /\ eLen \in Nat
    BY <1>1
  <2>2. Min({eLen, WordBytes}) = IF eLen <= WordBytes THEN eLen ELSE WordBytes
    BY <2>1, OfTwo
  <2>3. Min({eLen, WordBytes}) \in 0 .. WordBytes
    BY <1>1, <2>1, <2>2
  <2> QED BY <2>3 DEF HeadBytes
<1> HIDE DEF n
<1>3. start \in Nat /\ start < U64 \div 2 /\ start + n \in Nat /\ start + n < U64 \div 2
  BY <1>1, <1>2
<1>4. ExpStart(bLen) = start /\ AsInt(start) = start
  BY <1>3, BelowHalf DEF ExpStart
<1> HIDE DEF start
<1>5. ExpEnd(bLen, n, input) = IF start + n > Len(input) THEN Len(input) ELSE start + n
  <2>1. (start + n) % U64 = start + n /\ AsInt(start + n) = start + n
    BY <1>3, BelowHalf
  <2> QED BY <1>4, <2>1 DEF ExpEnd
<1>6. ASSUME ReadsExponent(bLen, input)
      PROVE  Slices(input, ExpStart(bLen), ExpEnd(bLen, n, input))
  <2>1. start < Len(input)
    BY <1>4, <1>6 DEF ReadsExponent
  <2> QED BY <1>1, <1>2, <1>3, <1>4, <1>5, <2>1 DEF Slices
<1> QED BY <1>6 DEF GasPanics, n

\* Reading them does not panic either.
LEMMA DataPanicsNot ==
    ASSUME NEW input \in Seq(Byte), NEW off \in 0 .. (2 * MaxAlloc), NEW n \in 0 .. MaxAlloc
    PROVE  ~ getDataPanics(input, off, n)
<1> DEFINE start == Header + off
<1>1. /\ WordBytes \in Nat \ {0} /\ MaxAlloc \in Nat /\ Len(input) \in Nat /\ U64 \in Nat \ {0}
      /\ Header = 3 * WordBytes
  BY Constants DEF Header
<1>2. 3 * WordBytes + 2 * MaxAlloc + WordBytes < U64 \div 2
  BY PrecompileAssumption
<1>3. 2 * (3 * WordBytes + 2 * MaxAlloc + WordBytes) < U64
  <2>1. PICK a, h : a = 3 * WordBytes + 2 * MaxAlloc + WordBytes /\ h = U64 \div 2
    OBVIOUS
  <2>2. a \in Nat /\ h \in Nat /\ 2 * h <= U64 /\ a < h
    BY <1>1, <1>2, <2>1
  <2> QED BY <1>1, <2>1, <2>2
<1>4. start \in 0 .. (U64 - 1) /\ start + n \in 0 .. (U64 - 1) /\ ~ (n > MaxAlloc) /\ n \in Nat
  BY <1>1, <1>3
<1> HIDE DEF start
<1>5. start % U64 = start /\ (start + n) % U64 = start + n
  BY <1>4, Wraps
<1>6. ~ (start + n < start)
  BY <1>4
<1> QED BY <1>4, <1>5, <1>6 DEF getDataPanics, start

\* So MODEXP does not panic.
LEMMA ModexpPanicsNot ==
    ASSUME NEW input \in Seq(Byte), NEW gas, Fits(input)
    PROVE  modexp(input, gas).err # "panic"
<1> DEFINE bLen == readLen(input, 0)
<1> DEFINE eLen == readLen(input, WordBytes)
<1> DEFINE mLen == readLen(input, 2 * WordBytes)
<1>1. bLen \in 0 .. MaxAlloc /\ eLen \in 0 .. MaxAlloc /\ mLen \in 0 .. MaxAlloc
  BY SmallLengths
<1>2. ~ GasPanics(bLen, eLen, input)
  BY <1>1, PricePanicsNot
<1>3. ~ (mLen > MaxAlloc) /\ MaxAlloc \in Nat
  BY <1>1, Constants
<1>4. (bLen + eLen) % U64 = bLen + eLen
  <2>1. /\ WordBytes \in Nat \ {0} /\ U64 \div 2 \in Nat
        /\ 3 * WordBytes + 2 * MaxAlloc + WordBytes < U64 \div 2
    BY Constants, PrecompileAssumption
  <2> HIDE DEF bLen, eLen
  <2>2. bLen + eLen \in Nat /\ bLen + eLen < U64 \div 2
    BY <1>1, <1>3, <2>1
  <2> QED BY <2>2, BelowHalf
<1>5. /\ 0 \in 0 .. (2 * MaxAlloc) /\ bLen \in 0 .. (2 * MaxAlloc)
      /\ bLen + eLen \in 0 .. (2 * MaxAlloc)
  BY <1>1, <1>3
<1>6. /\ ~ getDataPanics(input, 0, bLen) /\ ~ getDataPanics(input, bLen, eLen)
      /\ ~ getDataPanics(input, (bLen + eLen) % U64, mLen)
  <2> HIDE DEF bLen, eLen, mLen
  <2> QED BY <1>1, <1>4, <1>5, DataPanicsNot
<1> QED BY <1>2, <1>3, <1>6 DEF modexp, Paying, Ok, Refused

-----------------------------------------------------------------------------
(***************************************************************************)
(* Inputs that are cut off.                                                *)
(***************************************************************************)
\* A buffer of zero bytes already holds the zero byte that is missing.
LEMMA PaddedLonger ==
    ASSUME NEW input \in Seq(Byte), NEW n
    PROVE  Padded(Append(input, 0), n) = Padded(input, n)
<1> DEFINE longer == Append(input, 0)
<1>1. /\ Len(input) \in Nat /\ Len(longer) = Len(input) + 1
      /\ \A i \in 1 .. Len(input) : longer[i] = input[i]
      /\ longer[Len(input) + 1] = 0
  OBVIOUS
<1> HIDE DEF longer
<1>2. ASSUME NEW i \in 1 .. n
      PROVE  (IF i <= Len(longer) THEN longer[i] ELSE 0) = (IF i <= Len(input) THEN input[i] ELSE 0)
  <2>1. i \in Int /\ 1 <= i
    OBVIOUS
  <2>2. CASE i <= Len(input)
    BY <1>1, <2>1, <2>2
  <2>3. CASE i = Len(input) + 1
    BY <1>1, <2>1, <2>3
  <2>4. CASE i > Len(input) + 1
    BY <1>1, <2>1, <2>4
  <2> QED BY <1>1, <2>1, <2>2, <2>3, <2>4
<1> QED BY <1>2 DEF Padded, longer

\* A length that lies in the input is read from the bytes that are there.
LEMMA LengthLonger ==
    ASSUME NEW input \in Seq(Byte), NEW off \in Nat, off + WordBytes <= Len(input)
    PROVE  readLen(Append(input, 0), off) = readLen(input, off)
<1> DEFINE longer == Append(input, 0)
<1> DEFINE end == off + WordBytes
<1>1. /\ Len(input) \in Nat /\ Len(longer) = Len(input) + 1 /\ longer \in Seq(Byte \cup {0})
      /\ \A i \in 1 .. Len(input) : longer[i] = input[i]
  OBVIOUS
<1>2. end \in Nat /\ off <= end /\ end <= Len(input)
  BY Constants
<1> HIDE DEF end, longer
<1>3. Min({end, Len(input)}) = end /\ Min({end, Len(longer)}) = end
  <2>1. end \in Int /\ Len(input) \in Int /\ Len(longer) \in Int /\ end <= Len(longer)
    BY <1>1, <1>2
  <2> QED BY <1>2, <2>1, OfTwo
<1>4. SubSeq(longer, off + 1, end) = SubSeq(input, off + 1, end)
  <2>1. /\ SubSeq(longer, off + 1, end) = [i \in 1 .. (end - off) |-> longer[i + off]]
        /\ SubSeq(input, off + 1, end) = [i \in 1 .. (end - off) |-> input[i + off]]
    BY SMTT(60), <1>1, <1>2
  <2>2. \A i \in 1 .. (end - off) : i + off \in 1 .. Len(input)
    BY <1>1, <1>2
  <2> QED BY <1>1, <2>1, <2>2
<1> QED BY <1>3, <1>4 DEF readLen, Slice, end, longer

\* The bytes of the input from start, with zero bytes behind it.
From(input, start, n) ==
    [i \in 1 .. n |-> IF start + i <= Len(input) THEN input[start + i] ELSE 0]

\* getData reads them.
LEMMA DataIs ==
    ASSUME NEW S, NEW input \in Seq(S), NEW off \in Nat, NEW n \in Nat
    PROVE  getData(input, off, n) = From(input, (Header + off) % U64, n)
<1> DEFINE start == (Header + off) % U64
<1> DEFINE end == Min({start + n, Len(input)})
<1>1. start \in Nat /\ Len(input) \in Nat
  <2>1. Header + off \in Int
    BY Constants DEF Header
  <2> QED BY <2>1, Wraps
<1> HIDE DEF start
<1>2. CASE start >= Len(input)
  <2>1. getData(input, off, n) = Padded(<< >>, n)
    BY <1>2 DEF getData, start
  <2>2. \A i \in 1 .. n : ~ (i <= Len(<< >>)) /\ ~ (start + i <= Len(input))
    BY <1>1, <1>2
  <2> QED BY <2>1, <2>2 DEF Padded, From, start
<1>3. CASE start < Len(input)
  <2>1. getData(input, off, n) = Padded(Slice(input, start, end), n)
    BY <1>1, <1>3 DEF getData, start
  <2>2. end = IF start + n <= Len(input) THEN start + n ELSE Len(input)
    <3>1. PICK a, b : a = start + n /\ b = Len(input)
      OBVIOUS
    <3>2. a \in Int /\ b \in Int
      BY <1>1, <3>1
    <3>3. Min({a, b}) = IF a <= b THEN a ELSE b
      BY <3>2, OfTwo
    <3> QED BY <3>1, <3>3
  <2> HIDE DEF end
  <2>3. end \in Nat /\ start <= end /\ end <= Len(input)
    BY <1>1, <1>3, <2>2
  <2>4. Slice(input, start, end) = [i \in 1 .. (end - start) |-> input[i + start]]
    BY <1>1, <2>3 DEF Slice
  <2>5. Len(Slice(input, start, end)) = end - start
    BY <1>1, <2>3 DEF Slice
  <2>6. PICK s : s = Slice(input, start, end)
    OBVIOUS
  <2>7. ASSUME NEW i \in 1 .. n
        PROVE  (IF i <= Len(s) THEN s[i] ELSE 0)
                 = (IF start + i <= Len(input) THEN input[start + i] ELSE 0)
    <3>1. i \in Int /\ 1 <= i /\ i <= n /\ i + start = start + i
      BY <1>1
    <3>2. i <= end - start <=> start + i <= Len(input)
      BY <1>1, <2>2, <3>1
    <3>3. CASE i <= end - start
      <4>1. i \in 1 .. (end - start)
        BY <1>1, <2>3, <3>1, <3>3
      <4>2. s[i] = input[i + start]
        BY <2>4, <2>6, <4>1
      <4> QED BY <2>5, <2>6, <3>1, <3>2, <3>3, <4>2
    <3>4. CASE ~ (i <= end - start)
      BY <2>5, <2>6, <3>2, <3>4
    <3> QED BY <3>3, <3>4
  <2> QED BY <2>1, <2>6, <2>7 DEF Padded, From, start
<1> QED BY <1>1, <1>2, <1>3

\* What lies behind the lengths may be cut off where only zero bytes follow.
LEMMA DataLonger ==
    ASSUME NEW input \in Seq(Byte), NEW off \in Nat, NEW n \in Nat
    PROVE  getData(Append(input, 0), off, n) = getData(input, off, n)
<1> DEFINE longer == Append(input, 0)
<1> DEFINE start == (Header + off) % U64
<1>0. start \in Nat
  <2>1. Header + off \in Int
    BY Constants DEF Header
  <2> QED BY <2>1, Wraps
<1>1. /\ Len(input) \in Nat /\ Len(longer) = Len(input) + 1 /\ longer \in Seq(Byte \cup {0})
      /\ \A i \in 1 .. Len(input) : longer[i] = input[i]
      /\ longer[Len(input) + 1] = 0
  OBVIOUS
<1>2. getData(longer, off, n) = From(longer, start, n) /\ getData(input, off, n) = From(input, start, n)
  BY <1>1, DataIs
<1> HIDE DEF longer, start
<1>3. ASSUME NEW i \in 1 .. n
      PROVE  (IF start + i <= Len(longer) THEN longer[start + i] ELSE 0)
               = (IF start + i <= Len(input) THEN input[start + i] ELSE 0)
  <2>1. PICK j : j = start + i
    OBVIOUS
  <2>2. j \in Nat /\ 1 <= j
    BY <1>0, <2>1
  <2>3. CASE j <= Len(input)
    BY <1>1, <2>1, <2>2, <2>3
  <2>4. CASE j = Len(input) + 1
    BY <1>1, <2>1, <2>2, <2>4
  <2>5. CASE j > Len(input) + 1
    BY <1>1, <2>1, <2>2, <2>5
  <2> QED BY <1>1, <2>2, <2>3, <2>4, <2>5
<1>4. From(longer, start, n) = From(input, start, n)
  BY <1>3 DEF From
<1> QED BY <1>2, <1>4 DEF longer

\* What MODEXP returns: the same lengths, the same numbers.
LEMMA ModexpLonger ==
    ASSUME NEW input \in Seq(Byte), NEW gas, Len(input) >= Header,
           modexp(input, gas).err = "none", modexp(Append(input, 0), gas).err = "none"
    PROVE  modexp(Append(input, 0), gas).out = modexp(input, gas).out
<1> DEFINE longer == Append(input, 0)
<1> DEFINE bLen == readLen(input, 0)
<1> DEFINE eLen == readLen(input, WordBytes)
<1> DEFINE mLen == readLen(input, 2 * WordBytes)
<1> DEFINE Out(in) ==
        LET base == SetBytes(getData(in, 0, bLen))
            exp  == SetBytes(getData(in, bLen, eLen))
            mod  == SetBytes(getData(in, (bLen + eLen) % U64, mLen))
        IN  IF mLen = 0 THEN << >>
            ELSE ToBytes(IF mod \in {0, 1} THEN 0 ELSE PowMod(base, exp, mod), mLen)
<1>1. readLen(longer, 0) = bLen /\ readLen(longer, WordBytes) = eLen /\ readLen(longer, 2 * WordBytes) = mLen
  <2>1. /\ 0 \in Nat /\ WordBytes \in Nat /\ 2 * WordBytes \in Nat /\ Len(input) \in Nat
        /\ 3 * WordBytes <= Len(input)
    BY Constants DEF Header
  <2>2. /\ 0 + WordBytes <= Len(input) /\ WordBytes + WordBytes <= Len(input)
        /\ 2 * WordBytes + WordBytes <= Len(input)
    BY <2>1
  <2> QED BY <2>1, <2>2, LengthLonger
<1>2. bLen \in Nat /\ eLen \in Nat /\ mLen \in Nat /\ (bLen + eLen) % U64 \in Nat
  <2>1. bLen \in Nat /\ eLen \in Nat /\ mLen \in Nat
    BY LengthsType
  <2>2. bLen + eLen \in Int
    BY <2>1
  <2> QED BY <2>1, <2>2, Wraps
<1>3. modexp(input, gas).out = Out(input)
  <2> HIDE DEF ToBytes, PowMod
  <2> QED BY DEF modexp, Paying, Ok, Refused, Panic
<1>4. modexp(longer, gas).out = Out(longer)
  <2> HIDE DEF bLen, eLen, mLen, longer
  <2>1. modexp(longer, gas).err = "none"
    BY DEF longer
  <2> QED BY <1>1, <2>1 DEF modexp, Paying, Ok, Refused, Panic
<1>5. /\ getData(longer, 0, bLen) = getData(input, 0, bLen)
      /\ getData(longer, bLen, eLen) = getData(input, bLen, eLen)
      /\ getData(longer, (bLen + eLen) % U64, mLen) = getData(input, (bLen + eLen) % U64, mLen)
  BY <1>2, DataLonger
<1> HIDE DEF bLen, eLen, mLen
<1>6. Out(longer) = Out(input)
  BY <1>5
<1> QED BY <1>3, <1>4, <1>6

\* What the others that pad their input return.
LEMMA OthersLonger ==
    ASSUME NEW input \in Seq(Byte), NEW gas
    PROVE  /\ ecRecover(Append(input, 0), gas) = ecRecover(input, gas)
           /\ bn256Add(Append(input, 0), gas) = bn256Add(input, gas)
           /\ bn256ScalarMul(Append(input, 0), gas) = bn256ScalarMul(input, gas)
<1>1. \A n : Padded(Append(input, 0), n) = Padded(input, n)
  BY PaddedLonger
<1>2. ecRecover(Append(input, 0), gas) = ecRecover(input, gas)
  <2>1. PICK in : in = Padded(Append(input, 0), 4 * WordBytes) /\ in = Padded(input, 4 * WordBytes)
    BY <1>1
  <2> QED BY <2>1, Zenon DEF ecRecover, Paying
<1>3. bn256Add(Append(input, 0), gas) = bn256Add(input, gas)
  <2>1. PICK in : in = Padded(Append(input, 0), 4 * WordBytes) /\ in = Padded(input, 4 * WordBytes)
    BY <1>1
  <2> QED BY <2>1, Zenon DEF bn256Add, Paying
<1>4. bn256ScalarMul(Append(input, 0), gas) = bn256ScalarMul(input, gas)
  <2>1. PICK in : in = Padded(Append(input, 0), 3 * WordBytes) /\ in = Padded(input, 3 * WordBytes)
    BY <1>1
  <2> QED BY <2>1, Zenon DEF bn256ScalarMul, Paying
<1> QED BY <1>2, <1>3, <1>4
-----------------------------------------------------------------------------
(***************************************************************************)
(* The dispatcher and the specification.                                   *)
(***************************************************************************)
\* Run answers what dispatch computes of the call.
IsAnswer ==
    /\ call \in Calls
    /\ Answered => answer = dispatch(call.id, call.input, call.gas)

\* It always does.
LEMMA RunDispatches == Spec => []IsAnswer
<1>1. Init => IsAnswer
  BY DEF Init, IsAnswer, Answered
<1>2. IsAnswer /\ [Next]_vars => IsAnswer'
  <2> SUFFICES ASSUME IsAnswer, [Next]_vars
               PROVE  IsAnswer'
    OBVIOUS
  <2>1. CASE Run
    BY <2>1 DEF IsAnswer, Answered, Run
  <2>2. CASE Done
    BY <2>2 DEF IsAnswer, Answered, Done, vars
  <2>3. CASE UNCHANGED vars
    BY <2>3 DEF IsAnswer, Answered, vars
  <2> QED BY <2>1, <2>2, <2>3 DEF Next
<1> QED BY <1>1, <1>2, PTL DEF Spec

\* The types of a call.
LEMMA CallType ==
    ASSUME IsAnswer
    PROVE  /\ call.id \in Nat /\ call.input \in Seq(Byte) /\ call.gas \in Nat
           /\ IsPrecompile(call.id) => call.id \in 1 .. 9
<1>1. call \in [id : Nat, input : Seq(Byte), gas : 0 .. (U64 - 1)]
  BY PrecompileAssumption DEF IsAnswer
<1>2. U64 - 1 \in Int
  BY Constants
<1> QED BY <1>1, <1>2 DEF IsPrecompile

\* Every function keeps to its gas, and only MODEXP can panic.
LEMMA DispatchGas ==
    ASSUME NEW id \in 1 .. 9, NEW input \in Seq(Byte), NEW gas \in Nat
    PROVE  /\ WithinGas(dispatch(id, input, gas), gas)
           /\ dispatch(id, input, gas).err = "panic" => id = 5
<1>1. CASE id = 5
  <2>1. dispatch(id, input, gas) = modexp(input, gas)
    BY <1>1 DEF dispatch
  <2> QED BY <1>1, <2>1, ModexpGas
<1>2. CASE id \in {1, 6, 7}
  <2>1. id = 1 => dispatch(id, input, gas) = ecRecover(input, gas)
    BY DEF dispatch
  <2>2. id = 6 => dispatch(id, input, gas) = bn256Add(input, gas)
    BY DEF dispatch
  <2>3. id = 7 => dispatch(id, input, gas) = bn256ScalarMul(input, gas)
    BY DEF dispatch
  <2> QED BY <1>2, <2>1, <2>2, <2>3, FixedPrices
<1>3. CASE id \in {2, 3, 4, 8, 9}
  <2>1. id = 2 => dispatch(id, input, gas) = sha256hash(input, gas)
    BY DEF dispatch
  <2>2. id = 3 => dispatch(id, input, gas) = ripemd160hash(input, gas)
    BY DEF dispatch
  <2>3. id = 4 => dispatch(id, input, gas) = identity(input, gas)
    BY DEF dispatch
  <2>4. id = 8 => dispatch(id, input, gas) = bn256Pairing(input, gas)
    BY DEF dispatch
  <2>5. id = 9 => dispatch(id, input, gas) = blake2F(input, gas)
    BY DEF dispatch
  <2> QED BY <1>3, <2>1, <2>2, <2>3, <2>4, <2>5, LengthPrices
<1> QED BY <1>1, <1>2, <1>3

\* No precompile gives back more gas than it was given, and none of it when it
\* refuses, whatever its input declares: what EVM.execCall relies on when it adds
\* the rest to the caller's gas.
THEOREM PrecompilesStayWithinGas == Spec => []StaysWithinGas
<1>1. IsAnswer => StaysWithinGas
  <2> SUFFICES ASSUME IsAnswer, Answered
               PROVE  /\ answer.gasLeft \in 0 .. call.gas
                      /\ answer.err = "error" => answer.gasLeft = 0
    BY DEF StaysWithinGas
  <2>1. call.id \in 1 .. 9 /\ call.input \in Seq(Byte) /\ call.gas \in Nat
    BY CallType DEF Answered
  <2>2. WithinGas(answer, call.gas)
    BY <2>1, DispatchGas DEF IsAnswer
  <2> QED BY <2>2 DEF WithinGas
<1> QED BY <1>1, RunDispatches, PTL

\* No precompile panics on any input, except MODEXP when one of its three lengths
\* is more than can be allocated: the sums of offsets and lengths that the code
\* computes modulo 2^64 and compares as int never lead a slice out of the input.
THEOREM OnlyHugeLengthsPanic == Spec => []PanicsOnlyOnHugeLengths
<1>1. IsAnswer => PanicsOnlyOnHugeLengths
  <2> SUFFICES ASSUME IsAnswer, Answered, answer.err = "panic"
               PROVE  call.id = 5 /\ ~ Fits(call.input)
    BY DEF PanicsOnlyOnHugeLengths
  <2>1. call.id \in 1 .. 9 /\ call.input \in Seq(Byte) /\ call.gas \in Nat
    BY CallType DEF Answered
  <2>2. answer = dispatch(call.id, call.input, call.gas)
    BY DEF IsAnswer
  <2>3. call.id = 5
    BY <2>1, <2>2, DispatchGas
  <2>4. answer = modexp(call.input, call.gas)
    BY <2>2, <2>3 DEF dispatch
  <2> QED BY <2>1, <2>3, <2>4, ModexpPanicsNot
<1> QED BY <1>1, RunDispatches, PTL

\* An input that is cut off means the same as one with the missing zero bytes, to
\* ECRECOVER, BN256ADD, BN256MUL and, behind its lengths, MODEXP.
THEOREM CutOffInputsArePadded == Spec => []ShortInputsArePadded
<1>1. IsAnswer => ShortInputsArePadded
  <2> DEFINE longer == dispatch(call.id, Append(call.input, 0), call.gas)
  <2> SUFFICES ASSUME IsAnswer, Answered, answer.err = "none",
                      \/ call.id \in DOMAIN FullLength
                      \/ call.id = 5 /\ Len(call.input) >= Header /\ longer.err = "none"
               PROVE  longer.out = answer.out
    BY DEF ShortInputsArePadded
  <2>1. call.id \in 1 .. 9 /\ call.input \in Seq(Byte) /\ call.gas \in Nat
    BY CallType DEF Answered
  <2>2. answer = dispatch(call.id, call.input, call.gas)
    BY DEF IsAnswer
  <2>3. CASE call.id \in DOMAIN FullLength
    <3>1. call.id \in {1, 6, 7}
      BY <2>3 DEF FullLength
    <3>2. longer = dispatch(call.id, call.input, call.gas)
      <4>1. CASE call.id = 1
        BY <2>1, <4>1, OthersLonger DEF dispatch
      <4>2. CASE call.id = 6
        BY <2>1, <4>2, OthersLonger DEF dispatch
      <4>3. CASE call.id = 7
        BY <2>1, <4>3, OthersLonger DEF dispatch
      <4> QED BY <3>1, <4>1, <4>2, <4>3
    <3> QED BY <2>2, <3>2
  <2>4. CASE call.id = 5 /\ Len(call.input) >= Header /\ longer.err = "none"
    <3>1. answer = modexp(call.input, call.gas)
      BY <2>2, <2>4 DEF dispatch
    <3>2. longer = modexp(Append(call.input, 0), call.gas)
      BY <2>4 DEF dispatch
    <3> QED BY <2>1, <2>4, <3>1, <3>2, ModexpLonger
  <2> QED BY <2>3, <2>4
<1> QED BY <1>1, RunDispatches, PTL

-----------------------------------------------------------------------------
(***************************************************************************)
(* The numbers of MODEXP.                                                  *)
(***************************************************************************)
\* Powers of ByteMod as far as they are needed.
LEMMA LongPowers ==
    \A n \in 0 .. MaxAlloc :
        /\ ByteMod ^ n \in Nat \ {0}
        /\ n < MaxAlloc => ByteMod ^ (n + 1) = ByteMod * ByteMod ^ n
<1> DEFINE T == {n \in 0 .. MaxAlloc : ByteMod ^ n \in Nat \ {0}}
<1>1. MaxAlloc \in Nat
  BY Constants
<1>2. 0 \in T
  <2>1. ByteMod ^ 0 = 1
    BY PowerAssumption
  <2> QED BY <1>1, <2>1
<1>3. ASSUME NEW n \in 0 .. MaxAlloc, n < MaxAlloc
      PROVE  n \in 0 .. (MaxAlloc - 1) /\ ByteMod ^ (n + 1) = ByteMod * ByteMod ^ n
  <2>1. n \in 0 .. (MaxAlloc - 1)
    BY <1>1, <1>3
  <2> QED BY <2>1, LongPowerAssumption
<1>4. ASSUME NEW n \in 0 .. MaxAlloc, n \in T, n < MaxAlloc
      PROVE  n + 1 \in T
  <2>1. PICK x : x = ByteMod ^ n /\ x \in Nat \ {0}
    BY <1>4
  <2>2. ByteMod * x \in Nat \ {0}
    BY <2>1, Moduli
  <2>3. ByteMod ^ (n + 1) = ByteMod * x
    BY <1>3, <1>4, <2>1
  <2>4. n + 1 \in 0 .. MaxAlloc
    BY <1>1, <1>4
  <2> QED BY <2>2, <2>3, <2>4
<1> HIDE DEF T
<1>5. \A n \in 0 .. MaxAlloc : n \in T
  BY <1>1, <1>2, <1>4, CountingUp
<1> QED BY <1>3, <1>5 DEF T

\* The values of the first bytes of a sequence of bytes.
Values(g, bytes, n) ==
    /\ g \in [0 .. n -> Nat] /\ g[0] = 0
    /\ \A i \in 1 .. n : bytes[i] \in Byte /\ g[i] = g[i - 1] * ByteMod + bytes[i]

\* The bytes behind the first k add less than a power of ByteMod.
LEMMA ValuesSplit ==
    ASSUME NEW g, NEW bytes, NEW n \in 0 .. MaxAlloc, Values(g, bytes, n), NEW k \in 0 .. n
    PROVE  \E r \in Nat : r < ByteMod ^ (n - k) /\ g[n] = g[k] * ByteMod ^ (n - k) + r
<1> DEFINE T == {j \in 0 .. (n - k) :
                    \E r \in Nat : r < ByteMod ^ j /\ g[k + j] = g[k] * ByteMod ^ j + r}
<1>1. MaxAlloc \in Nat /\ n \in Nat /\ k \in Nat /\ n - k \in Nat /\ g[k] \in Nat
  BY Constants DEF Values
<1>2. 0 \in T
  <2>1. ByteMod ^ 0 = 1 /\ k + 0 = k
    BY <1>1, PowerAssumption
  <2>2. 0 < ByteMod ^ 0 /\ g[k + 0] = g[k] * ByteMod ^ 0 + 0
    BY <1>1, <2>1
  <2> QED BY <1>1, <2>2
<1>3. ASSUME NEW j \in 0 .. (n - k), j \in T, j < n - k
      PROVE  j + 1 \in T
  <2>1. PICK r \in Nat : r < ByteMod ^ j /\ g[k + j] = g[k] * ByteMod ^ j + r
    BY <1>3
  <2>2. j \in 0 .. MaxAlloc /\ j < MaxAlloc /\ j + 1 \in 0 .. (n - k)
    BY <1>1, <1>3
  <2>3. PICK p : p = ByteMod ^ j /\ p \in Nat \ {0} /\ ByteMod ^ (j + 1) = ByteMod * p
    BY <2>2, LongPowers
  <2>4. k + j + 1 \in 1 .. n /\ (k + j + 1) - 1 = k + j /\ k + (j + 1) = k + j + 1
    BY <1>1, <2>2
  <2>5. PICK b : b = bytes[k + j + 1] /\ b \in Byte
    BY <2>4 DEF Values
  <2>6. g[k + (j + 1)] = g[k + j] * ByteMod + b
    BY <2>4, <2>5 DEF Values
  <2>7. PICK m : m = ByteMod /\ m \in Nat /\ b \in Nat /\ b < m
    BY <2>5, Moduli DEF Byte
  <2>8. PICK x : x = g[k] /\ x \in Nat
    BY <1>1
  <2>9. (x * p + r) * m + b = x * (m * p) + (r * m + b) /\ r * m + b \in Nat
    BY <2>3, <2>7, <2>8
  <2>10. r * m + b < m * p
    <3>1. (p - r - 1) * m >= 0
      BY <2>1, <2>3, <2>7
    <3>2. m * p = (p - r - 1) * m + r * m + m
      BY <2>3, <2>7
    <3>3. PICK y, z : y = (p - r - 1) * m /\ z = r * m
      OBVIOUS
    <3>4. y \in Int /\ z \in Int /\ y >= 0
      BY <2>3, <2>7, <3>1, <3>3
    <3> QED BY <2>7, <3>2, <3>3, <3>4
  <2>11. g[k + (j + 1)] = g[k] * ByteMod ^ (j + 1) + (r * m + b)
    BY <2>1, <2>3, <2>6, <2>7, <2>8, <2>9
  <2> QED BY <2>2, <2>3, <2>7, <2>9, <2>10, <2>11
<1> HIDE DEF T
<1>4. n - k \in T
  <2>1. \A j \in 0 .. (n - k) : j \in T
    BY <1>1, <1>2, <1>3, CountingUp
  <2> QED BY <1>1, <2>1
<1>5. k + (n - k) = n
  BY <1>1
<1> QED BY <1>4, <1>5 DEF T

\* They are values of the sequence.
LEMMA ValuesOf ==
    ASSUME NEW bytes \in Seq(Byte)
    PROVE  \E g : Values(g, bytes, Len(bytes)) /\ g[Len(bytes)] = SetBytes(bytes)
<1>1. \A i \in 1 .. Len(bytes) : bytes[i] \in Byte
  OBVIOUS
<1> QED BY <1>1, SetBytesIs DEF Values

\* The values of the same bytes are the same.
LEMMA ValuesSame ==
    ASSUME NEW n \in Nat, NEW s, NEW t, NEW g, NEW h, Values(g, s, n), Values(h, t, n),
           \A i \in 1 .. n : s[i] = t[i]
    PROVE  g[n] = h[n]
<1> DEFINE T == {i \in 0 .. n : g[i] = h[i]}
<1>1. 0 \in T
  BY DEF Values
<1>2. ASSUME NEW i \in 0 .. n, i \in T, i < n
      PROVE  i + 1 \in T
  <2>1. i + 1 \in 1 .. n /\ (i + 1) - 1 = i /\ i + 1 \in 0 .. n
    BY <1>2
  <2>2. g[i + 1] = g[i] * ByteMod + s[i + 1] /\ h[i + 1] = h[i] * ByteMod + t[i + 1]
    BY <2>1 DEF Values
  <2> QED BY <1>2, <2>1, <2>2
<1> HIDE DEF T
<1>3. n \in T
  <2>1. \A i \in 0 .. n : i \in T
    BY <1>1, <1>2, CountingUp
  <2> QED BY <2>1
<1> QED BY <1>3 DEF T

\* A number is the one of its first k bytes, shifted, and less than a power more.
LEMMA SetBytesSplit ==
    ASSUME NEW s \in Seq(Byte), Len(s) <= MaxAlloc, NEW t \in Seq(Byte), Len(t) <= Len(s),
           \A i \in 1 .. Len(t) : t[i] = s[i]
    PROVE  \E r \in Nat : /\ r < ByteMod ^ (Len(s) - Len(t))
                          /\ SetBytes(s) = SetBytes(t) * ByteMod ^ (Len(s) - Len(t)) + r
<1>1. PICK g : Values(g, s, Len(s)) /\ g[Len(s)] = SetBytes(s)
  BY ValuesOf
<1>2. PICK h : Values(h, t, Len(t)) /\ h[Len(t)] = SetBytes(t)
  BY ValuesOf
<1>3. Len(s) \in 0 .. MaxAlloc /\ Len(t) \in 0 .. Len(s) /\ Len(t) \in Nat
  BY Constants
<1>4. PICK r \in Nat : /\ r < ByteMod ^ (Len(s) - Len(t))
                       /\ g[Len(s)] = g[Len(t)] * ByteMod ^ (Len(s) - Len(t)) + r
  BY <1>1, <1>3, ValuesSplit
<1>5. g[Len(t)] = h[Len(t)]
  <2> DEFINE n == Len(t)
  <2> DEFINE g1 == [i \in 0 .. n |-> g[i]]
  <2>1. 0 .. n \subseteq 0 .. Len(s) /\ 1 .. n \subseteq 1 .. Len(s) /\ n \in 0 .. n /\ 0 \in 0 .. n
    BY <1>3
  <2>2. ASSUME NEW i \in 1 .. n
        PROVE  s[i] \in Byte /\ g1[i] = g1[i - 1] * ByteMod + s[i]
    <3>1. i \in 0 .. n /\ i - 1 \in 0 .. n /\ i \in 1 .. Len(s)
      BY <1>3
    <3> QED BY <1>1, <3>1 DEF Values
  <2>3. g1 \in [0 .. n -> Nat] /\ g1[0] = 0 /\ g1[n] = g[n]
    BY <1>1, <2>1 DEF Values
  <2> HIDE DEF g1, n
  <2>4. Values(g1, s, n)
    BY <2>2, <2>3 DEF Values
  <2> QED BY <1>2, <1>3, <2>3, <2>4, ValuesSame DEF n
<1> QED BY <1>1, <1>2, <1>4, <1>5

\* The number of n bytes.
LEMMA FromType ==
    ASSUME NEW input \in Seq(Byte), NEW start \in Nat, NEW n \in Nat
    PROVE  From(input, start, n) \in Seq(Byte) /\ Len(From(input, start, n)) = n
<1>1. ASSUME NEW i \in 1 .. n
      PROVE  (IF start + i <= Len(input) THEN input[start + i] ELSE 0) \in Byte
  <2>1. 0 \in Byte
    BY Moduli DEF Byte
  <2>2. start + i <= Len(input) => start + i \in 1 .. Len(input)
    OBVIOUS
  <2> QED BY <2>1, <2>2
<1> QED BY <1>1 DEF From

\* A number fits into the bytes it is made of.
LEMMA SetBytesBound ==
    ASSUME NEW s \in Seq(Byte), Len(s) <= MaxAlloc
    PROVE  SetBytes(s) \in Nat /\ SetBytes(s) < ByteMod ^ Len(s)
<1>1. Len(s) \in 0 .. MaxAlloc /\ 0 \in 0 .. Len(s) /\ Len(s) - 0 = Len(s)
  BY Constants
<1>2. PICK g : Values(g, s, Len(s)) /\ g[Len(s)] = SetBytes(s)
  BY ValuesOf
<1>3. PICK r \in Nat : r < ByteMod ^ (Len(s) - 0) /\ g[Len(s)] = g[0] * ByteMod ^ (Len(s) - 0) + r
  BY <1>1, <1>2, ValuesSplit
<1>4. g[0] = 0 /\ ByteMod ^ Len(s) \in Nat
  BY <1>1, <1>2, LongPowers DEF Values
<1>5. PICK p : p = ByteMod ^ Len(s)
  OBVIOUS
<1>6. g[Len(s)] = r
  BY <1>1, <1>3, <1>4, <1>5
<1> QED BY <1>1, <1>2, <1>3, <1>6

\* Dividing twice.
LEMMA DivTwice ==
    ASSUME NEW x \in Nat, NEW p \in Nat \ {0}, NEW m \in Nat \ {0}
    PROVE  x \div (m * p) = (x \div p) \div m
<1>1. PICK q \in Nat, r \in Nat : q = x \div p /\ x = p * q + r /\ r < p
  BY CanDivideNat
<1>2. PICK u \in Nat, v \in Nat : u = q \div m /\ q = m * u + v /\ v < m
  BY CanDivideNat
<1>3. PICK w : w = m * p /\ w \in Nat \ {0}
  OBVIOUS
<1>4. PICK z : z = p * v /\ z \in Nat
  OBVIOUS
<1>5. x = w * u + (z + r)
  <2>1. p * (m * u + v) = (m * p) * u + p * v
    OBVIOUS
  <2>2. p * q = p * (m * u + v)
    BY <1>2
  <2>3. (m * p) * u = w * u
    BY <1>3
  <2>4. PICK t : t = w * u /\ t \in Int
    BY <1>3
  <2>5. p * q = t + z
    BY <1>4, <2>1, <2>2, <2>3, <2>4, Zenon
  <2> QED BY <1>1, <1>4, <2>4, <2>5
<1>6. z + r < w
  <2>1. p * (m - v - 1) >= 0
    BY <1>2
  <2>2. m * p = p * (m - v - 1) + p * v + p
    OBVIOUS
  <2>3. PICK y : y = p * (m - v - 1) /\ y \in Int /\ y >= 0
    BY <2>1
  <2>4. w = y + z + p
    BY <1>3, <1>4, <2>2, <2>3
  <2> QED BY <1>1, <1>3, <1>4, <2>3, <2>4
<1>7. PICK d : d = z + r /\ d \in 0 .. (w - 1)
  BY <1>3, <1>4, <1>6
<1>8. x \div w = u
  BY <1>3, <1>5, <1>7, DivModUnique
<1> QED BY <1>1, <1>2, <1>3, <1>8

\* What is written into n bytes and fits is read from them.
LEMMA ToBytesReads ==
    ASSUME NEW n \in 0 .. MaxAlloc, NEW x \in Nat, x < ByteMod ^ n
    PROVE  Len(ToBytes(x, n)) = n /\ SetBytes(ToBytes(x, n)) = x
<1> DEFINE s == ToBytes(x, n)
<1>0. n \in Nat /\ MaxAlloc \in Nat /\ ByteMod \in Nat \ {0}
  BY Constants, Moduli
<1>1. ASSUME NEW i \in 1 .. n
      PROVE  (x \div ByteMod ^ (n - i)) % ByteMod \in Byte
  <2>1. n - i \in 0 .. MaxAlloc
    BY <1>0
  <2>2. PICK q : q = x \div ByteMod ^ (n - i) /\ q \in Nat
    BY <2>1, LongPowers, DivNat
  <2>3. PICK m : m = ByteMod /\ m \in Nat \ {0}
    BY <1>0
  <2> QED BY <2>2, <2>3 DEF Byte
<1>2. s \in Seq(Byte) /\ Len(s) = n /\ \A i \in 1 .. n : s[i] = (x \div ByteMod ^ (n - i)) % ByteMod
  BY <1>0, <1>1 DEF ToBytes
<1> HIDE DEF s
<1>3. PICK g : Values(g, s, n) /\ g[n] = SetBytes(s)
  BY <1>2, ValuesOf
<1> DEFINE T == {i \in 0 .. n : g[i] = x \div ByteMod ^ (n - i)}
<1>4. 0 \in T
  <2>1. PICK p : p = ByteMod ^ n /\ p \in Nat \ {0} /\ n - 0 = n
    BY <1>0, LongPowers
  <2>2. x \div p = 0
    <3>1. x = p * 0 + x /\ x \in 0 .. (p - 1)
      BY <2>1
    <3> QED BY <2>1, <3>1, DivModUnique
  <2> QED BY <1>0, <1>3, <2>1, <2>2 DEF Values
<1>5. ASSUME NEW i \in 0 .. n, i \in T, i < n
      PROVE  i + 1 \in T
  <2>1. /\ i + 1 \in 1 .. n /\ (i + 1) - 1 = i /\ i + 1 \in 0 .. n
        /\ n - (i + 1) \in 0 .. MaxAlloc /\ (n - (i + 1)) + 1 = n - i /\ n - (i + 1) < MaxAlloc
    BY <1>0, <1>5
  <2>2. PICK p : p = ByteMod ^ (n - (i + 1)) /\ p \in Nat \ {0} /\ ByteMod ^ (n - i) = ByteMod * p
    BY <2>1, LongPowers
  <2>3. g[i + 1] = g[i] * ByteMod + s[i + 1]
    BY <1>3, <2>1 DEF Values
  <2>4. PICK m : m = ByteMod /\ m \in Nat \ {0} /\ m * p \in Nat \ {0}
    BY <1>0, <2>2
  <2>5. PICK q \in Nat : q = x \div p
    BY <2>2, DivNat
  <2>6. PICK u \in Nat, v \in Nat : u = q \div m /\ v = q % m /\ q = m * u + v /\ v < m
    BY <2>4, CanDivideNat
  <2>7. x \div (m * p) = u
    <3>0. x \in Nat /\ p \in Nat \ {0} /\ m \in Nat \ {0}
      BY <2>2, <2>4
    <3>1. x \div (m * p) = (x \div p) \div m
      BY ONLY <3>0, DivTwice
    <3> QED BY <2>5, <2>6, <3>1, Zenon
  <2>8. g[i] = u /\ s[i + 1] = v
    BY <1>2, <1>5, <2>1, <2>2, <2>4, <2>5, <2>6, <2>7
  <2>9. g[i + 1] = q
    BY <2>3, <2>4, <2>6, <2>8
  <2> QED BY <2>1, <2>2, <2>5, <2>9
<1> HIDE DEF T
<1>6. n \in T
  <2>1. \A i \in 0 .. n : i \in T
    BY <1>0, <1>4, <1>5, CountingUp
  <2> QED BY <1>0, <2>1
<1>7. x \div ByteMod ^ (n - n) = x
  <2>1. n - n = 0 /\ ByteMod ^ 0 = 1
    BY <1>0, PowerAssumption
  <2> QED BY <2>1
<1> QED BY <1>2, <1>3, <1>6, <1>7 DEF T, s
-----------------------------------------------------------------------------
(***************************************************************************)
(* Recursion from n to its half, as in big.Int.Exp.                        *)
(***************************************************************************)
\* step[<<n, x>>] is the value at n when x is the one at n \div 2.
Halving(g, n, v, step) == g[0] = v /\ \A k \in 1 .. n : g[k] = step[<<k, g[k \div 2]>>]

\* For all numbers.
Halves(f, S, v, step) ==
    /\ f \in [Nat -> S] /\ f[0] = v
    /\ \A n \in Nat \ {0} : f[n] = step[<<n, f[n \div 2]>>]

\* The half of a number is less.
LEMMA HalfLess == \A n \in Nat \ {0} : n \div 2 \in 0 .. (n - 1)
OBVIOUS

\* Two such functions agree.
LEMMA HalvingUnique ==
    ASSUME NEW v, NEW step, NEW m \in Nat, NEW n \in 0 .. m, NEW g, NEW h,
           Halving(g, n, v, step), Halving(h, m, v, step)
    PROVE  \A k \in 0 .. n : g[k] = h[k]
<1> DEFINE Bad == {k \in 0 .. n : g[k] # h[k]}
<1>1. ASSUME NEW k \in Bad, \A j \in Bad : k <= j
      PROVE  FALSE
  <2>1. CASE k = 0
    BY <2>1 DEF Halving
  <2>2. CASE k # 0
    <3>1. k \in 1 .. n /\ k \in 1 .. m /\ k \div 2 \in 0 .. (k - 1) /\ k \div 2 \in 0 .. n
      BY <2>2, HalfLess
    <3>2. g[k \div 2] = h[k \div 2]
      <4>1. ~ (k <= k \div 2)
        BY <3>1
      <4>2. k \div 2 \notin Bad
        BY <1>1, <4>1
      <4> QED BY <3>1, <4>2
    <3>3. g[k] = h[k]
      BY <3>1, <3>2 DEF Halving
    <3> QED BY <3>3
  <2> QED BY <2>1, <2>2
<1>2. Bad \in SUBSET Nat
  OBVIOUS
<1>3. Bad = {}
  <2> HIDE DEF Bad
  <2> QED BY <1>1, <1>2, LeastNumber
<1> QED BY <1>3

\* There is one up to every number ...
LEMMA HalvingUpTo ==
    ASSUME NEW S, NEW v \in S, NEW step \in [(Nat \ {0}) \X S -> S], NEW n \in Nat
    PROVE  \E g \in [0 .. n -> S] : Halving(g, n, v, step)
<1> DEFINE T == {m \in 0 .. n : \E g \in [0 .. m -> S] : Halving(g, m, v, step)}
<1>1. 0 \in T
  <2> DEFINE g == [k \in 0 .. 0 |-> v]
  <2>1. g \in [0 .. 0 -> S] /\ Halving(g, 0, v, step)
    BY DEF Halving
  <2> HIDE DEF g
  <2> QED BY <2>1
<1>2. ASSUME NEW m \in 0 .. n, m \in T, m < n
      PROVE  m + 1 \in T
  <2>1. PICK g \in [0 .. m -> S] : Halving(g, m, v, step)
    BY <1>2
  <2> DEFINE h == [k \in 0 .. (m + 1) |-> IF k = m + 1 THEN step[<<k, g[k \div 2]>>] ELSE g[k]]
  <2>2. m + 1 \in Nat \ {0} /\ (m + 1) \div 2 \in 0 .. m /\ m + 1 \in 0 .. n
    <3>1. m + 1 \in Nat \ {0} /\ (m + 1) - 1 = m
      OBVIOUS
    <3>2. (m + 1) \div 2 \in 0 .. ((m + 1) - 1)
      BY <3>1, HalfLess
    <3> QED BY <1>2, <3>1, <3>2
  <2>3. step[<<m + 1, g[(m + 1) \div 2]>>] \in S
    BY <2>2
  <2>4. h \in [0 .. (m + 1) -> S]
    BY <2>3
  <2>5. h[0] = v
    BY <2>1, <2>2 DEF Halving
  <2>6. ASSUME NEW k \in 1 .. (m + 1)
        PROVE  h[k] = step[<<k, h[k \div 2]>>]
    <3>1. k \in 0 .. (m + 1) /\ k \div 2 \in 0 .. (k - 1)
      BY HalfLess
    <3>2. k \div 2 \in 0 .. m /\ k \div 2 # m + 1 /\ k \div 2 \in 0 .. (m + 1)
      BY <3>1
    <3>3. h[k \div 2] = g[k \div 2]
      BY <3>2
    <3>4. CASE k = m + 1
      BY <3>1, <3>3, <3>4
    <3>5. CASE k # m + 1
      <4>1. k \in 1 .. m
        BY <3>5
      <4>2. h[k] = g[k]
        BY <3>1, <3>5
      <4> QED BY <2>1, <3>3, <4>1, <4>2 DEF Halving
    <3> QED BY <3>4, <3>5
  <2> HIDE DEF h
  <2>7. Halving(h, m + 1, v, step)
    BY <2>5, <2>6 DEF Halving
  <2> QED BY <2>2, <2>4, <2>7
<1> HIDE DEF T
<1>3. \A m \in 0 .. n : m \in T
  BY <1>1, <1>2, CountingUp
<1> QED BY <1>3 DEF T

\* ... and one for all numbers.
LEMMA HalvingExists ==
    ASSUME NEW S, NEW v \in S, NEW step \in [(Nat \ {0}) \X S -> S]
    PROVE  \E f : Halves(f, S, v, step)
<1> DEFINE up(n) == CHOOSE g \in [0 .. n -> S] : Halving(g, n, v, step)
<1>1. \A n \in Nat : up(n) \in [0 .. n -> S] /\ Halving(up(n), n, v, step)
  BY HalvingUpTo
<1> HIDE DEF up
<1> DEFINE f == [n \in Nat |-> up(n)[n]]
<1>2. f \in [Nat -> S]
  BY <1>1
<1>3. f[0] = v
  BY <1>1 DEF Halving
<1>4. ASSUME NEW n \in Nat \ {0}
      PROVE  f[n] = step[<<n, f[n \div 2]>>]
  <2>1. n \div 2 \in 0 .. n /\ n \div 2 \in Nat /\ n \in 1 .. n /\ n \in Nat
    BY HalfLess
  <2>2. up(n)[n] = step[<<n, up(n)[n \div 2]>>]
    BY <1>1, <2>1 DEF Halving
  <2>3. up(n \div 2)[n \div 2] = up(n)[n \div 2]
    <3>1. n \div 2 \in 0 .. (n \div 2)
      BY <2>1
    <3> QED BY <1>1, <2>1, <3>1, HalvingUnique
  <2> QED BY <2>1, <2>2, <2>3
<1> HIDE DEF f
<1> QED BY <1>2, <1>3, <1>4 DEF Halves

\* Squares and factors modulo mod.
Squares(base, mod) ==
    [p \in (Nat \ {0}) \X (0 .. (mod - 1)) |->
        LET s == (p[2] * p[2]) % mod
        IN  IF p[1] % 2 = 1 THEN (s * (base % mod)) % mod ELSE s]

\* A power modulo mod is less than mod.
LEMMA PowModType ==
    ASSUME NEW base \in Nat, NEW exp \in Nat, NEW mod \in Nat \ {0}
    PROVE  PowMod(base, exp, mod) \in 0 .. (mod - 1)
<1> DEFINE S == 0 .. (mod - 1)
<1> DEFINE power[e \in Nat] ==
              IF e = 0 THEN 1 % mod
              ELSE LET r == power[e \div 2]
                       s == (r * r) % mod
                   IN  IF e % 2 = 1 THEN (s * (base % mod)) % mod ELSE s
<1>1. PowMod(base, exp, mod) = power[exp]
  BY DEF PowMod
<1>2. \A x \in Int : x % mod \in S
  OBVIOUS
<1>3. \A x \in S, y \in S : (x * y) % mod \in S
  <2> SUFFICES ASSUME NEW x \in S, NEW y \in S
               PROVE  (x * y) % mod \in S
    OBVIOUS
  <2>1. PICK z : z = x * y /\ z \in Int
    OBVIOUS
  <2> QED BY <1>2, <2>1
<1>4. base % mod \in S /\ 1 % mod \in S
  <2>1. base \in Int /\ 1 \in Int
    OBVIOUS
  <2> HIDE DEF S
  <2> QED BY <1>2, <2>1
<1> HIDE DEF S
<1>5. Squares(base, mod) \in [(Nat \ {0}) \X S -> S]
  <2>1. ASSUME NEW p \in (Nat \ {0}) \X S
        PROVE  (LET s == (p[2] * p[2]) % mod
                IN  IF p[1] % 2 = 1 THEN (s * (base % mod)) % mod ELSE s) \in S
    <3>1. PICK s : s = (p[2] * p[2]) % mod /\ s \in S
      BY <1>3
    <3>2. (s * (base % mod)) % mod \in S
      BY <1>3, <1>4, <3>1
    <3> QED BY <3>1, <3>2
  <2> QED BY <2>1 DEF Squares, S
<1>6. PICK f : Halves(f, S, 1 % mod, Squares(base, mod))
  <2>1. PICK v : v = 1 % mod /\ v \in S
    BY <1>4
  <2>2. PICK step : step = Squares(base, mod) /\ step \in [(Nat \ {0}) \X S -> S]
    BY <1>5
  <2>3. \E f : Halves(f, S, v, step)
    <3>1. v \in S /\ step \in [(Nat \ {0}) \X S -> S]
      BY <2>1, <2>2
    <3> QED BY ONLY <3>1, HalvingExists
  <2> QED BY <2>1, <2>2, <2>3
<1>7. ASSUME NEW e \in Nat
      PROVE  f[e] = IF e = 0 THEN 1 % mod
                    ELSE LET r == f[e \div 2]
                             s == (r * r) % mod
                         IN  IF e % 2 = 1 THEN (s * (base % mod)) % mod ELSE s
  <2>1. CASE e = 0
    BY <1>6, <2>1 DEF Halves
  <2>2. CASE e # 0
    <3>1. e \in Nat \ {0} /\ e \div 2 \in Nat
      BY <2>2, HalfLess
    <3>2. PICK r : r = f[e \div 2] /\ r \in S
      BY <1>6, <3>1 DEF Halves
    <3>3. f[e] = Squares(base, mod)[<<e, r>>]
      BY <1>6, <3>1, <3>2 DEF Halves
    <3>4. Squares(base, mod)[<<e, r>>] = LET s == (r * r) % mod
                                         IN  IF e % 2 = 1 THEN (s * (base % mod)) % mod ELSE s
      BY <3>1, <3>2 DEF Squares, S
    <3> QED BY <2>2, <3>2, <3>3, <3>4
  <2> QED BY <2>1, <2>2
<1>8. power = [e \in Nat |->
                 IF e = 0 THEN 1 % mod
                 ELSE LET r == power[e \div 2]
                          s == (r * r) % mod
                      IN  IF e % 2 = 1 THEN (s * (base % mod)) % mod ELSE s]
  <2>1. f = [e \in Nat |->
               IF e = 0 THEN 1 % mod
               ELSE LET r == f[e \div 2]
                        s == (r * r) % mod
                    IN  IF e % 2 = 1 THEN (s * (base % mod)) % mod ELSE s]
    <3>1. f = [e \in Nat |-> f[e]]
      BY <1>6 DEF Halves
    <3> QED BY <1>7, <3>1
  <2>2. \E g : g = [e \in Nat |->
                      IF e = 0 THEN 1 % mod
                      ELSE LET r == g[e \div 2]
                               s == (r * r) % mod
                           IN  IF e % 2 = 1 THEN (s * (base % mod)) % mod ELSE s]
    BY <2>1
  <2> QED BY <2>2
<1> HIDE DEF power
<1>9. power[exp] \in S
  <2> DEFINE Bad == {e \in Nat : power[e] \notin S}
  <2>1. ASSUME NEW e \in Bad, \A j \in Bad : e <= j
        PROVE  FALSE
    <3>1. CASE e = 0
      BY <1>4, <1>8, <3>1
    <3>2. CASE e # 0
      <4>1. e \div 2 \in 0 .. (e - 1) /\ e \in Nat
        BY <3>2, HalfLess
      <4>2. ~ (e <= e \div 2) /\ e \div 2 \in Nat
        BY <4>1
      <4>3. PICK r : r = power[e \div 2] /\ r \in S
        BY <2>1, <4>2
      <4>4. PICK s : s = (r * r) % mod /\ s \in S
        BY <1>3, <4>3
      <4>5. power[e] = IF e % 2 = 1 THEN (s * (base % mod)) % mod ELSE s
        BY <1>8, <3>2, <4>1, <4>3, <4>4
      <4>6. (s * (base % mod)) % mod \in S
        BY <1>3, <1>4, <4>4
      <4> QED BY <4>4, <4>5, <4>6
    <3> QED BY <3>1, <3>2
  <2>2. Bad \in SUBSET Nat
    OBVIOUS
  <2>3. Bad = {}
    <3> HIDE DEF Bad
    <3> QED BY <2>1, <2>2, LeastNumber
  <2> QED BY <2>3
<1> QED BY <1>1, <1>9 DEF S
-----------------------------------------------------------------------------
(***************************************************************************)
(* What MODEXP computes.                                                   *)
(***************************************************************************)
\* Offsets of lengths that can be allocated are the ones that are meant.
LEMMA SmallOffsets ==
    ASSUME NEW off \in 0 .. (2 * MaxAlloc)
    PROVE  /\ off \in Nat /\ Header + off \in Nat /\ off % U64 = off
           /\ (Header + off) % U64 = Header + off /\ AsInt(Header + off) = Header + off
<1>1. WordBytes \in Nat \ {0} /\ MaxAlloc \in Nat /\ Header = 3 * WordBytes
  BY Constants DEF Header
<1>2. PICK h : h = U64 \div 2 /\ h \in Nat
  BY Constants
<1>3. 3 * WordBytes + 2 * MaxAlloc + WordBytes < h
  BY <1>2, PrecompileAssumption
<1>4. off \in Nat /\ off < h /\ Header + off \in Nat /\ Header + off < h
  BY <1>1, <1>2, <1>3
<1> QED BY <1>2, <1>4, BelowHalf

\* The numbers that are read are the ones that are declared.
LEMMA NumberIs ==
    ASSUME NEW input \in Seq(Byte), NEW off \in 0 .. (2 * MaxAlloc), NEW n \in Nat
    PROVE  /\ SetBytes(getData(input, off, n)) = Number(input, off, n)
           /\ Number(input, off, n) = SetBytes(From(input, Header + off, n))
<1>1. off \in Nat /\ Header + off \in Nat /\ (Header + off) % U64 = Header + off
  BY SmallOffsets
<1>2. getData(input, off, n) = From(input, Header + off, n)
  BY <1>1, DataIs
<1>3. Number(input, off, n) = SetBytes(From(input, Header + off, n))
  BY DEF Number, From
<1> QED BY <1>2, <1>3

\* They are natural numbers that fit into their bytes.
LEMMA NumberType ==
    ASSUME NEW input \in Seq(Byte), NEW off \in 0 .. (2 * MaxAlloc), NEW n \in 0 .. MaxAlloc
    PROVE  Number(input, off, n) \in Nat /\ Number(input, off, n) < ByteMod ^ n
<1>1. Header + off \in Nat /\ n \in Nat /\ n <= MaxAlloc
  BY SmallOffsets, Constants
<1>2. PICK s : s = From(input, Header + off, n)
  OBVIOUS
<1>3. s \in Seq(Byte) /\ Len(s) = n
  BY <1>1, <1>2, FromType
<1>4. Number(input, off, n) = SetBytes(s)
  BY <1>1, <1>2, NumberIs
<1> QED BY <1>1, <1>3, <1>4, SetBytesBound

\* What MODEXP answers, of such lengths.
LEMMA ModexpAnswers ==
    ASSUME NEW input \in Seq(Byte), NEW gas \in Nat, Fits(input)
    PROVE  LET n    == Lengths(input)
               base == Number(input, 0, n[1])
               exp  == Number(input, n[1], n[2])
               mod  == Number(input, n[1] + n[2], n[3])
               cost == modexpGasEIP2565(n[1], n[2], n[3], input)
           IN  modexp(input, gas) =
                  IF gas < cost THEN Refused
                  ELSE Ok(IF n[3] = 0 THEN << >>
                          ELSE ToBytes(IF mod \in {0, 1} THEN 0 ELSE PowMod(base, exp, mod), n[3]),
                          gas - cost)
<1>1. PICK b, e, m : b = readLen(input, 0) /\ e = readLen(input, WordBytes) /\ m = readLen(input, 2 * WordBytes)
  OBVIOUS
<1>2. b \in 0 .. MaxAlloc /\ e \in 0 .. MaxAlloc /\ m \in 0 .. MaxAlloc
  BY <1>1, SmallLengths
<1>3. Lengths(input)[1] = b /\ Lengths(input)[2] = e /\ Lengths(input)[3] = m
  BY <1>1 DEF Lengths
<1>4. /\ 0 \in 0 .. (2 * MaxAlloc) /\ b \in 0 .. (2 * MaxAlloc) /\ b + e \in 0 .. (2 * MaxAlloc)
      /\ b \in Nat /\ e \in Nat /\ m \in Nat /\ MaxAlloc \in Nat
  BY <1>2, Constants
<1>5. (b + e) % U64 = b + e
  BY <1>4, SmallOffsets
<1>6. ~ GasPanics(b, e, input)
  BY <1>2, PricePanicsNot
<1>7. /\ ~ getDataPanics(input, 0, b) /\ ~ getDataPanics(input, b, e)
      /\ ~ getDataPanics(input, b + e, m) /\ ~ (m > MaxAlloc)
  BY <1>2, <1>4, DataPanicsNot
<1>8. PICK base, exp, mod : /\ base = Number(input, 0, b) /\ base = SetBytes(getData(input, 0, b))
                            /\ exp = Number(input, b, e) /\ exp = SetBytes(getData(input, b, e))
                            /\ mod = Number(input, b + e, m) /\ mod = SetBytes(getData(input, b + e, m))
  BY <1>4, NumberIs
<1>9. PICK cost : cost = modexpGasEIP2565(b, e, m, input)
  OBVIOUS
<1>10. PICK out : out = ToBytes(IF mod \in {0, 1} THEN 0 ELSE PowMod(base, exp, mod), m)
  OBVIOUS
<1>11. modexp(input, gas) = IF gas < cost THEN Refused
                            ELSE IF m = 0 THEN Ok(<< >>, gas - cost) ELSE Ok(out, gas - cost)
  BY <1>1, <1>5, <1>6, <1>7, <1>8, <1>9, <1>10 DEF modexp, Paying
<1> QED BY <1>3, <1>8, <1>9, <1>10, <1>11

\* It is the power.
LEMMA ModexpIsPower ==
    ASSUME NEW input \in Seq(Byte), NEW gas \in Nat, Fits(input), modexp(input, gas).err = "none"
    PROVE  LET n    == Lengths(input)
               base == Number(input, 0, n[1])
               exp  == Number(input, n[1], n[2])
               mod  == Number(input, n[1] + n[2], n[3])
               out  == modexp(input, gas).out
           IN  Len(out) = n[3] /\ SetBytes(out) = IF mod = 0 THEN 0 ELSE PowMod(base, exp, mod)
<1>1. PICK b, e, m : b = Lengths(input)[1] /\ e = Lengths(input)[2] /\ m = Lengths(input)[3]
  OBVIOUS
<1>2. b \in 0 .. MaxAlloc /\ e \in 0 .. MaxAlloc /\ m \in 0 .. MaxAlloc
  BY <1>1, SmallLengths DEF Lengths
<1>3. 0 \in 0 .. (2 * MaxAlloc) /\ b \in 0 .. (2 * MaxAlloc) /\ b + e \in 0 .. (2 * MaxAlloc)
  BY <1>2, Constants
<1>4. PICK base, exp, mod : /\ base = Number(input, 0, b) /\ exp = Number(input, b, e)
                            /\ mod = Number(input, b + e, m)
  OBVIOUS
<1>5. base \in Nat /\ exp \in Nat /\ mod \in Nat /\ mod < ByteMod ^ m
  <2>1. base \in Nat
    BY <1>2, <1>3, <1>4, NumberType
  <2>2. exp \in Nat
    BY <1>2, <1>3, <1>4, NumberType
  <2>3. mod \in Nat /\ mod < ByteMod ^ m
    BY <1>2, <1>3, <1>4, NumberType
  <2> QED BY <2>1, <2>2, <2>3
<1>6. PICK power : power = IF mod = 0 THEN 0 ELSE PowMod(base, exp, mod)
  OBVIOUS
<1>7. power \in Nat /\ power <= mod /\ (mod \in {0, 1} => power = 0)
  <2>1. CASE mod = 0
    BY <1>6, <2>1
  <2>2. CASE mod # 0
    <3>1. power \in 0 .. (mod - 1)
      BY <1>5, <1>6, <2>2, PowModType
    <3> QED BY <1>5, <2>2, <3>1
  <2> QED BY <2>1, <2>2
<1>8. power < ByteMod ^ m
  <2>1. PICK p : p = ByteMod ^ m /\ p \in Nat
    BY <1>2, LongPowers
  <2> QED BY <1>5, <1>7, <2>1
<1>9. Len(ToBytes(power, m)) = m /\ SetBytes(ToBytes(power, m)) = power
  BY <1>2, <1>7, <1>8, ToBytesReads
<1>10. (IF mod \in {0, 1} THEN 0 ELSE PowMod(base, exp, mod)) = power
  BY <1>6, <1>7
<1>11. modexp(input, gas).out = IF m = 0 THEN << >> ELSE ToBytes(power, m)
  <2>1. PICK cost : cost = modexpGasEIP2565(b, e, m, input)
    OBVIOUS
  <2>2. modexp(input, gas) = IF gas < cost THEN Refused
                             ELSE Ok(IF m = 0 THEN << >> ELSE ToBytes(power, m), gas - cost)
    BY <1>1, <1>4, <1>10, <2>1, ModexpAnswers
  <2>3. Refused.err # "none"
    BY DEF Refused
  <2> QED BY <2>2, <2>3 DEF Ok
<1>12. m = 0 => ToBytes(power, m) = << >>
  BY DEF ToBytes
<1>13. modexp(input, gas).out = ToBytes(power, m)
  BY <1>11, <1>12
<1> QED BY <1>1, <1>4, <1>6, <1>9, <1>13
-----------------------------------------------------------------------------
(***************************************************************************)
(* What MODEXP costs.                                                      *)
(***************************************************************************)
\* The bits of a number behind its leading one.
BitsBehind(head) == IF head = 0 THEN 0 ELSE BitLen(head) - 1

\* A greater number has no fewer of them.
LEMMA BitsGrow ==
    ASSUME NEW y \in Nat, NEW x \in 0 .. y
    PROVE  BitsBehind(x) \in Nat /\ BitsBehind(y) \in Nat /\ BitsBehind(x) <= BitsBehind(y)
<1> DEFINE I == 0 .. (WordBits - 1)
<1> DEFINE S(n) == {i \in I : 2 ^ i <= n}
<1>1. WordBits \in Nat \ {0} /\ 0 \in I /\ 0 - 1 \in Int
  BY Sizes
<1>2. IsFiniteSet(I)
  <2>1. 0 \in Int /\ WordBits - 1 \in Int
    BY <1>1
  <2> QED BY <2>1, FS_Interval
<1>3. \A i \in I : 2 ^ i \in Nat
  <2>1. I \subseteq 0 .. WordBits
    BY <1>1
  <2> QED BY <2>1, Twos
<1>4. \A n : BitLen(n) = Cardinality(S(n))
  BY DEF BitLen
<1>5. ASSUME NEW n \in Nat
      PROVE  /\ IsFiniteSet(S(n)) /\ BitLen(n) \in Nat
             /\ n # 0 => BitLen(n) >= 1
  <2>1. S(n) \subseteq I
    OBVIOUS
  <2>2. IsFiniteSet(S(n)) /\ Cardinality(S(n)) \in Nat
    BY <1>2, <2>1, FS_Subset, FS_CardinalityType
  <2>3. ASSUME n # 0
        PROVE  Cardinality(S(n)) # 0
    <3>1. 2 ^ 0 <= n
      BY <2>3, PowerAssumption
    <3>2. 0 \in S(n)
      BY <1>1, <3>1
    <3> HIDE DEF S
    <3> QED BY <2>2, <3>2, FS_EmptySet
  <2> HIDE DEF S
  <2> QED BY <1>4, <2>2, <2>3
<1>6. x \in Nat /\ x <= y
  OBVIOUS
<1>7. BitLen(x) <= BitLen(y)
  <2>1. S(x) \subseteq S(y)
    <3>1. ASSUME NEW i \in I, 2 ^ i <= x
          PROVE  2 ^ i <= y
      <4>1. PICK p : p = 2 ^ i /\ p \in Nat
        BY <1>3
      <4> QED BY <1>6, <3>1, <4>1
    <3> QED BY <3>1
  <2> HIDE DEF S
  <2> QED BY <1>4, <1>5, <2>1, FS_Subset
<1> HIDE DEF S, I
<1>8. BitLen(x) \in Nat /\ BitLen(y) \in Nat /\ (x # 0 => BitLen(x) >= 1) /\ (y # 0 => BitLen(y) >= 1)
  BY <1>5, <1>6
<1>9. x = 0 \/ y # 0
  BY <1>6
<1> QED BY <1>7, <1>8, <1>9 DEF BitsBehind

\* A slice of bytes.
LEMMA SliceIs ==
    ASSUME NEW input \in Seq(Byte), NEW start \in Nat, NEW end \in Nat,
           start <= end, end <= Len(input)
    PROVE  /\ Slice(input, start, end) \in Seq(Byte) /\ Len(Slice(input, start, end)) = end - start
           /\ \A i \in 1 .. (end - start) : Slice(input, start, end)[i] = input[start + i]
<1>1. /\ SubSeq(input, start + 1, end) \in Seq(Byte)
      /\ Len(SubSeq(input, start + 1, end)) = end - start
  OBVIOUS
<1>2. ASSUME NEW i \in 1 .. (end - start)
      PROVE  SubSeq(input, start + 1, end)[i] = input[start + i]
  <2>1. SubSeq(input, start + 1, end)[i] = input[start + 1 + i - 1]
    OBVIOUS
  <2>2. start + 1 + i - 1 = start + i
    OBVIOUS
  <2> QED BY <2>1, <2>2
<1> QED BY <1>1, <1>2 DEF Slice

\* The exponent's first word as the code prices it and as EIP-2565 does.
LEMMA HeadIs ==
    ASSUME NEW input \in Seq(Byte), NEW b \in 0 .. MaxAlloc, NEW e \in 0 .. MaxAlloc
    PROVE  LET head == ExponentHead(b, e, input)
               ref  == Number(input, b, e) \div ByteMod ^ Max({0, e - WordBytes})
           IN  /\ head \in Nat /\ ref \in Nat /\ head <= ref
               /\ Len(input) >= Header + b + HeadBytes(e) => head = ref
<1>1. MaxAlloc \in Nat /\ WordBytes \in Nat \ {0} /\ e \in Nat /\ b \in 0 .. (2 * MaxAlloc) /\ Len(input) \in Nat
      /\ b \in Nat
  BY Constants
<1>2. PICK start : start = Header + b /\ start \in Nat /\ start % U64 = start /\ AsInt(start) = start
  BY <1>1, SmallOffsets
<1>3. PICK hb : hb = HeadBytes(e)
  OBVIOUS
<1>4. hb = (IF e <= WordBytes THEN e ELSE WordBytes) /\ hb \in 0 .. e /\ (hb = 0 => e = 0) /\ hb <= WordBytes
  <2>1. e \in Int /\ WordBytes \in Int
    BY <1>1
  <2>2. hb = IF e <= WordBytes THEN e ELSE WordBytes
    BY <1>3, <2>1, OfTwo DEF HeadBytes
  <2> QED BY <1>1, <2>2
<1>5. PICK long : long = Max({0, e - WordBytes})
  OBVIOUS
<1>6. long = e - hb /\ long \in 0 .. MaxAlloc
  <2>1. 0 \in Int /\ e - WordBytes \in Int
    BY <1>1
  <2>2. long = IF 0 >= e - WordBytes THEN 0 ELSE e - WordBytes
    BY <1>5, <2>1, OfTwo
  <2> QED BY <1>1, <1>4, <2>2
<1>7. PICK s : s = From(input, start, e)
  OBVIOUS
<1>8. PICK t : t = From(input, start, hb)
  OBVIOUS
<1>9. s \in Seq(Byte) /\ Len(s) = e /\ t \in Seq(Byte) /\ Len(t) = hb /\ \A i \in 1 .. hb : t[i] = s[i]
  <2>1. hb \in Nat /\ 1 .. hb \subseteq 1 .. e
    BY <1>1, <1>4
  <2>2. s \in Seq(Byte) /\ Len(s) = e /\ t \in Seq(Byte) /\ Len(t) = hb
    BY <1>1, <1>2, <1>7, <1>8, <2>1, FromType
  <2> QED BY <1>7, <1>8, <2>1, <2>2 DEF From
<1>10. PICK x, y : x = SetBytes(s) /\ y = SetBytes(t) /\ x \in Nat /\ y \in Nat
  BY <1>9, SetBytesType
<1>11. x \div ByteMod ^ long = y
  <2>1. Len(s) <= MaxAlloc /\ Len(t) <= Len(s)
    BY <1>1, <1>4, <1>9
  <2>2. PICK r \in Nat : r < ByteMod ^ long /\ x = y * ByteMod ^ long + r
    BY <1>6, <1>9, <1>10, <2>1, SetBytesSplit
  <2>3. PICK p : p = ByteMod ^ long /\ p \in Nat \ {0}
    BY <1>6, LongPowers
  <2>4. x = p * y + r /\ r \in 0 .. (p - 1)
    BY <1>10, <2>2, <2>3
  <2>5. x \in Int /\ y \in Int
    BY <1>10
  <2>6. x \div p = y
    BY ONLY <2>3, <2>4, <2>5, DivModUnique
  <2> QED BY <2>3, <2>6
<1>12. Number(input, b, e) = x
  BY <1>1, <1>2, <1>7, <1>10, NumberIs
<1>13. PICK head : head = ExponentHead(b, e, input)
  OBVIOUS
<1>14. ExpStart(b) = start /\ (ReadsExponent(b, input) <=> start < Len(input))
  BY <1>2 DEF ExpStart, ReadsExponent
<1>15. CASE e = 0 \/ ~ (start < Len(input))
  <2>1. head = 0
    BY <1>13, <1>14, <1>15 DEF ExponentHead
  <2>2. ASSUME e = 0
        PROVE  y = 0
    <3>1. PICK g : Values(g, t, Len(t)) /\ g[Len(t)] = SetBytes(t)
      BY <1>9, ValuesOf
    <3>2. Len(t) = 0
      BY <1>4, <1>9, <2>2
    <3> QED BY <1>10, <3>1, <3>2 DEF Values
  <2>3. Len(input) >= start + hb => e = 0
    BY <1>1, <1>2, <1>4, <1>15
  <2> QED BY <1>2, <1>3, <1>5, <1>10, <1>11, <1>12, <1>13, <2>1, <2>2, <2>3
<1>16. CASE ~ (e = 0 \/ ~ (start < Len(input)))
  <2>1. start + hb \in Nat /\ (start + hb) % U64 = start + hb /\ AsInt(start + hb) = start + hb
    <3>1. PICK h : h = U64 \div 2 /\ h \in Nat
      BY Constants
    <3>2. 3 * WordBytes + 2 * MaxAlloc + WordBytes < h /\ Header = 3 * WordBytes
      BY <3>1, PrecompileAssumption DEF Header
    <3>3. start + hb \in Nat /\ start + hb < h
      BY <1>1, <1>2, <1>4, <3>1, <3>2
    <3> QED BY <3>1, <3>3, BelowHalf
  <2>2. PICK end : end = ExpEnd(b, hb, input)
    OBVIOUS
  <2>3. end = (IF start + hb > Len(input) THEN Len(input) ELSE start + hb) /\ end \in Nat
    BY <1>1, <1>14, <2>1, <2>2 DEF ExpEnd
  <2>4. start <= end /\ end <= Len(input) /\ end - start \in 0 .. hb /\ end - start \in Nat
    BY <1>1, <1>2, <1>4, <1>16, <2>3
  <2>5. /\ Slice(input, start, end) \in Seq(Byte) /\ Len(Slice(input, start, end)) = end - start
        /\ \A i \in 1 .. (end - start) : Slice(input, start, end)[i] = input[start + i]
    <3>1. input \in Seq(Byte) /\ start \in Nat /\ end \in Nat /\ start <= end /\ end <= Len(input)
      BY <1>2, <2>3, <2>4
    <3> QED BY ONLY <3>1, SliceIs
  <2>6. PICK c : /\ c = Slice(input, start, end) /\ c \in Seq(Byte) /\ Len(c) = end - start
                 /\ \A i \in 1 .. (end - start) : c[i] = input[start + i]
    BY <2>5
  <2>7. \A i \in 1 .. Len(c) : c[i] = t[i]
    <3>1. ASSUME NEW i \in 1 .. Len(c)
          PROVE  i \in 1 .. hb /\ start + i <= Len(input)
      BY <1>2, <1>4, <2>3, <2>4, <2>6
    <3> QED BY <1>8, <2>6, <3>1 DEF From
  <2>8. head = SetBytes(c) /\ head \in Nat
    <3>1. head = SetBytes(Slice(input, start, end))
      BY <1>3, <1>13, <1>14, <1>16, <2>2 DEF ExponentHead
    <3> QED BY <2>6, <3>1, SetBytesType
  <2>9. head <= y
    <3>1. Len(t) <= MaxAlloc /\ Len(c) <= Len(t) /\ Len(t) - Len(c) \in 0 .. MaxAlloc
      BY <1>1, <1>4, <1>9, <2>4, <2>6
    <3>2. PICK r \in Nat : y = head * ByteMod ^ (Len(t) - Len(c)) + r
      BY <1>9, <1>10, <2>6, <2>7, <2>8, <3>1, SetBytesSplit
    <3>3. PICK p : p = ByteMod ^ (Len(t) - Len(c)) /\ p \in Nat \ {0}
      BY <3>1, LongPowers
    <3>4. head * p = head + head * (p - 1) /\ head * (p - 1) >= 0
      BY <2>8, <3>3
    <3>5. PICK z : z = head * (p - 1) /\ z \in Nat
      BY <2>8, <3>3, <3>4
    <3> QED BY SMTT(60), <2>8, <3>2, <3>3, <3>4, <3>5
  <2>10. ASSUME Len(input) >= start + hb
         PROVE  head = y
    <3>1. Len(c) = Len(t)
      BY <1>1, <1>2, <1>9, <2>1, <2>3, <2>6, <2>10
    <3>2. c = t
      BY <1>9, <2>6, <2>7, <3>1, SameSequence
    <3> QED BY <1>10, <2>8, <3>2
  <2> QED BY <1>2, <1>3, <1>5, <1>10, <1>11, <1>12, <1>13, <2>8, <2>9, <2>10
<1> QED BY <1>15, <1>16

\* The numbers of iterations: of a head, with long bytes behind it.
Iterations(head, long) == Max({1, BitsBehind(head) + ByteBits * long})

\* The code computes them, unless their number wraps.
LEMMA IterationsIs ==
    ASSUME NEW e \in Nat, NEW head \in Nat, NEW long \in Nat, long = Max({0, e - WordBytes})
    PROVE  /\ iterCount(head, e) \in Nat
           /\ Iterations(head, long) < U64 => iterCount(head, e) = Iterations(head, long)
<1>1. WordBytes \in Nat /\ e - WordBytes \in Int /\ 0 \in Int
  BY Constants
<1>2. long = IF e > WordBytes THEN e - WordBytes ELSE 0
  BY <1>1, OfTwo
<1>3. PICK n : n = BitsBehind(head) + ByteBits * long /\ n \in Nat
  <2>1. PICK u, w : u = BitsBehind(head) /\ w = ByteBits * long
    OBVIOUS
  <2>2. head \in 0 .. head
    OBVIOUS
  <2>3. u \in Nat /\ w \in Nat
    BY <2>1, <2>2, BitsGrow, Sizes
  <2> QED BY <2>1, <2>3
<1>4. PICK k : k = n % U64 /\ k \in Nat /\ (n < U64 => k = n)
  <2>1. PICK k : k = n % U64
    OBVIOUS
  <2>2. U64 \in Nat \ {0}
    BY Constants
  <2>3. k \in Nat
    BY <1>3, <2>1, <2>2, Wraps
  <2>4. n < U64 => n \in 0 .. (U64 - 1)
    BY <1>3, <2>2
  <2> QED BY <1>3, <2>1, <2>3, <2>4, Wraps
<1>5. iterCount(head, e) = Max({1, k}) /\ Iterations(head, long) = Max({1, n})
  <2>1. iterCount(head, e) =
          Max({1, (BitsBehind(head) + ByteBits * (IF e > WordBytes THEN e - WordBytes ELSE 0)) % U64})
    BY DEF iterCount, BitsBehind
  <2>2. BitsBehind(head) + ByteBits * (IF e > WordBytes THEN e - WordBytes ELSE 0) = n
    BY <1>2, <1>3
  <2>3. k = n % U64
    BY <1>4
  <2>4. iterCount(head, e) = Max({1, k})
    BY ONLY <2>1, <2>2, <2>3, Zenon
  <2> QED BY <1>3, <2>4 DEF Iterations
<1>6. /\ Max({1, k}) = IF 1 >= k THEN 1 ELSE k
      /\ Max({1, n}) = IF 1 >= n THEN 1 ELSE n
  <2>1. 1 \in Int /\ k \in Int /\ n \in Int
    BY <1>3, <1>4
  <2> QED BY ONLY <2>1, OfTwo
<1>7. Max({1, n}) < U64 => k = n
  BY <1>3, <1>4, <1>6, Constants
<1>8. Max({1, k}) \in Nat
  BY <1>4, <1>6
<1> QED BY <1>5, <1>7, <1>8, Zenon

\* A greater head makes no fewer.
LEMMA IterationsGrow ==
    ASSUME NEW y \in Nat, NEW x \in 0 .. y, NEW long \in Nat
    PROVE  /\ Iterations(x, long) \in Nat \ {0} /\ Iterations(y, long) \in Nat \ {0}
           /\ Iterations(x, long) <= Iterations(y, long)
<1>1. PICK u, v, w : u = BitsBehind(x) /\ v = BitsBehind(y) /\ w = ByteBits * long
  OBVIOUS
<1>2. u \in Nat /\ v \in Nat /\ u <= v /\ w \in Nat
  BY <1>1, BitsGrow, Sizes
<1>3. 1 \in Int /\ u + w \in Int /\ v + w \in Int
  BY <1>2
<1>4. Max({1, u + w}) = (IF 1 >= u + w THEN 1 ELSE u + w) /\ Max({1, v + w}) = IF 1 >= v + w THEN 1 ELSE v + w
  BY <1>3, OfTwo
<1> QED BY <1>1, <1>2, <1>4 DEF Iterations

\* A product of words that fits, and one of fewer iterations.
LEMMA ProductFits ==
    ASSUME NEW w \in Nat, NEW j \in Nat \ {0}, NEW i \in 1 .. j, w * w * j < U64,
           NEW k \in Nat, i < U64 => k = i
    PROVE  /\ (((w * w) % U64) * k) % U64 = w * w * i
           /\ w * w * i \in Nat /\ w * w * i <= w * w * j
<1>1. U64 \in Nat \ {0}
  BY Constants
<1>2. PICK q : q = w * w /\ q \in Nat
  OBVIOUS
<1>3. q * i \in Nat /\ q * j \in Nat /\ q * i <= q * j /\ q * j < U64
  <2>1. q * (j - i) >= 0 /\ q * j = q * i + q * (j - i)
    BY <1>2
  <2>2. PICK y, z : y = q * i /\ z = q * (j - i) /\ y \in Nat /\ z \in Nat
    BY <1>2
  <2> QED BY <1>2, <2>1, <2>2
<1>4. CASE q = 0
  <2>1. q % U64 = 0
    BY <1>1, <1>4, Wraps
  <2>2. (0 * k) % U64 = 0 /\ q * i = 0
    <3>1. 0 * k = 0 /\ 0 \in 0 .. (U64 - 1) /\ q * i = 0
      BY <1>1, <1>4
    <3> QED BY <3>1, Wraps
  <2> QED BY <1>2, <1>3, <2>1, <2>2
<1>5. CASE q # 0
  <2>1. q <= q * j /\ j <= q * j
    <3>1. q * (j - 1) >= 0 /\ q * j = q + q * (j - 1)
      BY <1>2
    <3>2. (q - 1) * j >= 0 /\ q * j = j + (q - 1) * j
      BY <1>2, <1>5
    <3>3. PICK y, z : y = q * (j - 1) /\ z = (q - 1) * j /\ y \in Nat /\ z \in Nat
      BY <1>2, <1>5, <3>1, <3>2
    <3> QED BY <1>2, <3>1, <3>2, <3>3
  <2>2. q \in 0 .. (U64 - 1) /\ i \in 0 .. (U64 - 1) /\ q * i \in 0 .. (U64 - 1)
    <3>1. PICK y, z : y = q * i /\ z = q * j /\ y \in Nat /\ z \in Nat /\ y <= z /\ z < U64 /\ q <= z /\ j <= z
      BY <1>3, <2>1
    <3>2. q \in 0 .. (U64 - 1) /\ i \in 0 .. (U64 - 1) /\ y \in 0 .. (U64 - 1)
      BY <1>1, <1>2, <3>1
    <3> QED BY <3>1, <3>2
  <2>3. q % U64 = q /\ k = i /\ (q * i) % U64 = q * i
    <3>1. i < U64
      BY <1>1, <2>2
    <3> QED BY <2>2, <3>1, Wraps
  <2> QED BY <1>2, <1>3, <2>3
<1> QED BY <1>4, <1>5

\* The price is the one of EIP-2565, or less for an exponent that is cut off.
LEMMA ModexpCosts ==
    ASSUME NEW input \in Seq(Byte), Fits(input), ReferenceProduct(input) < U64
    PROVE  LET n    == Lengths(input)
               cost == modexpGasEIP2565(n[1], n[2], n[3], input)
           IN  /\ cost \in Nat /\ ReferencePrice(input) \in Nat /\ cost <= ReferencePrice(input)
               /\ Len(input) >= Header + n[1] + HeadBytes(n[2]) => cost = ReferencePrice(input)
<1>1. PICK b, e, m : b = Lengths(input)[1] /\ e = Lengths(input)[2] /\ m = Lengths(input)[3]
  OBVIOUS
<1>2. b \in 0 .. MaxAlloc /\ e \in 0 .. MaxAlloc /\ m \in 0 .. MaxAlloc
  BY <1>1, SmallLengths DEF Lengths
<1>3. MaxAlloc \in Nat /\ b \in Nat /\ e \in Nat /\ m \in Nat /\ WordBytes \in Nat /\ LimbBytes \in Nat \ {0}
  BY <1>2, Constants
<1>4. PICK long : long = Max({0, e - WordBytes}) /\ long \in Nat
  <2>1. 0 \in Int /\ e - WordBytes \in Int
    BY <1>3
  <2> QED BY <2>1, OfTwo
<1>5. PICK head, ref : head = ExponentHead(b, e, input) /\ ref = Number(input, b, e) \div ByteMod ^ long
  OBVIOUS
<1>6. /\ head \in Nat /\ ref \in Nat /\ head <= ref
      /\ Len(input) >= Header + b + HeadBytes(e) => head = ref
  BY <1>2, <1>4, <1>5, HeadIs
<1>7. PICK top : top = Max({b, m}) + LimbBytes - 1 /\ top \in Nat /\ top % U64 = top
  <2>1. PICK x : x = Max({b, m}) /\ x \in 0 .. MaxAlloc
    <3>1. b \in Int /\ m \in Int
      BY <1>3
    <3> QED BY <1>2, <3>1, OfTwo
  <2>2. U64 \in Nat \ {0} /\ LimbBytes <= WordBytes
    BY Constants, PrecompileAssumption
  <2>3. PICK h : h = U64 \div 2 /\ h \in Nat /\ h <= U64
    BY <2>2
  <2>4. 3 * WordBytes + 2 * MaxAlloc + WordBytes < h
    BY <2>3, PrecompileAssumption
  <2>5. x + LimbBytes - 1 \in 0 .. (U64 - 1)
    BY <1>3, <2>1, <2>2, <2>3, <2>4
  <2>6. PICK k : k = x + LimbBytes - 1 /\ k \in Nat /\ k % U64 = k
    <3>1. PICK k : k = x + LimbBytes - 1 /\ k \in 0 .. (U64 - 1)
      BY <2>5
    <3>2. k \in Nat /\ k \in Int
      BY <2>2, <3>1
    <3>3. k % U64 = k
      BY ONLY <3>1, <3>2, Wraps
    <3> QED BY <3>1, <3>2, <3>3
  <2>7. Max({b, m}) + LimbBytes - 1 = k
    BY <2>1, <2>6
  <2> QED BY <2>6, <2>7, Zenon
<1>8. PICK w : w = top \div LimbBytes /\ w \in Nat
  BY <1>3, <1>7, DivNat
<1>9. PICK i, j : i = Iterations(head, long) /\ j = Iterations(ref, long)
  OBVIOUS
<1>10. i \in Nat \ {0} /\ j \in Nat \ {0} /\ i <= j
  <2>1. head \in 0 .. ref
    BY <1>6
  <2> QED BY <1>4, <1>6, <1>9, <2>1, IterationsGrow
<1>11. ReferenceProduct(input) = w * w * j
  <2>1. ByteBits * long + BitsBehind(ref) = BitsBehind(ref) + ByteBits * long
    <3>1. PICK x, y : x = BitsBehind(ref) /\ y = ByteBits * long
      OBVIOUS
    <3>2. ref \in 0 .. ref
      BY <1>6
    <3>3. x \in Nat
      BY <1>6, <3>1, <3>2, BitsGrow
    <3>4. y \in Nat
      BY <1>4, <3>1, Sizes
    <3> QED BY <3>1, <3>3, <3>4
  <2>2. j = Max({1, ByteBits * long + BitsBehind(ref)})
    BY <1>9, <2>1 DEF Iterations
  <2> QED BY <1>1, <1>4, <1>5, <1>7, <1>8, <2>2 DEF ReferenceProduct, BitsBehind
<1>12. PICK k : k = iterCount(head, e) /\ k \in Nat /\ (i < U64 => k = i)
  BY <1>3, <1>4, <1>6, <1>9, IterationsIs
<1>13. /\ (((w * w) % U64) * k) % U64 = w * w * i
       /\ w * w * i \in Nat /\ w * w * i <= w * w * j
  <2>1. i \in 1 .. j /\ w * w * j < U64
    BY <1>10, <1>11
  <2>2. w \in Nat /\ j \in Nat \ {0} /\ k \in Nat /\ (i < U64 => k = i)
    BY <1>8, <1>10, <1>12
  <2> QED BY ONLY <2>1, <2>2, ProductFits, Zenon
<1>14. PICK p, q : p = w * w * i /\ q = w * w * j /\ p \in Nat /\ p <= q /\ q \in Nat
  <2>1. w * w * j \in Nat
    BY <1>8, <1>10
  <2> QED BY <1>13, <2>1
<1>15. PICK x, y : x = p \div 3 /\ y = q \div 3 /\ x \in Nat /\ y \in Nat /\ x <= y
  BY <1>14
<1>16. modexpGasEIP2565(b, e, m, input) = Max({MinModexpGas, x})
  BY <1>5, <1>7, <1>8, <1>12, <1>13, <1>14, <1>15 DEF modexpGasEIP2565
<1>17. ReferencePrice(input) = Max({MinModexpGas, y})
  BY <1>11, <1>14, <1>15 DEF ReferencePrice
<1>18. /\ Max({MinModexpGas, x}) = IF MinModexpGas >= x THEN MinModexpGas ELSE x
       /\ Max({MinModexpGas, y}) = IF MinModexpGas >= y THEN MinModexpGas ELSE y
       /\ MinModexpGas \in Nat
  BY <1>15, OfTwo, Constants
<1>19. head = ref => x = y
  BY <1>9, <1>14, <1>15
<1>20. /\ Max({MinModexpGas, x}) \in Nat /\ Max({MinModexpGas, y}) \in Nat
       /\ Max({MinModexpGas, x}) <= Max({MinModexpGas, y})
  BY <1>15, <1>18
<1> QED BY <1>1, <1>6, <1>16, <1>17, <1>19, <1>20

\* A call of MODEXP that was answered.
LEMMA ModexpCalled ==
    ASSUME IsAnswer, IsModexp
    PROVE  /\ call.input \in Seq(Byte) /\ call.gas \in Nat /\ Fits(call.input)
           /\ answer = modexp(call.input, call.gas)
<1>1. Answered /\ call.id = 5 /\ Fits(call.input)
  BY DEF IsModexp
<1>2. answer = modexp(call.input, call.gas)
  BY <1>1 DEF IsAnswer, dispatch
<1> QED BY <1>1, <1>2, CallType

\* Wherever the lengths of a MODEXP input put base, exponent and modulus, and wherever
\* it ends, the answer is the power, in as many bytes as the modulus has.
THEOREM ModexpIsThePower == Spec => []ModexpComputes
<1>1. IsAnswer => ModexpComputes
  <2>1. ASSUME IsAnswer, IsModexp, answer.err = "none"
        PROVE  LET n    == Lengths(call.input)
                   base == Number(call.input, 0, n[1])
                   exp  == Number(call.input, n[1], n[2])
                   mod  == Number(call.input, n[1] + n[2], n[3])
               IN  /\ Len(answer.out) = n[3]
                   /\ SetBytes(answer.out) = IF mod = 0 THEN 0 ELSE PowMod(base, exp, mod)
    <3>1. /\ call.input \in Seq(Byte) /\ call.gas \in Nat /\ Fits(call.input)
          /\ answer = modexp(call.input, call.gas)
      BY <2>1, ModexpCalled
    <3>2. modexp(call.input, call.gas).err = "none"
      BY <2>1, <3>1
    <3> QED BY <3>1, <3>2, ModexpIsPower
  <2> QED BY <2>1 DEF ModexpComputes
<1> QED BY <1>1, RunDispatches, PTL

\* MODEXP costs what EIP-2565 says, as long as the product of which the price is a
\* third fits into a uint64, and less only for an exponent that is cut off; it is
\* refused only when there is less gas than that.
THEOREM ModexpCostsAsMeant == Spec => []ModexpPrice
<1>1. IsAnswer => ModexpPrice
  <2>1. ASSUME IsAnswer, IsModexp, ReferenceProduct(call.input) < U64
        PROVE  LET n     == Lengths(call.input)
                   price == ReferencePrice(call.input)
               IN  /\ answer.err = "error" => call.gas < price
                   /\ answer.err = "none" =>
                         /\ call.gas - answer.gasLeft <= price
                         /\ Len(call.input) >= Header + n[1] + HeadBytes(n[2])
                               => call.gas - answer.gasLeft = price
    <3>1. /\ call.input \in Seq(Byte) /\ call.gas \in Nat /\ Fits(call.input)
          /\ answer = modexp(call.input, call.gas)
      BY <2>1, ModexpCalled
    <3>2. PICK n : n = Lengths(call.input)
      OBVIOUS
    <3>3. PICK cost, price : /\ cost = modexpGasEIP2565(n[1], n[2], n[3], call.input)
                             /\ price = ReferencePrice(call.input)
      OBVIOUS
    <3>4. /\ cost \in Nat /\ price \in Nat /\ cost <= price
          /\ Len(call.input) >= Header + n[1] + HeadBytes(n[2]) => cost = price
      BY <2>1, <3>1, <3>2, <3>3, ModexpCosts
    <3>5. PICK out : answer = IF call.gas < cost THEN Refused ELSE Ok(out, call.gas - cost)
      BY <3>1, <3>2, <3>3, ModexpAnswers
    <3>6. CASE call.gas < cost
      <4>1. answer.err = "error"
        BY <3>5, <3>6 DEF Refused
      <4>2. call.gas < price
        BY <3>1, <3>4, <3>6
      <4> QED BY <3>3, <4>1, <4>2
    <3>7. CASE ~ (call.gas < cost)
      <4>1. answer.err = "none" /\ answer.gasLeft = call.gas - cost
        BY <3>5, <3>7 DEF Ok
      <4>2. call.gas - (call.gas - cost) = cost
        BY <3>1, <3>4
      <4> QED BY <3>2, <3>3, <3>4, <4>1, <4>2
    <3> QED BY <3>6, <3>7
  <2> QED BY <2>1 DEF ModexpPrice
<1> QED BY <1>1, RunDispatches, PTL
=============================================================================
