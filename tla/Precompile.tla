----------------------------- MODULE Precompile -----------------------------
(***************************************************************************)
(* The precompiled contracts of fastvm (precompile/precompile.go): what a  *)
(* call costs, which inputs are refused and how inputs that are too short  *)
(* are read.  MODEXP is modelled in full, with the lengths that its input  *)
(* declares and the wrap-around of uint64; the cryptography of the others  *)
(* is uninterpreted: an output stands for the operands it is computed      *)
(* from.  In EVM.tla a precompile gives back any part of its gas.          *)
(*                                                                         *)
(* Words, bytes and uint64 are parameters (WordBytes is 32, ByteBits 8,    *)
(* U64 is 2^64 in the code), and so are the prices.                        *)
(***************************************************************************)
EXTENDS Words, FiniteSets

CONSTANTS
    U64,          \* uint64 arithmetic is modulo U64, int is half of it
    LimbBytes,    \* 8: the bytes of a machine word
    MaxAlloc,     \* external: the longest slice that make can allocate
    RoundBytes, BlakeBytes,     \* 4 and 213: of the input of BLAKE2F
    EcRecoverGas, Sha256Gas, Sha256Word, RipemdGas, RipemdWord, IdentityGas, IdentityWord,
    Bn256AddGas, Bn256MulGas, PairingGas, PairingPairGas, MinModexpGas,
    Calls,                      \* the calls of Run
    Recoverable(_),             \* external: RecoverCompact finds a key
    OnCurve(_),                 \* external: the bytes are a point
    PairsToOne(_)               \* external: Marshal of the pairing is a 1 and zeros

ASSUME PrecompileAssumption ==
    /\ {U64, LimbBytes, RoundBytes, BlakeBytes} \subseteq Nat \ {0}
    /\ LimbBytes <= WordBytes /\ RoundBytes <= BlakeBytes
    /\ {MaxAlloc, EcRecoverGas, Sha256Gas, Sha256Word, RipemdGas, RipemdWord, IdentityGas,
        IdentityWord, Bn256AddGas, Bn256MulGas, PairingGas, PairingPairGas,
        MinModexpGas} \subseteq Nat
    /\ 3 * WordBytes + 2 * MaxAlloc + WordBytes < U64 \div 2
    /\ Calls \subseteq [id : Nat, input : Seq(Byte), gas : 0 .. (U64 - 1)]

\* What ^ means, as far as the numbers of MODEXP reach.
ASSUME LongPowerAssumption ==
    \A n \in 0 .. (MaxAlloc - 1) : ByteMod ^ (n + 1) = ByteMod * ByteMod ^ n

VARIABLES
    call,      \* the id (the address), input and gas that Run is called with
    answer     \* what it returned

vars == <<call, answer>>

\* A result: an output and the gas left, an error, or a Go panic.
Ok(out, gasLeft) == [err |-> "none", out |-> out, gasLeft |-> gasLeft]
Refused == [err |-> "error", out |-> << >>, gasLeft |-> 0]
Panic == [err |-> "panic", out |-> << >>, gasLeft |-> 0]

\* Fault: the zero bytes are put in front.
PaddedInFront(input, n) ==
    LET k == Min({Len(input), n})
    IN  [i \in 1 .. n |-> IF i > n - k THEN input[i - (n - k)] ELSE 0]

\* copy into a buffer of n zero bytes.
Padded(input, n) == [i \in 1 .. n |-> IF i <= Len(input) THEN input[i] ELSE 0]

\* The w-th word of a buffer.
WordAt(in, w) == SubSeq(in, (w - 1) * WordBytes + 1, w * WordBytes)

wordCount(input) == (Len(input) + WordBytes - 1) \div WordBytes

zero32 == [i \in 1 .. WordBytes |-> 0]
zero64 == [i \in 1 .. (2 * WordBytes) |-> 0]

\* The gas is checked before anything is computed.
Paying(cost, gas, result(_)) == IF gas < cost THEN Refused ELSE result(gas - cost)
-----------------------------------------------------------------------------
(***************************************************************************)
(* Signatures, hashes, curves.                                             *)
(***************************************************************************)
ecRecover(input, gas) ==
    LET in   == Padded(input, 4 * WordBytes)
        v    == SetBytes(WordAt(in, 2))
        sig  == <<v, WordAt(in, 3), WordAt(in, 4), WordAt(in, 1)>>
        done(left) ==
            Ok(IF v \in {27, 28} /\ Recoverable(sig) THEN <<"address", sig>> ELSE zero32, left)
    IN  Paying(EcRecoverGas, gas, done)

sha256hash(input, gas) ==
    LET done(left) == Ok(<<"sha256", input>>, left)
    IN  Paying(Sha256Gas + Sha256Word * wordCount(input), gas, done)

ripemd160hash(input, gas) ==
    LET done(left) == Ok(<<"ripemd160", input>>, left)
    IN  Paying(RipemdGas + RipemdWord * wordCount(input), gas, done)

identity(input, gas) ==
    LET done(left) == Ok(input, left)
    IN  Paying(IdentityGas + IdentityWord * wordCount(input), gas, done)

bn256Add(input, gas) ==
    LET in == Padded(input, 4 * WordBytes)
        p1 == SubSeq(in, 1, 2 * WordBytes)
        p2 == SubSeq(in, 2 * WordBytes + 1, 4 * WordBytes)
        done(left) == Ok(IF OnCurve(p1) /\ OnCurve(p2) THEN <<"sum", p1, p2>> ELSE zero64, left)
    IN  Paying(Bn256AddGas, gas, done)

bn256ScalarMul(input, gas) ==
    LET in == Padded(input, 3 * WordBytes)
        p  == SubSeq(in, 1, 2 * WordBytes)
        done(left) == Ok(IF OnCurve(p) THEN <<"product", p, WordAt(in, 3)>> ELSE zero64, left)
    IN  Paying(Bn256MulGas, gas, done)

PairBytes == 6 * WordBytes

\* Every pair is decoded, only the first is paired.
bn256Pairing(input, gas) ==
    LET k == Len(input) \div PairBytes
        g1(i) == SubSeq(input, (i - 1) * PairBytes + 1, (i - 1) * PairBytes + 2 * WordBytes)
        g2(i) == SubSeq(input, (i - 1) * PairBytes + 2 * WordBytes + 1, i * PairBytes)
        isOne == k = 0 \/ /\ \A i \in 1 .. k : OnCurve(g1(i)) /\ OnCurve(g2(i))
                          /\ PairsToOne(<<g1(1), g2(1)>>)
        done(left) == Ok(Bytes32(Bool(isOne)), left)
    IN  IF Len(input) % PairBytes # 0 THEN Refused
        ELSE Paying(PairingGas + PairingPairGas * k, gas, done)

blake2F(input, gas) ==
    LET done(left) == Ok(<<"blake2b", input>>, left)
    IN  IF Len(input) # BlakeBytes THEN Refused
        ELSE Paying(SetBytes(SubSeq(input, 1, RoundBytes)), gas, done)
-----------------------------------------------------------------------------
(***************************************************************************)
(* MODEXP.                                                                 *)
(***************************************************************************)
Header == 3 * WordBytes

\* int(x) of a uint64.
AsInt(x) == IF x >= U64 \div 2 THEN x - U64 ELSE x

\* The bytes of the input from start to before end (from 0 in the code), where
\* that is no panic.
Slices(input, start, end) == start <= end /\ end <= Len(input)
Slice(input, start, end) == SubSeq(input, start + 1, end)

\* The length in the word at off, as a uint64; a word that is cut off is read as
\* if the bytes that are there were its last ones.
readLen(input, off) == SetBytes(Slice(input, off, Min({off + WordBytes, Len(input)}))) % U64

\* Where modexpGasEIP2565 reads n bytes of the exponent.
ExpStart(bLen) == (Header + bLen) % U64
ExpEnd(bLen, n, input) ==
    LET end == (ExpStart(bLen) + n) % U64
    IN  IF AsInt(end) > Len(input) THEN Len(input) ELSE end

ReadsExponent(bLen, input) == AsInt(ExpStart(bLen)) < Len(input)

\* Only the first word of a longer exponent counts.
HeadBytes(eLen) == Min({eLen, WordBytes})

\* Fault: the end of the exponent is not cut to the input.
GasPanicsUncut(bLen, eLen, input) ==
    /\ eLen > 0 /\ ReadsExponent(bLen, input)
    /\ ~ Slices(input, ExpStart(bLen), (ExpStart(bLen) + HeadBytes(eLen)) % U64)

\* The slice is out of range.
GasPanics(bLen, eLen, input) ==
    /\ eLen > 0 /\ ReadsExponent(bLen, input)
    /\ ~ Slices(input, ExpStart(bLen), ExpEnd(bLen, HeadBytes(eLen), input))

\* The exponent as it is priced: bytes that are cut off are missing in front.
ExponentHead(bLen, eLen, input) ==
    IF eLen = 0 \/ ~ ReadsExponent(bLen, input) THEN 0
    ELSE SetBytes(Slice(input, ExpStart(bLen), ExpEnd(bLen, HeadBytes(eLen), input)))

BitLen(n) == Cardinality({i \in 0 .. (WordBits - 1) : 2 ^ i <= n})

\* Fault: the leading bit is counted.
iterCountAllBits(head, eLen) ==
    Max({1, (BitLen(head) + ByteBits * (IF eLen > WordBytes THEN eLen - WordBytes ELSE 0)) % U64})

\* The sum wraps before it is raised to 1.
iterCount(head, eLen) ==
    LET bits == IF head = 0 THEN 0 ELSE BitLen(head) - 1
    IN  Max({1, (bits + ByteBits * (IF eLen > WordBytes THEN eLen - WordBytes ELSE 0)) % U64})

modexpGasEIP2565(bLen, eLen, mLen, input) ==
    LET words == ((Max({bLen, mLen}) + LimbBytes - 1) % U64) \div LimbBytes
        multComplexity == (words * words) % U64
        iterations == iterCount(ExponentHead(bLen, eLen, input), eLen)
    IN  Max({MinModexpGas, ((multComplexity * iterations) % U64) \div 3})

\* getData: n bytes at off behind the header, zero bytes where there are none ...
getDataPanics(input, off, n) ==
    LET start == (Header + off) % U64
        end   == (start + n) % U64
    IN  /\ n > 0
        /\ \/ (start >= Len(input) \/ end > Len(input)) /\ n > MaxAlloc
           \/ start < Len(input) /\ end < start

\* Fault: what is cut off is missing in front.
getDataRight(input, off, n) ==
    LET here == Slice(input, Header + off, Min({Header + off + n, Len(input)}))
    IN  [i \in 1 .. n |-> IF i <= n - Len(here) THEN 0 ELSE here[i - (n - Len(here))]]

\* ... at the end.
getData(input, off, n) ==
    LET start == (Header + off) % U64
    IN  IF start >= Len(input) THEN Padded(<< >>, n)
        ELSE Padded(Slice(input, start, Min({start + n, Len(input)})), n)

\* external: big.Int.Exp
PowMod(base, exp, mod) ==
    LET power[e \in Nat] ==
            IF e = 0 THEN 1 % mod
            ELSE LET r == power[e \div 2]
                     s == (r * r) % mod
                 IN  IF e % 2 = 1 THEN (s * (base % mod)) % mod ELSE s
    IN  power[exp]

\* A number in n bytes.
ToBytes(x, n) == [i \in 1 .. n |-> (x \div ByteMod ^ (n - i)) % ByteMod]

\* Fault: pays without looking at the gas.
modexpUnchecked(input, gas) ==
    LET bLen == readLen(input, 0)
        eLen == readLen(input, WordBytes)
        mLen == readLen(input, 2 * WordBytes)
    IN  IF GasPanics(bLen, eLen, input) THEN Panic
        ELSE Ok(<< >>, (gas - modexpGasEIP2565(bLen, eLen, mLen, input)) % U64)

modexp(input, gas) ==
    LET bLen == readLen(input, 0)
        eLen == readLen(input, WordBytes)
        mLen == readLen(input, 2 * WordBytes)
        base == SetBytes(getData(input, 0, bLen))
        exp  == SetBytes(getData(input, bLen, eLen))
        mod  == SetBytes(getData(input, (bLen + eLen) % U64, mLen))
        done(left) ==
            IF mLen = 0 THEN Ok(<< >>, left)
            ELSE IF \/ getDataPanics(input, 0, bLen)
                    \/ getDataPanics(input, bLen, eLen)
                    \/ getDataPanics(input, (bLen + eLen) % U64, mLen)
                    \/ mLen > MaxAlloc
            THEN Panic
            ELSE Ok(ToBytes(IF mod \in {0, 1} THEN 0 ELSE PowMod(base, exp, mod), mLen), left)
    IN  IF GasPanics(bLen, eLen, input) THEN Panic
        ELSE Paying(modexpGasEIP2565(bLen, eLen, mLen, input), gas, done)
-----------------------------------------------------------------------------
IsPrecompile(id) == id \in 1 .. 9

dispatch(id, input, gas) ==
    CASE id = 1 -> ecRecover(input, gas)
      [] id = 2 -> sha256hash(input, gas)
      [] id = 3 -> ripemd160hash(input, gas)
      [] id = 4 -> identity(input, gas)
      [] id = 5 -> modexp(input, gas)
      [] id = 6 -> bn256Add(input, gas)
      [] id = 7 -> bn256ScalarMul(input, gas)
      [] id = 8 -> bn256Pairing(input, gas)
      [] id = 9 -> blake2F(input, gas)

NoAnswer == [err |-> "waiting"]

\* Run, of an address whose first 19 bytes are zero.
Run ==
    /\ answer = NoAnswer
    /\ answer' = IF IsPrecompile(call.id) THEN dispatch(call.id, call.input, call.gas)
                 ELSE [err |-> "not a precompile", out |-> << >>, gasLeft |-> call.gas]
    /\ UNCHANGED call

Init == call \in Calls /\ answer = NoAnswer

Done == answer # NoAnswer /\ UNCHANGED vars

Next == Run \/ Done

Spec == Init /\ [][Next]_vars
-----------------------------------------------------------------------------
(***************************************************************************)
(* Properties.                                                             *)
(***************************************************************************)
Answered == answer # NoAnswer /\ IsPrecompile(call.id)

\* What EVM.execCall relies on: a precompile never gives back more gas than it was
\* given, and none when it refuses; uint64 subtractions do not wrap.
StaysWithinGas ==
    Answered => /\ answer.gasLeft \in 0 .. call.gas
                /\ answer.err = "error" => answer.gasLeft = 0

\* An input that is too short means the same as one that is filled up with zero
\* bytes: to ECRECOVER, BN256ADD and BN256MUL at any length, to MODEXP behind the
\* lengths.
FullLength == [id \in {1, 6, 7} |-> (IF id = 7 THEN 3 ELSE 4) * WordBytes]

ShortInputsArePadded ==
    Answered /\ answer.err = "none" =>
        LET longer == dispatch(call.id, Append(call.input, 0), call.gas)
        IN  \/ call.id \in DOMAIN FullLength /\ Len(call.input) < FullLength[call.id]
            \/ call.id = 5 /\ Len(call.input) >= Header /\ longer.err = "none"
            => longer.out = answer.out

\* The lengths and numbers that a MODEXP input declares.
Lengths(input) == <<readLen(input, 0), readLen(input, WordBytes), readLen(input, 2 * WordBytes)>>

Fits(input) == \A i \in 1 .. 3 : Lengths(input)[i] <= MaxAlloc

Number(input, off, n) ==
    SetBytes([i \in 1 .. n |->
                LET at == Header + off + i IN IF at <= Len(input) THEN input[at] ELSE 0])

IsModexp == Answered /\ call.id = 5 /\ Len(call.input) >= Header /\ Fits(call.input)

\* MODEXP finds its three numbers wherever the lengths put them, cut off or not,
\* and returns the power in as many bytes as the modulus has.
ModexpComputes ==
    IsModexp /\ answer.err = "none" =>
        LET n    == Lengths(call.input)
            base == Number(call.input, 0, n[1])
            exp  == Number(call.input, n[1], n[2])
            mod  == Number(call.input, n[1] + n[2], n[3])
        IN  /\ Len(answer.out) = n[3]
            /\ SetBytes(answer.out) = IF mod = 0 THEN 0 ELSE PowMod(base, exp, mod)

\* EIP-2565, of the numbers: the product that is divided, and the price.
ReferenceProduct(input) ==
    LET n     == Lengths(input)
        exp   == Number(input, n[1], n[2])
        words == (Max({n[1], n[3]}) + LimbBytes - 1) \div LimbBytes
        long  == Max({0, n[2] - WordBytes})
        head  == exp \div ByteMod ^ long
        count == ByteBits * long + (IF head = 0 THEN 0 ELSE BitLen(head) - 1)
    IN  words * words * Max({1, count})

ReferencePrice(input) == Max({MinModexpGas, ReferenceProduct(input) \div 3})

\* MODEXP costs what EIP-2565 says, and is refused only when that is not there, as
\* long as the product fits into a uint64: the code lets it wrap.
\* When the input ends inside the exponent's first word, the code prices a smaller
\* exponent than it computes with: then it costs no more than that.
ModexpPrice ==
    IsModexp /\ ReferenceProduct(call.input) < U64 =>
        LET n     == Lengths(call.input)
            price == ReferencePrice(call.input)
        IN  /\ answer.err = "error" => call.gas < price
            /\ answer.err = "none" =>
                  /\ call.gas - answer.gasLeft <= price
                  /\ Len(call.input) >= Header + n[1] + HeadBytes(n[2])
                        => call.gas - answer.gasLeft = price

\* No input makes MODEXP panic, whatever it declares and wherever it ends, unless
\* one of its lengths is more than can be allocated.
PanicsOnlyOnHugeLengths ==
    Answered /\ answer.err = "panic" => call.id = 5 /\ ~ Fits(call.input)
=============================================================================
