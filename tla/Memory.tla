------------------------------- MODULE Memory -------------------------------
(***************************************************************************)
(* fastvm's Memory (memory/memory.go).  The Go slice m.data is the record  *)
(* fields data (the backing array, whose length is the capacity) and len;  *)
(* bytes between len and the capacity exist, keep their values, and may be *)
(* reached by slice expressions, which Go checks against the capacity.     *)
(* Offsets, sizes and gas are uint64, modulo U64.                          *)
(***************************************************************************)
EXTENDS Words

CONSTANTS
    U64,           \* 2^64 in the code
    InitCap,       \* 4096: the capacity of a new memory
    MemoryWord,    \* 3: gas per word ...
    QuadDivisor    \* ... and 512: plus one for words squared by this

ASSUME MemoryAssumption ==
    /\ U64 \in 1 .. WordMod
    /\ InitCap \in Nat
    /\ MemoryWord \in Nat
    /\ QuadDivisor \in Nat \ {0}

MemoryType ==
    [data : Seq(Byte), len : 0 .. (U64 - 1), lastGas : Nat]

Zeros(n) == [i \in 1 .. n |-> 0]

NewMemory == [data |-> Zeros(InitCap), len |-> 0, lastGas |-> 0]

\* Reset keeps the backing array and what is in it.
ResetMemory(m) == [m EXCEPT !.len = 0, !.lastGas = 0]

memoryGas(words) ==
    (MemoryWord * words + ((words * words) % U64) \div QuadDivisor) % U64

WordsFor(size) == ((size + WordBytes - 1) % U64) \div WordBytes

\* Fault: a part of a word is not charged for.
ExpansionCostRoundsDown(m, offset, size) ==
    IF size = 0 THEN 0
    ELSE LET newGas == memoryGas(((offset + size) % U64) \div WordBytes)
         IN  IF newGas < m.lastGas THEN 0 ELSE newGas - m.lastGas

Overflows(offset, size) == size # 0 /\ offset + size >= U64

ExpansionCost(m, offset, size) ==
    IF size = 0 \/ Overflows(offset, size) THEN 0
    ELSE LET newGas == memoryGas(WordsFor(offset + size))
         IN  IF newGas < m.lastGas THEN 0 ELSE newGas - m.lastGas

\* Expand returns an error.
ExpandFails(m, offset, size, gasLeft) ==
    \/ Overflows(offset, size)
    \/ ExpansionCost(m, offset, size) > gasLeft

\* As an int, half of 2^64 or more is negative.
NegativeInt(n) == n >= U64 \div 2

NewCap(cap, need) == IF NegativeInt(2 * cap) THEN need ELSE Max({2 * cap, need})

\* Fault: the bytes are not copied into the larger buffer.
ResizeForgets(m, need) ==
    IF need <= m.len \/ NegativeInt(need) THEN m
    ELSE IF need <= Len(m.data) THEN [m EXCEPT !.len = need]
    ELSE [m EXCEPT !.len = need, !.data = Zeros(NewCap(Len(m.data), need))]

\* The lengths are ints: a need that is negative as one changes nothing.
Resize(m, need) ==
    IF need <= m.len \/ NegativeInt(need) THEN m
    ELSE IF need <= Len(m.data) THEN [m EXCEPT !.len = need]
    ELSE LET newCap == NewCap(Len(m.data), need)
         IN  [m EXCEPT !.len = need,
                       !.data = [i \in 1 .. newCap |-> IF i <= m.len THEN m.data[i] ELSE 0]]

\* Expand, when it succeeds.  lastGas becomes that of this access, also when the
\* memory was larger before.
Expand(m, offset, size) ==
    IF size = 0 THEN m
    ELSE LET newWords == WordsFor(offset + size)
         IN  Resize([m EXCEPT !.lastGas = memoryGas(newWords)], newWords * WordBytes)
-----------------------------------------------------------------------------
\* m.data[offset : offset+size] does not panic.
InSlice(m, offset, size) ==
    LET high == (offset + size) % U64
    IN  offset <= high /\ high <= Len(m.data)

\* Get, GetCopy, GetPtr.
Get(m, offset, size) == IF size = 0 THEN << >> ELSE SubSeq(m.data, offset + 1, offset + size)

\* Set32, SetByte, and the copies into what GetPtr returns.
Set(m, offset, bytes) ==
    [m EXCEPT !.data = [i \in DOMAIN @ |->
        IF i \in (offset + 1) .. (offset + Len(bytes)) THEN bytes[i - offset] ELSE @[i]]]
=============================================================================
