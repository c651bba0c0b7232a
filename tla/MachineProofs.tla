---------------------------- MODULE MachineProofs ---------------------------
(***************************************************************************)
(* Proofs about the interpreter running code, for every code, every amount *)
(* of gas and every size of words, memory and stack: the state keeps its   *)
(* types, code runs only from the beginning of instructions, memory reads  *)
(* back what was written and is paid for, a frame lives as FrameLife says, *)
(* and each opcode that computes pushes what it is meant to.               *)
(***************************************************************************)
EXTENDS Machine, WordsProofs, SequenceTheorems

(***************************************************************************)
(* The constants.                                                          *)
(***************************************************************************)
\* Sizes and prices.
LEMMA Constants ==
    /\ U64 \in Nat \ {0} /\ 0 .. (U64 - 1) \subseteq Word /\ InitCap \in Nat
    /\ MemoryWord \in Nat /\ QuadDivisor \in Nat \ {0} /\ MaxDepth \in Nat \ {0}
    /\ WordBytes \in Nat /\ WordBytes >= 2
<1>1. U64 \in 1 .. WordMod /\ WordMod \in Nat
  BY MemoryAssumption, Moduli
<1>2. 0 .. (U64 - 1) \subseteq Word
  BY <1>1 DEF Word
<1>3. U64 \in Nat \ {0}
  BY <1>1
<1> QED BY <1>2, <1>3, MemoryAssumption, MachineAssumption, Sizes

\* Prices.
LEMMA Prices ==
    /\ Exp0 \in Nat /\ ExpByte \in Nat /\ Sha3 \in Nat /\ Sha3Word \in Nat /\ Copy \in Nat
    /\ LogData \in Nat /\ LogTopic \in Nat /\ LogGas \in Nat
    /\ WarmStorageRead \in Nat /\ ColdAccountAccess \in Nat
    /\ CallValue \in Nat /\ NewAccount \in Nat /\ CallGasDivisor \in Nat \ {0}
BY GasAssumption, MachineAssumption

\* Remainders of uint64 arithmetic.
LEMMA Wraps ==
    ASSUME NEW a \in Int
    PROVE  a % U64 \in 0 .. (U64 - 1) /\ (a \in 0 .. (U64 - 1) => a % U64 = a)
<1>1. U64 \in Nat \ {0}
  BY Constants
<1>2. a % U64 \in 0 .. (U64 - 1)
  BY <1>1
<1>3. ASSUME a \in 0 .. (U64 - 1)
      PROVE  a % U64 = a
  BY <1>1, <1>3
<1> QED BY <1>2, <1>3
-----------------------------------------------------------------------------
(***************************************************************************)
(* Memory.                                                                 *)
(***************************************************************************)
\* Memory fees are numbers.
LEMMA MemoryGasType ==
    ASSUME NEW n \in Nat
    PROVE  memoryGas(n) \in Nat
<1>1. PICK s : s = (n * n) % U64
  OBVIOUS
<1>2. s \in Nat
  <2>1. n * n \in Int
    OBVIOUS
  <2> QED BY <1>1, <2>1, Wraps
<1>3. PICK q : q = s \div QuadDivisor
  OBVIOUS
<1>4. q \in Int
  BY <1>2, <1>3, Constants, DivMod
<1>5. MemoryWord * n + q \in Int
  BY <1>4, Constants
<1> QED BY <1>1, <1>3, <1>5, Wraps DEF memoryGas

\* The words that cover a size, and their bytes, do not exceed uint64.
LEMMA WordsForType ==
    ASSUME NEW size \in Nat
    PROVE  /\ WordsFor(size) \in Nat /\ WordsFor(size) * WordBytes \in 0 .. (U64 - 1)
           /\ (WordsFor(size) * WordBytes) \div WordBytes = WordsFor(size)
<1>1. WordBytes \in Nat \ {0}
  BY Sizes
<1>2. PICK s : s = (size + WordBytes - 1) % U64
  OBVIOUS
<1>3. s \in 0 .. (U64 - 1) /\ s \in Nat
  <2>1. size + WordBytes - 1 \in Int
    BY <1>1
  <2> QED BY <1>2, <2>1, Wraps
<1>4. PICK n : n = s \div WordBytes
  OBVIOUS
<1>5. n \in Nat
  BY <1>1, <1>3, <1>4, DivNat
<1>6. s = WordBytes * n + (s % WordBytes) /\ s % WordBytes \in Nat
  BY <1>1, <1>3, <1>4, DivMod
<1>7. n * WordBytes \in 0 .. (U64 - 1)
  <2>1. PICK r, p : r = s % WordBytes /\ p = n * WordBytes
    OBVIOUS
  <2>2. p \in Nat /\ r \in Nat /\ s = p + r
    BY <1>1, <1>5, <1>6, <2>1
  <2> QED BY <1>3, <2>1, <2>2, Constants
<1>8. (n * WordBytes) \div WordBytes = n
  <2>1. PICK p : p = n * WordBytes
    OBVIOUS
  <2>2. p \in Int /\ p = WordBytes * n + 0 /\ 0 \in 0 .. (WordBytes - 1)
    BY <1>1, <1>5, <2>1
  <2>3. p \div WordBytes = n
    BY <1>1, <1>5, <2>2, DivModUnique
  <2> QED BY <2>1, <2>3
<1>9. WordsFor(size) = n
  BY <1>2, <1>4 DEF WordsFor
<1> QED BY <1>5, <1>7, <1>8, <1>9

\* A history.
History(h) ==
    /\ h \in [written : [DOMAIN h.written -> Byte], paid : Nat, reused : BOOLEAN,
              wild : BOOLEAN, moved : BOOLEAN]
    /\ DOMAIN h.written \subseteq Nat

\* A memory: what memory.go keeps of it.
Sound(m) == m \in MemoryType /\ m.len <= Len(m.data)

\* The memory m is what the history says of it: the inductive form of
\* MemoryReadsBack and MemoryIsPaid.  The bytes that are zero include those up to
\* the capacity, and what is paid covers the price of the last access as well.
Recorded(m, h, paid) ==
    /\ DOMAIN h.written \subseteq Nat
    /\ \A i \in DOMAIN h.written : i < m.len /\ m.data[i + 1] = h.written[i]
    /\ ~ h.reused /\ ~ h.wild =>
          \A i \in 1 .. Len(m.data) : i - 1 \notin DOMAIN h.written => m.data[i] = 0
    /\ paid >= m.lastGas
    /\ paid >= memoryGas(m.len \div WordBytes)

\* A new memory is empty, zero and free.
LEMMA NewMemorySound ==
    /\ Sound(NewMemory)
    /\ \A m \in MemoryType : Sound(ResetMemory(m))
<1>1. Zeros(InitCap) \in Seq(Byte) /\ Len(Zeros(InitCap)) = InitCap
  <2>1. 0 \in Byte /\ InitCap \in Nat
    BY Constants, Moduli DEF Byte
  <2> QED BY <2>1 DEF Zeros
<1>2. U64 \in Nat \ {0} /\ InitCap \in Nat
  BY Constants
<1>3. Sound(NewMemory)
  BY <1>1, <1>2 DEF Sound, NewMemory, MemoryType
<1>4. ASSUME NEW m \in MemoryType
      PROVE  Sound(ResetMemory(m))
  <2>1. m.data \in Seq(Byte)
    BY DEF MemoryType
  <2>2. Len(m.data) \in Nat
    BY <2>1
  <2>3. ResetMemory(m).data = m.data /\ ResetMemory(m).len = 0
    BY DEF ResetMemory, MemoryType
  <2>4. 0 \in 0 .. (U64 - 1)
    BY <1>2
  <2>5. ResetMemory(m) \in MemoryType
    BY <2>4 DEF ResetMemory, MemoryType
  <2> QED BY <2>2, <2>3, <2>5 DEF Sound
<1> QED BY <1>3, <1>4

\* Nothing is paid for an empty memory.
LEMMA NoMemoryGas == memoryGas(0 \div WordBytes) = 0
<1>1. 0 \div WordBytes = 0
  <2>1. WordBytes \in Nat \ {0}
    BY Sizes
  <2> QED BY <2>1
<1>2. U64 \in Nat \ {0} /\ QuadDivisor \in Nat \ {0} /\ MemoryWord \in Nat
  BY Constants
<1>3. (0 * 0) % U64 = 0
  BY <1>2
<1>4. 0 \div QuadDivisor = 0
  BY <1>2
<1>5. MemoryWord * 0 + 0 = 0 /\ 0 % U64 = 0
  BY <1>2
<1> QED BY <1>1, <1>3, <1>4, <1>5 DEF memoryGas

\* A frame begins with a memory that is what its history says.
LEMMA BeginsRecorded ==
    ASSUME NEW m, NEW r \in BOOLEAN, NEW moved \in BOOLEAN,
           m = NewMemory \/ (r /\ m.len = 0 /\ m.lastGas = 0)
    PROVE  /\ History([NoHistory EXCEPT !.reused = r, !.moved = moved])
           /\ Recorded(m, [NoHistory EXCEPT !.reused = r, !.moved = moved], 0)
<1> DEFINE h == [NoHistory EXCEPT !.reused = r, !.moved = moved]
<1>1. NoHistory \in [written : [{} -> Byte], paid : Nat, reused : BOOLEAN, wild : BOOLEAN, moved : BOOLEAN]
      /\ NoHistory.written = << >> /\ NoHistory.paid = 0
  <2>1. << >> \in [{} -> Byte]
    OBVIOUS
  <2> QED BY <2>1 DEF NoHistory
<1>2. h.written = << >> /\ DOMAIN h.written = {} /\ h.paid = 0 /\ h.reused = r
  BY <1>1
<1>3. History(h)
  <2>1. h \in [written : [{} -> Byte], paid : Nat, reused : BOOLEAN, wild : BOOLEAN, moved : BOOLEAN]
    BY <1>1, Zenon
  <2> HIDE DEF h
  <2> QED BY <1>2, <2>1 DEF History
<1>4. m.len = 0 /\ m.lastGas = 0
  BY DEF NewMemory
<1>5. ~ r => \A i \in 1 .. Len(m.data) : m.data[i] = 0
  <2>1. InitCap \in Nat
    BY Constants
  <2>2. Len(Zeros(InitCap)) = InitCap /\ \A i \in 1 .. InitCap : Zeros(InitCap)[i] = 0
    BY <2>1 DEF Zeros
  <2> QED BY <2>2 DEF NewMemory
<1> HIDE DEF h
<1>7. Recorded(m, h, 0)
  BY <1>2, <1>4, <1>5, NoMemoryGas DEF Recorded
<1> QED BY <1>3, <1>7 DEF h

\* A larger memory keeps its bytes, and is zero where it is new.
LEMMA ResizeIs ==
    ASSUME NEW m, Sound(m), NEW need \in 0 .. (U64 - 1)
    PROVE  /\ Sound(Resize(m, need)) /\ Resize(m, need).lastGas = m.lastGas
           /\ Resize(m, need).len = IF need <= m.len \/ NegativeInt(need) THEN m.len ELSE need
           /\ \A i \in 1 .. m.len : Resize(m, need).data[i] = m.data[i]
           /\ \A i \in 1 .. Len(Resize(m, need).data) :
                 Resize(m, need).data[i] = 0 \/ (i \in 1 .. Len(m.data) /\ Resize(m, need).data[i] = m.data[i])
<1>0. /\ m \in MemoryType /\ m.data \in Seq(Byte) /\ m.len \in 0 .. (U64 - 1) /\ m.len \in Nat
      /\ Len(m.data) \in Nat /\ m.len <= Len(m.data) /\ need \in Nat
  <2>1. m \in MemoryType /\ m.data \in Seq(Byte) /\ m.len \in 0 .. (U64 - 1) /\ m.len <= Len(m.data)
    BY DEF Sound, MemoryType
  <2>2. Len(m.data) \in Nat
    BY <2>1
  <2> QED BY <2>1, <2>2, Constants
<1>1. CASE need <= m.len \/ NegativeInt(need)
  <2>1. Resize(m, need) = m
    BY <1>1 DEF Resize
  <2> QED BY <1>0, <1>1, <2>1
<1>2. CASE ~ (need <= m.len \/ NegativeInt(need)) /\ need <= Len(m.data)
  <2>1. Resize(m, need) = [m EXCEPT !.len = need]
    BY <1>2 DEF Resize
  <2>2. Resize(m, need) \in MemoryType
    BY <1>0, <2>1 DEF MemoryType
  <2>3. Resize(m, need).len = need /\ Resize(m, need).data = m.data /\ Resize(m, need).lastGas = m.lastGas
    BY <1>0, <2>1 DEF MemoryType
  <2> QED BY <1>0, <1>2, <2>2, <2>3 DEF Sound
<1>3. CASE ~ (need <= m.len \/ NegativeInt(need)) /\ ~ (need <= Len(m.data))
  <2>1. PICK newCap : newCap = NewCap(Len(m.data), need)
    OBVIOUS
  <2>2. newCap \in Nat /\ need <= newCap
    <3>1. 2 * Len(m.data) \in Nat
      BY <1>0
    <3>2. PICK a : a = 2 * Len(m.data)
      OBVIOUS
    <3>3. a \in Int /\ a \in Nat
      BY <3>1, <3>2
    <3>4. Max({a, need}) = IF a >= need THEN a ELSE need
      BY <1>0, <3>3, OfTwo
    <3>5. newCap = need \/ newCap = Max({a, need})
      BY <2>1, <3>2 DEF NewCap
    <3> QED BY <1>0, <3>3, <3>4, <3>5
  <2>3. PICK d : d = [i \in 1 .. newCap |-> IF i <= m.len THEN m.data[i] ELSE 0]
    OBVIOUS
  <2>4. Resize(m, need) = [m EXCEPT !.len = need, !.data = d]
    BY <1>3, <2>1, <2>3 DEF Resize
  <2>5. d \in Seq(Byte) /\ Len(d) = newCap /\ \A i \in 1 .. newCap : d[i] = IF i <= m.len THEN m.data[i] ELSE 0
    <3>1. \A i \in 1 .. newCap : i <= m.len => m.data[i] \in Byte
      BY <1>0
    <3>2. 0 \in Byte
      BY Moduli DEF Byte
    <3> QED BY <2>2, <2>3, <3>1, <3>2
  <2>6. Resize(m, need) \in MemoryType
    BY <1>0, <2>4, <2>5 DEF MemoryType
  <2>7. Resize(m, need).len = need /\ Resize(m, need).data = d /\ Resize(m, need).lastGas = m.lastGas
    BY <1>0, <2>4 DEF MemoryType
  <2>8. \A i \in 1 .. newCap : i <= m.len => i \in 1 .. Len(m.data)
    BY <1>0, <2>2
  <2>9. \A i \in 1 .. m.len : i \in 1 .. newCap /\ i <= m.len
    BY <1>0, <1>3, <2>2
  <2> QED BY <1>3, <2>2, <2>5, <2>6, <2>7, <2>8, <2>9 DEF Sound
<1> QED BY <1>1, <1>2, <1>3

\* The price of an access is a number.
LEMMA ExpansionCostType ==
    ASSUME NEW m, Sound(m), NEW off \in Nat, NEW size \in Nat
    PROVE  ExpansionCost(m, off, size) \in Nat
<1>1. PICK g : g = memoryGas(WordsFor(off + size))
  OBVIOUS
<1>2. g \in Nat
  <2>1. off + size \in Nat
    OBVIOUS
  <2>2. WordsFor(off + size) \in Nat
    BY <2>1, WordsForType
  <2> QED BY <1>1, <2>2, MemoryGasType
<1>3. m.lastGas \in Nat
  BY DEF Sound, MemoryType
<1> QED BY <1>1, <1>2, <1>3 DEF ExpansionCost

\* An access that is paid for leaves a memory that is paid for, with what was in it.
LEMMA Expanded ==
    ASSUME NEW m, Sound(m), NEW off \in 0 .. (U64 - 1), NEW size \in 0 .. (U64 - 1),
           ~ Overflows(off, size)
    PROVE  /\ Sound(Expand(m, off, size))
           /\ \A h : \A p \in Nat : Recorded(m, h, p) => Recorded(Expand(m, off, size), h, p + ExpansionCost(m, off, size))
<1>0. off \in Nat /\ size \in Nat /\ off + size \in Nat
  BY Constants
<1>1. CASE size = 0
  <2>1. Expand(m, off, size) = m /\ ExpansionCost(m, off, size) = 0
    BY <1>1 DEF Expand, ExpansionCost
  <2>2. \A p \in Nat : p + 0 = p
    OBVIOUS
  <2> QED BY <2>1, <2>2
<1>2. CASE size # 0
  <2>1. PICK n : n = WordsFor(off + size)
    OBVIOUS
  <2>2. n \in Nat /\ n * WordBytes \in 0 .. (U64 - 1) /\ (n * WordBytes) \div WordBytes = n
    BY <1>0, <2>1, WordsForType
  <2>3. PICK need, g : need = n * WordBytes /\ g = memoryGas(n)
    OBVIOUS
  <2>4. need \in 0 .. (U64 - 1) /\ need \div WordBytes = n /\ g \in Nat
    BY <2>2, <2>3, MemoryGasType
  <2>5. PICK m1 : m1 = [m EXCEPT !.lastGas = g]
    OBVIOUS
  <2>6. Sound(m1) /\ m1.lastGas = g /\ m1.len = m.len /\ m1.data = m.data
    <3>1. m \in MemoryType /\ m.len <= Len(m.data)
      BY DEF Sound
    <3>2. m1 \in MemoryType
      BY <2>4, <2>5, <3>1 DEF MemoryType
    <3>3. m1.lastGas = g /\ m1.len = m.len /\ m1.data = m.data
      BY <2>5, <3>1 DEF MemoryType
    <3> QED BY <3>1, <3>2, <3>3 DEF Sound
  <2>7. PICK r : r = Resize(m1, need)
    OBVIOUS
  <2>8. Expand(m, off, size) = r
    BY <1>2, <2>1, <2>3, <2>5, <2>7 DEF Expand
  <2>9. /\ Sound(r) /\ r.lastGas = g
        /\ r.len = IF need <= m.len \/ NegativeInt(need) THEN m.len ELSE need
        /\ \A i \in 1 .. m.len : r.data[i] = m.data[i]
        /\ \A i \in 1 .. Len(r.data) :
              r.data[i] = 0 \/ (i \in 1 .. Len(m.data) /\ r.data[i] = m.data[i])
    <3>1. /\ Sound(r) /\ r.lastGas = m1.lastGas
          /\ r.len = IF need <= m1.len \/ NegativeInt(need) THEN m1.len ELSE need
          /\ \A i \in 1 .. m1.len : r.data[i] = m1.data[i]
          /\ \A i \in 1 .. Len(r.data) :
                r.data[i] = 0 \/ (i \in 1 .. Len(m1.data) /\ r.data[i] = m1.data[i])
      BY <2>4, <2>6, <2>7, ResizeIs
    <3> QED BY <2>6, <3>1
  <2>10. PICK cost : cost = ExpansionCost(m, off, size)
    OBVIOUS
  <2>11. cost \in Nat /\ cost >= g - m.lastGas /\ m.lastGas \in Nat
    <3>1. m.lastGas \in Nat
      BY DEF Sound, MemoryType
    <3>2. cost = IF g < m.lastGas THEN 0 ELSE g - m.lastGas
      BY <1>2, <2>1, <2>3, <2>10 DEF ExpansionCost
    <3> QED BY <2>4, <3>1, <3>2
  <2>12. ASSUME NEW h, NEW p \in Nat, Recorded(m, h, p)
         PROVE  Recorded(r, h, p + cost)
    <3>0. m.len \in Nat /\ r.len \in Nat /\ need \in Nat /\ r.len >= m.len /\ m.len <= Len(m.data)
      BY <2>4, <2>9, Constants DEF Sound, MemoryType
    <3>1. ASSUME NEW i \in DOMAIN h.written
          PROVE  i < r.len /\ r.data[i + 1] = h.written[i]
      <4>1. i < m.len /\ m.data[i + 1] = h.written[i] /\ i \in Nat
        BY <2>12 DEF Recorded
      <4>2. i + 1 \in 1 .. m.len /\ i < r.len
        BY <3>0, <4>1
      <4> QED BY <2>9, <4>1, <4>2
    <3>2. ~ h.reused /\ ~ h.wild =>
            \A i \in 1 .. Len(r.data) : i - 1 \notin DOMAIN h.written => r.data[i] = 0
      BY <2>9, <2>12 DEF Recorded
    <3>3. p + cost >= r.lastGas
      <4>1. p >= m.lastGas
        BY <2>12 DEF Recorded
      <4> QED BY <2>4, <2>9, <2>11, <4>1
    <3>4. p + cost >= memoryGas(r.len \div WordBytes)
      <4>1. CASE need <= m.len \/ NegativeInt(need)
        <5>1. r.len = m.len
          BY <2>9, <4>1
        <5>2. p >= memoryGas(m.len \div WordBytes)
          BY <2>12 DEF Recorded
        <5>3. PICK x : x = memoryGas(m.len \div WordBytes)
          OBVIOUS
        <5>4. x \in Nat
          <6>1. WordBytes \in Nat \ {0}
            BY Sizes
          <6>2. m.len \div WordBytes \in Nat
            BY <3>0, <6>1, DivNat
          <6> QED BY <5>3, <6>2, MemoryGasType
        <5> QED BY <2>11, <5>1, <5>2, <5>3, <5>4
      <4>2. CASE ~ (need <= m.len \/ NegativeInt(need))
        <5>1. memoryGas(r.len \div WordBytes) = g
          BY <2>3, <2>4, <2>9, <4>2
        <5> QED BY <2>9, <3>3, <5>1
      <4> QED BY <4>1, <4>2
    <3>5. DOMAIN h.written \subseteq Nat
      BY <2>12 DEF Recorded
    <3> QED BY <3>1, <3>2, <3>3, <3>4, <3>5 DEF Recorded
  <2> QED BY <2>8, <2>9, <2>10, <2>12
<1> QED BY <1>1, <1>2

\* The history after bytes were written to the memory m: see Note.
Noted(h, m, offset, bytes, cost) ==
    LET range == offset .. (offset + Len(bytes) - 1)
        new   == range \cap (0 .. (m.len - 1))
    IN  [h EXCEPT
            !.written = [i \in DOMAIN @ \cup new |-> IF i \in new THEN bytes[i - offset + 1] ELSE @[i]],
            !.paid = @ + cost,
            !.wild = @ \/ new # range]

\* Note records that.
LEMMA NoteIs ==
    ASSUME NEW m, NEW offset, NEW bytes, NEW cost, Note(m, offset, bytes, cost)
    PROVE  hist' = Noted(hist, m, offset, bytes, cost)
BY DEF Note, Noted

IsNoted(n, h, m, offset, bytes, cost) ==
    LET new == (offset .. (offset + Len(bytes) - 1)) \cap (0 .. (m.len - 1))
    IN  /\ History(n)
        /\ n.paid = h.paid + cost /\ n.reused = h.reused /\ n.moved = h.moved
        /\ ~ n.wild => ~ h.wild /\ new = offset .. (offset + Len(bytes) - 1)
        /\ DOMAIN n.written = DOMAIN h.written \cup new
        /\ \A i \in DOMAIN n.written :
              n.written[i] = IF i \in new THEN bytes[i - offset + 1] ELSE h.written[i]

\* What a note adds to a history.
LEMMA NotedType ==
    ASSUME NEW h, History(h), NEW m, Sound(m), NEW offset \in Nat, NEW bytes \in Seq(Byte), NEW cost \in Nat
    PROVE  IsNoted(Noted(h, m, offset, bytes, cost), h, m, offset, bytes, cost)
<1> DEFINE range == offset .. (offset + Len(bytes) - 1)
<1> DEFINE new == range \cap (0 .. (m.len - 1))
<1> DEFINE D == DOMAIN h.written \cup new
<1> DEFINE w == [i \in D |-> IF i \in new THEN bytes[i - offset + 1] ELSE h.written[i]]
<1> DEFINE n == Noted(h, m, offset, bytes, cost)
<1>1. D \subseteq Nat /\ w \in [D -> Byte]
  <2>1. DOMAIN h.written \subseteq Nat /\ \A i \in DOMAIN h.written : h.written[i] \in Byte
    BY DEF History
  <2>2. m.len \in Int /\ Len(bytes) \in Nat
    BY Constants DEF Sound, MemoryType
  <2>3. \A i \in new : i \in Nat /\ i - offset + 1 \in 1 .. Len(bytes)
    BY <2>2
  <2>4. \A i \in new : bytes[i - offset + 1] \in Byte
    BY <2>3
  <2> HIDE DEF new
  <2> QED BY <2>1, <2>3, <2>4
<1>2. n = [h EXCEPT !.written = w, !.paid = @ + cost, !.wild = @ \/ new # range]
  BY DEF Noted
<1>3. h \in [written : [DOMAIN h.written -> Byte], paid : Nat, reused : BOOLEAN, wild : BOOLEAN, moved : BOOLEAN]
  BY DEF History
<1>4. h.paid + cost \in Nat
  BY <1>3
<1>5. PICK W, x : W = w /\ x = (new # range)
  OBVIOUS
<1>6. n = [h EXCEPT !.written = W, !.paid = @ + cost, !.wild = @ \/ x]
  BY <1>2, <1>5
<1>7. /\ n.written = W /\ n.paid = h.paid + cost /\ n.reused = h.reused /\ n.moved = h.moved
      /\ n.wild = (h.wild \/ x)
  <2> HIDE DEF n, new, range, D, w
  <2> QED BY <1>3, <1>6
<1>8. n \in [written : {W}, paid : Nat, reused : BOOLEAN, wild : BOOLEAN, moved : BOOLEAN]
  <2> HIDE DEF n, new, range, D, w
  <2>1. (h.wild \/ x) \in BOOLEAN
    OBVIOUS
  <2> QED BY <1>3, <1>4, <1>6, <2>1
<1>9. DOMAIN W = D /\ W \in [D -> Byte] /\ \A i \in D : W[i] = IF i \in new THEN bytes[i - offset + 1] ELSE h.written[i]
  BY <1>1, <1>5
<1>10. History(n)
  <2>1. n.written = W /\ DOMAIN W = D /\ W \in [D -> Byte] /\ D \subseteq Nat
    BY <1>1, <1>7, <1>9
  <2> HIDE DEF n, new, range, D, w
  <2> QED BY <1>8, <2>1 DEF History
<1> HIDE DEF n
<1>11. DOMAIN n.written = D
  BY <1>7, <1>9
<1>12. \A i \in DOMAIN n.written : n.written[i] = IF i \in new THEN bytes[i - offset + 1] ELSE h.written[i]
  <2> HIDE DEF new, D
  <2> QED BY <1>7, <1>9
<1>13. ~ n.wild => ~ h.wild /\ new = range
  BY <1>5, <1>7
<1>14. IsNoted(n, h, m, offset, bytes, cost)
  BY <1>7, <1>10, <1>11, <1>12, <1>13 DEF IsNoted
<1> QED BY <1>14 DEF n

\* Nothing is written.
LEMMA NothingNoted ==
    ASSUME NEW h, History(h), NEW m, Sound(m), NEW offset \in Nat, NEW cost \in Nat, NEW p \in Nat,
           Recorded(m, h, p), p = h.paid + cost
    PROVE  LET n == Noted(h, m, offset, << >>, cost)
           IN  History(n) /\ n.moved = h.moved /\ Recorded(m, n, n.paid)
<1> DEFINE n == Noted(h, m, offset, << >>, cost)
<1> DEFINE range == offset .. (offset + Len(<< >>) - 1)
<1> DEFINE new == range \cap (0 .. (m.len - 1))
<1>1. << >> \in Seq(Byte) /\ range = {} /\ new = {}
  <2>1. Len(<< >>) = 0 /\ << >> \in Seq(Byte)
    OBVIOUS
  <2>2. offset .. (offset + 0 - 1) = {}
    OBVIOUS
  <2> QED BY <2>1, <2>2
<1>2. /\ History(n) /\ n.paid = h.paid + cost /\ n.reused = h.reused /\ n.moved = h.moved
      /\ ~ n.wild => ~ h.wild /\ new = range
      /\ DOMAIN n.written = DOMAIN h.written \cup new
      /\ \A i \in DOMAIN n.written :
            n.written[i] = IF i \in new THEN << >>[i - offset + 1] ELSE h.written[i]
  <2>1. IsNoted(n, h, m, offset, << >>, cost)
    BY <1>1, NotedType
  <2> HIDE DEF n
  <2> QED BY <2>1 DEF IsNoted
<1> HIDE DEF n, new, range
<1>3. ~ n.wild => ~ h.wild
  BY <1>2
<1>4. /\ DOMAIN n.written = DOMAIN h.written
      /\ \A i \in DOMAIN h.written : n.written[i] = h.written[i]
  BY <1>1, <1>2
<1>5. Recorded(m, n, n.paid)
  BY <1>2, <1>3, <1>4 DEF Recorded
<1> QED BY <1>2, <1>5 DEF n

\* Bytes are written within the capacity of the memory.
LEMMA SetSound ==
    ASSUME NEW m, Sound(m), NEW offset \in Nat, NEW bytes \in Seq(Byte)
    PROVE  /\ Sound(Set(m, offset, bytes))
           /\ Set(m, offset, bytes).len = m.len /\ Set(m, offset, bytes).lastGas = m.lastGas
           /\ Len(Set(m, offset, bytes).data) = Len(m.data)
           /\ \A i \in 1 .. Len(m.data) :
                 Set(m, offset, bytes).data[i] =
                    IF i \in (offset + 1) .. (offset + Len(bytes)) THEN bytes[i - offset] ELSE m.data[i]
<1>1. m \in MemoryType /\ m.data \in Seq(Byte) /\ m.len <= Len(m.data) /\ m.len \in Nat
  BY Constants DEF Sound, MemoryType
<1>2. Len(m.data) \in Nat /\ DOMAIN m.data = 1 .. Len(m.data) /\ \A i \in 1 .. Len(m.data) : m.data[i] \in Byte
  BY <1>1
<1> DEFINE d == [i \in DOMAIN m.data |->
        IF i \in (offset + 1) .. (offset + Len(bytes)) THEN bytes[i - offset] ELSE m.data[i]]
<1>3. Set(m, offset, bytes) = [m EXCEPT !.data = d]
  BY DEF Set
<1>4. \A i \in 1 .. Len(m.data) : i \in (offset + 1) .. (offset + Len(bytes)) => bytes[i - offset] \in Byte
  <2>1. Len(bytes) \in Nat
    OBVIOUS
  <2>2. \A i \in 1 .. Len(m.data) : i \in (offset + 1) .. (offset + Len(bytes)) => i - offset \in 1 .. Len(bytes)
    BY <1>2, <2>1
  <2> QED BY <2>2
<1>5. d \in Seq(Byte) /\ Len(d) = Len(m.data)
      /\ \A i \in 1 .. Len(m.data) :
            d[i] = IF i \in (offset + 1) .. (offset + Len(bytes)) THEN bytes[i - offset] ELSE m.data[i]
  BY <1>2, <1>4
<1> HIDE DEF d
<1>6. Set(m, offset, bytes) \in MemoryType
  BY <1>1, <1>3, <1>5 DEF MemoryType
<1>7. /\ Set(m, offset, bytes).len = m.len /\ Set(m, offset, bytes).lastGas = m.lastGas
      /\ Set(m, offset, bytes).data = d
  BY <1>1, <1>3 DEF MemoryType
<1> QED BY <1>1, <1>5, <1>6, <1>7 DEF Sound

\* What is written within the memory is what is noted; what is written outside of it
\* is noted as wild.
LEMMA SetNoted ==
    ASSUME NEW h, History(h), NEW m, Sound(m), NEW offset \in Nat, NEW bytes \in Seq(Byte),
           NEW cost \in Nat, NEW p \in Nat, Recorded(m, h, p), p = h.paid + cost
    PROVE  LET n == Noted(h, m, offset, bytes, cost)
           IN  History(n) /\ n.moved = h.moved /\ Recorded(Set(m, offset, bytes), n, n.paid)
<1> DEFINE n == Noted(h, m, offset, bytes, cost)
<1> DEFINE range == offset .. (offset + Len(bytes) - 1)
<1> DEFINE new == range \cap (0 .. (m.len - 1))
<1>0. Len(bytes) \in Nat /\ Len(m.data) \in Nat /\ m.len \in Nat /\ m.len <= Len(m.data)
  <2>1. m.data \in Seq(Byte) /\ m.len <= Len(m.data) /\ m.len \in Nat
    BY Constants DEF Sound, MemoryType
  <2> QED BY <2>1
<1>1. /\ History(n) /\ n.paid = h.paid + cost /\ n.reused = h.reused /\ n.moved = h.moved
      /\ ~ n.wild => ~ h.wild /\ new = range
      /\ DOMAIN n.written = DOMAIN h.written \cup new
      /\ \A i \in DOMAIN n.written :
            n.written[i] = IF i \in new THEN bytes[i - offset + 1] ELSE h.written[i]
  <2>1. IsNoted(n, h, m, offset, bytes, cost)
    BY NotedType
  <2> HIDE DEF n
  <2> QED BY <2>1 DEF IsNoted
<1>2. PICK s : s = Set(m, offset, bytes)
  OBVIOUS
<1>3. /\ Sound(s) /\ s.len = m.len /\ s.lastGas = m.lastGas /\ Len(s.data) = Len(m.data)
      /\ \A i \in 1 .. Len(m.data) :
            s.data[i] = IF i \in (offset + 1) .. (offset + Len(bytes)) THEN bytes[i - offset] ELSE m.data[i]
  <2>1. /\ Sound(Set(m, offset, bytes))
        /\ Set(m, offset, bytes).len = m.len /\ Set(m, offset, bytes).lastGas = m.lastGas
        /\ Len(Set(m, offset, bytes).data) = Len(m.data)
        /\ \A i \in 1 .. Len(m.data) :
              Set(m, offset, bytes).data[i] =
                 IF i \in (offset + 1) .. (offset + Len(bytes)) THEN bytes[i - offset] ELSE m.data[i]
    BY ONLY Sound(m), offset \in Nat, bytes \in Seq(Byte), SetSound
  <2> QED BY ONLY <1>2, <2>1
<1> HIDE DEF n
<1>4. DOMAIN n.written \subseteq Nat
  BY <1>1 DEF History
<1>5. ASSUME NEW i \in DOMAIN n.written
      PROVE  i < s.len /\ s.data[i + 1] = n.written[i]
  <2>1. i \in Nat
    BY <1>4
  <2>2. CASE i \in new
    <3>0. i \in offset .. (offset + Len(bytes) - 1) /\ i \in 0 .. (m.len - 1)
      BY <2>2
    <3>1. i < m.len /\ i + 1 \in 1 .. Len(m.data) /\ i + 1 \in (offset + 1) .. (offset + Len(bytes))
          /\ (i + 1) - offset = i - offset + 1
      <4>1. PICK k, l : k = Len(bytes) /\ l = m.len
        OBVIOUS
      <4>2. PICK c : c = Len(m.data)
        OBVIOUS
      <4>3. k \in Nat /\ l \in Nat /\ c \in Nat /\ l <= c /\ i \in offset .. (offset + k - 1) /\ i \in 0 .. (l - 1)
        BY <1>0, <3>0, <4>1, <4>2
      <4>4. i < l /\ i + 1 \in 1 .. c /\ i + 1 \in (offset + 1) .. (offset + k) /\ (i + 1) - offset = i - offset + 1
        BY SMTT(60), <2>1, <4>3
      <4> QED BY <4>1, <4>2, <4>4
    <3> HIDE DEF new, range
    <3>2. s.data[i + 1] = bytes[(i + 1) - offset]
      BY <1>3, <3>1
    <3>3. n.written[i] = bytes[i - offset + 1]
      BY <1>1, <2>2
    <3> QED BY <1>3, <3>1, <3>2, <3>3
  <2>3. CASE i \notin new
    <3>1. i \in DOMAIN h.written /\ n.written[i] = h.written[i]
      <4> HIDE DEF new, range
      <4> QED BY <1>1, <2>3
    <3>2. i < m.len /\ m.data[i + 1] = h.written[i]
      BY <3>1 DEF Recorded
    <3>3. i + 1 \in 1 .. Len(m.data) /\ ~ (i + 1 \in (offset + 1) .. (offset + Len(bytes)))
      BY <1>0, <2>1, <2>3, <3>2
    <3>4. s.data[i + 1] = m.data[i + 1]
      BY <1>3, <3>3
    <3> QED BY <1>3, <3>1, <3>2, <3>4
  <2> QED BY <2>2, <2>3
<1>6. ASSUME ~ n.reused, ~ n.wild, NEW i \in 1 .. Len(s.data), i - 1 \notin DOMAIN n.written
      PROVE  s.data[i] = 0
  <2>1. ~ h.reused /\ ~ h.wild /\ new = range
    <3> HIDE DEF new, range
    <3> QED BY <1>1, <1>6
  <2>2. i - 1 \notin DOMAIN h.written /\ i - 1 \notin range
    <3> HIDE DEF new, range
    <3> QED BY <1>1, <1>6, <2>1
  <2>3. i \in 1 .. Len(m.data)
    BY <1>3
  <2>4. m.data[i] = 0
    BY <2>1, <2>2, <2>3 DEF Recorded
  <2>5. ~ (i \in (offset + 1) .. (offset + Len(bytes)))
    BY <1>0, <2>2, <2>3
  <2>6. s.data[i] = m.data[i]
    BY <1>3, <2>3, <2>5
  <2> QED BY <2>4, <2>6
<1>7. n.paid >= s.lastGas /\ n.paid >= memoryGas(s.len \div WordBytes)
  BY <1>1, <1>3 DEF Recorded
<1>8. Recorded(s, n, n.paid)
  <2> HIDE DEF new, range
  <2>1. ~ n.reused /\ ~ n.wild =>
            \A i \in 1 .. Len(s.data) : i - 1 \notin DOMAIN n.written => s.data[i] = 0
    BY <1>6
  <2> QED BY <1>4, <1>5, <1>7, <2>1 DEF Recorded
<1> QED BY <1>1, <1>2, <1>8 DEF n

-----------------------------------------------------------------------------
(***************************************************************************)
(* Code.                                                                   *)
(***************************************************************************)
\* PUSH has up to two bytes of data, and no other opcode has any.
LEMMA PushSizeType ==
    /\ \A o : PushSize(o) \in 0 .. 2 /\ (o \notin PushOps => PushSize(o) = 0)
    /\ PushSize("PUSH1") = 1 /\ PushSize("PUSH2") = 2
<1>1. ASSUME NEW o
      PROVE  PushSize(o) \in {0, 1, 2} /\ (o \notin PushOps => PushSize(o) = 0)
  BY DEF PushSize, PushOps
<1>2. {0, 1, 2} \subseteq 0 .. 2
  OBVIOUS
<1>3. PushSize("PUSH1") = 1 /\ PushSize("PUSH2") = 2
  BY DEF PushSize
<1> QED BY <1>1, <1>2, <1>3

ScanState == [i : Nat, dests : SUBSET Nat]

ScanNext(code, n, s) ==
    IF s.i # n - 1 THEN s
    ELSE [i |-> n + PushSize(Decode(code[n])),
          dests |-> IF Decode(code[n]) = "JUMPDEST" THEN s.dests \cup {n - 1} ELSE s.dests]

ScanStep(code) == [p \in (1 .. Len(code)) \X ScanState |-> ScanNext(code, p[1], p[2])]

\* The loop goes from byte to byte.
LEMMA ScanIs ==
    ASSUME NEW code, Len(code) \in Nat
    PROVE  /\ Scan(code) \in [0 .. Len(code) -> ScanState]
           /\ Scan(code)[0] = [i |-> 0, dests |-> {}]
           /\ \A n \in 1 .. Len(code) : Scan(code)[n] = ScanNext(code, n, Scan(code)[n - 1])
<1> DEFINE N == Len(code)
<1> DEFINE s0 == [i |-> 0, dests |-> {}]
<1> DEFINE scan[n \in 0 .. N] ==
            IF n = 0 THEN s0
            ELSE LET s == scan[n - 1]
                     o == Decode(code[n])
                 IN  IF s.i # n - 1 THEN s
                     ELSE [i |-> n + PushSize(o),
                           dests |-> IF o = "JUMPDEST" THEN s.dests \cup {n - 1} ELSE s.dests]
<1>1. N \in Nat
  OBVIOUS
<1>2. Scan(code) = scan
  BY DEF Scan
<1>3. \A n \in 1 .. N, x \in ScanState : ScanNext(code, n, x) \in ScanState
  <2>1. ASSUME NEW n \in 1 .. N, NEW x \in ScanState
        PROVE  ScanNext(code, n, x) \in ScanState
    <3>1. n + PushSize(Decode(code[n])) \in Nat /\ n - 1 \in Nat /\ x.dests \in SUBSET Nat
      BY PushSizeType DEF ScanState
    <3> QED BY <3>1 DEF ScanNext, ScanState
  <2> QED BY <2>1
<1>4. /\ ScanStep(code) \in [(1 .. N) \X ScanState -> ScanState]
      /\ \A n \in 1 .. N, x \in ScanState : ScanStep(code)[<<n, x>>] = ScanNext(code, n, x)
  BY <1>3 DEF ScanStep
<1>5. s0 \in ScanState
  BY DEF ScanState
<1> HIDE DEF N, s0
<1>6. PICK g \in [0 .. N -> ScanState] : Recursive(g, N, s0, ScanStep(code))
  BY <1>1, <1>4, <1>5, RecursionExists
<1>7. g[0] = s0 /\ \A n \in 1 .. N : g[n] = ScanNext(code, n, g[n - 1])
  <2>1. g[0] = s0 /\ \A n \in 1 .. N : g[n] = ScanStep(code)[<<n, g[n - 1]>>]
    BY <1>6 DEF Recursive
  <2>2. ASSUME NEW n \in 1 .. N
        PROVE  g[n] = ScanNext(code, n, g[n - 1])
    <3>1. n - 1 \in 0 .. N
      BY <1>1
    <3>2. g[n - 1] \in ScanState
      BY <1>6, <3>1
    <3> QED BY <1>4, <2>1, <3>2
  <2> QED BY <2>1, <2>2
<1>8. g = [n \in 0 .. N |-> IF n = 0 THEN s0 ELSE ScanNext(code, n, g[n - 1])]
  <2>1. ASSUME NEW n \in 0 .. N
        PROVE  g[n] = IF n = 0 THEN s0 ELSE ScanNext(code, n, g[n - 1])
    <3>1. n = 0 \/ n \in 1 .. N
      BY <1>1
    <3> QED BY <1>7, <3>1
  <2> QED BY <1>6, <2>1
<1>9. scan = [n \in 0 .. N |-> IF n = 0 THEN s0 ELSE ScanNext(code, n, scan[n - 1])]
  <2>1. scan = CHOOSE h : h = [n \in 0 .. N |-> IF n = 0 THEN s0 ELSE ScanNext(code, n, h[n - 1])]
    BY DEF ScanNext
  <2>2. \E h : h = [n \in 0 .. N |-> IF n = 0 THEN s0 ELSE ScanNext(code, n, h[n - 1])]
    BY <1>8, Zenon
  <2> HIDE DEF scan
  <2> QED BY <2>1, <2>2, Zenon
<1> HIDE DEF scan
<1>10. scan[0] = s0 /\ \A n \in 1 .. N : scan[n] = ScanNext(code, n, scan[n - 1])
  <2>1. 0 \in 0 .. N /\ \A n \in 1 .. N : n \in 0 .. N /\ n # 0
    BY <1>1
  <2> QED BY <1>9, <2>1
<1> DEFINE T == {n \in 0 .. N : scan[n] = g[n]}
<1>a. 0 \in T
  BY <1>1, <1>7, <1>10
<1>b. ASSUME NEW n \in 0 .. N, n \in T, n < N
      PROVE  n + 1 \in T
  <2>1. n + 1 \in 0 .. N /\ n + 1 \in 1 .. N /\ (n + 1) - 1 = n
    BY <1>1, <1>b
  <2>2. scan[n + 1] = ScanNext(code, n + 1, scan[n]) /\ g[n + 1] = ScanNext(code, n + 1, g[n])
    BY <1>7, <1>10, <2>1
  <2> QED BY <1>b, <2>1, <2>2
<1> HIDE DEF T
<1>c. \A n \in 0 .. N : n \in T
  BY <1>1, <1>a, <1>b, CountingUp
<1>d. \A n \in 0 .. N : scan[n] \in ScanState
  BY <1>6, <1>c DEF T
<1>e. scan \in [0 .. N -> ScanState]
  BY <1>9, <1>d
<1> QED BY <1>2, <1>10, <1>e DEF N, s0

DataNext(code, n, before) == IF before > 0 THEN before - 1 ELSE PushSize(Decode(code[n]))

DataStep(code) == [p \in (1 .. Len(code)) \X (0 .. 2) |-> DataNext(code, p[1], p[2])]

\* DataLeft counts from byte to byte.
LEMMA DataLeftIs ==
    ASSUME NEW code, Len(code) \in Nat
    PROVE  /\ DataLeft(code) \in [0 .. Len(code) -> 0 .. 2]
           /\ DataLeft(code)[0] = 0
           /\ \A n \in 1 .. Len(code) : DataLeft(code)[n] = DataNext(code, n, DataLeft(code)[n - 1])
<1> DEFINE N == Len(code)
<1> DEFINE S == 0 .. 2
<1> DEFINE rest[i \in 0 .. N] ==
            IF i = 0 THEN 0
            ELSE LET before == rest[i - 1]
                 IN  IF before > 0 THEN before - 1 ELSE PushSize(Decode(code[i]))
<1>1. N \in Nat
  OBVIOUS
<1>2. DataLeft(code) = rest
  BY DEF DataLeft
<1>3. \A n \in 1 .. N, x \in S : DataNext(code, n, x) \in S
  <2>1. ASSUME NEW n \in 1 .. N, NEW x \in S
        PROVE  DataNext(code, n, x) \in S
    <3>1. PICK o : o = PushSize(Decode(code[n]))
      OBVIOUS
    <3>2. o \in 0 .. 2
      BY <3>1, PushSizeType
    <3> QED BY <3>1, <3>2 DEF DataNext
  <2> QED BY <2>1
<1>4. /\ DataStep(code) \in [(1 .. N) \X S -> S]
      /\ \A n \in 1 .. N, x \in S : DataStep(code)[<<n, x>>] = DataNext(code, n, x)
  <2>1. DataStep(code) = [p \in (1 .. N) \X S |-> DataNext(code, p[1], p[2])]
    BY DEF DataStep
  <2> HIDE DEF N, S
  <2> QED BY <1>3, <2>1
<1>5. 0 \in S
  OBVIOUS
<1> HIDE DEF N, S
<1>6. PICK g \in [0 .. N -> S] : Recursive(g, N, 0, DataStep(code))
  BY <1>1, <1>4, <1>5, RecursionExists
<1>7. g[0] = 0 /\ \A n \in 1 .. N : g[n] = DataNext(code, n, g[n - 1])
  <2>1. g[0] = 0 /\ \A n \in 1 .. N : g[n] = DataStep(code)[<<n, g[n - 1]>>]
    BY <1>6 DEF Recursive
  <2>2. ASSUME NEW n \in 1 .. N
        PROVE  g[n] = DataNext(code, n, g[n - 1])
    <3>1. n - 1 \in 0 .. N
      BY <1>1
    <3>2. g[n - 1] \in S
      BY <1>6, <3>1
    <3> QED BY <1>4, <2>1, <3>2
  <2> QED BY <2>1, <2>2
<1>8. g = [n \in 0 .. N |-> IF n = 0 THEN 0 ELSE DataNext(code, n, g[n - 1])]
  <2>1. ASSUME NEW n \in 0 .. N
        PROVE  g[n] = IF n = 0 THEN 0 ELSE DataNext(code, n, g[n - 1])
    <3>1. n = 0 \/ n \in 1 .. N
      BY <1>1
    <3> QED BY <1>7, <3>1
  <2> QED BY <1>6, <2>1
<1>9. rest = [n \in 0 .. N |-> IF n = 0 THEN 0 ELSE DataNext(code, n, rest[n - 1])]
  <2>1. rest = CHOOSE h : h = [n \in 0 .. N |-> IF n = 0 THEN 0 ELSE DataNext(code, n, h[n - 1])]
    BY DEF DataNext
  <2>2. \E h : h = [n \in 0 .. N |-> IF n = 0 THEN 0 ELSE DataNext(code, n, h[n - 1])]
    BY <1>8, Zenon
  <2> HIDE DEF rest
  <2> QED BY <2>1, <2>2, Zenon
<1> HIDE DEF rest
<1>10. rest[0] = 0 /\ \A n \in 1 .. N : rest[n] = DataNext(code, n, rest[n - 1])
  <2>1. 0 \in 0 .. N /\ \A n \in 1 .. N : n \in 0 .. N /\ n # 0
    BY <1>1
  <2> QED BY <1>9, <2>1
<1> DEFINE T == {n \in 0 .. N : rest[n] = g[n]}
<1>a. 0 \in T
  BY <1>1, <1>7, <1>10
<1>b. ASSUME NEW n \in 0 .. N, n \in T, n < N
      PROVE  n + 1 \in T
  <2>1. n + 1 \in 0 .. N /\ n + 1 \in 1 .. N /\ (n + 1) - 1 = n
    BY <1>1, <1>b
  <2>2. rest[n + 1] = DataNext(code, n + 1, rest[n]) /\ g[n + 1] = DataNext(code, n + 1, g[n])
    BY <1>7, <1>10, <2>1
  <2> QED BY <1>b, <2>1, <2>2
<1> HIDE DEF T
<1>c. \A n \in 0 .. N : n \in T
  BY <1>1, <1>a, <1>b, CountingUp
<1>d. \A n \in 0 .. N : rest[n] \in S
  BY <1>6, <1>c DEF T
<1>e. rest \in [0 .. N -> S]
  BY <1>9, <1>d
<1> QED BY <1>2, <1>10, <1>e DEF N, S

\* pc is the beginning of an instruction, or the end of the code.
Lands(code, pc) == pc >= Len(code) \/ DataLeft(code)[pc] = 0

\* Jump destinations are beginnings of instructions.
LEMMA JumpdestsLand ==
    ASSUME NEW code \in Seq(Byte)
    PROVE  /\ buildJumpdests(code) \subseteq 0 .. (Len(code) - 1)
           /\ \A d \in buildJumpdests(code) : Lands(code, d)
<1> DEFINE N == Len(code)
<1>1. N \in Nat
  OBVIOUS
<1>2. PICK s : s = Scan(code)
  OBVIOUS
<1>3. PICK left0 : left0 = DataLeft(code)
  OBVIOUS
<1>4. /\ s \in [0 .. N -> ScanState] /\ s[0] = [i |-> 0, dests |-> {}]
      /\ \A n \in 1 .. N : s[n] = ScanNext(code, n, s[n - 1])
  BY <1>1, <1>2, ScanIs
<1>5. /\ left0 \in [0 .. N -> 0 .. 2] /\ left0[0] = 0
      /\ \A n \in 1 .. N : left0[n] = DataNext(code, n, left0[n - 1])
  BY <1>1, <1>3, DataLeftIs
<1> HIDE DEF N
<1> DEFINE Good(n) == s[n].i = n + left0[n] /\ \A d \in s[n].dests : d \in 0 .. (n - 1) /\ left0[d] = 0
<1> DEFINE T == {n \in 0 .. N : Good(n)}
<1>6. 0 \in T
  <2>1. s[0].i = 0 /\ s[0].dests = {} /\ 0 + left0[0] = 0 /\ 0 \in 0 .. N
    BY <1>1, <1>4, <1>5
  <2> QED BY <2>1
<1>7. ASSUME NEW n \in 0 .. N, n \in T, n < N
      PROVE  n + 1 \in T
  <2>1. n + 1 \in 0 .. N /\ n + 1 \in 1 .. N /\ (n + 1) - 1 = n /\ n \in Nat
    BY <1>1, <1>7
  <2>2. s[n + 1] = ScanNext(code, n + 1, s[n]) /\ left0[n + 1] = DataNext(code, n + 1, left0[n])
    BY <1>4, <1>5, <2>1
  <2>3. PICK x, y, z, o : x = s[n] /\ y = left0[n] /\ z = s[n + 1] /\ o = Decode(code[n + 1])
    OBVIOUS
  <2>4. y \in 0 .. 2 /\ x.i = n + y /\ \A d \in x.dests : d \in 0 .. (n - 1) /\ left0[d] = 0
    BY <1>5, <1>7, <2>3
  <2>5. PICK k : k = PushSize(o)
    OBVIOUS
  <2>6. k \in 0 .. 2
    BY <2>5, PushSizeType
  <2>7. CASE y > 0
    <3>1. z = x /\ left0[n + 1] = y - 1
      BY <2>1, <2>2, <2>3, <2>4, <2>7 DEF ScanNext, DataNext
    <3>2. x.i = (n + 1) + (y - 1) /\ \A d \in x.dests : d \in 0 .. ((n + 1) - 1) /\ left0[d] = 0
      BY <2>1, <2>4
    <3> QED BY <2>1, <2>3, <3>1, <3>2
  <2>8. CASE ~ (y > 0)
    <3>1. y = 0 /\ x.i = n
      BY <2>1, <2>4, <2>8
    <3>2. z = [i |-> n + 1 + k, dests |-> IF o = "JUMPDEST" THEN x.dests \cup {n} ELSE x.dests]
      BY <2>1, <2>2, <2>3, <2>5, <3>1 DEF ScanNext
    <3>3. left0[n + 1] = k
      BY <2>2, <2>3, <2>5, <2>8 DEF DataNext
    <3>4. z.i = (n + 1) + k /\ z.dests \subseteq x.dests \cup {n}
      BY <3>2
    <3>5. \A d \in z.dests : d \in 0 .. ((n + 1) - 1) /\ left0[d] = 0
      <4>1. ASSUME NEW d \in z.dests
            PROVE  d \in 0 .. ((n + 1) - 1) /\ left0[d] = 0
        <5>1. CASE d = n
          <6>1. n \in 0 .. ((n + 1) - 1)
            BY <2>1
          <6> QED BY <2>3, <3>1, <5>1, <6>1
        <5>2. CASE d \in x.dests
          BY <2>1, <2>4, <5>2
        <5> QED BY <3>4, <5>1, <5>2
      <4> QED BY <4>1
    <3> QED BY <2>1, <2>3, <3>3, <3>4, <3>5
  <2> QED BY <2>7, <2>8
<1>8. \A n \in 0 .. N : n \in T
  <2> HIDE DEF T
  <2> QED BY <1>1, <1>6, <1>7, CountingUp
<1>9. N \in 0 .. N
  BY <1>1
<1>10. Good(N)
  BY <1>8, <1>9
<1>11. buildJumpdests(code) = s[N].dests
  BY <1>2 DEF buildJumpdests, N
<1> QED BY <1>3, <1>10, <1>11 DEF N, Lands

\* After an instruction comes an instruction.
LEMMA NextLands ==
    ASSUME NEW code \in Seq(Byte), NEW n \in Nat, n < Len(code), Lands(code, n)
    PROVE  Lands(code, n + 1 + PushSize(Decode(code[n + 1])))
<1> DEFINE N == Len(code)
<1>1. N \in Nat
  OBVIOUS
<1>2. PICK left0 : left0 = DataLeft(code)
  OBVIOUS
<1>3. /\ left0 \in [0 .. N -> 0 .. 2] /\ left0[0] = 0
      /\ \A k \in 1 .. N : left0[k] = DataNext(code, k, left0[k - 1])
  BY <1>1, <1>2, DataLeftIs
<1>4. PICK k : k = PushSize(Decode(code[n + 1]))
  OBVIOUS
<1>5. k \in 0 .. 2
  BY <1>4, PushSizeType
<1>6. n < N /\ left0[n] = 0
  BY <1>1, <1>2 DEF Lands
<1>7. SUFFICES ASSUME n + 1 + k < N
               PROVE  left0[n + 1 + k] = 0
  <2>1. n + 1 + k \in Nat
    BY <1>5
  <2> QED BY <1>1, <1>2, <1>4, <2>1 DEF Lands
<1> HIDE DEF N
<1>8. left0[n + 1] = k
  <2>1. n + 1 \in 1 .. N /\ (n + 1) - 1 = n
    BY <1>1, <1>6
  <2> QED BY <1>3, <1>4, <1>6, <2>1 DEF DataNext
<1>9. CASE k = 0
  <2>1. n + 1 + 0 = n + 1
    OBVIOUS
  <2> QED BY <1>8, <1>9, <2>1
<1>10. CASE k = 1
  <2>1. n + 1 + 1 \in 1 .. N /\ (n + 1 + 1) - 1 = n + 1
    BY <1>1, <1>7, <1>10
  <2>2. left0[n + 1 + 1] = DataNext(code, n + 1 + 1, 1)
    BY <1>3, <1>8, <1>10, <2>1
  <2> QED BY <1>10, <2>2 DEF DataNext
<1>11. CASE k = 2
  <2>1. n + 1 + 1 \in 1 .. N /\ (n + 1 + 1) - 1 = n + 1 /\ n + 1 + 2 \in 1 .. N /\ (n + 1 + 2) - 1 = n + 1 + 1
    BY <1>1, <1>7, <1>11
  <2>2. left0[n + 1 + 1] = DataNext(code, n + 1 + 1, 2)
    BY <1>3, <1>8, <1>11, <2>1
  <2>3. left0[n + 1 + 1] = 1
    BY <2>2 DEF DataNext
  <2>4. left0[n + 1 + 2] = DataNext(code, n + 1 + 2, 1)
    BY <1>3, <2>1, <2>3
  <2> QED BY <1>11, <2>4 DEF DataNext
<1>12. k \in {0, 1, 2}
  BY <1>5
<1> QED BY <1>9, <1>10, <1>11, <1>12

-----------------------------------------------------------------------------
(***************************************************************************)
(* The inductive invariant.  The cache holds the jump destinations of code *)
(* that has been at the address, and a frame has those of its own code     *)
(* unless other code of the same length has been there.                    *)
(***************************************************************************)
CacheOK ==
    \A k \in DOMAIN cache :
        \/ k = <<Nil, 0>> /\ cache[k] = {}
        \/ \E p \in Ptr : \E c \in heap[p] :
              c # << >> /\ k = <<p, Len(c)>> /\ cache[k] = buildJumpdests(c)

JumpsOK == f # Idle /\ ~ hist.moved => f.jumpdests = buildJumpdests(f.code)

MemoryOK == Running => Recorded(f.mem, hist, hist.paid)

Inv == TypeOK /\ CacheOK /\ JumpsOK /\ MemoryOK /\ ExecutesInstructions

\* What is known of a running frame.
IsFrame ==
    /\ f \in Frame /\ f # Idle /\ f.err = "running"
    /\ f.code \in Seq(Byte) /\ Len(f.code) \in 0 .. (U64 - 1) /\ f.code \in GoBytes
    /\ f.pc \in Nat /\ f.gas \in 0 .. (U64 - 1) /\ f.gas \in Nat
    /\ f.stack \in Seq(Word) /\ Depth \in Nat /\ Depth <= MaxDepth
    /\ Sound(f.mem) /\ f.ret \in GoBytes
    /\ f.jumpdests \subseteq 0 .. (Len(f.code) - 1)
    /\ History(hist) /\ hist.paid \in Nat /\ Recorded(f.mem, hist, hist.paid)
    /\ ~ hist.moved => Lands(f.code, f.pc) /\ f.jumpdests = buildJumpdests(f.code)

\* The invariant says so.
LEMMA FrameType ==
    ASSUME Inv, Running
    PROVE  IsFrame
<1>1. f.err = "running" /\ f # Idle
  BY DEF Running, Idle
<1>2. f \in Frame
  BY <1>1 DEF Inv, TypeOK
<1>3. /\ f.code \in GoBytes /\ f.pc \in Nat /\ f.gas \in 0 .. (U64 - 1) /\ f.stack \in Seq(Word)
      /\ f.mem \in MemoryType /\ f.ret \in GoBytes
  BY <1>2 DEF Frame
<1>4. f.gas \in Nat /\ Depth \in Nat
  BY <1>3, Constants DEF Depth
<1>5. f.code \in Seq(Byte) /\ Len(f.code) \in 0 .. (U64 - 1)
  <2>1. f.code \in Seq(Byte) /\ Len(f.code) < U64
    BY <1>3 DEF GoBytes
  <2>2. Len(f.code) \in Nat
    BY <2>1
  <2> QED BY <2>1, <2>2, Constants
<1>6. Depth <= MaxDepth /\ Sound(f.mem) /\ f.jumpdests \subseteq 0 .. (Len(f.code) - 1)
  BY <1>1, <1>3 DEF Inv, TypeOK, Sound
<1>7. History(hist)
  BY DEF Inv, TypeOK, History
<1>8. hist.paid \in Nat
  BY <1>7 DEF History
<1>9. Recorded(f.mem, hist, hist.paid)
  BY DEF Inv, MemoryOK
<1>10. ~ hist.moved => Lands(f.code, f.pc) /\ f.jumpdests = buildJumpdests(f.code)
  BY <1>1 DEF Inv, JumpsOK, ExecutesInstructions, Lands
<1> QED BY <1>1, <1>2, <1>3, <1>4, <1>5, <1>6, <1>7, <1>8, <1>9, <1>10 DEF IsFrame

\* A step of the frame's life, or one that leaves gas and outcome alone.
LifeStep == Life!Next \/ UNCHANGED <<f.gas, f.err>>

\* The frame goes on with this state.
GoesWith(pc, gas, stack, mem) ==
    /\ f' \in Frame
    /\ f'.pc = pc /\ f'.gas = gas /\ f'.stack = stack /\ f'.mem = mem
    /\ f'.code = f.code /\ f'.jumpdests = f.jumpdests /\ f'.err = "running"
    /\ UNCHANGED <<pooled, cache, heap, work>>

\* hist' is a history of the memory m.
HistoryOf(m) == History(hist') /\ hist'.moved = hist.moved /\ Recorded(m, hist', hist'.paid)

\* The cache does not change with the frame.
LEMMA OthersStay ==
    ASSUME Inv, UNCHANGED <<pooled, cache, heap, work>>
    PROVE  /\ (pooled \in MemoryType \cup {Nil})' /\ (cache \in [DOMAIN cache -> SUBSET Nat])'
           /\ (heap \in [Ptr -> SUBSET GoBytes])' /\ (work \in Seq(Slice))' /\ CacheOK'
BY DEF Inv, TypeOK, CacheOK

\* A frame that goes on.
LEMMA GoesOn ==
    ASSUME Inv, IsFrame, NEW pc \in Nat, NEW gas \in 0 .. f.gas, NEW stack \in Seq(Word),
           Len(stack) <= MaxDepth, NEW mem, Sound(mem),
           GoesWith(pc, gas, stack, mem), HistoryOf(mem),
           ~ hist.moved => Lands(f.code, pc)
    PROVE  Inv' /\ LifeStep
<1>1. f \in Frame /\ gas \in 0 .. (U64 - 1) /\ mem \in MemoryType /\ f.err = "running"
  BY Constants DEF IsFrame, Sound
<1>2. f' \in Frame
  BY DEF GoesWith
<1>3. /\ f'.pc = pc /\ f'.gas = gas /\ f'.stack = stack /\ f'.mem = mem /\ f'.code = f.code
      /\ f'.jumpdests = f.jumpdests /\ f'.err = "running"
  BY DEF GoesWith
<1>4. /\ (pooled \in MemoryType \cup {Nil})' /\ (cache \in [DOMAIN cache -> SUBSET Nat])'
      /\ (heap \in [Ptr -> SUBSET GoBytes])' /\ (work \in Seq(Slice))' /\ CacheOK'
  BY OthersStay DEF GoesWith
<1>5. Depth' <= MaxDepth /\ f'.mem.len <= Len(f'.mem.data) /\ f'.jumpdests \subseteq 0 .. (Len(f'.code) - 1)
  BY <1>3 DEF IsFrame, Depth, Sound
<1>6. TypeOK'
  BY <1>2, <1>4, <1>5 DEF TypeOK, HistoryOf, History
<1>7. JumpsOK'
  BY <1>3 DEF JumpsOK, IsFrame, HistoryOf
<1>8. MemoryOK'
  BY <1>3 DEF MemoryOK, HistoryOf
<1>9. ExecutesInstructions'
  BY <1>3 DEF ExecutesInstructions, HistoryOf, Lands
<1>10. LifeStep
  BY <1>1, <1>3 DEF LifeStep, Life!Next, Life!Burn
<1> QED BY <1>4, <1>6, <1>7, <1>8, <1>9, <1>10 DEF Inv

\* A frame that ends.
LEMMA EndsNow ==
    ASSUME Inv, IsFrame, NEW err \in {"none", "revert", "fail", "panic"},
           NEW gas \in 0 .. f.gas, err = "fail" => gas = 0,
           NEW mem, Sound(mem), Ends(err, gas, mem), UNCHANGED hist
    PROVE  Inv' /\ LifeStep
<1>1. f \in Frame /\ gas \in 0 .. (U64 - 1) /\ mem \in MemoryType /\ f.err = "running"
  BY Constants DEF IsFrame, Sound
<1>2. f' \in Frame
  BY <1>1 DEF Ends, Frame
<1>3. /\ f'.gas = gas /\ f'.stack = f.stack /\ f'.mem = mem /\ f'.code = f.code
      /\ f'.jumpdests = f.jumpdests /\ f'.err = err
  BY <1>1 DEF Ends, Frame
<1>4. /\ (pooled \in MemoryType \cup {Nil})' /\ (cache \in [DOMAIN cache -> SUBSET Nat])'
      /\ (heap \in [Ptr -> SUBSET GoBytes])' /\ (work \in Seq(Slice))' /\ CacheOK'
  BY OthersStay DEF Ends
<1>5. Depth' <= MaxDepth /\ f'.mem.len <= Len(f'.mem.data) /\ f'.jumpdests \subseteq 0 .. (Len(f'.code) - 1)
  BY <1>3 DEF IsFrame, Depth, Sound
<1>6. TypeOK'
  BY <1>2, <1>4, <1>5 DEF TypeOK, IsFrame, History
<1>7. JumpsOK'
  BY <1>3 DEF JumpsOK, IsFrame
<1>8. ~ Running'
  BY <1>3 DEF Running
<1>9. LifeStep
  <2>1. CASE err = "fail"
    BY <1>1, <1>3, <2>1 DEF LifeStep, Life!Next, Life!Fail
  <2>2. CASE err = "panic"
    BY <1>1, <1>3, <2>2 DEF LifeStep, Life!Next, Life!Crash
  <2>3. CASE err \in {"none", "revert"}
    BY <1>1, <1>3, <2>3 DEF LifeStep, Life!Next, Life!Return
  <2> QED BY <2>1, <2>2, <2>3
<1> QED BY <1>4, <1>6, <1>7, <1>8, <1>9 DEF Inv, MemoryOK, ExecutesInstructions

\* Run goes on with the next opcode.
LEMMA GoesAhead ==
    ASSUME Inv, IsFrame, NEW pc \in Nat, NEW gas \in 0 .. f.gas, NEW stack \in Seq(Word),
           Len(stack) <= MaxDepth, NEW mem, Sound(mem),
           Goes(pc, gas, stack, mem), HistoryOf(mem),
           ~ hist.moved => Lands(f.code, pc)
    PROVE  Inv' /\ LifeStep
<1>1. f \in Frame /\ gas \in 0 .. (U64 - 1) /\ mem \in MemoryType /\ f.err = "running"
  BY Constants DEF IsFrame, Sound
<1>2. f' \in Frame
  BY <1>1 DEF Goes, Frame
<1>3. /\ f'.pc = pc /\ f'.gas = gas /\ f'.stack = stack /\ f'.mem = mem /\ f'.code = f.code
      /\ f'.jumpdests = f.jumpdests /\ f'.err = "running"
  BY <1>1 DEF Goes, Frame
<1>4. GoesWith(pc, gas, stack, mem)
  BY <1>2, <1>3 DEF GoesWith, Goes
<1> QED BY <1>4, GoesOn

\* A frame that fails.
LEMMA FailsNow ==
    ASSUME Inv, IsFrame, NEW mem, Sound(mem), Fails(mem), UNCHANGED hist
    PROVE  Inv' /\ LifeStep
<1>1. 0 \in 0 .. f.gas
  BY DEF IsFrame
<1>2. Ends("fail", 0, mem)
  BY DEF Fails
<1> QED BY <1>1, <1>2, EndsNow

\* The opcode after this one.
LEMMA NextOp ==
    ASSUME IsFrame, f.pc < Len(f.code)
    PROVE  /\ f.pc + 1 + PushSize(op) \in Nat /\ f.pc + 1 \in Nat /\ f.pc + 1 \in 1 .. Len(f.code)
           /\ ~ hist.moved => Lands(f.code, f.pc + 1 + PushSize(op))
           /\ op \notin PushOps => f.pc + 1 + PushSize(op) = f.pc + 1
<1>1. f.pc \in Nat /\ f.code \in Seq(Byte) /\ Len(f.code) \in Nat
  BY DEF IsFrame
<1>2. PICK k : k = PushSize(op)
  OBVIOUS
<1>3. k \in 0 .. 2 /\ (op \notin PushOps => k = 0)
  BY <1>2, PushSizeType
<1>4. ~ hist.moved => Lands(f.code, f.pc + 1 + PushSize(op))
  BY <1>1, NextLands DEF IsFrame, op
<1>5. f.pc + 1 + k \in Nat /\ f.pc + 1 \in Nat /\ f.pc + 1 \in 1 .. Len(f.code) /\ (k = 0 => f.pc + 1 + k = f.pc + 1)
  BY <1>1, <1>3
<1> QED BY <1>2, <1>3, <1>4, <1>5

\* An opcode that computes.
LEMMA ComputesNext ==
    ASSUME Inv, IsFrame, f.pc < Len(f.code), op \notin PushOps,
           NEW gas \in 0 .. f.gas, NEW stack \in Seq(Word), Len(stack) <= MaxDepth, Computes(gas, stack)
    PROVE  Inv' /\ LifeStep
<1>1. f.pc + 1 \in Nat /\ (~ hist.moved => Lands(f.code, f.pc + 1))
  BY NextOp
<1>2. Sound(f.mem) /\ HistoryOf(f.mem) /\ Goes(f.pc + 1, gas, stack, f.mem)
  BY DEF IsFrame, HistoryOf, Computes
<1> QED BY <1>1, <1>2, GoesAhead

\* Elements of the stack.
LEMMA StackType ==
    ASSUME IsFrame
    PROVE  /\ \A n \in Nat : n < Depth => Back(n) \in Word /\ Uint64(Back(n)) \in 0 .. (U64 - 1)
           /\ \A n \in Nat : n <= Depth => Below(n) \in Seq(Word) /\ Len(Below(n)) = Depth - n
<1>1. f.stack \in Seq(Word) /\ Depth \in Nat /\ Depth = Len(f.stack)
  BY DEF IsFrame, Depth
<1>2. ASSUME NEW n \in Nat, n < Depth
      PROVE  Back(n) \in Word /\ Uint64(Back(n)) \in 0 .. (U64 - 1)
  <2>1. Depth - n \in 1 .. Len(f.stack)
    BY <1>1, <1>2
  <2>2. Back(n) \in Word
    BY <1>1, <2>1 DEF Back
  <2>3. PICK w : w = Back(n)
    OBVIOUS
  <2>4. w \in Int
    <3>1. w \in Word
      BY <2>2, <2>3
    <3>2. w \in Nat
      BY <3>1, WordType
    <3> QED BY <3>2
  <2>5. w % U64 \in 0 .. (U64 - 1)
    BY <2>4, Wraps
  <2> QED BY <2>2, <2>3, <2>5 DEF Uint64
<1>3. ASSUME NEW n \in Nat, n <= Depth
      PROVE  Below(n) \in Seq(Word) /\ Len(Below(n)) = Depth - n
  <2>1. Depth - n \in 0 .. Len(f.stack)
    BY <1>1, <1>3
  <2>2. PICK k : k = Depth - n
    OBVIOUS
  <2>3. SubSeq(f.stack, 1, k) \in Seq(Word) /\ Len(SubSeq(f.stack, 1, k)) = k
    BY <1>1, <2>1, <2>2
  <2> QED BY <2>2, <2>3 DEF Below
<1> QED BY <1>2, <1>3

\* A stack with one more element.
LEMMA AppendType ==
    ASSUME NEW s \in Seq(Word), NEW w \in Word
    PROVE  Append(s, w) \in Seq(Word) /\ Len(Append(s, w)) = Len(s) + 1 /\ Len(s) \in Nat
OBVIOUS

\* The stack after an opcode that replaces n elements by one.
LEMMA Replaces ==
    ASSUME IsFrame, NEW n \in Nat, n >= 1, n <= Depth, NEW w \in Word
    PROVE  Append(Below(n), w) \in Seq(Word) /\ Len(Append(Below(n), w)) <= MaxDepth
<1>1. Below(n) \in Seq(Word) /\ Len(Below(n)) = Depth - n
  BY StackType
<1>2. Append(Below(n), w) \in Seq(Word) /\ Len(Append(Below(n), w)) = (Depth - n) + 1
  BY <1>1, AppendType
<1>3. Depth \in Nat /\ Depth <= MaxDepth /\ MaxDepth \in Nat
  BY Constants DEF IsFrame
<1>4. (Depth - n) + 1 <= MaxDepth
  BY <1>3
<1> QED BY <1>2, <1>4

\* The price of an opcode is a number.
LEMMA PriceType ==
    /\ Price \in Nat
    /\ (IsFrame /\ f.gas >= Price => left \in 0 .. f.gas)
<1> DEFINE S == {i \in 0 .. (WordBytes - 1) : Back(1) >= ByteMod ^ i}
<1>1. Cardinality(S) \in Nat
  <2>1. IsFiniteSet(0 .. (WordBytes - 1))
    <3>1. 0 \in Int /\ WordBytes - 1 \in Int
      BY Sizes
    <3> QED BY <3>1, FS_Interval
  <2>2. IsFiniteSet(S)
    BY <2>1, FS_Subset
  <2> QED BY <2>2, FS_CardinalityType
<1>2. PICK c : c = Exp0 + ExpByte * Cardinality(S)
  OBVIOUS
<1>3. c \in Nat
  <2> HIDE DEF S
  <2> QED BY <1>1, <1>2, Prices
<1>4. Price \in {2, 5, 8, 10, 1, 20, 0, 3, c}
  BY <1>2 DEF Price
<1>5. Price \in Nat
  BY <1>3, <1>4
<1>6. IsFrame /\ f.gas >= Price => left \in 0 .. f.gas
  BY <1>5 DEF left, IsFrame
<1> QED BY <1>5, <1>6

-----------------------------------------------------------------------------
(***************************************************************************)
(* The opcodes, one by one.                                                *)
(***************************************************************************)
\* An opcode that is paid for: what its guard says.
LEMMA PaidIs ==
    ASSUME Inv, NEW ops, Paid(ops)
    PROVE  /\ IsFrame /\ f.pc < Len(f.code) /\ op \in ops
           /\ Depth >= Peeked /\ Depth >= Popped /\ Depth >= ReadBack
           /\ f.gas >= Price /\ left \in 0 .. f.gas
<1>1. Running /\ f.pc < Len(f.code) /\ op \in ops /\ f.gas >= Price
      /\ Depth >= Peeked /\ Depth >= Popped /\ Depth >= ReadBack
  BY DEF Paid, At
<1>2. IsFrame
  BY <1>1, FrameType
<1> QED BY <1>1, <1>2, PriceType

\* The operands of the opcodes.
LEMMA Operands ==
    /\ op \in Unary \cup LoadOps \cup MemOps => ReadBack = 1 /\ op \notin PushOps
    /\ op \in Binary => ReadBack = 2 /\ op \notin PushOps
    /\ op \in Ternary => ReadBack = 3 /\ op \notin PushOps
    /\ op \in CopyOps => Peeked = 3 /\ op \notin PushOps
    /\ op \in LogOps \cup {"SHA3", "RETURN", "REVERT"} => Peeked = 2 /\ op \notin PushOps
    /\ op \in ExtOps \cup {"EXTCODECOPY"} => Peeked = 1 /\ op \notin PushOps
    /\ op \in {"POP", "JUMP"} => Popped = 1 /\ op \notin PushOps
    /\ op = "JUMPI" => Popped = 2 /\ op \notin PushOps
    /\ op = "CALL" => Popped = 7 /\ op \notin PushOps
    /\ op \in DupOps \cup SwapOps \cup {"JUMPDEST"} => op \notin PushOps
<1>1. op \in Unary \cup LoadOps \cup MemOps => ReadBack = 1 /\ op \notin PushOps
  BY DEF Unary, Binary, Ternary, LoadOps, MemOps, PushOps, ReadBack
<1>2. op \in Binary => ReadBack = 2 /\ op \notin PushOps
  BY DEF Unary, Binary, Ternary, LoadOps, MemOps, PushOps, ReadBack
<1>3. op \in Ternary => ReadBack = 3 /\ op \notin PushOps
  BY DEF Unary, Binary, Ternary, LoadOps, MemOps, PushOps, ReadBack
<1>4. op \in CopyOps => Peeked = 3 /\ op \notin PushOps
  BY DEF CopyOps, LogOps, ExtOps, PushOps, Peeked
<1>5. op \in LogOps \cup {"SHA3", "RETURN", "REVERT"} => Peeked = 2 /\ op \notin PushOps
  BY DEF CopyOps, LogOps, ExtOps, PushOps, Peeked
<1>6. op \in ExtOps \cup {"EXTCODECOPY"} => Peeked = 1 /\ op \notin PushOps
  BY DEF CopyOps, LogOps, ExtOps, PushOps, Peeked
<1>7. op \in {"POP", "JUMP"} => Popped = 1 /\ op \notin PushOps
  BY DEF Binary, Ternary, PushOps, Popped
<1>8. op = "JUMPI" => Popped = 2 /\ op \notin PushOps
  BY DEF Binary, Ternary, PushOps, Popped
<1>9. op = "CALL" => Popped = 7 /\ op \notin PushOps
  BY DEF Binary, Ternary, PushOps, Popped
<1>10. op \in DupOps \cup SwapOps \cup {"JUMPDEST"} => op \notin PushOps
  BY DEF DupOps, SwapOps, PushOps
<1> QED BY <1>1, <1>2, <1>3, <1>4, <1>5, <1>6, <1>7, <1>8, <1>9, <1>10

\* NOT, ISZERO.
LEMMA UnaryKeeps ==
    ASSUME Inv, OpUnary
    PROVE  Inv' /\ LifeStep
<1>1. Paid(Unary) /\ Computes(left, Append(Below(1), ofUnary(op, Back(0))))
  BY DEF OpUnary
<1>2. IsFrame /\ f.pc < Len(f.code) /\ op \in Unary /\ Depth >= ReadBack /\ left \in 0 .. f.gas
  BY <1>1, PaidIs
<1>3. op \notin PushOps /\ ReadBack = 1
  BY <1>2, Operands
<1>4. 1 <= Depth /\ Depth \in Nat /\ 0 < Depth
  BY <1>2, <1>3 DEF IsFrame
<1>5. PICK w : w = ofUnary(op, Back(0))
  OBVIOUS
<1>6. w \in Word
  BY <1>2, <1>4, <1>5, StackType, UnaryType
<1>7. Append(Below(1), w) \in Seq(Word) /\ Len(Append(Below(1), w)) <= MaxDepth
  BY <1>2, <1>4, <1>6, Replaces
<1> QED BY <1>1, <1>2, <1>3, <1>5, <1>7, ComputesNext

\* The binary opcodes.
LEMMA BinaryKeeps ==
    ASSUME Inv, OpBinary
    PROVE  Inv' /\ LifeStep
<1>1. Paid(Binary) /\ Computes(left, Append(Below(2), ofBinary(op, Back(0), Back(1))))
  BY DEF OpBinary
<1>2. IsFrame /\ f.pc < Len(f.code) /\ op \in Binary /\ Depth >= ReadBack /\ left \in 0 .. f.gas
  BY <1>1, PaidIs
<1>3. op \notin PushOps /\ ReadBack = 2
  BY <1>2, Operands
<1>4. 2 <= Depth /\ Depth \in Nat /\ 0 < Depth /\ 1 < Depth
  BY <1>2, <1>3 DEF IsFrame
<1>5. PICK w : w = ofBinary(op, Back(0), Back(1))
  OBVIOUS
<1>6. w \in Word
  BY <1>2, <1>4, <1>5, StackType, BinaryType
<1>7. Append(Below(2), w) \in Seq(Word) /\ Len(Append(Below(2), w)) <= MaxDepth
  BY <1>2, <1>4, <1>6, Replaces
<1> QED BY <1>1, <1>2, <1>3, <1>5, <1>7, ComputesNext

\* ADDMOD, MULMOD.
LEMMA TernaryKeeps ==
    ASSUME Inv, OpTernary
    PROVE  Inv' /\ LifeStep
<1>1. Paid(Ternary) /\ Computes(left, Append(Below(3), ofTernary(op, Back(0), Back(1), Back(2))))
  BY DEF OpTernary
<1>2. IsFrame /\ f.pc < Len(f.code) /\ op \in Ternary /\ Depth >= ReadBack /\ left \in 0 .. f.gas
  BY <1>1, PaidIs
<1>3. op \notin PushOps /\ ReadBack = 3
  BY <1>2, Operands
<1>4. 3 <= Depth /\ Depth \in Nat /\ 0 < Depth /\ 1 < Depth /\ 2 < Depth
  BY <1>2, <1>3 DEF IsFrame
<1>5. PICK w : w = ofTernary(op, Back(0), Back(1), Back(2))
  OBVIOUS
<1>6. w \in Word
  BY <1>2, <1>4, <1>5, StackType, TernaryType
<1>7. Append(Below(3), w) \in Seq(Word) /\ Len(Append(Below(3), w)) <= MaxDepth
  BY <1>2, <1>4, <1>6, Replaces
<1> QED BY <1>1, <1>2, <1>3, <1>5, <1>7, ComputesNext

\* Bytes of the call data, padded with zeros.
LEMMA LoadedType ==
    ASSUME NEW off \in Nat
    PROVE  Loaded(off) \in Word
<1> DEFINE s == [i \in 1 .. WordBytes |-> IF off + i <= Len(Input) THEN Input[off + i] ELSE 0]
<1>1. Input \in Seq(Byte)
  BY MachineAssumption DEF GoBytes
<1>2. Len(Input) \in Nat /\ WordBytes \in Nat /\ 0 \in Byte
  BY <1>1, Sizes, Moduli DEF Byte
<1>3. \A i \in 1 .. WordBytes : off + i <= Len(Input) => off + i \in 1 .. Len(Input)
  BY <1>2
<1>4. \A i \in 1 .. WordBytes : (IF off + i <= Len(Input) THEN Input[off + i] ELSE 0) \in Byte
  BY <1>1, <1>2, <1>3
<1>5. s \in Seq(Byte) /\ Len(s) = WordBytes
  BY <1>2, <1>4
<1> HIDE DEF s
<1>6. SetBytes(s) \in Word
  <2>1. Len(s) <= WordBytes
    BY <1>2, <1>5
  <2> QED BY <1>5, <2>1, SetBytesWord
<1> QED BY <1>6 DEF Loaded, s

\* CALLDATALOAD, BLOCKHASH.
LEMMA LoadKeeps ==
    ASSUME Inv, OpLoad
    PROVE  Inv' /\ LifeStep
<1>1. Paid(LoadOps) /\ Computes(left, Append(Below(1), IF op = "BLOCKHASH" THEN 0 ELSE Loaded(Uint64(Back(0)))))
  BY DEF OpLoad
<1>2. IsFrame /\ f.pc < Len(f.code) /\ op \in LoadOps /\ Depth >= ReadBack /\ left \in 0 .. f.gas
  BY <1>1, PaidIs
<1>3. op \notin PushOps /\ ReadBack = 1
  BY <1>2, Operands
<1>4. 1 <= Depth /\ Depth \in Nat /\ 0 < Depth
  BY <1>2, <1>3 DEF IsFrame
<1>5. PICK w : w = IF op = "BLOCKHASH" THEN 0 ELSE Loaded(Uint64(Back(0)))
  OBVIOUS
<1>6. w \in Word
  <2>1. Uint64(Back(0)) \in 0 .. (U64 - 1)
    BY <1>2, <1>4, StackType
  <2>2. Uint64(Back(0)) \in Nat
    BY <2>1, Constants
  <2> QED BY <1>5, <2>2, LoadedType, WordType
<1>7. Append(Below(1), w) \in Seq(Word) /\ Len(Append(Below(1), w)) <= MaxDepth
  BY <1>2, <1>4, <1>6, Replaces
<1> QED BY <1>1, <1>2, <1>3, <1>5, <1>7, ComputesNext

\* What is pushed is a word.
LEMMA PushedType ==
    ASSUME IsFrame, f.pc < Len(f.code), op \in EnvOps \cup SizeOps \cup PushOps, left \in 0 .. f.gas
    PROVE  Pushed \in Word
<1>1. 0 .. (U64 - 1) \subseteq Word /\ U64 \in Nat /\ WordBytes \in Nat /\ WordBytes >= 2
  BY Constants
<1>2. ASSUME NEW s \in GoBytes
      PROVE  Len(s) \in Word
  <2>1. s \in Seq(Byte) /\ Len(s) < U64
    BY DEF GoBytes
  <2>2. Len(s) \in Nat
    BY <2>1
  <2>3. Len(s) \in 0 .. (U64 - 1)
    BY <1>1, <2>1, <2>2
  <2> QED BY <1>1, <2>3
<1>3. CASE op = "PC"
  <2>1. f.pc \in 0 .. (U64 - 1)
    BY <1>1 DEF IsFrame
  <2> QED BY <1>1, <1>3, <2>1 DEF Pushed, PushOps
<1>4. CASE op = "GAS"
  <2>1. left \in 0 .. (U64 - 1)
    BY <1>1 DEF IsFrame
  <2> QED BY <1>1, <1>4, <2>1 DEF Pushed, PushOps
<1>5. CASE op = "MSIZE"
  <2>1. f.mem.len \in 0 .. (U64 - 1)
    BY DEF IsFrame, Sound, MemoryType
  <2> QED BY <1>1, <1>5, <2>1 DEF Pushed, PushOps
<1>6. CASE op \in {"CODESIZE", "CALLDATASIZE", "RETURNDATASIZE"}
  <2>1. f.code \in GoBytes /\ f.ret \in GoBytes /\ Input \in GoBytes
    BY MachineAssumption DEF IsFrame
  <2>2. Len(f.code) \in Word /\ Len(f.ret) \in Word /\ Len(Input) \in Word
    BY <1>2, <2>1
  <2> QED BY <1>6, <2>2 DEF Pushed, PushOps
<1>7. CASE op \in PushOps
  <2>1. PICK a, b, k : a = f.pc + 1 + PushSize(op) /\ b = Len(f.code) /\ k = PushSize(op)
    OBVIOUS
  <2>2. f.pc \in Nat /\ k \in 0 .. 2 /\ a \in Int /\ b \in Int /\ b \in Nat /\ a = f.pc + 1 + k /\ f.pc < b
    BY <2>1, PushSizeType DEF IsFrame
  <2>3. PICK e : e = Min({a, b})
    OBVIOUS
  <2>4. e = IF a <= b THEN a ELSE b
    BY <2>2, <2>3, OfTwo
  <2>5. PICK x : x = f.pc + 2
    OBVIOUS
  <2>6. e \in Int /\ x \in Int /\ x >= 1 /\ e <= b /\ e - x + 1 <= 2
    <3>1. PICK n : n = f.pc
      OBVIOUS
    <3>2. n \in Nat /\ a = n + 1 + k /\ x = n + 2
      BY <2>2, <2>5, <3>1
    <3>3. e \in Int /\ e <= a /\ e <= b
      BY <2>2, <2>4
    <3>4. k \in 0 .. 2
      BY <2>2
    <3>5. x \in Int /\ x >= 1
      BY <3>2
    <3>6. a - x + 1 <= 2
      BY <3>2, <3>4
    <3>7. a \in Int
      BY <2>2
    <3> QED BY <3>3, <3>5, <3>6, <3>7
  <2>7. PICK s : s = SubSeq(f.code, x, e)
    OBVIOUS
  <2>11. s \in Seq(Byte) /\ Len(s) <= 2
    <3>1. f.code \in Seq(Byte) /\ b = Len(f.code)
      BY <2>1 DEF IsFrame
    <3>2. \A i \in x .. e : i \in 1 .. Len(f.code)
      BY <2>2, <2>6, <3>1
    <3>3. \A i \in x .. e : f.code[i] \in Byte
      BY <3>1, <3>2
    <3>4. s \in Seq(Byte) /\ Len(s) = IF x <= e THEN e - x + 1 ELSE 0
      BY <2>6, <2>7, <3>3, SubSeqProperties
    <3> QED BY <2>6, <3>4
  <2>8. Len(s) <= WordBytes
    <3>1. Len(s) \in Nat
      BY <2>11
    <3> QED BY <1>1, <2>11, <3>1
  <2>9. SetBytes(s) \in Word
    BY <2>8, <2>11, SetBytesWord
  <2>10. Pushed = SetBytes(s)
    BY <1>7, <2>1, <2>3, <2>5, <2>7 DEF Pushed, PushOps
  <2> QED BY <2>9, <2>10
<1>8. CASE op \in EnvOps
  <2>1. Env(op) \in Word
    BY <1>8, MachineAssumption
  <2> QED BY <1>8, <2>1 DEF Pushed, EnvOps, PushOps
<1> QED BY <1>3, <1>4, <1>5, <1>6, <1>7, <1>8 DEF SizeOps

\* The opcodes that push.
LEMMA PushKeeps ==
    ASSUME Inv, OpPush
    PROVE  Inv' /\ LifeStep
<1>1. Paid(EnvOps \cup SizeOps \cup PushOps) /\ UNCHANGED hist
  BY DEF OpPush
<1>2. IsFrame /\ f.pc < Len(f.code) /\ op \in EnvOps \cup SizeOps \cup PushOps /\ left \in 0 .. f.gas
  BY <1>1, PaidIs
<1>3. Sound(f.mem) /\ HistoryOf(f.mem) /\ Depth \in Nat /\ MaxDepth \in Nat
  BY <1>1, <1>2, Constants DEF IsFrame, HistoryOf
<1>4. CASE Depth < MaxDepth /\ Goes(f.pc + 1 + PushSize(op), left, Append(f.stack, Pushed), f.mem)
  <2>1. Append(f.stack, Pushed) \in Seq(Word) /\ Len(Append(f.stack, Pushed)) = Len(f.stack) + 1
    BY <1>2, PushedType, AppendType DEF IsFrame
  <2>2. Len(Append(f.stack, Pushed)) <= MaxDepth
    BY <1>3, <1>4, <2>1 DEF Depth
  <2>3. f.pc + 1 + PushSize(op) \in Nat /\ (~ hist.moved => Lands(f.code, f.pc + 1 + PushSize(op)))
    BY <1>2, NextOp
  <2> QED BY <1>2, <1>3, <1>4, <2>1, <2>2, <2>3, GoesAhead
<1>5. CASE Fails(f.mem)
  BY <1>1, <1>2, <1>3, <1>5, FailsNow
<1> QED BY <1>4, <1>5 DEF OpPush

\* POP, JUMPDEST.
LEMMA PopKeeps ==
    ASSUME Inv, OpPop \/ OpJumpdest
    PROVE  Inv' /\ LifeStep
<1>1. CASE OpPop
  <2>1. Paid({"POP"}) /\ Computes(left, Below(1))
    BY <1>1 DEF OpPop
  <2>2. IsFrame /\ f.pc < Len(f.code) /\ op \in {"POP"} /\ Depth >= Popped /\ left \in 0 .. f.gas
    BY <2>1, PaidIs
  <2>3. op \notin PushOps /\ Popped = 1
    BY <2>2, Operands
  <2>4. 1 <= Depth /\ Depth \in Nat /\ Depth <= MaxDepth /\ MaxDepth \in Nat
    BY <2>2, <2>3, Constants DEF IsFrame
  <2>5. Below(1) \in Seq(Word) /\ Len(Below(1)) = Depth - 1
    BY <2>2, <2>4, StackType
  <2>6. Len(Below(1)) <= MaxDepth
    BY <2>4, <2>5
  <2> QED BY <2>1, <2>2, <2>3, <2>5, <2>6, ComputesNext
<1>2. CASE OpJumpdest
  <2>1. Paid({"JUMPDEST"}) /\ Computes(left, f.stack)
    BY <1>2 DEF OpJumpdest
  <2>2. IsFrame /\ f.pc < Len(f.code) /\ op \in {"JUMPDEST"} /\ left \in 0 .. f.gas
    BY <2>1, PaidIs
  <2>3. op \notin PushOps /\ f.stack \in Seq(Word) /\ Len(f.stack) <= MaxDepth
    BY <2>2, Operands DEF IsFrame, Depth
  <2> QED BY <2>1, <2>2, <2>3, ComputesNext
<1> QED BY <1>1, <1>2

\* DUP.
LEMMA DupKeeps ==
    ASSUME Inv, OpDup
    PROVE  Inv' /\ LifeStep
<1>1. Paid(DupOps)
  BY DEF OpDup
<1>2. IsFrame /\ f.pc < Len(f.code) /\ op \in DupOps /\ left \in 0 .. f.gas
  BY <1>1, PaidIs
<1>3. op \notin PushOps /\ Sound(f.mem) /\ Depth \in Nat /\ MaxDepth \in Nat /\ Nth \in {1, 2}
  BY <1>2, Operands, Constants DEF IsFrame, Nth
<1>4. CASE Depth >= Nth /\ Depth < MaxDepth /\ Computes(left, Append(f.stack, Back(Nth - 1)))
  <2>1. Nth - 1 \in Nat /\ Nth - 1 < Depth
    BY <1>3, <1>4
  <2>2. PICK w : w = Back(Nth - 1)
    OBVIOUS
  <2>3. w \in Word
    BY <1>2, <2>1, <2>2, StackType
  <2>4. Append(f.stack, w) \in Seq(Word) /\ Len(Append(f.stack, w)) = Len(f.stack) + 1
    BY <1>2, <2>3, AppendType DEF IsFrame
  <2>5. Len(Append(f.stack, w)) <= MaxDepth
    BY <1>3, <1>4, <2>4 DEF Depth
  <2> QED BY <1>2, <1>3, <1>4, <2>2, <2>4, <2>5, ComputesNext
<1>5. CASE Fails(f.mem) /\ UNCHANGED hist
  BY <1>2, <1>3, <1>5, FailsNow
<1> QED BY <1>4, <1>5 DEF OpDup

\* SWAP.
LEMMA SwapKeeps ==
    ASSUME Inv, OpSwap
    PROVE  Inv' /\ LifeStep
<1>1. Paid(SwapOps)
  BY DEF OpSwap
<1>2. IsFrame /\ f.pc < Len(f.code) /\ op \in SwapOps /\ left \in 0 .. f.gas
  BY <1>1, PaidIs
<1>3. op \notin PushOps /\ Sound(f.mem) /\ Depth \in Nat /\ MaxDepth \in Nat /\ Nth \in {1, 2}
  BY <1>2, Operands, Constants DEF IsFrame, Nth
<1>4. CASE Depth >= Nth + 1 /\ Computes(left, [f.stack EXCEPT ![Depth] = Back(Nth), ![Depth - Nth] = Back(0)])
  <2>1. Nth \in Nat /\ Nth < Depth /\ 0 < Depth
    BY <1>3, <1>4
  <2>2. PICK v, w : v = Back(Nth) /\ w = Back(0)
    OBVIOUS
  <2>3. v \in Word /\ w \in Word
    BY <1>2, <2>1, <2>2, StackType
  <2>4. PICK i, j : i = Depth /\ j = Depth - Nth
    OBVIOUS
  <2>5. PICK s : s = [f.stack EXCEPT ![i] = v, ![j] = w]
    OBVIOUS
  <2>6. f.stack \in Seq(Word) /\ Len(f.stack) <= MaxDepth
    BY <1>2 DEF IsFrame, Depth
  <2>7. s \in Seq(Word) /\ Len(s) = Len(f.stack)
    <3>1. i \in 1 .. Len(f.stack) /\ j \in 1 .. Len(f.stack)
      BY <2>1, <2>4 DEF Depth
    <3>2. PICK t : t = [f.stack EXCEPT ![i] = v]
      OBVIOUS
    <3>3. t \in Seq(Word) /\ Len(t) = Len(f.stack)
      BY <2>3, <2>6, <3>1, <3>2, ExceptSeq
    <3>4. s = [t EXCEPT ![j] = w]
      BY <2>5, <3>2
    <3> QED BY <2>3, <3>1, <3>3, <3>4, ExceptSeq
  <2>8. Computes(left, s)
    BY <1>4, <2>2, <2>4, <2>5
  <2>9. Len(s) <= MaxDepth
    BY <2>6, <2>7
  <2> QED BY <1>2, <1>3, <2>7, <2>8, <2>9, ComputesNext
<1>5. CASE Fails(f.mem) /\ UNCHANGED hist
  BY <1>2, <1>3, <1>5, FailsNow
<1> QED BY <1>4, <1>5 DEF OpSwap

\* JUMP, JUMPI.
LEMMA JumpKeeps ==
    ASSUME Inv, OpJump
    PROVE  Inv' /\ LifeStep
<1> DEFINE dest == Uint64(Back(0))
<1> DEFINE pops == IF op = "JUMP" THEN 1 ELSE 2
<1>1. Paid({"JUMP", "JUMPI"}) /\ UNCHANGED hist
  BY DEF OpJump
<1>2. IsFrame /\ f.pc < Len(f.code) /\ op \in {"JUMP", "JUMPI"} /\ Depth >= Popped /\ left \in 0 .. f.gas
  BY <1>1, PaidIs
<1>3. op \notin PushOps /\ Popped = pops
  BY <1>2, Operands
<1>4. Sound(f.mem) /\ HistoryOf(f.mem)
  BY <1>1, <1>2 DEF IsFrame, HistoryOf
<1>5. Below(pops) \in Seq(Word) /\ Len(Below(pops)) <= MaxDepth
  <2>1. pops \in Nat /\ pops <= Depth /\ Depth \in Nat /\ Depth <= MaxDepth /\ MaxDepth \in Nat
    BY <1>2, <1>3, Constants DEF IsFrame
  <2>2. PICK n : n = pops
    OBVIOUS
  <2>3. Below(n) \in Seq(Word) /\ Len(Below(n)) = Depth - n
    BY <1>2, <2>1, <2>2, StackType
  <2> QED BY <2>1, <2>2, <2>3
<1>6. CASE dest \in f.jumpdests /\ Goes(dest, left, Below(pops), f.mem)
  <2>1. dest \in Nat
    BY <1>2, <1>6 DEF IsFrame
  <2>2. ~ hist.moved => Lands(f.code, dest)
    BY <1>2, <1>6, JumpdestsLand DEF IsFrame
  <2> HIDE DEF dest, pops
  <2> QED BY <1>2, <1>4, <1>5, <1>6, <2>1, <2>2, GoesAhead
<1>7. CASE Fails(f.mem)
  BY <1>1, <1>2, <1>4, <1>7, FailsNow
<1>8. CASE Goes(f.pc + 1, left, Below(pops), f.mem)
  <2>1. f.pc + 1 \in Nat /\ (~ hist.moved => Lands(f.code, f.pc + 1))
    BY <1>2, <1>3, NextOp
  <2> HIDE DEF dest, pops
  <2> QED BY <1>2, <1>4, <1>5, <1>8, <2>1, GoesAhead
<1> QED BY <1>6, <1>7, <1>8 DEF OpJump

\* The balance, the size and the hash of the code of an account.
LEMMA ExtKeeps ==
    ASSUME Inv, OpExt
    PROVE  Inv' /\ LifeStep
<1>1. Paid(ExtOps)
  BY DEF OpExt
<1>2. IsFrame /\ f.pc < Len(f.code) /\ op \in ExtOps /\ Depth >= Peeked
  BY <1>1, PaidIs
<1>3. op \notin PushOps /\ Peeked = 1 /\ Sound(f.mem)
  BY <1>2, Operands DEF IsFrame
<1>4. 1 <= Depth /\ Depth \in Nat
  BY <1>2, <1>3 DEF IsFrame
<1>5. PICK cost \in AccessCosts :
          \/ f.gas < cost /\ Fails(f.mem) /\ UNCHANGED hist
          \/ f.gas >= cost /\ Computes(f.gas - cost, Append(Below(1), Env(op)))
  BY DEF OpExt
<1>6. CASE Fails(f.mem) /\ UNCHANGED hist
  BY <1>2, <1>3, <1>6, FailsNow
<1>7. CASE f.gas >= cost /\ Computes(f.gas - cost, Append(Below(1), Env(op)))
  <2>1. cost \in Nat /\ f.gas \in Nat
    BY <1>2, Prices DEF AccessCosts, IsFrame
  <2>2. f.gas - cost \in 0 .. f.gas
    BY <1>7, <2>1
  <2>3. PICK w : w = Env(op)
    OBVIOUS
  <2>4. w \in Word
    BY <1>2, <2>3, MachineAssumption
  <2>5. Append(Below(1), w) \in Seq(Word) /\ Len(Append(Below(1), w)) <= MaxDepth
    BY <1>2, <1>4, <2>4, Replaces
  <2> QED BY <1>2, <1>3, <1>7, <2>2, <2>3, <2>5, ComputesNext
<1> QED BY <1>5, <1>6, <1>7

\* Errors, panics, and the opcodes that only end the frame.
LEMMA PlainEndsKeep ==
    ASSUME Inv, OutOfGas \/ Underflow \/ Panic \/ OpStop \/ OpInvalid
    PROVE  Inv' /\ LifeStep
<1>1. IsFrame /\ UNCHANGED hist
  <2>1. Running /\ UNCHANGED hist
    BY DEF OutOfGas, Underflow, Panic, OpStop, OpInvalid, At
  <2> QED BY <2>1, FrameType
<1>2. Sound(f.mem) /\ f.gas \in 0 .. f.gas
  BY <1>1 DEF IsFrame
<1>3. Fails(f.mem) \/ Ends("panic", f.gas, f.mem) \/ Ends("none", f.gas, f.mem)
  BY DEF OutOfGas, Underflow, Panic, OpStop, OpInvalid
<1>4. CASE Fails(f.mem)
  BY <1>1, <1>2, <1>4, FailsNow
<1>5. CASE Ends("panic", f.gas, f.mem)
  BY <1>1, <1>2, <1>5, EndsNow
<1>6. CASE Ends("none", f.gas, f.mem)
  BY <1>1, <1>2, <1>6, EndsNow
<1> QED BY <1>3, <1>4, <1>5, <1>6

-----------------------------------------------------------------------------
(***************************************************************************)
(* The opcodes of the memory.                                              *)
(***************************************************************************)
\* An access that is paid for: the memory after it, what it costs, and what the
\* history says once it has noted the cost.
LEMMA AccessIs ==
    ASSUME IsFrame, NEW off \in 0 .. (U64 - 1), NEW size \in 0 .. (U64 - 1), NEW gas \in Nat,
           ~ ExpandFails(f.mem, off, size, gas)
    PROVE  /\ Sound(Expand(f.mem, off, size))
           /\ ExpansionCost(f.mem, off, size) \in 0 .. gas
           /\ Recorded(Expand(f.mem, off, size), hist, hist.paid + ExpansionCost(f.mem, off, size))
<1>1. Sound(f.mem) /\ hist.paid \in Nat /\ Recorded(f.mem, hist, hist.paid)
  BY DEF IsFrame
<1>2. ~ Overflows(off, size) /\ ~ (ExpansionCost(f.mem, off, size) > gas)
  BY DEF ExpandFails
<1>3. ExpansionCost(f.mem, off, size) \in Nat
  <2>1. off \in Nat /\ size \in Nat
    BY Constants
  <2> QED BY <1>1, <2>1, ExpansionCostType
<1>4. Sound(Expand(f.mem, off, size))
      /\ Recorded(Expand(f.mem, off, size), hist, hist.paid + ExpansionCost(f.mem, off, size))
  BY <1>1, <1>2, Expanded
<1> QED BY <1>2, <1>3, <1>4

\* The history of an access that writes nothing ...
LEMMA ReadHistory ==
    ASSUME IsFrame, NEW m, Sound(m), NEW off \in Nat, NEW cost \in Nat,
           Recorded(m, hist, hist.paid + cost), Note(m, off, << >>, cost)
    PROVE  HistoryOf(m)
<1>1. hist' = Noted(hist, m, off, << >>, cost)
  BY NoteIs
<1>2. History(hist) /\ hist.paid \in Nat
  BY DEF IsFrame
<1>3. PICK p : p = hist.paid + cost
  OBVIOUS
<1>4. p \in Nat
  BY <1>2, <1>3
<1>5. LET n == Noted(hist, m, off, << >>, cost)
      IN  History(n) /\ n.moved = hist.moved /\ Recorded(m, n, n.paid)
  BY <1>2, <1>3, <1>4, NothingNoted
<1> QED BY <1>1, <1>5 DEF HistoryOf

\* ... and of one that writes bytes.
LEMMA WriteHistory ==
    ASSUME IsFrame, NEW m, Sound(m), NEW off \in Nat, NEW bytes \in Seq(Byte), NEW cost \in Nat,
           Recorded(m, hist, hist.paid + cost), Note(m, off, bytes, cost)
    PROVE  Sound(Set(m, off, bytes)) /\ HistoryOf(Set(m, off, bytes))
<1>1. hist' = Noted(hist, m, off, bytes, cost)
  BY NoteIs
<1>2. History(hist) /\ hist.paid \in Nat
  BY DEF IsFrame
<1>3. PICK p : p = hist.paid + cost
  OBVIOUS
<1>4. p \in Nat
  BY <1>2, <1>3
<1>5. LET n == Noted(hist, m, off, bytes, cost)
      IN  History(n) /\ n.moved = hist.moved /\ Recorded(Set(m, off, bytes), n, n.paid)
  BY <1>2, <1>3, <1>4, SetNoted
<1>6. Sound(Set(m, off, bytes))
  BY SetSound
<1> QED BY <1>1, <1>5, <1>6 DEF HistoryOf

\* A slice of the memory.
LEMMA GetType ==
    ASSUME NEW m, Sound(m), NEW off \in 0 .. (U64 - 1), NEW size \in 1 .. (U64 - 1),
           off + size < U64, InSlice(m, off, size)
    PROVE  Get(m, off, size) \in Seq(Byte) /\ Len(Get(m, off, size)) = size
<1>1. m.data \in Seq(Byte) /\ U64 \in Nat
  BY Constants DEF Sound, MemoryType
<1>2. Len(m.data) \in Nat /\ off \in Nat /\ size \in Nat
  BY <1>1
<1>3. (off + size) % U64 = off + size
  <2>1. off + size \in Int /\ off + size \in 0 .. (U64 - 1)
    BY <1>1, <1>2
  <2>2. PICK x : x = off + size
    OBVIOUS
  <2>3. x % U64 = x
    BY <2>1, <2>2, Wraps
  <2> QED BY <2>2, <2>3
<1>4. off + size <= Len(m.data)
  BY <1>3 DEF InSlice
<1>5. PICK a, b : a = off + 1 /\ b = off + size
  OBVIOUS
<1>6. a \in Int /\ b \in Int /\ a >= 1 /\ b <= Len(m.data) /\ a <= b /\ b - a + 1 = size
  BY <1>2, <1>4, <1>5
<1>7. \A i \in a .. b : i \in 1 .. Len(m.data)
  BY <1>2, <1>6
<1>8. \A i \in a .. b : m.data[i] \in Byte
  BY <1>1, <1>7
<1>9. SubSeq(m.data, a, b) \in Seq(Byte) /\ Len(SubSeq(m.data, a, b)) = size
  BY <1>6, <1>8, SubSeqProperties
<1> QED BY <1>2, <1>5, <1>9 DEF Get

\* MLOAD, MSTORE, MSTORE8.
LEMMA MemoryKeeps ==
    ASSUME Inv, OpMemory
    PROVE  Inv' /\ LifeStep
<1> DEFINE off == Uint64(Back(0))
<1> DEFINE size == IF op = "MSTORE8" THEN 1 ELSE WordBytes
<1> DEFINE m == Expand(f.mem, off, size)
<1> DEFINE cost == ExpansionCost(f.mem, off, size)
<1> DEFINE bytes == IF op = "MSTORE8" THEN <<Back(1) % ByteMod>> ELSE Bytes32(Back(1))
<1>1. Paid(MemOps)
  BY DEF OpMemory
<1>2. IsFrame /\ f.pc < Len(f.code) /\ op \in MemOps /\ Depth >= ReadBack /\ left \in 0 .. f.gas
  BY <1>1, PaidIs
<1>3. op \notin PushOps /\ ReadBack = 1
  BY <1>2, Operands
<1>4. 1 <= Depth /\ Depth \in Nat /\ 0 < Depth /\ Sound(f.mem) /\ f.gas \in Nat /\ MaxDepth \in Nat /\ Depth <= MaxDepth
  BY <1>2, <1>3, Constants DEF IsFrame
<1>5. off \in 0 .. (U64 - 1) /\ off \in Nat
  <2>1. off \in 0 .. (U64 - 1)
    BY <1>2, <1>4, StackType
  <2> QED BY <2>1, Constants
<1>6. \/ ExpandFails(f.mem, off, size, left) /\ Fails(f.mem) /\ UNCHANGED hist
      \/ /\ ~ ExpandFails(f.mem, off, size, left)
         /\ \/ /\ op = "MLOAD" /\ InSlice(m, off, size)
               /\ Goes(f.pc + 1, left - cost, Append(Below(1), SetBytes(Get(m, off, size))), m)
               /\ Note(m, off, << >>, cost)
            \/ /\ op # "MLOAD" /\ Depth < 2
               /\ Fails(m) /\ UNCHANGED hist
            \/ /\ op # "MLOAD" /\ Depth >= 2 /\ InSlice(m, off, size)
               /\ Goes(f.pc + 1, left - cost, Below(2), Set(m, off, bytes))
               /\ Note(m, off, bytes, cost)
            \/ /\ ~ InSlice(m, off, size) /\ (op = "MLOAD" \/ Depth >= 2)
               /\ Ends("panic", left - cost, m) /\ UNCHANGED hist
  BY DEF OpMemory
<1>7. CASE Fails(f.mem) /\ UNCHANGED hist
  BY <1>2, <1>4, <1>7, FailsNow
<1>8. size \in Nat \ {0}
  BY Sizes
<1>9. ASSUME ~ ExpandFails(f.mem, off, size, left)
      PROVE  /\ size \in 1 .. (U64 - 1) /\ off + size < U64
             /\ Sound(m) /\ cost \in 0 .. left /\ cost \in Nat /\ left - cost \in 0 .. f.gas
             /\ Recorded(m, hist, hist.paid + cost)
  <2>1. size \in 1 .. (U64 - 1) /\ off + size < U64
    <3>1. ~ Overflows(off, size)
      BY <1>9 DEF ExpandFails
    <3>2. ~ (off + size >= U64)
      BY <1>8, <3>1 DEF Overflows
    <3> HIDE DEF off, size
    <3> QED BY <1>5, <1>8, <3>2, Constants
  <2> HIDE DEF off, size
  <2>2. left \in Nat /\ size \in 0 .. (U64 - 1)
    BY <1>2, <1>4, <2>1
  <2>3. Sound(m) /\ cost \in 0 .. left /\ Recorded(m, hist, hist.paid + cost)
    BY <1>2, <1>5, <1>9, <2>2, AccessIs
  <2> HIDE DEF cost
  <2>4. cost \in Nat /\ left - cost \in 0 .. f.gas
    BY <1>2, <1>4, <2>2, <2>3
  <2> QED BY <2>1, <2>3, <2>4
<1>10. f.pc + 1 \in Nat /\ (~ hist.moved => Lands(f.code, f.pc + 1))
  BY <1>2, <1>3, NextOp
<1>11. ASSUME ~ ExpandFails(f.mem, off, size, left), op = "MLOAD", InSlice(m, off, size),
              Goes(f.pc + 1, left - cost, Append(Below(1), SetBytes(Get(m, off, size))), m),
              Note(m, off, << >>, cost)
       PROVE  Inv' /\ LifeStep
  <2>1. size = WordBytes
    BY <1>11
  <2>2. Get(m, off, size) \in Seq(Byte) /\ Len(Get(m, off, size)) = size
    <3> HIDE DEF m, off, size
    <3> QED BY <1>5, <1>9, <1>11, GetType
  <2>3. PICK w : w = SetBytes(Get(m, off, size))
    OBVIOUS
  <2>4. w \in Word
    <3>1. Len(Get(m, off, size)) <= WordBytes
      BY <2>1, <2>2, Sizes
    <3> HIDE DEF m, off, size
    <3> QED BY <2>2, <2>3, <3>1, SetBytesWord
  <2>5. Append(Below(1), w) \in Seq(Word) /\ Len(Append(Below(1), w)) <= MaxDepth
    BY <1>2, <1>4, <2>4, Replaces
  <2> HIDE DEF m, off, size, cost
  <2>6. HistoryOf(m)
    BY <1>2, <1>5, <1>9, <1>11, ReadHistory
  <2> QED BY <1>2, <1>9, <1>10, <1>11, <2>3, <2>5, <2>6, GoesAhead
<1>12. ASSUME ~ ExpandFails(f.mem, off, size, left), Fails(m), UNCHANGED hist
       PROVE  Inv' /\ LifeStep
  <2> HIDE DEF m, off, size
  <2> QED BY <1>2, <1>9, <1>12, FailsNow
<1>13. ASSUME ~ ExpandFails(f.mem, off, size, left), Depth >= 2,
              Goes(f.pc + 1, left - cost, Below(2), Set(m, off, bytes)), Note(m, off, bytes, cost)
       PROVE  Inv' /\ LifeStep
  <2>1. Below(2) \in Seq(Word) /\ Len(Below(2)) = Depth - 2 /\ Back(1) \in Word
    <3>1. 1 < Depth /\ 2 <= Depth
      BY <1>4, <1>13
    <3> QED BY <1>2, <3>1, StackType
  <2>2. Len(Below(2)) <= MaxDepth
    BY <1>4, <2>1
  <2>3. bytes \in Seq(Byte)
    <3>1. Back(1) % ByteMod \in Byte
      <4>1. PICK b : b = Back(1)
        OBVIOUS
      <4>2. b \in Int /\ ByteMod \in Nat \ {0}
        <5>1. b \in Word
          BY <2>1, <4>1
        <5> QED BY <5>1, WordType, Moduli
      <4>3. b % ByteMod \in 0 .. (ByteMod - 1)
        BY <4>2, DivMod
      <4> QED BY <4>1, <4>3 DEF Byte
    <3>2. Bytes32(Back(1)) \in Seq(Byte)
      BY <2>1, Bytes32Type
    <3> QED BY <3>1, <3>2
  <2> HIDE DEF m, off, size, cost, bytes
  <2>4. Sound(Set(m, off, bytes)) /\ HistoryOf(Set(m, off, bytes))
    BY <1>2, <1>5, <1>9, <1>13, <2>3, WriteHistory
  <2> QED BY <1>2, <1>9, <1>10, <1>13, <2>1, <2>2, <2>4, GoesAhead
<1>14. ASSUME ~ ExpandFails(f.mem, off, size, left), Ends("panic", left - cost, m), UNCHANGED hist
       PROVE  Inv' /\ LifeStep
  <2> HIDE DEF m, off, size, cost
  <2> QED BY <1>2, <1>9, <1>14, EndsNow
<1> HIDE DEF m, off, size, cost, bytes
<1> QED BY <1>6, <1>7, <1>11, <1>12, <1>13, <1>14

\* Gas that is paid for something else does no harm.
LEMMA RecordedMore ==
    ASSUME NEW m, Sound(m), NEW h, NEW p \in Nat, NEW q \in Nat, p <= q, Recorded(m, h, p)
    PROVE  Recorded(m, h, q)
<1>1. PICK a, b : a = m.lastGas /\ b = memoryGas(m.len \div WordBytes)
  OBVIOUS
<1>2. a \in Nat /\ b \in Nat
  <2>1. m.lastGas \in Nat /\ m.len \in Nat /\ WordBytes \in Nat \ {0}
    BY Constants, Sizes DEF Sound, MemoryType
  <2>2. m.len \div WordBytes \in Nat
    BY <2>1, DivNat
  <2> QED BY <1>1, <2>1, <2>2, MemoryGasType
<1>3. p >= a /\ p >= b
  BY <1>1 DEF Recorded
<1>4. q >= a /\ q >= b
  BY <1>2, <1>3
<1> QED BY <1>1, <1>4 DEF Recorded

\* The words of a size that is charged for.
LEMMA PerWord ==
    ASSUME NEW size \in Nat
    PROVE  WordsFor(size) \in Nat /\ copyCost(size) \in Nat
<1>1. WordsFor(size) \in Nat
  BY WordsForType
<1> QED BY <1>1, Prices DEF copyCost

\* SHA3.
LEMMA Sha3Keeps ==
    ASSUME Inv, OpSha3
    PROVE  Inv' /\ LifeStep
<1> DEFINE off == Uint64(Back(0))
<1> DEFINE size == Uint64(Back(1))
<1> DEFINE cost == ExpansionCost(f.mem, off, size)
<1> DEFINE dyn == (Sha3 + cost + WordsFor(size) * Sha3Word) % U64
<1> DEFINE again == f.gas - dyn
<1> DEFINE failed == ExpandFails(f.mem, off, size, again)
<1> DEFINE m == IF failed THEN f.mem ELSE Expand(f.mem, off, size)
<1> DEFINE rest == IF failed THEN again ELSE again - cost
<1> DEFINE paid == IF failed THEN cost ELSE 2 * cost
<1>1. Paid({"SHA3"})
  BY DEF OpSha3
<1>2. IsFrame /\ f.pc < Len(f.code) /\ op \in {"SHA3"} /\ Depth >= Peeked
  BY <1>1, PaidIs
<1>3. op \notin PushOps /\ Peeked = 2
  BY <1>2, Operands
<1>4. 2 <= Depth /\ Depth \in Nat /\ 0 < Depth /\ 1 < Depth /\ Sound(f.mem) /\ f.gas \in Nat
  BY <1>2, <1>3 DEF IsFrame
<1>5. off \in 0 .. (U64 - 1) /\ off \in Nat /\ size \in 0 .. (U64 - 1) /\ size \in Nat
  <2>1. off \in 0 .. (U64 - 1) /\ size \in 0 .. (U64 - 1)
    BY <1>2, <1>4, StackType
  <2> QED BY <2>1, Constants
<1> HIDE DEF off, size
<1>6. cost \in Nat
  BY <1>4, <1>5, ExpansionCostType
<1> HIDE DEF cost
<1>7. dyn \in Nat
  <2>1. PICK n : n = WordsFor(size)
    OBVIOUS
  <2>2. n \in Nat
    BY <1>5, <2>1, PerWord
  <2>3. Sha3 + cost + n * Sha3Word \in Int
    BY <1>6, <2>2, Prices
  <2>4. PICK x : x = Sha3 + cost + n * Sha3Word
    OBVIOUS
  <2>5. x % U64 \in 0 .. (U64 - 1)
    BY <2>3, <2>4, Wraps
  <2> QED BY <2>1, <2>4, <2>5, Constants
<1> HIDE DEF dyn
<1>8. \/ f.gas < dyn /\ Fails(f.mem) /\ UNCHANGED hist
      \/ /\ f.gas >= dyn
         /\ \E hash \in Hashes : Goes(f.pc + 1, rest, Append(Below(2), hash), m)
         /\ Note(m, off, << >>, paid)
      \/ /\ f.gas >= dyn
         /\ Ends("panic", rest, m) /\ UNCHANGED hist
  BY DEF OpSha3, off, size, cost, dyn
<1>9. CASE Fails(f.mem) /\ UNCHANGED hist
  BY <1>2, <1>4, <1>9, FailsNow
<1>10. ASSUME f.gas >= dyn
       PROVE  /\ Sound(m) /\ rest \in 0 .. f.gas /\ paid \in Nat
              /\ Recorded(m, hist, hist.paid + paid)
  <2>1. again \in Nat /\ again \in 0 .. f.gas
    BY <1>4, <1>7, <1>10
  <2>2. hist.paid \in Nat /\ Recorded(f.mem, hist, hist.paid)
    BY <1>2 DEF IsFrame
  <2>3. PICK p, q : p = hist.paid + cost /\ q = hist.paid + 2 * cost
    OBVIOUS
  <2>4. p \in Nat /\ q \in Nat /\ hist.paid <= p /\ p <= q /\ 2 * cost \in Nat
    BY <1>6, <2>2, <2>3
  <2> HIDE DEF again
  <2>5. CASE failed
    <3>1. Recorded(f.mem, hist, p)
      BY <1>4, <2>2, <2>4, RecordedMore
    <3> QED BY <1>4, <1>6, <2>1, <2>3, <2>5, <3>1
  <2>6. CASE ~ failed
    <3>1. /\ Sound(Expand(f.mem, off, size)) /\ cost \in 0 .. again
          /\ Recorded(Expand(f.mem, off, size), hist, p)
      BY <1>2, <1>5, <2>1, <2>3, <2>6, AccessIs DEF cost
    <3>2. Recorded(Expand(f.mem, off, size), hist, q)
      BY <2>4, <3>1, RecordedMore
    <3>3. again - cost \in 0 .. f.gas
      BY <1>4, <2>1, <3>1
    <3> QED BY <2>3, <2>4, <2>6, <3>1, <3>2, <3>3
  <2> QED BY <2>5, <2>6
<1> HIDE DEF rest, m, failed, again, paid
<1>11. f.pc + 1 \in Nat /\ (~ hist.moved => Lands(f.code, f.pc + 1))
  BY <1>2, <1>3, NextOp
<1>12. CASE /\ f.gas >= dyn
            /\ \E hash \in Hashes : Goes(f.pc + 1, rest, Append(Below(2), hash), m)
            /\ Note(m, off, << >>, paid)
  <2>1. PICK hash \in Hashes : Goes(f.pc + 1, rest, Append(Below(2), hash), m)
    BY <1>12
  <2>2. hash \in Word
    BY MachineAssumption
  <2>3. Append(Below(2), hash) \in Seq(Word) /\ Len(Append(Below(2), hash)) <= MaxDepth
    BY <1>2, <1>4, <2>2, Replaces
  <2>4. HistoryOf(m)
    BY <1>2, <1>5, <1>10, <1>12, ReadHistory
  <2> QED BY <1>2, <1>10, <1>11, <1>12, <2>1, <2>3, <2>4, GoesAhead
<1>13. CASE f.gas >= dyn /\ Ends("panic", rest, m) /\ UNCHANGED hist
  BY <1>2, <1>10, <1>13, EndsNow
<1> QED BY <1>8, <1>9, <1>12, <1>13

\* RETURN, REVERT.
LEMMA ReturnKeeps ==
    ASSUME Inv, OpReturn
    PROVE  Inv' /\ LifeStep
<1> DEFINE off == Uint64(Back(0))
<1> DEFINE size == Uint64(Back(1))
<1> DEFINE m == Expand(f.mem, off, size)
<1> DEFINE cost == ExpansionCost(f.mem, off, size)
<1>1. Paid({"RETURN", "REVERT"}) /\ UNCHANGED hist
  BY DEF OpReturn
<1>2. IsFrame /\ op \in {"RETURN", "REVERT"} /\ Depth >= Peeked
  BY <1>1, PaidIs
<1>3. Peeked = 2
  BY <1>2, Operands
<1>4. 2 <= Depth /\ Depth \in Nat /\ 0 < Depth /\ 1 < Depth /\ Sound(f.mem) /\ f.gas \in Nat
  BY <1>2, <1>3 DEF IsFrame
<1>5. off \in 0 .. (U64 - 1) /\ size \in 0 .. (U64 - 1)
  BY <1>2, <1>4, StackType
<1>6. \/ Fails(f.mem)
      \/ /\ ~ ExpandFails(f.mem, off, size, f.gas)
         /\ \E err \in {"none", "revert", "panic"} : Ends(err, f.gas - cost, m)
  BY DEF OpReturn
<1> HIDE DEF off, size
<1>7. CASE Fails(f.mem)
  BY <1>1, <1>2, <1>4, <1>7, FailsNow
<1>8. CASE /\ ~ ExpandFails(f.mem, off, size, f.gas)
           /\ \E err \in {"none", "revert", "panic"} : Ends(err, f.gas - cost, m)
  <2>1. Sound(m) /\ cost \in 0 .. f.gas
    BY <1>2, <1>4, <1>5, <1>8, AccessIs
  <2>2. PICK err \in {"none", "revert", "panic"} : Ends(err, f.gas - cost, m)
    BY <1>8
  <2> HIDE DEF m, cost
  <2>3. f.gas - cost \in 0 .. f.gas
    BY <1>4, <2>1
  <2> QED BY <1>1, <1>2, <2>1, <2>2, <2>3, EndsNow
<1> QED BY <1>6, <1>7, <1>8

\* LOG.
LEMMA LogsKeep ==
    ASSUME Inv, OpLogs
    PROVE  Inv' /\ LifeStep
<1> DEFINE off == Uint64(Back(0))
<1> DEFINE size == Uint64(Back(1))
<1> DEFINE topics == IF op = "LOG1" THEN 1 ELSE 0
<1> DEFINE m == Expand(f.mem, off, size)
<1> DEFINE cost == ExpansionCost(f.mem, off, size)
<1> DEFINE dyn == (LogGas + LogData * size + topics * LogTopic) % U64
<1>1. Paid(LogOps)
  BY DEF OpLogs
<1>2. IsFrame /\ f.pc < Len(f.code) /\ op \in LogOps /\ Depth >= Peeked
  BY <1>1, PaidIs
<1>3. op \notin PushOps /\ Peeked = 2
  BY <1>2, Operands
<1>4. 2 <= Depth /\ Depth \in Nat /\ 0 < Depth /\ 1 < Depth /\ Sound(f.mem) /\ f.gas \in Nat
      /\ Depth <= MaxDepth /\ MaxDepth \in Nat
  BY <1>2, <1>3, Constants DEF IsFrame
<1>5. off \in 0 .. (U64 - 1) /\ off \in Nat /\ size \in 0 .. (U64 - 1) /\ size \in Nat
  <2>1. off \in 0 .. (U64 - 1) /\ size \in 0 .. (U64 - 1)
    BY <1>2, <1>4, StackType
  <2> QED BY <2>1, Constants
<1>6. \/ ExpandFails(f.mem, off, size, f.gas) /\ Fails(f.mem) /\ UNCHANGED hist
      \/ /\ ~ ExpandFails(f.mem, off, size, f.gas)
         /\ Fails(m) /\ UNCHANGED hist
      \/ /\ ~ ExpandFails(f.mem, off, size, f.gas)
         /\ f.gas - cost >= dyn /\ Depth >= 2 + topics
         /\ \/ /\ Goes(f.pc + 1, f.gas - cost - dyn, Below(2 + topics), m)
               /\ Note(m, off, << >>, cost)
            \/ Ends("panic", f.gas - cost - dyn, m) /\ UNCHANGED hist
  BY DEF OpLogs
<1>7. dyn \in Nat /\ topics \in Nat
  <2>1. LogGas + LogData * size + topics * LogTopic \in Int
    <3>1. topics \in Int
      OBVIOUS
    <3> HIDE DEF topics, size
    <3> QED BY <1>5, <3>1, Prices
  <2>2. PICK x : x = LogGas + LogData * size + topics * LogTopic
    OBVIOUS
  <2>3. x % U64 \in 0 .. (U64 - 1)
    BY <2>1, <2>2, Wraps
  <2>4. dyn \in 0 .. (U64 - 1)
    BY <2>2, <2>3
  <2> QED BY <2>4, Constants
<1> HIDE DEF off, size, dyn, topics
<1>8. CASE Fails(f.mem) /\ UNCHANGED hist
  BY <1>2, <1>4, <1>8, FailsNow
<1>9. ASSUME ~ ExpandFails(f.mem, off, size, f.gas)
      PROVE  Sound(m) /\ cost \in 0 .. f.gas /\ cost \in Nat /\ Recorded(m, hist, hist.paid + cost)
  <2>1. Sound(m) /\ cost \in 0 .. f.gas /\ Recorded(m, hist, hist.paid + cost)
    BY <1>2, <1>4, <1>5, <1>9, AccessIs
  <2> HIDE DEF m, cost
  <2> QED BY <1>4, <2>1
<1> HIDE DEF m, cost
<1>10. CASE ~ ExpandFails(f.mem, off, size, f.gas) /\ Fails(m) /\ UNCHANGED hist
  BY <1>2, <1>9, <1>10, FailsNow
<1>11. ASSUME ~ ExpandFails(f.mem, off, size, f.gas), f.gas - cost >= dyn, Depth >= 2 + topics,
              \/ Goes(f.pc + 1, f.gas - cost - dyn, Below(2 + topics), m) /\ Note(m, off, << >>, cost)
              \/ Ends("panic", f.gas - cost - dyn, m) /\ UNCHANGED hist
       PROVE  Inv' /\ LifeStep
  <2>1. f.gas - cost - dyn \in 0 .. f.gas
    BY <1>4, <1>7, <1>9, <1>11
  <2>2. CASE Goes(f.pc + 1, f.gas - cost - dyn, Below(2 + topics), m) /\ Note(m, off, << >>, cost)
    <3>1. PICK n : n = 2 + topics
      OBVIOUS
    <3>2. n \in Nat /\ n <= Depth
      BY <1>4, <1>7, <1>11, <3>1
    <3>3. Below(n) \in Seq(Word) /\ Len(Below(n)) = Depth - n
      BY <1>2, <3>2, StackType
    <3>4. Len(Below(n)) <= MaxDepth
      BY <1>4, <3>2, <3>3
    <3>5. HistoryOf(m)
      BY <1>2, <1>5, <1>9, <1>11, <2>2, ReadHistory
    <3>6. f.pc + 1 \in Nat /\ (~ hist.moved => Lands(f.code, f.pc + 1))
      BY <1>2, <1>3, NextOp
    <3> QED BY <1>2, <1>9, <1>11, <2>1, <2>2, <3>1, <3>3, <3>4, <3>5, <3>6, GoesAhead
  <2>3. CASE Ends("panic", f.gas - cost - dyn, m) /\ UNCHANGED hist
    BY <1>2, <1>9, <1>11, <2>1, <2>3, EndsNow
  <2> QED BY <1>11, <2>2, <2>3
<1> QED BY <1>6, <1>8, <1>10, <1>11

\* What is copied are bytes.
LEMMA CopiedType ==
    ASSUME IsFrame, op \in CopyOps \cup {"EXTCODECOPY"}, NEW off \in Nat, NEW size \in Nat
    PROVE  Copied(off, size) \in Seq(Byte)
<1>1. Input \in GoBytes /\ ExtCode \in GoBytes
  BY MachineAssumption
<1>2. f.code \in GoBytes /\ f.ret \in GoBytes
  BY DEF IsFrame
<1>3. PICK s : s = Source
  OBVIOUS
<1>4. s \in {Input, f.code, ExtCode, f.ret}
  BY <1>3 DEF Source, CopyOps
<1>5. s \in Seq(Byte)
  BY <1>1, <1>2, <1>4 DEF GoBytes
<1>6. 0 \in Byte /\ Len(s) \in Nat
  BY <1>5, Moduli DEF Byte
<1>7. \A i \in 1 .. size : off + i <= Len(s) => off + i \in 1 .. Len(s)
  BY <1>6
<1>8. \A i \in 1 .. size : (IF off + i <= Len(s) THEN s[off + i] ELSE 0) \in Byte
  BY <1>5, <1>6, <1>7
<1>9. [i \in 1 .. size |-> IF off + i <= Len(s) THEN s[off + i] ELSE 0] \in Seq(Byte)
  BY <1>8
<1> QED BY <1>3, <1>9 DEF Copied

\* CALLDATACOPY, CODECOPY, RETURNDATACOPY and EXTCODECOPY, once they are charged for.
LEMMA CopiesKeep ==
    ASSUME Inv, IsFrame, f.pc < Len(f.code), op \in CopyOps \cup {"EXTCODECOPY"}, op \notin PushOps,
           NEW n \in Nat, NEW gas \in 0 .. f.gas, NEW m, Sound(m), NEW cost \in Nat,
           Recorded(m, hist, hist.paid + cost), Copies(n, gas, m, cost)
    PROVE  Inv' /\ LifeStep
<1> DEFINE dest == Uint64(Back(n))
<1> DEFINE off == Uint64(Back(n + 1))
<1> DEFINE size == Uint64(Back(n + 2))
<1>1. Depth \in Nat /\ Depth <= MaxDepth /\ MaxDepth \in Nat
  BY Constants DEF IsFrame
<1>2. CASE Fails(m) /\ UNCHANGED hist
  BY <1>2, FailsNow
<1>3. CASE Ends("panic", gas, m) /\ UNCHANGED hist
  BY <1>3, EndsNow
<1>4. f.pc + 1 \in Nat /\ (~ hist.moved => Lands(f.code, f.pc + 1))
  BY NextOp
<1>5. ASSUME Depth >= n + 3
      PROVE  /\ dest \in Nat /\ off \in Nat /\ size \in Nat
             /\ Below(n + 3) \in Seq(Word) /\ Len(Below(n + 3)) <= MaxDepth
  <2>1. n < Depth /\ n + 1 < Depth /\ n + 2 < Depth /\ n + 1 \in Nat /\ n + 2 \in Nat
        /\ n + 3 \in Nat /\ n + 3 <= Depth
    BY <1>1, <1>5
  <2>2. dest \in 0 .. (U64 - 1) /\ off \in 0 .. (U64 - 1) /\ size \in 0 .. (U64 - 1)
    BY <2>1, StackType
  <2>3. PICK k : k = n + 3
    OBVIOUS
  <2>4. Below(k) \in Seq(Word) /\ Len(Below(k)) = Depth - k
    BY <2>1, <2>3, StackType
  <2>5. Len(Below(k)) <= MaxDepth
    BY <1>1, <2>1, <2>3, <2>4
  <2> HIDE DEF dest, off, size
  <2> QED BY <2>2, <2>3, <2>4, <2>5, Constants
<1>6. CASE /\ Depth >= n + 3
           /\ Goes(f.pc + 1, gas, Below(n + 3), m) /\ Note(m, dest, << >>, cost)
  <2> HIDE DEF dest, off, size
  <2>1. HistoryOf(m)
    BY <1>5, <1>6, ReadHistory
  <2> QED BY <1>4, <1>5, <1>6, <2>1, GoesAhead
<1>7. CASE /\ Depth >= n + 3
           /\ Goes(f.pc + 1, gas, Below(n + 3), Set(m, dest, Copied(off, size)))
           /\ Note(m, dest, Copied(off, size), cost)
  <2> HIDE DEF dest, off, size
  <2>1. PICK bytes : bytes = Copied(off, size)
    OBVIOUS
  <2>2. bytes \in Seq(Byte)
    BY <1>5, <1>7, <2>1, CopiedType
  <2>3. Sound(Set(m, dest, bytes)) /\ HistoryOf(Set(m, dest, bytes))
    BY <1>5, <1>7, <2>1, <2>2, WriteHistory
  <2> QED BY <1>4, <1>5, <1>7, <2>1, <2>3, GoesAhead
<1>8. ~ (Depth < n + 3) => Depth >= n + 3
  BY <1>1
<1> QED BY <1>2, <1>3, <1>6, <1>7, <1>8 DEF Copies

\* memCopyOp.
LEMMA CopyOpKeeps ==
    ASSUME Inv, IsFrame, f.pc < Len(f.code), op \in CopyOps \cup {"EXTCODECOPY"}, op \notin PushOps,
           Depth >= 3, NEW n \in Nat, NEW gas \in 0 .. f.gas, memCopyOp(n, gas)
    PROVE  Inv' /\ LifeStep
<1> DEFINE dest == Uint64(Back(2))
<1> DEFINE size == Uint64(Back(0))
<1> DEFINE m == Expand(f.mem, dest, size)
<1> DEFINE cost == ExpansionCost(f.mem, dest, size)
<1>1. Depth \in Nat /\ f.gas \in Nat /\ Sound(f.mem) /\ gas \in Nat
  BY DEF IsFrame
<1>2. dest \in 0 .. (U64 - 1) /\ size \in 0 .. (U64 - 1)
  <2>1. 2 < Depth /\ 0 < Depth
    BY <1>1
  <2> QED BY <2>1, StackType
<1>3. \/ ExpandFails(f.mem, dest, size, gas) /\ Fails(f.mem) /\ UNCHANGED hist
      \/ ~ ExpandFails(f.mem, dest, size, gas) /\ Fails(m) /\ UNCHANGED hist
      \/ /\ ~ ExpandFails(f.mem, dest, size, gas) /\ ~ (gas - cost < copyCost(size))
         /\ Copies(n, gas - cost - copyCost(size), m, cost)
  BY DEF memCopyOp
<1> HIDE DEF dest, size
<1>4. CASE Fails(f.mem) /\ UNCHANGED hist
  BY <1>1, <1>4, FailsNow
<1>5. ASSUME ~ ExpandFails(f.mem, dest, size, gas)
      PROVE  Sound(m) /\ cost \in 0 .. gas /\ Recorded(m, hist, hist.paid + cost)
  BY <1>1, <1>2, <1>5, AccessIs
<1> HIDE DEF m, cost
<1>6. CASE ~ ExpandFails(f.mem, dest, size, gas) /\ Fails(m) /\ UNCHANGED hist
  BY <1>5, <1>6, FailsNow
<1>7. CASE /\ ~ ExpandFails(f.mem, dest, size, gas) /\ ~ (gas - cost < copyCost(size))
           /\ Copies(n, gas - cost - copyCost(size), m, cost)
  <2>1. PICK c : c = copyCost(size)
    OBVIOUS
  <2>2. c \in Nat
    <3>1. size \in Nat
      BY <1>2, Constants
    <3> QED BY <2>1, <3>1, PerWord
  <2>3. cost \in Nat /\ gas - cost - c \in 0 .. f.gas
    BY <1>1, <1>5, <1>7, <2>1, <2>2
  <2>4. PICK g : g = gas - cost - c
    OBVIOUS
  <2>5. g \in 0 .. f.gas /\ Copies(n, g, m, cost)
    BY <1>7, <2>1, <2>3, <2>4
  <2> QED BY <1>5, <1>7, <2>3, <2>5, CopiesKeep
<1> QED BY <1>3, <1>4, <1>6, <1>7

\* The copying opcodes of a frame's own data ...
LEMMA CopyKeeps ==
    ASSUME Inv, OpCopy
    PROVE  Inv' /\ LifeStep
<1>1. Paid(CopyOps) /\ memCopyOp(0, f.gas)
  BY DEF OpCopy
<1>2. IsFrame /\ f.pc < Len(f.code) /\ op \in CopyOps /\ Depth >= Peeked
  BY <1>1, PaidIs
<1>3. op \notin PushOps /\ Peeked = 3
  BY <1>2, Operands
<1>4. f.gas \in 0 .. f.gas /\ Depth >= 3
  BY <1>2, <1>3 DEF IsFrame
<1> QED BY <1>1, <1>2, <1>3, <1>4, CopyOpKeeps

\* ... and of another account's code.
LEMMA ExtCodeCopyKeeps ==
    ASSUME Inv, OpExtCodeCopy
    PROVE  Inv' /\ LifeStep
<1>1. Paid({"EXTCODECOPY"})
  BY DEF OpExtCodeCopy
<1>2. IsFrame /\ f.pc < Len(f.code) /\ op \in {"EXTCODECOPY"}
  BY <1>1, PaidIs
<1>3. op \notin PushOps /\ Sound(f.mem) /\ f.gas \in Nat
  BY <1>2, Operands DEF IsFrame
<1>4. PICK cost \in AccessCosts :
          \/ f.gas < cost /\ Fails(f.mem) /\ UNCHANGED hist
          \/ f.gas >= cost /\ Depth < 3 /\ Ends("panic", f.gas - cost, f.mem) /\ UNCHANGED hist
          \/ f.gas >= cost /\ Depth >= 3 /\ memCopyOp(1, f.gas - cost)
  BY DEF OpExtCodeCopy
<1>5. cost \in Nat
  BY Prices DEF AccessCosts
<1>6. CASE Fails(f.mem) /\ UNCHANGED hist
  BY <1>2, <1>3, <1>6, FailsNow
<1>7. ASSUME f.gas >= cost
      PROVE  f.gas - cost \in 0 .. f.gas
  BY <1>3, <1>5, <1>7
<1>8. CASE f.gas >= cost /\ Ends("panic", f.gas - cost, f.mem) /\ UNCHANGED hist
  BY <1>2, <1>3, <1>7, <1>8, EndsNow
<1>9. CASE f.gas >= cost /\ Depth >= 3 /\ memCopyOp(1, f.gas - cost)
  BY <1>2, <1>3, <1>7, <1>9, CopyOpKeeps
<1> QED BY <1>4, <1>6, <1>8, <1>9

-----------------------------------------------------------------------------
(***************************************************************************)
(* CALL.                                                                   *)
(***************************************************************************)
\* What the handler is given is part of what is left.
LEMMA ForwardedIs ==
    ASSUME NEW rest \in Nat, NEW asked \in Nat
    PROVE  Min({asked, CallGas(rest)}) \in 0 .. rest
<1>1. PICK q : q = rest \div CallGasDivisor
  OBVIOUS
<1>2. q \in 0 .. rest
  BY <1>1, Prices, DivNat
<1>3. PICK c : c = CallGas(rest)
  OBVIOUS
<1>4. c \in Int /\ c \in 0 .. rest
  BY <1>1, <1>2, <1>3 DEF CallGas
<1>5. Min({asked, c}) = IF asked <= c THEN asked ELSE c
  BY <1>4, OfTwo
<1> QED BY <1>3, <1>4, <1>5

\* The two expansions of a CALL: both are paid for, or it fails.
LEMMA CallMemoryIs ==
    ASSUME IsFrame, Depth >= 7
    PROVE  /\ Sound(CallMemory.mem)
           /\ CallMemory.ok => /\ CallMemory.cost \in 0 .. f.gas
                               /\ Recorded(CallMemory.mem, hist, hist.paid + CallMemory.cost)
<1> DEFINE inOff == Uint64(Back(3))
<1> DEFINE inSize == Uint64(Back(4))
<1> DEFINE outOff == Uint64(Back(5))
<1> DEFINE outSize == Uint64(Back(6))
<1> DEFINE m1 == Expand(f.mem, inOff, inSize)
<1> DEFINE cost1 == ExpansionCost(f.mem, inOff, inSize)
<1> DEFINE m2 == Expand(m1, outOff, outSize)
<1> DEFINE cost2 == ExpansionCost(m1, outOff, outSize)
<1> DEFINE fails1 == ExpandFails(f.mem, inOff, inSize, f.gas)
<1> DEFINE fails2 == ExpandFails(m1, outOff, outSize, f.gas - cost1)
<1>1. Depth \in Nat /\ f.gas \in Nat /\ Sound(f.mem) /\ hist.paid \in Nat
  BY DEF IsFrame
<1>2. /\ inOff \in 0 .. (U64 - 1) /\ inSize \in 0 .. (U64 - 1)
      /\ outOff \in 0 .. (U64 - 1) /\ outSize \in 0 .. (U64 - 1)
  <2>1. 3 < Depth /\ 4 < Depth /\ 5 < Depth /\ 6 < Depth
    BY <1>1
  <2> QED BY <2>1, StackType
<1>3. CallMemory = IF fails1 THEN [ok |-> FALSE, mem |-> f.mem]
                   ELSE IF fails2 THEN [ok |-> FALSE, mem |-> m1]
                   ELSE [ok |-> TRUE, mem |-> m2, cost |-> cost1 + cost2]
  BY DEF CallMemory
<1> HIDE DEF inOff, inSize, outOff, outSize
<1>4. CASE fails1
  BY <1>1, <1>3, <1>4
<1>5. ASSUME ~ fails1
      PROVE  Sound(m1) /\ cost1 \in 0 .. f.gas /\ Recorded(m1, hist, hist.paid + cost1)
  BY <1>1, <1>2, <1>5, AccessIs
<1> HIDE DEF m1, cost1, fails1
<1>6. CASE ~ fails1 /\ fails2
  BY <1>3, <1>5, <1>6
<1>7. CASE ~ fails1 /\ ~ fails2
  <2>1. f.gas - cost1 \in Nat /\ cost1 \in Nat
    BY <1>1, <1>5, <1>7
  <2>2. ~ Overflows(outOff, outSize) /\ ~ (cost2 > f.gas - cost1)
    BY <1>7 DEF ExpandFails
  <2>3. cost2 \in Nat
    <3>1. outOff \in Nat /\ outSize \in Nat
      BY <1>2, Constants
    <3> QED BY <1>5, <1>7, <3>1, ExpansionCostType
  <2>4. PICK p : p = hist.paid + cost1
    OBVIOUS
  <2>5. p \in Nat
    BY <1>1, <2>1, <2>4
  <2>6. Sound(m2) /\ Recorded(m2, hist, p + cost2)
    BY <1>2, <1>5, <1>7, <2>2, <2>4, <2>5, Expanded
  <2> HIDE DEF m2, cost2
  <2>7. p + cost2 = hist.paid + (cost1 + cost2) /\ cost1 + cost2 \in 0 .. f.gas
    BY <1>1, <2>1, <2>2, <2>3, <2>4
  <2>8. CallMemory.mem = m2 /\ CallMemory.cost = cost1 + cost2
    BY <1>3, <1>7
  <2>9. Recorded(m2, hist, hist.paid + (cost1 + cost2))
    BY <2>6, <2>7
  <2> QED BY <2>6, <2>7, <2>8, <2>9
<1> QED BY <1>4, <1>6, <1>7

\* The handler has returned.
LEMMA CallReturnsKeep ==
    ASSUME Inv, IsFrame, f.pc < Len(f.code), op \notin PushOps, Depth >= 7,
           NEW m, Sound(m), NEW cost \in Nat, Recorded(m, hist, hist.paid + cost),
           NEW gas \in 0 .. f.gas, NEW ret \in Returns, NEW ok, CallReturns(m, cost, gas, ret, ok)
    PROVE  Inv' /\ LifeStep
<1> DEFINE outOff == Uint64(Back(5))
<1> DEFINE outSize == Uint64(Back(6))
<1> DEFINE bytes == SubSeq(ret, 1, Min({outSize, Len(ret)}))
<1>1. ret \in GoBytes /\ ret \in Seq(Byte)
  BY MachineAssumption DEF GoBytes
<1>2. Depth \in Nat /\ Depth <= MaxDepth /\ MaxDepth \in Nat
  BY Constants DEF IsFrame
<1>3. outOff \in Nat /\ outSize \in Nat
  <2>1. 5 < Depth /\ 6 < Depth
    BY <1>2
  <2>2. outOff \in 0 .. (U64 - 1) /\ outSize \in 0 .. (U64 - 1)
    BY <2>1, StackType
  <2> HIDE DEF outOff, outSize
  <2> QED BY <2>2, Constants
<1>4. \/ Ends("panic", gas, m) /\ UNCHANGED hist
      \/ /\ f' = [f EXCEPT !.pc = @ + 1, !.gas = gas, !.stack = Append(Below(7), Bool(ok)),
                           !.mem = Set(m, outOff, bytes), !.ret = ret]
         /\ Note(m, outOff, bytes, cost)
         /\ UNCHANGED <<pooled, cache, heap, work>>
  BY DEF CallReturns
<1>5. CASE Ends("panic", gas, m) /\ UNCHANGED hist
  BY <1>5, EndsNow
<1> HIDE DEF outOff, outSize
<1>6. bytes \in Seq(Byte)
  <2>1. Len(ret) \in Nat
    BY <1>1
  <2>2. PICK k, l : l = Len(ret) /\ k = Min({outSize, l})
    OBVIOUS
  <2>3. k = IF outSize <= l THEN outSize ELSE l
    <3>1. l \in Int /\ outSize \in Int
      BY <1>3, <2>1, <2>2
    <3> QED BY <2>2, <3>1, OfTwo
  <2>4. k \in Int /\ k <= Len(ret)
    BY <1>3, <2>1, <2>2, <2>3
  <2>5. \A i \in 1 .. k : i \in 1 .. Len(ret)
    BY <2>1, <2>4
  <2>6. \A i \in 1 .. k : ret[i] \in Byte
    BY <1>1, <2>5
  <2>7. SubSeq(ret, 1, k) \in Seq(Byte)
    BY <2>4, <2>6, SubSeqProperties
  <2> QED BY <2>2, <2>7
<1> HIDE DEF bytes
<1>7. CASE /\ f' = [f EXCEPT !.pc = @ + 1, !.gas = gas, !.stack = Append(Below(7), Bool(ok)),
                             !.mem = Set(m, outOff, bytes), !.ret = ret]
           /\ Note(m, outOff, bytes, cost)
           /\ UNCHANGED <<pooled, cache, heap, work>>
  <2>1. PICK w, mem, stack, pc : /\ w = Bool(ok) /\ mem = Set(m, outOff, bytes) /\ stack = Append(Below(7), w)
                                 /\ pc = f.pc + 1
    OBVIOUS
  <2>2. w \in Word
    BY <2>1, BoolType
  <2>3. stack \in Seq(Word) /\ Len(stack) <= MaxDepth
    BY <2>1, <2>2, Replaces
  <2>4. Sound(mem) /\ HistoryOf(mem)
    BY <1>3, <1>6, <1>7, <2>1, WriteHistory
  <2>5. pc \in Nat /\ (~ hist.moved => Lands(f.code, pc))
    BY <2>1, NextOp
  <2>6. f \in Frame /\ f.err = "running" /\ mem \in MemoryType /\ gas \in 0 .. (U64 - 1)
    BY <2>4, Constants DEF IsFrame, Sound
  <2>7. f' = [f EXCEPT !.pc = pc, !.gas = gas, !.stack = stack, !.mem = mem, !.ret = ret]
    BY <1>7, <2>1
  <2>8. f' \in Frame
    BY <1>1, <2>3, <2>5, <2>6, <2>7 DEF Frame
  <2>9. /\ f'.pc = pc /\ f'.gas = gas /\ f'.stack = stack /\ f'.mem = mem
        /\ f'.code = f.code /\ f'.jumpdests = f.jumpdests /\ f'.err = "running"
    BY <2>6, <2>7 DEF Frame
  <2>10. GoesWith(pc, gas, stack, mem)
    BY <1>7, <2>8, <2>9 DEF GoesWith
  <2> QED BY <2>3, <2>4, <2>5, <2>10, GoesOn
<1> QED BY <1>4, <1>5, <1>7

\* CALL.
LEMMA CallKeeps ==
    ASSUME Inv, OpCall
    PROVE  Inv' /\ LifeStep
<1>1. Paid({"CALL"})
  BY DEF OpCall
<1>2. IsFrame /\ f.pc < Len(f.code) /\ op \in {"CALL"} /\ Depth >= Popped
  BY <1>1, PaidIs
<1>3. op \notin PushOps /\ Depth >= 7 /\ f.gas \in Nat /\ Depth \in Nat
  BY <1>2, Operands DEF IsFrame
<1> DEFINE m == CallMemory
<1>5. Sound(m.mem) /\ (m.ok => m.cost \in 0 .. f.gas /\ Recorded(m.mem, hist, hist.paid + m.cost))
  BY <1>2, <1>3, CallMemoryIs
<1> HIDE DEF m
<1>6. CASE ~ m.ok /\ Fails(m.mem) /\ UNCHANGED hist
  BY <1>2, <1>5, <1>6, FailsNow
<1> DEFINE Outcomes(access, new, value) ==
             LET rest == f.gas - m.cost - access - (IF value > 0 THEN CallValue + new ELSE 0)
                 fwd  == Min({Back(0), CallGas(rest)})
             IN  IF rest < 0 THEN Fails(m.mem) /\ UNCHANGED hist
                 ELSE \/ Ends("panic", rest - fwd, m.mem) /\ UNCHANGED hist
                      \/ \E ret \in Returns, back \in {0, fwd}, ok \in BOOLEAN :
                            CallReturns(m.mem, m.cost, rest - fwd + back, ret, ok)
<1>7. ASSUME m.ok, NEW access \in AccessCosts, NEW new \in {0, NewAccount}, NEW value,
             Outcomes(access, new, value)
      PROVE  Inv' /\ LifeStep
  <2> DEFINE transfer == IF value > 0 THEN CallValue + new ELSE 0
  <2>1. transfer \in Nat /\ access \in Nat /\ m.cost \in Nat
    BY <1>3, <1>5, <1>7, Prices DEF AccessCosts
  <2> HIDE DEF transfer
  <2>2. PICK rest : rest = f.gas - m.cost - access - transfer
    OBVIOUS
  <2>3. rest \in Int /\ rest <= f.gas
    BY <1>3, <2>1, <2>2
  <2>4. PICK fwd : fwd = Min({Back(0), CallGas(rest)})
    OBVIOUS
  <2>5. IF rest < 0 THEN Fails(m.mem) /\ UNCHANGED hist
        ELSE \/ Ends("panic", rest - fwd, m.mem) /\ UNCHANGED hist
             \/ \E ret \in Returns, back \in {0, fwd}, ok \in BOOLEAN :
                   CallReturns(m.mem, m.cost, rest - fwd + back, ret, ok)
    BY <1>7, <2>2, <2>4 DEF transfer
  <2>6. CASE Fails(m.mem) /\ UNCHANGED hist
    BY <1>2, <1>5, <2>6, FailsNow
  <2>7. ASSUME ~ (rest < 0)
        PROVE  fwd \in 0 .. rest /\ rest \in Nat
    <3>1. rest \in Nat
      BY <2>3, <2>7
    <3>2. PICK asked : asked = Back(0)
      OBVIOUS
    <3>3. asked \in Nat
      <4>1. 0 < Depth
        BY <1>3
      <4> QED BY <1>2, <3>2, <4>1, StackType, WordType
    <3>4. fwd \in 0 .. rest
      BY <2>4, <3>1, <3>2, <3>3, ForwardedIs
    <3> QED BY <3>1, <3>4
  <2>8. CASE ~ (rest < 0) /\ Ends("panic", rest - fwd, m.mem) /\ UNCHANGED hist
    <3>1. rest - fwd \in 0 .. f.gas
      BY <1>3, <2>3, <2>7, <2>8
    <3> QED BY <1>2, <1>5, <2>8, <3>1, EndsNow
  <2>9. ASSUME ~ (rest < 0), NEW ret \in Returns, NEW back \in {0, fwd}, NEW ok \in BOOLEAN,
               CallReturns(m.mem, m.cost, rest - fwd + back, ret, ok)
        PROVE  Inv' /\ LifeStep
    <3>1. PICK gas : gas = rest - fwd + back
      OBVIOUS
    <3>2. gas \in 0 .. f.gas
      BY <1>3, <2>3, <2>7, <2>9, <3>1
    <3>3. CallReturns(m.mem, m.cost, gas, ret, ok)
      BY <2>9, <3>1
    <3> QED BY <1>2, <1>3, <1>5, <1>7, <2>1, <3>2, <3>3, CallReturnsKeep
  <2> QED BY <2>5, <2>6, <2>8, <2>9
<1> QED
  <2>1. \/ ~ m.ok /\ Fails(m.mem) /\ UNCHANGED hist
        \/ m.ok /\ \E access \in AccessCosts, new \in {0, NewAccount} : Outcomes(access, new, Uint64(Back(2)))
    <3>1. \/ ~ m.ok /\ Fails(m.mem) /\ UNCHANGED hist
          \/ /\ m.ok
             /\ \E access \in AccessCosts, new \in {0, NewAccount} :
                   LET rest == f.gas - m.cost - access - (IF Uint64(Back(2)) > 0 THEN CallValue + new ELSE 0)
                       fwd  == Min({Back(0), CallGas(rest)})
                   IN  IF rest < 0 THEN Fails(m.mem) /\ UNCHANGED hist
                       ELSE IF Uint64(Back(4)) > 0 /\ ~ InSlice(m.mem, Uint64(Back(3)), Uint64(Back(4)))
                       THEN Ends("panic", rest - fwd, m.mem) /\ UNCHANGED hist
                       ELSE \E ret \in Returns, back \in {0, fwd}, ok \in BOOLEAN :
                               CallReturns(m.mem, m.cost, rest - fwd + back, ret, ok)
      BY DEF OpCall, m
    <3> QED BY ONLY <3>1
  <2> HIDE DEF Outcomes
  <2> QED BY <1>6, <1>7, <2>1

-----------------------------------------------------------------------------
(***************************************************************************)
(* Frames begin and are released.                                          *)
(***************************************************************************)
EnteredJumps(slice) ==
    IF codeID(slice) \in DOMAIN cache THEN cache[codeID(slice)] ELSE buildJumpdests(slice.code)

\* The jump destinations a frame begins with are those of code of the same length
\* that is, or was, at the same address.
LEMMA EnteredJumpsAre ==
    ASSUME Inv, NEW slice \in Slice
    PROVE  /\ slice.code = << >> => EnteredJumps(slice) = {} /\ buildJumpdests(slice.code) = {}
           /\ slice.code # << >> =>
                 \E c \in heap[slice.at] \cup {slice.code} :
                    Len(c) = Len(slice.code) /\ EnteredJumps(slice) = buildJumpdests(c)
<1> DEFINE key == codeID(slice)
<1>1. slice.code \in Seq(Byte)
  BY DEF Slice, GoBytes
<1>2. Len(slice.code) \in Nat /\ (slice.code # << >> => Len(slice.code) # 0)
  BY <1>1
<1>3. key \in DOMAIN cache =>
        \/ key = <<Nil, 0>> /\ cache[key] = {}
        \/ \E p \in Ptr : \E c \in heap[p] :
              c # << >> /\ key = <<p, Len(c)>> /\ cache[key] = buildJumpdests(c)
  BY DEF Inv, CacheOK
<1>4. CASE slice.code = << >>
  <2>1. buildJumpdests(slice.code) = {}
    <3>1. Len(slice.code) = 0
      BY <1>4
    <3>2. buildJumpdests(slice.code) \subseteq 0 .. (0 - 1)
      BY <1>1, <3>1, JumpdestsLand
    <3> QED BY <3>2
  <2>2. key = <<Nil, 0>>
    BY <1>4 DEF codeID
  <2>3. ASSUME key \in DOMAIN cache
        PROVE  cache[key] = {}
    <3>1. ASSUME NEW p \in Ptr, NEW c \in heap[p], c # << >>, key = <<p, Len(c)>>
          PROVE  FALSE
      <4>1. c \in Seq(Byte)
        BY DEF Inv, TypeOK, GoBytes
      <4>2. Len(c) # 0
        BY <3>1, <4>1
      <4> QED BY <2>2, <3>1, <4>2
    <3> QED BY <1>3, <2>3, <3>1
  <2> QED BY <1>4, <2>1, <2>3 DEF EnteredJumps
<1>5. CASE slice.code # << >>
  <2>1. key = <<slice.at, Len(slice.code)>>
    BY <1>5 DEF codeID
  <2>2. key # <<Nil, 0>>
    BY <1>2, <1>5, <2>1
  <2>3. CASE key \in DOMAIN cache
    <3>1. PICK p \in Ptr : \E c \in heap[p] :
              c # << >> /\ key = <<p, Len(c)>> /\ cache[key] = buildJumpdests(c)
      BY <1>3, <2>2, <2>3
    <3>2. PICK c \in heap[p] : key = <<p, Len(c)>> /\ cache[key] = buildJumpdests(c)
      BY <3>1
    <3>3. p = slice.at /\ Len(c) = Len(slice.code)
      BY <2>1, <3>2
    <3> QED BY <1>5, <2>3, <3>2, <3>3 DEF EnteredJumps
  <2>4. CASE key \notin DOMAIN cache
    BY <1>5, <2>4 DEF EnteredJumps
  <2> QED BY <2>3, <2>4
<1> QED BY <1>4, <1>5

\* A frame begins.
LEMMA EnterKeeps ==
    ASSUME Inv, NEW slice \in Slice, NEW gas \in GasLimits, NEW mem,
           mem = NewMemory \/ (pooled # Nil /\ mem = ResetMemory(pooled)),
           work' \in Seq(Slice), Enter(slice, gas, mem)
    PROVE  Inv' /\ LifeStep
<1> DEFINE key == codeID(slice)
<1> DEFINE code == slice.code
<1> DEFINE J == EnteredJumps(slice)
<1> DEFINE r == pooled # Nil /\ mem = ResetMemory(pooled)
<1> DEFINE moved == \E c \in heap[slice.at] : Len(c) = Len(code) /\ c # code
<1>1. /\ f = Idle
      /\ f' = [code |-> code, pc |-> 0, gas |-> gas, stack |-> << >>, mem |-> mem,
               ret |-> << >>, jumpdests |-> J, err |-> "running"]
      /\ cache' = [k \in DOMAIN cache \cup {key} |-> IF k = key THEN J ELSE cache[k]]
      /\ heap' = [heap EXCEPT ![slice.at] = @ \cup {code}]
      /\ pooled' = Nil
      /\ hist' = [NoHistory EXCEPT !.reused = r, !.moved = moved]
  BY DEF Enter, EnteredJumps
<1>2. /\ slice.at \in Ptr /\ code \in GoBytes /\ code \in Seq(Byte) /\ Len(code) \in Nat
      /\ heap \in [Ptr -> SUBSET GoBytes]
  <2>1. slice.at \in Ptr /\ code \in GoBytes /\ code \in Seq(Byte) /\ heap \in [Ptr -> SUBSET GoBytes]
    BY DEF Slice, GoBytes, Inv, TypeOK
  <2>2. Len(code) \in Nat
    BY <2>1
  <2> QED BY <2>1, <2>2
<1>3. /\ code = << >> => J = {} /\ buildJumpdests(code) = {}
      /\ code # << >> =>
            \E c \in heap[slice.at] \cup {code} : Len(c) = Len(code) /\ J = buildJumpdests(c)
  BY EnteredJumpsAre
<1>4. r \in BOOLEAN /\ moved \in BOOLEAN
  OBVIOUS
<1>5. mem = NewMemory \/ (r /\ mem.len = 0 /\ mem.lastGas = 0)
  <2>1. ASSUME pooled # Nil, mem = ResetMemory(pooled)
        PROVE  mem.len = 0 /\ mem.lastGas = 0
    <3>1. pooled \in MemoryType
      BY <2>1 DEF Inv, TypeOK
    <3> QED BY <2>1, <3>1 DEF ResetMemory, MemoryType
  <2> QED BY <2>1
<1>6. Sound(mem)
  <2>1. pooled # Nil => pooled \in MemoryType
    BY DEF Inv, TypeOK
  <2> QED BY <2>1, NewMemorySound
<1>7. /\ ~ moved => J = buildJumpdests(code)
      /\ J \subseteq 0 .. (Len(code) - 1) /\ J \subseteq Nat
  <2>1. CASE code = << >>
    BY <1>3, <2>1
  <2>2. CASE code # << >>
    <3>1. PICK c \in heap[slice.at] \cup {code} : Len(c) = Len(code) /\ J = buildJumpdests(c)
      BY <1>3, <2>2
    <3>2. c \in Seq(Byte)
      BY <1>2 DEF GoBytes
    <3>3. J \subseteq 0 .. (Len(code) - 1)
      BY <3>1, <3>2, JumpdestsLand
    <3>4. ~ moved => c = code
      BY <3>1
    <3> HIDE DEF J, code, moved
    <3> QED BY <3>1, <3>3, <3>4
  <2> QED BY <2>1, <2>2
<1>8. hist'.moved = moved /\ History(hist') /\ Recorded(mem, hist', 0) /\ hist'.paid = 0
  <2>1. hist'.moved = moved /\ hist'.paid = 0
    BY <1>1 DEF NoHistory
  <2> HIDE DEF r, moved
  <2>2. /\ History([NoHistory EXCEPT !.reused = r, !.moved = moved])
        /\ Recorded(mem, [NoHistory EXCEPT !.reused = r, !.moved = moved], 0)
    BY <1>4, <1>5, BeginsRecorded
  <2> QED BY <1>1, <2>1, <2>2
<1>9. CacheOK'
  <2> DEFINE Known(k) ==
        \/ k = <<Nil, 0>> /\ cache'[k] = {}
        \/ \E p \in Ptr : \E c \in heap'[p] :
              c # << >> /\ k = <<p, Len(c)>> /\ cache'[k] = buildJumpdests(c)
  <2>1. \A p \in Ptr : heap[p] \subseteq heap'[p]
    BY <1>1, <1>2
  <2>2. code \in heap'[slice.at]
    BY <1>1, <1>2
  <2>3. cache'[key] = J
    BY <1>1
  <2>4. Known(key)
    <3>1. CASE code = << >>
      <4>1. key = <<Nil, 0>>
        BY <3>1 DEF codeID
      <4> HIDE DEF J, key, code
      <4> QED BY <1>3, <2>3, <3>1, <4>1
    <3>2. CASE code # << >>
      <4>1. key = <<slice.at, Len(code)>>
        BY <3>2 DEF codeID
      <4>2. PICK c \in heap[slice.at] \cup {code} : Len(c) = Len(code) /\ J = buildJumpdests(c)
        BY <1>3, <3>2
      <4>3. c # << >>
        <5>1. Len(code) # 0
          BY <1>2, <3>2
        <5>2. Len(<< >>) = 0
          OBVIOUS
        <5> QED BY <4>2, <5>1, <5>2
      <4>4. c \in heap'[slice.at]
        BY <1>2, <2>1, <2>2
      <4> HIDE DEF J, key, code
      <4> QED BY <1>2, <2>3, <4>1, <4>2, <4>3, <4>4
    <3> QED BY <3>1, <3>2
  <2>5. ASSUME NEW k \in DOMAIN cache, k # key
        PROVE  Known(k)
    <3>1. cache'[k] = cache[k]
      BY <1>1, <2>5
    <3>2. \/ k = <<Nil, 0>> /\ cache[k] = {}
          \/ \E p \in Ptr : \E c \in heap[p] :
                c # << >> /\ k = <<p, Len(c)>> /\ cache[k] = buildJumpdests(c)
      BY DEF Inv, CacheOK
    <3> QED BY <2>1, <3>1, <3>2
  <2>6. DOMAIN cache' = DOMAIN cache \cup {key}
    BY <1>1
  <2>7. \A k \in DOMAIN cache' : Known(k)
    <3> HIDE DEF Known, key
    <3> QED BY <2>4, <2>5, <2>6
  <2> QED BY <2>7 DEF CacheOK
<1>10. gas \in 0 .. (U64 - 1) /\ gas \in Nat /\ MaxDepth \in Nat
  BY Constants, MachineAssumption
<1>11. /\ f' \in Frame /\ f'.code = code /\ f'.pc = 0 /\ f'.gas = gas /\ f'.stack = << >>
       /\ f'.mem = mem /\ f'.jumpdests = J /\ f'.err = "running"
  <2>1. << >> \in Seq(Word) /\ << >> \in GoBytes
    BY Constants DEF GoBytes
  <2>2. mem \in MemoryType
    BY <1>6 DEF Sound
  <2> HIDE DEF J, code
  <2> QED BY <1>1, <1>2, <1>7, <1>10, <2>1, <2>2 DEF Frame
<1>12. cache' \in [DOMAIN cache' -> SUBSET Nat]
  <2>1. cache \in [DOMAIN cache -> SUBSET Nat]
    BY DEF Inv, TypeOK
  <2> HIDE DEF J, key
  <2> QED BY <1>1, <1>7, <2>1
<1>13. heap' \in [Ptr -> SUBSET GoBytes]
  BY <1>1, <1>2
<1> HIDE DEF J, key, code, r, moved
<1>14. TypeOK'
  <2>1. Depth' <= MaxDepth
    BY <1>10, <1>11 DEF Depth
  <2>2. f'.mem.len <= Len(f'.mem.data)
    BY <1>6, <1>11 DEF Sound
  <2>3. f'.jumpdests \subseteq 0 .. (Len(f'.code) - 1)
    BY <1>7, <1>11
  <2> QED BY <1>1, <1>8, <1>11, <1>12, <1>13, <2>1, <2>2, <2>3 DEF TypeOK, History
<1>15. JumpsOK'
  BY <1>7, <1>8, <1>11 DEF JumpsOK
<1>16. MemoryOK'
  BY <1>8, <1>11 DEF MemoryOK
<1>17. ExecutesInstructions'
  <2>1. DataLeft(code)[0] = 0
    BY <1>2, DataLeftIs
  <2> QED BY <1>11, <2>1 DEF ExecutesInstructions
<1>18. LifeStep
  BY <1>1, <1>10, <1>11 DEF LifeStep, Life!Next, Life!Begin, Idle
<1> QED BY <1>9, <1>14, <1>15, <1>16, <1>17, <1>18 DEF Inv

\* A frame is taken from the pool, or made.
LEMMA AcquireKeeps ==
    ASSUME Inv, Acquire
    PROVE  Inv' /\ LifeStep
<1>1. work \in Seq(Slice) /\ work # << >>
  BY DEF Acquire, Inv, TypeOK
<1>2. Head(work) \in Slice /\ Tail(work) \in Seq(Slice)
  BY <1>1
<1>3. PICK gas \in GasLimits :
          \/ Enter(Head(work), gas, NewMemory)
          \/ pooled # Nil /\ Enter(Head(work), gas, ResetMemory(pooled))
  BY DEF Acquire
<1>4. work' = Tail(work)
  BY <1>3 DEF Enter
<1>5. work' \in Seq(Slice)
  BY <1>2, <1>4
<1> QED BY <1>2, <1>3, <1>5, EnterKeeps

\* A frame is given back.
LEMMA ReleaseKeeps ==
    ASSUME Inv, Release
    PROVE  Inv' /\ LifeStep
<1>1. /\ f.err \in {"none", "revert", "fail"} /\ pooled' = f.mem /\ f' = Idle /\ hist' = NoHistory
      /\ UNCHANGED <<cache, heap, work>>
  BY DEF Release
<1>2. f.mem \in MemoryType
  BY <1>1 DEF Inv, TypeOK, Frame, Idle
<1>3. ~ Running' /\ f'.err = "idle" /\ f'.gas = 0
  BY <1>1 DEF Running, Idle
<1>4. History(NoHistory)
  <2>1. << >> \in [{} -> Byte] /\ NoHistory.written = << >>
    BY DEF NoHistory
  <2>2. NoHistory \in [written : [{} -> Byte], paid : Nat, reused : BOOLEAN, wild : BOOLEAN, moved : BOOLEAN]
    BY <2>1 DEF NoHistory
  <2> QED BY <2>1, <2>2 DEF History
<1>5. TypeOK'
  BY <1>1, <1>2, <1>4 DEF Inv, TypeOK, History
<1>6. CacheOK'
  BY <1>1 DEF Inv, CacheOK
<1>7. JumpsOK' /\ MemoryOK' /\ ExecutesInstructions'
  BY <1>1, <1>3 DEF JumpsOK, MemoryOK, ExecutesInstructions
<1>8. LifeStep
  BY <1>1, <1>3 DEF LifeStep, Life!Next, Life!Leave
<1> QED BY <1>5, <1>6, <1>7, <1>8 DEF Inv

\* A run begins with nothing.
LEMMA InitInv == Init => Inv /\ Life!Init
<1> SUFFICES ASSUME Init
             PROVE  Inv /\ Life!Init
  OBVIOUS
<1>1. /\ f = Idle /\ pooled = Nil /\ cache = << >> /\ heap = [p \in Ptr |-> {}]
      /\ work \in Seq(Slice) /\ hist = NoHistory
  BY MachineAssumption DEF Init
<1>2. f.err = "idle" /\ f.gas = 0 /\ ~ Running
  BY <1>1 DEF Idle, Running
<1>3. hist.written = << >> /\ History(hist)
  <2>1. << >> \in [{} -> Byte] /\ NoHistory.written = << >>
    BY DEF NoHistory
  <2>2. NoHistory \in [written : [{} -> Byte], paid : Nat, reused : BOOLEAN, wild : BOOLEAN, moved : BOOLEAN]
    BY <2>1 DEF NoHistory
  <2> QED BY <1>1, <2>1, <2>2 DEF History
<1>4. TypeOK
  BY <1>1, <1>3 DEF TypeOK, History
<1>5. CacheOK /\ JumpsOK /\ MemoryOK /\ ExecutesInstructions
  BY <1>1, <1>2 DEF CacheOK, JumpsOK, MemoryOK, ExecutesInstructions
<1>6. Life!Init
  BY <1>2 DEF Life!Init
<1> QED BY <1>4, <1>5, <1>6 DEF Inv

\* Every step keeps the invariant and is a step of a frame's life.
LEMMA NextKeeps ==
    ASSUME Inv, [Next]_vars
    PROVE  Inv' /\ LifeStep
<1>1. ASSUME UNCHANGED vars
      PROVE  Inv' /\ LifeStep
  <2>1. TypeOK' /\ CacheOK'
    BY <1>1 DEF vars, Inv, TypeOK, CacheOK, Depth
  <2>2. JumpsOK' /\ MemoryOK' /\ ExecutesInstructions'
    BY <1>1 DEF vars, Inv, JumpsOK, MemoryOK, ExecutesInstructions, Running
  <2>3. LifeStep
    BY <1>1 DEF vars, LifeStep
  <2> QED BY <2>1, <2>2, <2>3 DEF Inv
<1>2. CASE Acquire
  BY <1>2, AcquireKeeps
<1>3. CASE Release
  BY <1>3, ReleaseKeeps
<1>4. CASE Step
  <2>1. CASE OutOfGas \/ Underflow \/ Panic \/ OpStop \/ OpInvalid
    BY <2>1, PlainEndsKeep
  <2>2. CASE OpUnary
    BY <2>2, UnaryKeeps
  <2>3. CASE OpBinary
    BY <2>3, BinaryKeeps
  <2>4. CASE OpTernary
    BY <2>4, TernaryKeeps
  <2>5. CASE OpLoad
    BY <2>5, LoadKeeps
  <2>6. CASE OpPush
    BY <2>6, PushKeeps
  <2>7. CASE OpPop \/ OpJumpdest
    BY <2>7, PopKeeps
  <2>8. CASE OpDup
    BY <2>8, DupKeeps
  <2>9. CASE OpSwap
    BY <2>9, SwapKeeps
  <2>10. CASE OpJump
    BY <2>10, JumpKeeps
  <2>11. CASE OpMemory
    BY <2>11, MemoryKeeps
  <2>12. CASE OpSha3
    BY <2>12, Sha3Keeps
  <2>13. CASE OpCopy
    BY <2>13, CopyKeeps
  <2>14. CASE OpExt
    BY <2>14, ExtKeeps
  <2>15. CASE OpExtCodeCopy
    BY <2>15, ExtCodeCopyKeeps
  <2>16. CASE OpLogs
    BY <2>16, LogsKeep
  <2>17. CASE OpCall
    BY <2>17, CallKeeps
  <2>18. CASE OpReturn
    BY <2>18, ReturnKeeps
  <2> QED BY <1>4, <2>1, <2>2, <2>3, <2>4, <2>5, <2>6, <2>7, <2>8, <2>9, <2>10, <2>11, <2>12, <2>13,
             <2>14, <2>15, <2>16, <2>17, <2>18 DEF Step
<1>5. CASE Done
  BY <1>1, <1>5 DEF Done
<1> QED BY <1>1, <1>2, <1>3, <1>4, <1>5 DEF Next

-----------------------------------------------------------------------------
(***************************************************************************)
(* The theorems.                                                           *)
(***************************************************************************)
\* The inductive invariant holds of every run.
LEMMA Invariant == Spec => []Inv
<1>1. Init => Inv
  BY InitInv
<1>2. Inv /\ [Next]_vars => Inv'
  BY NextKeeps
<1> QED BY <1>1, <1>2, PTL DEF Spec

\* Whatever the code, the state of the interpreter keeps its type: the stack never
\* exceeds its array, every element of it is a word, gas stays a uint64 although
\* every price is subtracted from it, and the memory never exceeds its slice.
THEOREM Types == Spec => []TypeOK
<1>1. Inv => TypeOK
  BY DEF Inv
<1> QED BY <1>1, Invariant, PTL

\* Whatever the code, the program counter is never in the data of a PUSH, through
\* jumps, pushes, and jump destinations that an earlier frame cached.
THEOREM RunsInstructions == Spec => []ExecutesInstructions
<1>1. Inv => ExecutesInstructions
  BY DEF Inv
<1> QED BY <1>1, Invariant, PTL

\* Whatever the code, a frame finds in its memory what it wrote there, and zero
\* where it wrote nothing.
THEOREM ReadsBack == Spec => []MemoryReadsBack
<1>1. Inv => MemoryReadsBack
  <2> SUFFICES ASSUME Inv, Running
               PROVE  /\ \A i \in DOMAIN hist.written :
                            i < f.mem.len /\ f.mem.data[i + 1] = hist.written[i]
                      /\ ~ hist.reused /\ ~ hist.wild =>
                            \A i \in (0 .. (f.mem.len - 1)) \ DOMAIN hist.written : f.mem.data[i + 1] = 0
    BY DEF MemoryReadsBack
  <2>1. IsFrame
    BY FrameType
  <2>2. Recorded(f.mem, hist, hist.paid)
    BY <2>1 DEF IsFrame
  <2>3. f.mem.len \in Nat /\ Len(f.mem.data) \in Nat /\ f.mem.len <= Len(f.mem.data)
    <3>1. f.mem \in MemoryType /\ f.mem.len <= Len(f.mem.data)
      BY <2>1 DEF IsFrame, Sound
    <3>2. f.mem.len \in Nat /\ f.mem.data \in Seq(Byte)
      BY <3>1, Constants DEF MemoryType
    <3> QED BY <3>1, <3>2
  <2>4. ASSUME ~ hist.reused, ~ hist.wild, NEW i \in (0 .. (f.mem.len - 1)) \ DOMAIN hist.written
        PROVE  f.mem.data[i + 1] = 0
    <3>1. i + 1 \in 1 .. Len(f.mem.data) /\ (i + 1) - 1 = i
      BY <2>3
    <3> QED BY <2>2, <2>4, <3>1 DEF Recorded
  <2> QED BY <2>2, <2>4 DEF Recorded
<1> QED BY <1>1, Invariant, PTL

\* Whatever the code, memory is paid for.
THEOREM Paying == Spec => []MemoryIsPaid
<1>1. Inv => MemoryIsPaid
  BY DEF Inv, MemoryOK, Recorded, MemoryIsPaid
<1> QED BY <1>1, Invariant, PTL

\* Whatever the code, frames live as FrameLife says: gas is never gained, a frame
\* that fails has none left, and one that has ended does not run again.
THEOREM LivesAsAFrame == Spec => LivesLikeAFrame
<1>1. Init => Life!Init
  BY InitInv
<1>2. Inv /\ [Next]_vars => [Life!Next]_<<f.gas, f.err>>
  BY NextKeeps DEF LifeStep
<1> QED BY <1>1, <1>2, Invariant, PTL DEF Spec, LivesLikeAFrame, Life!Spec

-----------------------------------------------------------------------------
(***************************************************************************)
(* What the computing opcodes compute.                                     *)
(***************************************************************************)
\* The opcodes of op_arithmetic.go.
Computing == Unary \cup Binary \cup Ternary

\* The opcodes of the other actions compute nothing.
LEMMA OthersCompute ==
    /\ op \in Computing => op \notin LoadOps \cup EnvOps \cup SizeOps \cup PushOps \cup {"POP", "JUMPDEST"}
    /\ op \in Computing => op \notin DupOps \cup SwapOps \cup {"JUMP", "JUMPI"} \cup MemOps \cup {"SHA3"}
    /\ op \in Computing => op \notin CopyOps \cup ExtOps \cup {"EXTCODECOPY"} \cup LogOps \cup {"CALL"}
    /\ op \in Computing => op \notin {"STOP", "RETURN", "REVERT", "INVALID"}
<1>1. op \in Computing => op \notin LoadOps \cup EnvOps \cup SizeOps \cup PushOps \cup {"POP", "JUMPDEST"}
  BY DEF Computing, Unary, Binary, Ternary, LoadOps, EnvOps, SizeOps, PushOps
<1>2. op \in Computing => op \notin DupOps \cup SwapOps \cup {"JUMP", "JUMPI"} \cup MemOps \cup {"SHA3"}
  BY DEF Computing, Unary, Binary, Ternary, DupOps, SwapOps, MemOps
<1>3. op \in Computing => op \notin CopyOps \cup ExtOps \cup {"EXTCODECOPY"} \cup LogOps \cup {"CALL"}
  BY DEF Computing, Unary, Binary, Ternary, CopyOps, ExtOps, LogOps
<1>4. op \in Computing => op \notin {"STOP", "RETURN", "REVERT", "INVALID"}
  BY DEF Computing, Unary, Binary, Ternary
<1> QED BY <1>1, <1>2, <1>3, <1>4

\* A frame that goes on after a computing opcode has computed.
LEMMA OnlyComputing ==
    ASSUME Inv, [Next]_vars, At(Computing), f'.err = "running"
    PROVE  OpUnary \/ OpBinary \/ OpTernary \/ UNCHANGED vars
<1>1. op \in Computing /\ f.err = "running" /\ Running /\ f.pc < Len(f.code)
  BY DEF At, Running
<1>2. f \in Frame
  BY <1>1, FrameType DEF IsFrame
<1>3. \A err, gas, mem : Ends(err, gas, mem) => err = "running"
  BY <1>2 DEF Ends, Frame
<1>4. ~ Acquire /\ ~ Release
  <2>1. f # Idle
    BY <1>1 DEF Idle
  <2>2. ~ Release
    BY <1>1 DEF Release
  <2>3. \A slice, gas, mem : ~ Enter(slice, gas, mem)
    BY <2>1 DEF Enter
  <2> QED BY <2>2, <2>3 DEF Acquire
<1>5. ~ OutOfGas /\ ~ Underflow /\ ~ Panic
  BY <1>3 DEF OutOfGas, Underflow, Panic, Fails
<1>6. ~ OpLoad /\ ~ OpPush /\ ~ OpPop /\ ~ OpJumpdest
  BY <1>1, OthersCompute DEF OpLoad, OpPush, OpPop, OpJumpdest, Paid, At
<1>7. ~ OpDup /\ ~ OpSwap /\ ~ OpJump /\ ~ OpMemory /\ ~ OpSha3
  BY <1>1, OthersCompute DEF OpDup, OpSwap, OpJump, OpMemory, OpSha3, Paid, At
<1>8. ~ OpCopy /\ ~ OpExt /\ ~ OpExtCodeCopy /\ ~ OpLogs /\ ~ OpCall
  BY <1>1, OthersCompute DEF OpCopy, OpExt, OpExtCodeCopy, OpLogs, OpCall, Paid, At
<1>9. ~ OpStop /\ ~ OpReturn /\ ~ OpInvalid
  <2>1. ~ OpStop
    BY <1>3 DEF OpStop
  <2>2. ~ OpReturn /\ ~ OpInvalid
    BY <1>1, OthersCompute DEF OpReturn, OpInvalid, Paid, At
  <2> QED BY <2>1, <2>2
<1>10. Done => UNCHANGED vars
  BY DEF Done
<1> QED BY <1>4, <1>5, <1>6, <1>7, <1>8, <1>9, <1>10 DEF Next, Step

\* The stack on which n elements were replaced by one.
LEMMA Replaced ==
    ASSUME IsFrame, NEW n \in Nat, n >= 1, n <= Depth, NEW w \in Word, NEW gas,
           Computes(gas, Append(Below(n), w))
    PROVE  Len(f'.stack) = Depth - n + 1 /\ f'.stack[Depth - n + 1] = w
<1>1. Below(n) \in Seq(Word) /\ Len(Below(n)) = Depth - n
  BY StackType
<1>2. f \in Frame
  BY DEF IsFrame
<1>3. f'.stack = Append(Below(n), w)
  BY <1>2 DEF Computes, Goes, Frame
<1> HIDE DEF Below
<1> QED BY <1>1, <1>3

\* What an opcode with one operand leaves.
LEMMA UnaryLeaves ==
    ASSUME Inv, OpUnary
    PROVE  /\ Len(f'.stack) = Depth - 1 + 1
           /\ \A b, n : Reference(op, Back(0), b, n, f'.stack[Depth - 1 + 1])
<1>1. Paid(Unary) /\ Computes(left, Append(Below(1), ofUnary(op, Back(0))))
  BY DEF OpUnary
<1>2. IsFrame /\ op \in Unary /\ Depth >= ReadBack
  BY <1>1, PaidIs
<1>3. 1 <= Depth /\ Depth \in Nat /\ 0 < Depth
  BY <1>2, Operands DEF IsFrame
<1>4. PICK w : w = ofUnary(op, Back(0))
  OBVIOUS
<1>5. Back(0) \in Word /\ w \in Word
  BY <1>2, <1>3, <1>4, StackType, UnaryType
<1>6. Len(f'.stack) = Depth - 1 + 1 /\ f'.stack[Depth - 1 + 1] = w
  BY <1>1, <1>2, <1>3, <1>4, <1>5, Replaced
<1>7. \A b, n : Reference(op, Back(0), b, n, w)
  BY <1>2, <1>4, <1>5, UnaryComputes
<1> QED BY <1>6, <1>7

\* What an opcode with two operands leaves.
LEMMA BinaryLeaves ==
    ASSUME Inv, OpBinary
    PROVE  /\ Len(f'.stack) = Depth - 2 + 1
           /\ \A n : Reference(op, Back(0), Back(1), n, f'.stack[Depth - 2 + 1])
<1>1. Paid(Binary) /\ Computes(left, Append(Below(2), ofBinary(op, Back(0), Back(1))))
  BY DEF OpBinary
<1>2. IsFrame /\ op \in Binary /\ Depth >= ReadBack
  BY <1>1, PaidIs
<1>3. 2 <= Depth /\ Depth \in Nat /\ 0 < Depth /\ 1 < Depth
  BY <1>2, Operands DEF IsFrame
<1>4. PICK w : w = ofBinary(op, Back(0), Back(1))
  OBVIOUS
<1>5. Back(0) \in Word /\ Back(1) \in Word /\ w \in Word
  BY <1>2, <1>3, <1>4, StackType, BinaryType
<1>6. Len(f'.stack) = Depth - 2 + 1 /\ f'.stack[Depth - 2 + 1] = w
  BY <1>1, <1>2, <1>3, <1>4, <1>5, Replaced
<1>7. \A n : Reference(op, Back(0), Back(1), n, w)
  BY <1>2, <1>4, <1>5, BinaryComputes
<1> QED BY <1>6, <1>7

\* What an opcode with three operands leaves.
LEMMA TernaryLeaves ==
    ASSUME Inv, OpTernary
    PROVE  /\ Len(f'.stack) = Depth - 3 + 1
           /\ Reference(op, Back(0), Back(1), Back(2), f'.stack[Depth - 3 + 1])
<1>1. Paid(Ternary) /\ Computes(left, Append(Below(3), ofTernary(op, Back(0), Back(1), Back(2))))
  BY DEF OpTernary
<1>2. IsFrame /\ op \in Ternary /\ Depth >= ReadBack
  BY <1>1, PaidIs
<1>3. 3 <= Depth /\ Depth \in Nat /\ 0 < Depth /\ 1 < Depth /\ 2 < Depth
  BY <1>2, Operands DEF IsFrame
<1>4. PICK w : w = ofTernary(op, Back(0), Back(1), Back(2))
  OBVIOUS
<1>5. Back(0) \in Word /\ Back(1) \in Word /\ Back(2) \in Word /\ w \in Word
  BY <1>2, <1>3, <1>4, StackType, TernaryType
<1>6. Len(f'.stack) = Depth - 3 + 1 /\ f'.stack[Depth - 3 + 1] = w
  BY <1>1, <1>2, <1>3, <1>4, <1>5, Replaced
<1>7. Reference(op, Back(0), Back(1), Back(2), w)
  BY <1>2, <1>4, <1>5, TernaryComputes
<1> QED BY <1>6, <1>7

\* The action that ComputesReference quantifies, for one number of operands.
Computed(arity) ==
    At(CASE arity = 1 -> Unary [] arity = 2 -> Binary [] arity = 3 -> Ternary)
          /\ f'.err = "running" =>
       /\ Len(f'.stack) = Depth - arity + 1
       /\ Reference(op, Back(0), IF arity > 1 THEN Back(1) ELSE 0,
                    IF arity > 2 THEN Back(2) ELSE 0, f'.stack[Depth - arity + 1])

\* Every step computes what it is meant to.
LEMMA StepComputes ==
    ASSUME Inv, [Next]_vars, ~ UNCHANGED vars
    PROVE  \A arity \in 1 .. 3 : Computed(arity)
<1>1. Computed(1)
  <2> SUFFICES ASSUME At(Unary), f'.err = "running"
               PROVE  /\ Len(f'.stack) = Depth - 1 + 1
                      /\ Reference(op, Back(0), 0, 0, f'.stack[Depth - 1 + 1])
    BY DEF Computed
  <2>1. OpUnary
    <3>1. At(Computing) /\ op \in Unary
      BY DEF At, Computing
    <3>2. op \notin Binary /\ op \notin Ternary
      BY <3>1 DEF Unary, Binary, Ternary
    <3> QED BY <3>1, <3>2, OnlyComputing DEF OpBinary, OpTernary, Paid, At
  <2> QED BY <2>1, UnaryLeaves
<1>2. Computed(2)
  <2> SUFFICES ASSUME At(Binary), f'.err = "running"
               PROVE  /\ Len(f'.stack) = Depth - 2 + 1
                      /\ Reference(op, Back(0), Back(1), 0, f'.stack[Depth - 2 + 1])
    BY DEF Computed
  <2>1. OpBinary
    <3>1. At(Computing) /\ op \in Binary
      BY DEF At, Computing
    <3>2. op \notin Unary /\ op \notin Ternary
      BY <3>1 DEF Unary, Binary, Ternary
    <3> QED BY <3>1, <3>2, OnlyComputing DEF OpUnary, OpTernary, Paid, At
  <2> QED BY <2>1, BinaryLeaves
<1>3. Computed(3)
  <2> SUFFICES ASSUME At(Ternary), f'.err = "running"
               PROVE  /\ Len(f'.stack) = Depth - 3 + 1
                      /\ Reference(op, Back(0), Back(1), Back(2), f'.stack[Depth - 3 + 1])
    BY DEF Computed
  <2>1. OpTernary
    <3>1. At(Computing) /\ op \in Ternary
      BY DEF At, Computing
    <3>2. op \notin Unary /\ op \notin Binary
      BY <3>1 DEF Unary, Binary, Ternary
    <3> QED BY <3>1, <3>2, OnlyComputing DEF OpUnary, OpBinary, Paid, At
  <2> QED BY <2>1, TernaryLeaves
<1>4. 1 .. 3 = {1, 2, 3}
  OBVIOUS
<1> QED BY <1>1, <1>2, <1>3, <1>4

\* Whatever the code, every opcode of op_arithmetic.go leaves in place of its operands
\* what the EVM means by it, for words of every size.
THEOREM ComputesAsMeant == Spec => ComputesReference
<1>1. Inv /\ [Next]_vars => [\A arity \in 1 .. 3 : Computed(arity)]_vars
  BY StepComputes
<1> QED BY <1>1, Invariant, PTL DEF Spec, ComputesReference, Computed
=============================================================================
