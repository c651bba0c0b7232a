------------------------------ MODULE EVMProofs -----------------------------
(***************************************************************************)
(* Proofs about the EVM, for every value of its constants: any addresses,  *)
(* gas prices, call depth and number of transactions.  First the inductive *)
(* invariant; then what each step does to the active frames, and from that *)
(* the theorems about failed frames, gas, termination and the trace; at    *)
(* last the sum of all balances.                                           *)
(***************************************************************************)
EXTENDS EVM, JournalProofs, FiniteSetTheorems

(***************************************************************************)
(* The inductive strengthening of FailedFrameRestores and                  *)
(* OldAccountsSurvive.                                                     *)
(***************************************************************************)
\* Of an address that no creation replaced, the journal is a faithful record, and
\* it can return to the database in which each active frame began.
FramesRestorable ==
    \A c \in {x \in Cell : x.addr \notin tainted} :
        /\ Faithful(db, c)
        /\ \A i \in DOMAIN frames :
              ReturnsTo(db, db.snapshots[frames[i].snap], c, Read(frames[i].pre, c))

\* Between transactions no frame is active and no snapshot is live, and what is
\* left in the journal, of a tip or of a rejected transaction, can do no harm.
QuietBetween ==
    tx = NoTx =>
        /\ db.snapshots = << >>
        /\ \A k \in 1 .. Len(db.journal) : db.journal[k].kind \in {"balance", "nonce"}
        /\ \A c \in Cell : Faithful(db, c)

\* Where the call stack of Execute is.
PhasesMatch ==
    /\ tx.phase # "running" => frames = << >>
    /\ tx.phase = "running" => tx.gasLeft = 0 /\ IntrinsicGas(tx.msg) <= tx.msg.gas

\* An account that held something before the transaction.
Held(a) == tx.before[a] \notin {NoAccount, EmptyAccount}

\* Nothing in the journal can delete the account of a.
Safe(d, a) ==
    /\ Exists(d, a)
    /\ \A k \in 1 .. Len(d.journal) :
          d.journal[k].addr = a => d.journal[k].kind \notin {"create", "suicide"}

\* The journal can return to where the transaction began, which is older than every
\* snapshot, and knows of no creation or self-destruct of what existed then.
HeldAreSafe ==
    tx # NoTx =>
        /\ \E n \in 0 .. Len(db.journal) :
              /\ \A i \in 1 .. Len(db.snapshots) : n <= db.snapshots[i]
              /\ \A c \in {x \in AccountCell : x.addr \notin tainted} :
                    ReturnsTo(db, n, c, Read([db EXCEPT !.accounts = tx.before], c))
        /\ \A a \in Addr \ tainted : Held(a) => Safe(db, a)

\* The inductive invariant: however calls and creations nest and end, what they
\* have to give back when they fail is in the journal.
Revertible ==
    /\ Nested(db) /\ SnapshotsMatchFrames
    /\ SuicideRecorded(db) /\ CreationRecorded(db)
    /\ FramesRestorable
    /\ QuietBetween
    /\ PhasesMatch
    /\ HeldAreSafe
-----------------------------------------------------------------------------
(***************************************************************************)
(* Growth of the database: what every operation but the end of a failed    *)
(* frame does to it.  Grows(d, d2, T, X): d2 comes from d by operations    *)
(* that only add to the journal and the snapshots and give back what they  *)
(* undo, except at the addresses in T, and that create or destroy only     *)
(* accounts of addresses in X.                                             *)
(***************************************************************************)
Grows(d, d2, T, X) ==
    /\ d2 \in DB
    /\ Len(d.journal) <= Len(d2.journal)
    /\ \A k \in 1 .. Len(d.journal) : d2.journal[k] = d.journal[k]
    /\ Len(d.snapshots) <= Len(d2.snapshots)
    /\ \A i \in 1 .. Len(d.snapshots) : d2.snapshots[i] = d.snapshots[i]
    /\ \A i \in (Len(d.snapshots) + 1) .. Len(d2.snapshots) : Len(d.journal) <= d2.snapshots[i]
    /\ Nested(d) => Nested(d2)
    /\ \A c \in Cell : c.addr \notin T /\ Faithful(d, c) =>
          /\ Faithful(d2, c)
          /\ \A v : \A n \in 0 .. Len(d.journal) : ReturnsTo(d, n, c, v) => ReturnsTo(d2, n, c, v)
    /\ SuicideRecorded(d) => SuicideRecorded(d2)
    /\ CreationRecorded(d) => CreationRecorded(d2)
    /\ \A a \in Addr \ X : Safe(d, a) => Safe(d2, a)

\* The lengths of journal and snapshots.
LEMMA Lengths ==
    ASSUME NEW d \in DB
    PROVE  /\ d.journal \in Seq(JournalEntry) /\ Len(d.journal) \in Nat
           /\ d.snapshots \in Seq(Nat) /\ Len(d.snapshots) \in Nat
           /\ \A i \in 1 .. Len(d.snapshots) : d.snapshots[i] \in Nat
BY DEF DB

\* Growth is transitive.
LEMMA GrowsTrans ==
    ASSUME NEW d \in DB, NEW d2 \in DB, NEW d3 \in DB, NEW T, NEW X,
           Grows(d, d2, T, X), Grows(d2, d3, T, X)
    PROVE  Grows(d, d3, T, X)
<1>1. /\ Len(d.journal) \in Nat /\ Len(d2.journal) \in Nat /\ Len(d3.journal) \in Nat
      /\ Len(d.snapshots) \in Nat /\ Len(d2.snapshots) \in Nat /\ Len(d3.snapshots) \in Nat
      /\ \A i \in 1 .. Len(d3.snapshots) : d3.snapshots[i] \in Nat
  BY Lengths
<1>2. /\ Len(d.journal) <= Len(d2.journal) /\ Len(d2.journal) <= Len(d3.journal)
      /\ Len(d.snapshots) <= Len(d2.snapshots) /\ Len(d2.snapshots) <= Len(d3.snapshots)
  BY DEF Grows
<1>3. /\ \A k \in 1 .. Len(d.journal) : d2.journal[k] = d.journal[k]
      /\ \A k \in 1 .. Len(d2.journal) : d3.journal[k] = d2.journal[k]
      /\ \A i \in 1 .. Len(d.snapshots) : d2.snapshots[i] = d.snapshots[i]
      /\ \A i \in 1 .. Len(d2.snapshots) : d3.snapshots[i] = d2.snapshots[i]
      /\ \A i \in (Len(d.snapshots) + 1) .. Len(d2.snapshots) : Len(d.journal) <= d2.snapshots[i]
      /\ \A i \in (Len(d2.snapshots) + 1) .. Len(d3.snapshots) : Len(d2.journal) <= d3.snapshots[i]
  BY DEF Grows
<1>4. /\ \A k \in 1 .. Len(d.journal) : d3.journal[k] = d.journal[k]
      /\ \A i \in 1 .. Len(d.snapshots) : d3.snapshots[i] = d.snapshots[i]
  <2>1. /\ \A k \in 1 .. Len(d.journal) : k \in 1 .. Len(d2.journal)
        /\ \A i \in 1 .. Len(d.snapshots) : i \in 1 .. Len(d2.snapshots)
    BY <1>1, <1>2
  <2> QED BY <1>3, <2>1
<1>5. ASSUME NEW i \in (Len(d.snapshots) + 1) .. Len(d3.snapshots)
      PROVE  Len(d.journal) <= d3.snapshots[i]
  <2>1. CASE i <= Len(d2.snapshots)
    <3>1. i \in (Len(d.snapshots) + 1) .. Len(d2.snapshots) /\ i \in 1 .. Len(d2.snapshots)
      BY <1>1, <2>1
    <3> QED BY <1>3, <3>1
  <2>2. CASE ~ (i <= Len(d2.snapshots))
    <3>1. i \in (Len(d2.snapshots) + 1) .. Len(d3.snapshots) /\ i \in 1 .. Len(d3.snapshots)
      BY <1>1, <2>2
    <3>2. Len(d2.journal) <= d3.snapshots[i] /\ d3.snapshots[i] \in Nat
      BY <1>1, <1>3, <3>1
    <3> QED BY <1>1, <1>2, <3>2
  <2> QED BY <2>1, <2>2
<1>6. ASSUME NEW c \in Cell, c.addr \notin T, Faithful(d, c)
      PROVE  /\ Faithful(d3, c)
             /\ \A v : \A n \in 0 .. Len(d.journal) : ReturnsTo(d, n, c, v) => ReturnsTo(d3, n, c, v)
  <2>0. Faithful(d2, c)
    BY <1>6 DEF Grows
  <2>1. Faithful(d3, c)
    BY <1>6, <2>0 DEF Grows
  <2>2. ASSUME NEW v, NEW n \in 0 .. Len(d.journal), ReturnsTo(d, n, c, v)
        PROVE  ReturnsTo(d3, n, c, v)
    <3>1. ReturnsTo(d2, n, c, v)
      BY <1>6, <2>2 DEF Grows
    <3>2. n \in 0 .. Len(d2.journal)
      BY <1>1, <1>2
    <3> QED BY <1>6, <2>0, <3>1, <3>2 DEF Grows
  <2> QED BY <2>1, <2>2
<1>7. /\ Nested(d) => Nested(d3)
      /\ SuicideRecorded(d) => SuicideRecorded(d3)
      /\ CreationRecorded(d) => CreationRecorded(d3)
      /\ \A a \in Addr \ X : Safe(d, a) => Safe(d3, a)
  BY DEF Grows
<1>8. Len(d.journal) <= Len(d3.journal) /\ Len(d.snapshots) <= Len(d3.snapshots)
  BY <1>1, <1>2
<1> QED BY <1>4, <1>5, <1>6, <1>7, <1>8 DEF Grows

\* An operation on access lists, logs or the refund counter.
LEMMA QuietGrows ==
    ASSUME NEW d \in DB, NEW d2 \in DB, NEW T, NEW X,
           d2.journal = d.journal, d2.snapshots = d.snapshots,
           d2.accounts = d.accounts, d2.storage = d.storage, d2.createdInTx = d.createdInTx
    PROVE  Grows(d, d2, T, X)
<1>1. /\ Len(d.journal) \in Nat /\ Len(d.snapshots) \in Nat
  BY Lengths
<1>2. /\ \A a : getOrCreate(d2, a) = getOrCreate(d, a) /\ Exists(d2, a) = Exists(d, a)
      /\ \A c \in Cell : Read(d2, c) = Read(d, c)
  BY SameReads
<1>3. ASSUME NEW c \in Cell
      PROVE  /\ Faithful(d, c) => Faithful(d2, c)
             /\ \A v : \A n \in 0 .. Len(d.journal) : ReturnsTo(d, n, c, v) => ReturnsTo(d2, n, c, v)
  BY <1>2, SameRecord
<1>4. Nested(d) => Nested(d2)
  BY DEF Nested
<1>5. SuicideRecorded(d) => SuicideRecorded(d2)
  BY <1>2, SameSuicides DEF HasSuicided
<1>6. CreationRecorded(d) => CreationRecorded(d2)
  BY DEF CreationRecorded
<1>7. \A a : Safe(d, a) => Safe(d2, a)
  BY <1>2 DEF Safe
<1>8. \A i \in (Len(d.snapshots) + 1) .. Len(d2.snapshots) : FALSE
  BY <1>1
<1> QED BY <1>1, <1>3, <1>4, <1>5, <1>6, <1>7, <1>8 DEF Grows

\* Taking a snapshot.
LEMMA SnapshotGrows ==
    ASSUME NEW d \in DB, NEW T, NEW X
    PROVE  /\ Snapshot(d) \in DB /\ Grows(d, Snapshot(d), T, X)
           /\ Snapshot(d).snapshots = Append(d.snapshots, Len(d.journal))
           /\ Snapshot(d).journal = d.journal
           /\ \A c \in Cell : Read(Snapshot(d), c) = Read(d, c)
           /\ \A a : getOrCreate(Snapshot(d), a) = getOrCreate(d, a)
<1> DEFINE d2 == Snapshot(d)
<1> DEFINE m == Len(d.snapshots)
<1>1. /\ Len(d.journal) \in Nat /\ m \in Nat /\ d.snapshots \in Seq(Nat)
      /\ \A i \in 1 .. m : d.snapshots[i] \in Nat
  BY Lengths
<1>2. /\ d2 \in DB /\ d2.journal = d.journal /\ d2.accounts = d.accounts /\ d2.storage = d.storage
      /\ d2.createdInTx = d.createdInTx
      /\ d2.snapshots = Append(d.snapshots, Len(d.journal))
  <2>1. d2 \in DB
    BY OtherOpsType
  <2> QED BY <2>1 DEF Snapshot, DB
<1>3. /\ Len(d2.snapshots) = m + 1 /\ d2.snapshots[m + 1] = Len(d.journal)
      /\ \A i \in 1 .. m : d2.snapshots[i] = d.snapshots[i]
  BY <1>1, <1>2
<1>4. /\ \A a : getOrCreate(d2, a) = getOrCreate(d, a) /\ Exists(d2, a) = Exists(d, a)
      /\ \A c \in Cell : Read(d2, c) = Read(d, c)
  BY <1>2, SameReads
<1> HIDE DEF m, d2
<1>5. ASSUME NEW c \in Cell
      PROVE  /\ Faithful(d, c) => Faithful(d2, c)
             /\ \A v : \A n \in 0 .. Len(d.journal) : ReturnsTo(d, n, c, v) => ReturnsTo(d2, n, c, v)
  BY <1>2, <1>4, SameRecord
<1>6. ASSUME Nested(d)
      PROVE  Nested(d2)
  <2>1. /\ \A i \in 1 .. m : d.snapshots[i] <= Len(d.journal)
        /\ \A i, j \in 1 .. m : i <= j => d.snapshots[i] <= d.snapshots[j]
    BY <1>6 DEF Nested, m
  <2>2. ASSUME NEW i \in 1 .. (m + 1)
        PROVE  d2.snapshots[i] <= Len(d.journal) /\ (i = m + 1 \/ i \in 1 .. m)
    <3>1. i = m + 1 \/ i \in 1 .. m
      BY <1>1
    <3> QED BY <1>1, <1>3, <2>1, <3>1
  <2>3. ASSUME NEW i \in 1 .. (m + 1), NEW j \in 1 .. (m + 1), i <= j
        PROVE  d2.snapshots[i] <= d2.snapshots[j]
    <3>1. CASE j = m + 1
      BY <1>3, <2>2, <3>1
    <3>2. CASE j # m + 1
      <4>1. i \in 1 .. m /\ j \in 1 .. m
        BY <1>1, <2>3, <3>2
      <4> QED BY <1>3, <2>1, <2>3, <4>1
    <3> QED BY <3>1, <3>2
  <2> QED BY <1>2, <1>3, <2>2, <2>3 DEF Nested
<1>7. SuicideRecorded(d) => SuicideRecorded(d2)
  BY <1>2, <1>4, SameSuicides DEF HasSuicided
<1>8. CreationRecorded(d) => CreationRecorded(d2)
  BY <1>2 DEF CreationRecorded
<1>9. \A a : Safe(d, a) => Safe(d2, a)
  BY <1>2, <1>4 DEF Safe
<1>10. \A i \in (m + 1) .. (m + 1) : Len(d.journal) <= d2.snapshots[i]
  BY <1>1, <1>3
<1>11. Grows(d, d2, T, X)
  BY <1>1, <1>2, <1>3, <1>5, <1>6, <1>7, <1>8, <1>9, <1>10 DEF Grows, m
<1> QED BY <1>2, <1>4, <1>11 DEF d2

\* A journaled write that creates no account, and destroys none outside X.
LEMMA LoggedGrows ==
    ASSUME NEW d \in DB, NEW d2 \in DB, NEW T, NEW X, NEW e \in JournalEntry \ JCreate,
           Logs(d, d2, e), e.kind = "suicide" => e.addr \in X
    PROVE  Grows(d, d2, T, X) /\ d2.snapshots = d.snapshots
<1> DEFINE m == Len(d.journal)
<1>1. /\ m \in Nat /\ Len(d2.journal) = m + 1 /\ d2.journal[m + 1] = e
      /\ \A k \in 1 .. m : d2.journal[k] = d.journal[k]
      /\ d2.snapshots = d.snapshots
  BY LoggedJournal
<1>2. e.kind # "create" /\ e \in JournalEntry /\ e \notin JCreate
  BY DEF JournalEntry, JBalance, JNonce, JCode, JStorage, JCreate, JSuicide
<1>3. \A c : ~ Resets(e, c)
  BY <1>2 DEF Resets
<1>4. /\ Len(d.snapshots) \in Nat /\ \A i \in 1 .. Len(d.snapshots) : d.snapshots[i] \in Nat
  BY Lengths
<1>5. ASSUME NEW c \in Cell
      PROVE  /\ Faithful(d, c) => Faithful(d2, c)
             /\ \A v : \A n \in 0 .. Len(d.journal) : ReturnsTo(d, n, c, v) => ReturnsTo(d2, n, c, v)
  BY <1>3, LoggedFaithful, LoggedReturns
<1>6. SuicideRecorded(d) => SuicideRecorded(d2)
  BY <1>2, LoggedSuicides
<1> HIDE DEF m
<1>7. ASSUME CreationRecorded(d), NEW a \in d2.createdInTx
      PROVE  \E k \in 1 .. (m + 1) : Creates(d2.journal[k], a)
  <2> DEFINE c == [addr |-> a, field |-> "created"]
  <2>1. a \in Addr
    BY DEF DB
  <2>2. c \in Cell /\ Read(d, c) = CreatedInTx(d, a) /\ Read(d2, c) = CreatedInTx(d2, a)
    BY <2>1 DEF Cell, CreatedCell, Read
  <2>3. ~ Records(e, c)
    BY DEF Records, JournalEntry, JBalance, JNonce, JCode, JStorage, JCreate, JSuicide
  <2> HIDE DEF c
  <2>4. Read(d2, c) = Read(d, c)
    BY <1>3, <2>2, <2>3 DEF Logs, Touches
  <2>5. a \in d.createdInTx
    BY <2>2, <2>4 DEF CreatedInTx
  <2>6. PICK k \in 1 .. m : Creates(d.journal[k], a)
    BY <1>7, <2>5 DEF CreationRecorded, m
  <2>7. k \in 1 .. (m + 1) /\ d2.journal[k] = d.journal[k]
    BY <1>1
  <2> QED BY <2>6, <2>7
<1>8. CreationRecorded(d) => CreationRecorded(d2)
  BY <1>1, <1>7 DEF CreationRecorded
<1>9. ASSUME NEW a \in Addr \ X, Safe(d, a)
      PROVE  Safe(d2, a)
  <2>1. Exists(d2, a)
    BY <1>9 DEF Safe, Logs
  <2>2. ASSUME NEW k \in 1 .. (m + 1), d2.journal[k].addr = a
        PROVE  d2.journal[k].kind \notin {"create", "suicide"}
    <3>1. k \in 1 .. m \/ k = m + 1
      BY <1>1
    <3>2. CASE k \in 1 .. m
      BY <1>1, <1>9, <2>2, <3>2 DEF Safe, m
    <3>3. CASE k = m + 1
      BY <1>1, <1>2, <2>2, <3>3
    <3> QED BY <3>1, <3>2, <3>3
  <2> QED BY <1>1, <2>1, <2>2 DEF Safe
<1>10. Nested(d) => Nested(d2)
  BY <1>1, <1>4 DEF Nested, m
<1>11. \A i \in (Len(d.snapshots) + 1) .. Len(d2.snapshots) : FALSE
  BY <1>1, <1>4
<1> QED BY <1>1, <1>4, <1>5, <1>6, <1>8, <1>9, <1>10, <1>11 DEF Grows, m

\* The setters, with any amounts.
LEMMA SettersGrow ==
    ASSUME NEW d \in DB, NEW a \in Addr, NEW T, NEW X
    PROVE  /\ \A val \in Word : LET d2 == SetBalance(d, a, val)
                                IN  d2 \in DB /\ Grows(d, d2, T, X) /\ d2.snapshots = d.snapshots
           /\ \A amount \in Int : LET d2 == AddBalance(d, a, amount)
                                  IN  d2 \in DB /\ Grows(d, d2, T, X) /\ d2.snapshots = d.snapshots
           /\ \A amount \in Int : LET d2 == SubBalance(d, a, amount)
                                  IN  d2 \in DB /\ Grows(d, d2, T, X) /\ d2.snapshots = d.snapshots
           /\ \A nonce \in Nat : LET d2 == SetNonce(d, a, nonce)
                                 IN  d2 \in DB /\ Grows(d, d2, T, X) /\ d2.snapshots = d.snapshots
           /\ \A code \in Code : LET d2 == SetCode(d, a, code)
                                 IN  d2 \in DB /\ Grows(d, d2, T, X) /\ d2.snapshots = d.snapshots
           /\ \A s \in Slot, value \in Val :
                 LET d2 == SetStorage(d, a, s, value)
                 IN  d2 \in DB /\ Grows(d, d2, T, X) /\ d2.snapshots = d.snapshots
           /\ a \in X => LET d2 == Suicide(d, a)
                         IN  d2 \in DB /\ Grows(d, d2, T, X) /\ d2.snapshots = d.snapshots
<1>1. ASSUME NEW val \in Word
      PROVE  /\ SetBalance(d, a, val) \in DB /\ Grows(d, SetBalance(d, a, val), T, X)
             /\ SetBalance(d, a, val).snapshots = d.snapshots
  <2>1. PICK e \in JournalEntry \ JCreate :
           Logs(d, SetBalance(d, a, val), e) /\ e.kind = "balance"
    BY SettersWrite
  <2>2. SetBalance(d, a, val) \in DB
    BY SettersType
  <2> QED BY <2>1, <2>2, LoggedGrows
<1>2. ASSUME NEW amount \in Int
      PROVE  /\ (GetBalance(d, a) + amount) % WordMod \in Word
             /\ (GetBalance(d, a) - amount) % WordMod \in Word
  <2>1. GetBalance(d, a) \in Word
    BY GetOrCreateType DEF GetBalance, Account
  <2> QED BY <2>1, StateAssumption DEF Word
<1>3. ASSUME NEW nonce \in Nat
      PROVE  /\ SetNonce(d, a, nonce) \in DB /\ Grows(d, SetNonce(d, a, nonce), T, X)
             /\ SetNonce(d, a, nonce).snapshots = d.snapshots
  <2>1. PICK e \in JournalEntry \ JCreate : Logs(d, SetNonce(d, a, nonce), e) /\ e.kind = "nonce"
    BY SettersWrite
  <2>2. SetNonce(d, a, nonce) \in DB
    BY SettersType
  <2> QED BY <2>1, <2>2, LoggedGrows
<1>4. ASSUME NEW code \in Code
      PROVE  /\ SetCode(d, a, code) \in DB /\ Grows(d, SetCode(d, a, code), T, X)
             /\ SetCode(d, a, code).snapshots = d.snapshots
  <2>1. PICK e \in JournalEntry \ JCreate : Logs(d, SetCode(d, a, code), e) /\ e.kind = "code"
    BY SettersWrite
  <2>2. SetCode(d, a, code) \in DB
    BY SettersType
  <2> QED BY <2>1, <2>2, LoggedGrows
<1>5. ASSUME NEW s \in Slot, NEW value \in Val
      PROVE  /\ SetStorage(d, a, s, value) \in DB /\ Grows(d, SetStorage(d, a, s, value), T, X)
             /\ SetStorage(d, a, s, value).snapshots = d.snapshots
  <2>1. PICK e \in JournalEntry \ JCreate :
           Logs(d, SetStorage(d, a, s, value), e) /\ e.kind = "storage"
    BY SettersWrite
  <2>2. SetStorage(d, a, s, value) \in DB
    BY StorageType
  <2> QED BY <2>1, <2>2, LoggedGrows
<1>6. ASSUME a \in X
      PROVE  /\ Suicide(d, a) \in DB /\ Grows(d, Suicide(d, a), T, X)
             /\ Suicide(d, a).snapshots = d.snapshots
  <2>1. PICK e \in JournalEntry \ JCreate : Logs(d, Suicide(d, a), e) /\ e.addr = a
    BY SettersWrite
  <2>2. Suicide(d, a) \in DB
    BY SettersType
  <2> QED BY <1>6, <2>1, <2>2, LoggedGrows
<1> QED BY <1>1, <1>2, <1>3, <1>4, <1>5, <1>6 DEF AddBalance, SubBalance

\* Creating an account; unless its address is in T, the journal must not know the
\* address and it must hold nothing.
LEMMA CreateGrows ==
    ASSUME NEW d \in DB, NEW a \in Addr, NEW T, NEW X, a \in X,
           a \notin T => /\ getOrCreate(d, a) = EmptyAccount /\ ~ CreatedInTx(d, a)
                         /\ \A k \in 1 .. Len(d.journal) : d.journal[k].addr # a
    PROVE  LET d2 == CreateAccount(d, a)
           IN  d2 \in DB /\ Grows(d, d2, T, X) /\ d2.snapshots = d.snapshots
<1> DEFINE d2 == CreateAccount(d, a)
<1> DEFINE m == Len(d.journal)
<1> DEFINE e == [kind |-> "create", addr |-> a]
<1>0. e \in JournalEntry /\ Logs(d, d2, e) /\ d2 \in DB /\ e.kind = "create" /\ e.addr = a /\ ~ HasSuicided(d2, a)
  BY CreateLogs, SettersType, CreateSuicides
<1>a. d2.createdInTx = d.createdInTx \cup {a}
  BY DEF CreateAccount, Journaled, DB
<1> HIDE DEF e, d2
<1>1. /\ m \in Nat /\ Len(d2.journal) = m + 1 /\ d2.journal[m + 1] = e
      /\ \A k \in 1 .. m : d2.journal[k] = d.journal[k]
      /\ d2.snapshots = d.snapshots
  BY <1>0, LoggedJournal
<1>2. /\ Len(d.snapshots) \in Nat /\ \A i \in 1 .. Len(d.snapshots) : d.snapshots[i] \in Nat
  BY Lengths
<1>3. ASSUME NEW c \in Cell, c.addr \notin T, Resets(e, c)
      PROVE  Read(d, c) = Default(c) /\ ~ Recorded(d, c)
  <2>1. c.addr = a /\ c.field # "storage"
    BY <1>0, <1>3 DEF Resets
  <2>2. getOrCreate(d, a) = EmptyAccount /\ ~ CreatedInTx(d, a)
    BY <1>3, <2>1
  <2>3. ~ Recorded(d, c)
    BY <1>3, <2>1 DEF Recorded, Records
  <2>4. CASE c.field = "created"
    <3>1. Read(d, c) = CreatedInTx(d, a) /\ Default(c) = FALSE
      BY <2>1, <2>4 DEF Read, Default
    <3>2. CreatedInTx(d, a) = FALSE
      BY <2>2 DEF CreatedInTx
    <3> QED BY <2>3, <3>1, <3>2
  <2>5. CASE c.field # "created"
    <3>1. c.field \in {"balance", "nonce", "code", "suicide"}
      BY <2>1, <2>5 DEF Cell, AccountCell, AccountField, CreatedCell, StorageCell
    <3>2. /\ EmptyAccount.balance = 0 /\ EmptyAccount.nonce = 0 /\ EmptyAccount.code = NoCode
          /\ EmptyAccount.suicide = FALSE
      BY DEF EmptyAccount
    <3>3. CASE c.field = "balance"
      BY <2>1, <2>2, <2>3, <3>2, <3>3 DEF Read, Default, GetBalance
    <3>4. CASE c.field = "nonce"
      BY <2>1, <2>2, <2>3, <3>2, <3>4 DEF Read, Default, GetNonce
    <3>5. CASE c.field = "code"
      BY <2>1, <2>2, <2>3, <3>2, <3>5 DEF Read, Default, GetCode
    <3>6. CASE c.field = "suicide"
      BY <2>1, <2>2, <2>3, <3>2, <3>6 DEF Read, Default, HasSuicided
    <3> QED BY <3>1, <3>3, <3>4, <3>5, <3>6
  <2> QED BY <2>4, <2>5
<1>4. ASSUME NEW c \in Cell, c.addr \notin T
      PROVE  /\ Faithful(d, c) => Faithful(d2, c)
             /\ \A v : \A n \in 0 .. Len(d.journal) : ReturnsTo(d, n, c, v) => ReturnsTo(d2, n, c, v)
  BY <1>0, <1>3, <1>4, LoggedFaithful, LoggedReturns
<1>5. SuicideRecorded(d) => SuicideRecorded(d2)
  BY <1>0, LoggedSuicides
<1> HIDE DEF m
<1>6. ASSUME CreationRecorded(d), NEW b \in d2.createdInTx
      PROVE  \E k \in 1 .. (m + 1) : Creates(d2.journal[k], b)
  <2>1. CASE b = a
    <3>1. m + 1 \in 1 .. (m + 1) /\ Creates(d2.journal[m + 1], b)
      BY <1>0, <1>1, <2>1 DEF Creates
    <3> QED BY <3>1
  <2>2. CASE b # a
    <3>1. PICK k \in 1 .. m : Creates(d.journal[k], b)
      BY <1>a, <1>6, <2>2 DEF CreationRecorded, m
    <3>2. k \in 1 .. (m + 1) /\ d2.journal[k] = d.journal[k]
      BY <1>1
    <3> QED BY <3>1, <3>2
  <2> QED BY <2>1, <2>2
<1>7. CreationRecorded(d) => CreationRecorded(d2)
  BY <1>1, <1>6 DEF CreationRecorded
<1>8. ASSUME NEW b \in Addr \ X, Safe(d, b)
      PROVE  Safe(d2, b)
  <2>1. Exists(d2, b)
    BY <1>0, <1>8 DEF Safe, Logs
  <2>2. ASSUME NEW k \in 1 .. (m + 1), d2.journal[k].addr = b
        PROVE  d2.journal[k].kind \notin {"create", "suicide"}
    <3>1. k \in 1 .. m \/ k = m + 1
      BY <1>1
    <3>2. CASE k \in 1 .. m
      BY <1>1, <1>8, <2>2, <3>2 DEF Safe, m
    <3>3. CASE k = m + 1
      BY <1>0, <1>1, <2>2, <3>3
    <3> QED BY <3>1, <3>2, <3>3
  <2> QED BY <1>1, <2>1, <2>2 DEF Safe
<1>9. Nested(d) => Nested(d2)
  BY <1>1, <1>2 DEF Nested, m
<1>10. \A i \in (Len(d.snapshots) + 1) .. Len(d2.snapshots) : FALSE
  BY <1>1, <1>2
<1>11. Grows(d, d2, T, X)
  BY <1>0, <1>1, <1>2, <1>4, <1>5, <1>7, <1>8, <1>9, <1>10 DEF Grows, m
<1> QED BY <1>0, <1>1, <1>11 DEF d2

\* Warming an address or a slot, a log, a refund.
LEMMA QuietOpsGrow ==
    ASSUME NEW d \in DB, NEW T, NEW X
    PROVE  /\ \A a \in Addr : LET d2 == WarmAddress(d, a)
                              IN  /\ d2 \in DB /\ Grows(d, d2, T, X) /\ d2.snapshots = d.snapshots
                                  /\ d2.journal = d.journal
                                  /\ \A b : getOrCreate(d2, b) = getOrCreate(d, b)
                                  /\ \A c \in Cell : Read(d2, c) = Read(d, c)
           /\ \A a \in Addr, s \in Slot :
                 LET d2 == WarmSlot(d, a, s)
                 IN  d2 \in DB /\ Grows(d, d2, T, X) /\ d2.snapshots = d.snapshots
           /\ \A a \in Addr : LET d2 == AddLog(d, a)
                              IN  d2 \in DB /\ Grows(d, d2, T, X) /\ d2.snapshots = d.snapshots
           /\ \A gas \in Nat : LET d2 == AddRefund(d, gas)
                               IN  d2 \in DB /\ Grows(d, d2, T, X) /\ d2.snapshots = d.snapshots
<1>1. ASSUME NEW a \in Addr
      PROVE  /\ WarmAddress(d, a) \in DB /\ Grows(d, WarmAddress(d, a), T, X)
             /\ WarmAddress(d, a).snapshots = d.snapshots /\ WarmAddress(d, a).journal = d.journal
             /\ \A b : getOrCreate(WarmAddress(d, a), b) = getOrCreate(d, b)
             /\ \A c \in Cell : Read(WarmAddress(d, a), c) = Read(d, c)
  <2> DEFINE d2 == WarmAddress(d, a)
  <2>0. d2 \in DB
    BY OtherOpsType
  <2>1. /\ d2 \in DB /\ d2.journal = d.journal /\ d2.snapshots = d.snapshots
        /\ d2.accounts = d.accounts /\ d2.storage = d.storage /\ d2.createdInTx = d.createdInTx
    BY <2>0 DEF WarmAddress, DB
  <2> HIDE DEF d2
  <2>2. Grows(d, d2, T, X) /\ (\A b : getOrCreate(d2, b) = getOrCreate(d, b)) /\ \A c \in Cell : Read(d2, c) = Read(d, c)
    BY <2>1, QuietGrows, SameReads
  <2> QED BY <2>1, <2>2 DEF d2
<1>2. ASSUME NEW a \in Addr, NEW s \in Slot
      PROVE  /\ WarmSlot(d, a, s) \in DB /\ Grows(d, WarmSlot(d, a, s), T, X)
             /\ WarmSlot(d, a, s).snapshots = d.snapshots
  <2> DEFINE d2 == WarmSlot(d, a, s)
  <2>0. d2 \in DB
    BY OtherOpsType
  <2>1. /\ d2 \in DB /\ d2.journal = d.journal /\ d2.snapshots = d.snapshots
        /\ d2.accounts = d.accounts /\ d2.storage = d.storage /\ d2.createdInTx = d.createdInTx
    BY <2>0 DEF WarmSlot, DB
  <2> QED BY <2>1, QuietGrows
<1>3. ASSUME NEW a \in Addr
      PROVE  AddLog(d, a) \in DB /\ Grows(d, AddLog(d, a), T, X) /\ AddLog(d, a).snapshots = d.snapshots
  <2> DEFINE d2 == AddLog(d, a)
  <2>0. d2 \in DB
    BY OtherOpsType
  <2>1. /\ d2 \in DB /\ d2.journal = d.journal /\ d2.snapshots = d.snapshots
        /\ d2.accounts = d.accounts /\ d2.storage = d.storage /\ d2.createdInTx = d.createdInTx
    BY <2>0 DEF AddLog, DB
  <2> QED BY <2>1, QuietGrows
<1>4. ASSUME NEW gas \in Nat
      PROVE  /\ AddRefund(d, gas) \in DB /\ Grows(d, AddRefund(d, gas), T, X)
             /\ AddRefund(d, gas).snapshots = d.snapshots
  <2> DEFINE d2 == AddRefund(d, gas)
  <2>0. d2 \in DB
    BY OtherOpsType
  <2>1. /\ d2 \in DB /\ d2.journal = d.journal /\ d2.snapshots = d.snapshots
        /\ d2.accounts = d.accounts /\ d2.storage = d.storage /\ d2.createdInTx = d.createdInTx
    BY <2>0 DEF AddRefund, DB
  <2> QED BY <2>1, QuietGrows
<1> QED BY <1>1, <1>2, <1>3, <1>4

\* An iteration of RevertToSnapshot keeps the record of creations.
LEMMA UndoneCreations ==
    ASSUME NEW d \in DB, Len(d.journal) > 0, CreationRecorded(d)
    PROVE  CreationRecorded(UndoLast(d))
<1> DEFINE m == Len(d.journal)
<1> DEFINE e == d.journal[m]
<1> DEFINE d2 == UndoLast(d)
<1>1. /\ m \in Nat /\ Len(d2.journal) = m - 1
      /\ \A k \in 1 .. (m - 1) : d2.journal[k] = d.journal[k]
      /\ d2.createdInTx = Undo(d, e).createdInTx
  BY UndoneJournal
<1>2. e \in JournalEntry
  BY <1>1, Lengths
<1> HIDE DEF e
<1>3. Undo(d, e).createdInTx = IF e.kind = "create" THEN d.createdInTx \ {e.addr} ELSE d.createdInTx
  BY <1>2 DEF Undo, DB, JournalEntry, JBalance, JNonce, JCode, JStorage, JCreate, JSuicide
<1> HIDE DEF d2, m
<1>4. ASSUME NEW a \in d2.createdInTx
      PROVE  \E k \in 1 .. (m - 1) : Creates(d2.journal[k], a)
  <2>1. a \in d.createdInTx /\ ~ Creates(e, a)
    BY <1>1, <1>3 DEF Creates
  <2>2. PICK k \in 1 .. m : Creates(d.journal[k], a)
    BY <2>1 DEF CreationRecorded, m
  <2>3. k # m
    BY <2>1, <2>2 DEF e
  <2>4. k \in 1 .. (m - 1)
    BY <1>1, <2>3
  <2> QED BY <1>1, <2>2, <2>4
<1>5. CreationRecorded(d2)
  BY <1>1, <1>4 DEF CreationRecorded
<1> QED BY <1>5 DEF d2

\* An iteration of RevertToSnapshot deletes only accounts whose creation it undoes.
LEMMA UndoneSafe ==
    ASSUME NEW d \in DB, Len(d.journal) > 0, NEW a \in Addr, Safe(d, a)
    PROVE  Safe(UndoLast(d), a)
<1> DEFINE m == Len(d.journal)
<1> DEFINE e == d.journal[m]
<1> DEFINE d2 == UndoLast(d)
<1> DEFINE c == [addr |-> a, field |-> "created"]
<1>1. /\ m \in Nat /\ Len(d2.journal) = m - 1
      /\ \A k \in 1 .. (m - 1) : d2.journal[k] = d.journal[k]
      /\ d2.accounts = Undo(d, e).accounts
  BY UndoneJournal
<1>2. e \in JournalEntry /\ m \in 1 .. m
  BY <1>1, Lengths
<1>3. c \in Cell /\ c \notin AccountCell
  BY DEF Cell, CreatedCell, AccountCell, AccountField
<1>4. e.kind = "create" => a # e.addr
  BY <1>2 DEF Safe
<1> HIDE DEF c, e
<1>5. Exists(Undo(d, e), a)
  BY <1>2, <1>3, <1>4, UndoReads DEF Safe
<1>6. Exists(d2, a)
  BY <1>1, <1>5 DEF Exists
<1> HIDE DEF d2, m
<1>7. ASSUME NEW k \in 1 .. (m - 1), d2.journal[k].addr = a
      PROVE  d2.journal[k].kind \notin {"create", "suicide"}
  <2>1. k \in 1 .. m /\ d2.journal[k] = d.journal[k]
    BY <1>1
  <2> QED BY <1>7, <2>1 DEF Safe, m
<1>8. Safe(d2, a)
  BY <1>1, <1>6, <1>7 DEF Safe
<1> QED BY <1>8 DEF d2

\* RevertToSnapshot as a whole keeps the records of self-destructs and creations.
LEMMA RevertRecords ==
    ASSUME NEW d \in DB, NEW id \in 1 .. Len(d.snapshots), d.snapshots[id] <= Len(d.journal),
           NEW r, r = RevertToSnapshot(d, id)
    PROVE  /\ SuicideRecorded(d) => SuicideRecorded(r)
           /\ CreationRecorded(d) => CreationRecorded(r)
           /\ \A a \in Addr : Safe(d, a) => Safe(r, a)
<1> DEFINE Keeps(u) ==
      /\ SuicideRecorded(d) => SuicideRecorded(u)
      /\ CreationRecorded(d) => CreationRecorded(u)
      /\ \A a \in Addr : Safe(d, a) => Safe(u, a)
<1> DEFINE S == {u \in DB : Keeps(u)}
<1>0. d.snapshots[id] \in Nat
  BY Lengths
<1>1. d \in S
  OBVIOUS
<1>2. ASSUME NEW u \in S, Len(u.journal) > d.snapshots[id]
      PROVE  UndoLast(u) \in S
  <2>0. u \in DB /\ Keeps(u)
    OBVIOUS
  <2> HIDE DEF S
  <2>1. Len(u.journal) > 0
    BY <1>0, <1>2, <2>0, Lengths
  <2>2. UndoLast(u) \in DB
    BY <2>0, <2>1, UndoneJournal
  <2>3. Keeps(UndoLast(u))
    BY <2>0, <2>1, UndoneSuicides, UndoneCreations, UndoneSafe
  <2> HIDE DEF Keeps
  <2> QED BY <2>2, <2>3 DEF S
<1>3. S \in SUBSET DB
  OBVIOUS
<1> HIDE DEF S
<1>4. PICK u \in S : r = [u EXCEPT !.snapshots = SubSeq(@, 1, id - 1)]
  BY <1>1, <1>2, <1>3, RevertInduction
<1>5. u \in DB /\ Keeps(u)
  BY DEF S
<1>6. /\ r.journal = u.journal /\ r.accounts = u.accounts /\ r.storage = u.storage
      /\ r.createdInTx = u.createdInTx
  BY <1>4, <1>5 DEF DB
<1>7. \A a : getOrCreate(r, a) = getOrCreate(u, a) /\ Exists(r, a) = Exists(u, a)
  BY <1>6, SameReads
<1>8. SuicideRecorded(u) => SuicideRecorded(r)
  BY <1>6, <1>7, SameSuicides DEF HasSuicided
<1>9. CreationRecorded(u) => CreationRecorded(r)
  BY <1>6 DEF CreationRecorded
<1>10. \A a : Safe(u, a) => Safe(r, a)
  BY <1>6, <1>7 DEF Safe
<1> QED BY <1>5, <1>8, <1>9, <1>10

\* A call or creation that fails at once: the database grows from its snapshot on
\* and is reverted to it.
LEMMA RevertGrows ==
    ASSUME NEW d \in DB, NEW b \in DB, NEW T, NEW X, Nested(d), Grows(Snapshot(d), b, T, X),
           b.snapshots = Snapshot(d).snapshots,
           NEW r, r = RevertToSnapshot(b, Len(d.snapshots) + 1)
    PROVE  r \in DB /\ Grows(d, r, T, X)
<1> DEFINE m == Len(d.snapshots)
<1> DEFINE s == Snapshot(d)
<1>1. /\ Len(d.journal) \in Nat /\ m \in Nat /\ d.snapshots \in Seq(Nat)
      /\ \A i \in 1 .. m : d.snapshots[i] \in Nat /\ d.snapshots[i] <= Len(d.journal)
  BY Lengths DEF Nested
<1>2. /\ s \in DB /\ Grows(d, s, T, X) /\ s.snapshots = Append(d.snapshots, Len(d.journal))
      /\ s.journal = d.journal
  BY SnapshotGrows
<1> HIDE DEF s
<1>3. Grows(d, b, T, X)
  BY <1>2, GrowsTrans DEF s
<1>4. /\ b.snapshots = s.snapshots /\ Len(b.snapshots) = m + 1 /\ b.snapshots[m + 1] = Len(d.journal)
      /\ \A i \in 1 .. m : b.snapshots[i] = d.snapshots[i]
  BY <1>1, <1>2 DEF s
<1>5. m + 1 \in 1 .. Len(b.snapshots) /\ b.snapshots[m + 1] <= Len(b.journal) /\ Len(b.journal) \in Nat
  BY <1>1, <1>3, <1>4, Lengths DEF Grows
<1> HIDE DEF m
<1>i. PICK id : id = m + 1
  OBVIOUS
<1>a. Reverted(b, id, r)
  BY <1>5, <1>i, RevertReturns DEF m
<1>b. /\ r \in DB /\ Len(r.journal) = b.snapshots[id]
      /\ \A k \in 1 .. Len(r.journal) : r.journal[k] = b.journal[k]
      /\ r.snapshots = SubSeq(b.snapshots, 1, id - 1)
  BY <1>a DEF Reverted
<1>6. /\ r \in DB /\ Len(r.journal) = b.snapshots[m + 1]
      /\ \A k \in 1 .. Len(r.journal) : r.journal[k] = b.journal[k]
      /\ r.snapshots = SubSeq(b.snapshots, 1, m)
  <2>1. id - 1 = m
    BY <1>1, <1>i
  <2> QED BY <1>b, <1>i, <2>1
<1>7. /\ SuicideRecorded(b) => SuicideRecorded(r)
      /\ CreationRecorded(b) => CreationRecorded(r)
      /\ \A a \in Addr : Safe(b, a) => Safe(r, a)
  BY <1>5, RevertRecords DEF m
<1>8. /\ Len(r.journal) = Len(d.journal)
      /\ \A k \in 1 .. Len(d.journal) : r.journal[k] = d.journal[k]
  BY <1>3, <1>4, <1>6 DEF Grows
<1>9. /\ Len(r.snapshots) = m /\ \A i \in 1 .. m : r.snapshots[i] = d.snapshots[i]
  <2>1. b.snapshots \in Seq(Nat)
    BY Lengths
  <2>2. Len(r.snapshots) = m /\ \A i \in 1 .. m : r.snapshots[i] = b.snapshots[i]
    BY <1>1, <1>4, <1>6, <2>1
  <2> QED BY <1>4, <2>2
<1>10. ASSUME NEW c \in Cell, c.addr \notin T, Faithful(d, c)
       PROVE  /\ Faithful(r, c)
              /\ \A v : \A n \in 0 .. Len(d.journal) : ReturnsTo(d, n, c, v) => ReturnsTo(r, n, c, v)
  <2>1. /\ Faithful(b, c)
        /\ \A v : \A n \in 0 .. Len(d.journal) : ReturnsTo(d, n, c, v) => ReturnsTo(b, n, c, v)
    BY <1>3, <1>10 DEF Grows
  <2> QED BY <1>4, <1>i, <1>a, <2>1 DEF Reverted
<1>11. /\ SuicideRecorded(d) => SuicideRecorded(r)
       /\ CreationRecorded(d) => CreationRecorded(r)
       /\ \A a \in Addr \ X : Safe(d, a) => Safe(r, a)
  BY <1>3, <1>7 DEF Grows
<1>12. Nested(r)
  BY <1>8, <1>9 DEF Nested, m
<1>13. \A i \in (m + 1) .. Len(r.snapshots) : FALSE
  BY <1>1, <1>9
<1> QED BY <1>1, <1>6, <1>8, <1>9, <1>10, <1>11, <1>12, <1>13 DEF Grows, m

\* A transfer of value.
LEMMA TransferGrows ==
    ASSUME NEW d \in DB, NEW from \in Addr, NEW to \in Addr, NEW value \in Word, NEW T, NEW X
    PROVE  LET d2 == Transfer(d, from, to, value)
           IN  d2 \in DB /\ Grows(d, d2, T, X) /\ d2.snapshots = d.snapshots
<1>1. CASE value = 0
  <2>1. Transfer(d, from, to, value) = d
    BY <1>1 DEF Transfer
  <2>2. Grows(d, d, T, X)
    BY QuietGrows
  <2> QED BY <2>1, <2>2
<1>2. CASE value # 0
  <2> DEFINE b == SubBalance(d, from, value)
  <2> DEFINE e == AddBalance(b, to, value)
  <2>0. value \in Int
    BY StateAssumption DEF Word
  <2>1. Transfer(d, from, to, value) = e
    BY <1>2 DEF Transfer
  <2>2. b \in DB /\ Grows(d, b, T, X) /\ b.snapshots = d.snapshots
    BY <2>0, SettersGrow
  <2> HIDE DEF b
  <2>3. e \in DB /\ Grows(b, e, T, X) /\ e.snapshots = b.snapshots
    BY <2>0, <2>2, SettersGrow
  <2> HIDE DEF e
  <2>4. Grows(d, e, T, X)
    BY <2>2, <2>3, GrowsTrans
  <2> QED BY <2>1, <2>2, <2>3, <2>4
<1> QED BY <1>1, <1>2
-----------------------------------------------------------------------------
(***************************************************************************)
(* The frames.                                                             *)
(***************************************************************************)
\* What identifies a frame as long as it is active.
SameFrame(f, g) ==
    /\ f.snap = g.snap /\ f.pre = g.pre
    /\ f.kind = g.kind /\ f.caller = g.caller /\ f.contract = g.contract

\* fs are the outermost of the active frames, whatever has become of their gas.
Outermost(fs) == Len(fs) <= Len(frames) /\ \A i \in 1 .. Len(fs) : SameFrame(fs[i], frames[i])

\* The frames without the last, and with the last one replaced.
LEMMA WithTopFrames ==
    ASSUME NEW fs \in Seq(Frame), fs # << >>
    PROVE  /\ Len(fs) \in Nat \ {0} /\ fs[Len(fs)] \in Frame
           /\ Callers(fs) \in Seq(Frame) /\ Len(Callers(fs)) = Len(fs) - 1
           /\ \A i \in 1 .. (Len(fs) - 1) : Callers(fs)[i] = fs[i]
           /\ \A f \in Frame :
                 /\ WithTop(fs, f) \in Seq(Frame) /\ Len(WithTop(fs, f)) = Len(fs)
                 /\ WithTop(fs, f) # << >>
                 /\ WithTop(fs, f)[Len(fs)] = f
                 /\ \A i \in 1 .. (Len(fs) - 1) : WithTop(fs, f)[i] = fs[i]
                 /\ Callers(WithTop(fs, f)) = Callers(fs)
<1> HIDE DEF Frame
<1>1. Len(fs) \in Nat \ {0} /\ fs[Len(fs)] \in Frame
  OBVIOUS
<1>2. /\ Callers(fs) \in Seq(Frame) /\ Len(Callers(fs)) = Len(fs) - 1
      /\ \A i \in 1 .. (Len(fs) - 1) : Callers(fs)[i] = fs[i]
  BY SMTT(60), <1>1 DEF Callers
<1>3. ASSUME NEW f \in Frame
      PROVE  /\ WithTop(fs, f) \in Seq(Frame) /\ Len(WithTop(fs, f)) = Len(fs)
             /\ WithTop(fs, f) # << >>
             /\ WithTop(fs, f)[Len(fs)] = f
             /\ \A i \in 1 .. (Len(fs) - 1) : WithTop(fs, f)[i] = fs[i]
             /\ Callers(WithTop(fs, f)) = Callers(fs)
  <2> DEFINE g == WithTop(fs, f)
  <2>1. /\ g \in Seq(Frame) /\ Len(g) = Len(fs) /\ g[Len(fs)] = f
        /\ \A i \in 1 .. (Len(fs) - 1) : g[i] = Callers(fs)[i]
    BY <1>1, <1>2 DEF WithTop
  <2> HIDE DEF g
  <2>2. Callers(g) \in Seq(Frame) /\ Len(Callers(g)) = Len(fs) - 1
        /\ \A i \in 1 .. (Len(fs) - 1) : Callers(g)[i] = g[i]
    BY <1>1, <2>1 DEF Callers
  <2>3. Callers(g) = Callers(fs)
    BY <1>2, <2>1, <2>2, SameSequence
  <2>4. g # << >>
    BY <1>1, <2>1
  <2> QED BY <1>2, <2>1, <2>3, <2>4 DEF g
<1> QED BY <1>1, <1>2, <1>3

\* Appending a frame.
LEMMA AppendFrame ==
    ASSUME NEW fs \in Seq(Frame), NEW f \in Frame
    PROVE  /\ Append(fs, f) \in Seq(Frame) /\ Len(fs) \in Nat /\ Len(Append(fs, f)) = Len(fs) + 1
           /\ Append(fs, f)[Len(fs) + 1] = f /\ Append(fs, f) # << >>
           /\ \A i \in 1 .. Len(fs) : Append(fs, f)[i] = fs[i]
<1> HIDE DEF Frame
<1> QED OBVIOUS
-----------------------------------------------------------------------------
(***************************************************************************)
(* Steps of a transaction that only let the database grow keep the         *)
(* inductive invariant.                                                    *)
(***************************************************************************)
\* The accounts that the transaction may create or destroy.
Unheld(T) == {a \in Addr : a \in T \/ ~ Held(a)}

\* What the accounts of another database read as.
LEMMA BeforeReads ==
    ASSUME NEW d \in DB, NEW d2 \in DB, NEW acc, NEW c \in AccountCell
    PROVE  Read([d EXCEPT !.accounts = acc], c) = Read([d2 EXCEPT !.accounts = acc], c)
<1> DEFINE b == [d EXCEPT !.accounts = acc]
<1> DEFINE b2 == [d2 EXCEPT !.accounts = acc]
<1>1. b.accounts = acc /\ b2.accounts = acc
  BY DEF DB
<1> HIDE DEF b, b2
<1>2. getOrCreate(b, c.addr) = getOrCreate(b2, c.addr)
  BY <1>1 DEF getOrCreate, Exists
<1>3. c.field \in {"balance", "nonce", "code", "suicide"}
  BY DEF AccountCell, AccountField
<1>4. Read(b, c) = Read(b2, c)
  BY <1>2, <1>3 DEF Read, GetBalance, GetNonce, GetCode, HasSuicided
<1> QED BY <1>4 DEF b, b2

\* The part of the invariant that says what the transaction found.
LEMMA HeldStaySafe ==
    ASSUME TypeOK, Revertible, tx # NoTx, tx' # NoTx, tx'.before = tx.before,
           tainted \subseteq tainted', Grows(db, db', tainted', Unheld(tainted'))
    PROVE  HeldAreSafe'
<1>1. db \in DB /\ db' \in DB
  BY DEF TypeOK, Grows
<1>2. /\ Len(db.journal) \in Nat /\ Len(db'.journal) \in Nat /\ Len(db.journal) <= Len(db'.journal)
      /\ Len(db.snapshots) \in Nat /\ Len(db'.snapshots) \in Nat
      /\ \A i \in 1 .. Len(db'.snapshots) : db'.snapshots[i] \in Nat
  BY <1>1, Lengths DEF Grows
<1>3. PICK n \in 0 .. Len(db.journal) :
        /\ \A i \in 1 .. Len(db.snapshots) : n <= db.snapshots[i]
        /\ \A c \in {x \in AccountCell : x.addr \notin tainted} :
              ReturnsTo(db, n, c, Read([db EXCEPT !.accounts = tx.before], c))
  BY DEF Revertible, HeldAreSafe
<1>4. n \in 0 .. Len(db'.journal)
  BY <1>2
<1>5. ASSUME NEW i \in 1 .. Len(db'.snapshots)
      PROVE  n <= db'.snapshots[i]
  <2>1. CASE i <= Len(db.snapshots)
    <3>1. i \in 1 .. Len(db.snapshots)
      BY <1>2, <2>1
    <3> QED BY <1>3, <3>1 DEF Grows
  <2>2. CASE ~ (i <= Len(db.snapshots))
    <3>1. i \in (Len(db.snapshots) + 1) .. Len(db'.snapshots)
      BY <1>2, <2>2
    <3>2. Len(db.journal) <= db'.snapshots[i]
      BY <3>1 DEF Grows
    <3> QED BY <1>2, <3>2
  <2> QED BY <2>1, <2>2
<1>6. ASSUME NEW c \in AccountCell, c.addr \notin tainted'
      PROVE  ReturnsTo(db', n, c, Read([db' EXCEPT !.accounts = tx'.before], c))
  <2>1. c \in Cell /\ c.addr \notin tainted
    BY <1>6 DEF Cell
  <2>2. Faithful(db, c)
    BY <2>1 DEF Revertible, FramesRestorable
  <2>3. ReturnsTo(db, n, c, Read([db EXCEPT !.accounts = tx.before], c))
    BY <1>3, <2>1
  <2>4. Read([db' EXCEPT !.accounts = tx'.before], c) = Read([db EXCEPT !.accounts = tx.before], c)
    BY SMTT(60), <1>1, BeforeReads
  <2> QED BY <1>6, <2>1, <2>2, <2>3, <2>4 DEF Grows
<1>7. ASSUME NEW a \in Addr, a \notin tainted', Held(a)'
      PROVE  Safe(db', a)
  <2>1. Held(a) /\ a \notin tainted
    BY <1>7 DEF Held
  <2>2. Safe(db, a)
    BY <2>1 DEF Revertible, HeldAreSafe
  <2>3. a \in Addr \ Unheld(tainted')
    BY <1>7, <2>1 DEF Unheld
  <2> QED BY <2>2, <2>3 DEF Grows
<1> QED BY <1>4, <1>5, <1>6, <1>7 DEF HeldAreSafe

\* The frames that are active after the step are those before it, and perhaps one more
\* ...
Continued == \A i \in 1 .. Len(frames') : i <= Len(frames) => SameFrame(frames'[i], frames[i])

\* ... that began in a database the journal can return to.
Begun(g) ==
    /\ g.snap = Len(db.snapshots) + 1 /\ g.snap <= Len(db'.snapshots)
    /\ \A c \in Cell : c.addr \notin tainted' =>
          ReturnsTo(db', db'.snapshots[g.snap], c, Read(g.pre, c))

\* The whole of it.
LEMMA StepPreserves ==
    ASSUME TypeOK, Revertible, tx # NoTx, tx' # NoTx, tx'.before = tx.before, PhasesMatch',
           tainted \subseteq tainted', Grows(db, db', tainted', Unheld(tainted')),
           frames' \in Seq(Frame), Len(frames') <= Len(frames) + 1, Continued,
           Len(frames') = Len(frames) + 1 => Begun(frames'[Len(frames')])
    PROVE  Revertible'
<1>1. db \in DB /\ db' \in DB /\ frames \in Seq(Frame)
  BY DEF TypeOK, Grows
<1>2. /\ Len(db.journal) \in Nat /\ Len(db'.journal) \in Nat /\ Len(db.journal) <= Len(db'.journal)
      /\ Len(db.snapshots) \in Nat /\ Len(db'.snapshots) \in Nat
      /\ Len(db.snapshots) <= Len(db'.snapshots)
      /\ \A i \in 1 .. Len(db.snapshots) : db.snapshots[i] \in Nat
      /\ \A i \in 1 .. Len(db.snapshots) : db'.snapshots[i] = db.snapshots[i]
  BY <1>1, Lengths DEF Grows
<1>a. Len(frames) \in Nat /\ Len(frames') \in Nat
  BY <1>1
<1>3. DOMAIN frames = 1 .. Len(frames) /\ DOMAIN frames' = 1 .. Len(frames')
  BY <1>1
<1>b. \A i \in 1 .. Len(frames) : frames[i].snap \in Nat \ {0}
  <2>1. \A f \in Frame : f.snap \in Nat \ {0}
    BY DEF Frame
  <2> HIDE DEF Frame
  <2> QED BY <1>1, <2>1
<1>4. Nested(db') /\ Nested(db)
  BY DEF Revertible, Grows
<1>5. /\ \A i \in 1 .. Len(frames) : frames[i].snap <= Len(db.snapshots)
      /\ \A i \in 1 .. Len(frames) : \A j \in 1 .. (i - 1) : frames[j].snap < frames[i].snap
  BY <1>3 DEF Revertible, SnapshotsMatchFrames
<1>c. \A i \in 1 .. Len(frames) : frames[i].snap \in 1 .. Len(db.snapshots)
  BY <1>2, <1>b, <1>5
<1>6. SnapshotsMatchFrames'
  <2>1. ASSUME NEW i \in 1 .. Len(frames')
        PROVE  frames'[i].snap <= Len(db'.snapshots)
    <3>1. CASE i <= Len(frames)
      <4>1. i \in 1 .. Len(frames)
        BY <1>a, <3>1
      <4>2. frames'[i].snap = frames[i].snap
        BY <3>1 DEF Continued, SameFrame
      <4> QED BY <1>2, <1>c, <4>1, <4>2
    <3>2. CASE ~ (i <= Len(frames))
      <4>1. i = Len(frames') /\ Len(frames') = Len(frames) + 1
        BY <1>a, <3>2
      <4> QED BY <4>1 DEF Begun
    <3> QED BY <3>1, <3>2
  <2>2. ASSUME NEW i \in 1 .. Len(frames'), NEW j \in 1 .. (i - 1)
        PROVE  frames'[j].snap < frames'[i].snap
    <3>0. j \in 1 .. Len(frames) /\ j \in 1 .. Len(frames') /\ j <= Len(frames)
      BY <1>a
    <3>a. frames'[j].snap = frames[j].snap
      BY <3>0 DEF Continued, SameFrame
    <3>1. CASE i <= Len(frames)
      <4>1. i \in 1 .. Len(frames)
        BY <1>a, <3>1
      <4>2. frames'[i].snap = frames[i].snap
        BY <3>1 DEF Continued, SameFrame
      <4> QED BY <1>5, <3>a, <4>1, <4>2
    <3>2. CASE ~ (i <= Len(frames))
      <4>1. i = Len(frames') /\ Len(frames') = Len(frames) + 1
        BY <1>a, <3>2
      <4>2. frames'[i].snap = Len(db.snapshots) + 1
        BY <4>1 DEF Begun
      <4> QED BY <1>2, <1>c, <3>0, <3>a, <4>2
    <3> QED BY <3>1, <3>2
  <2> QED BY <1>3, <2>1, <2>2 DEF SnapshotsMatchFrames
<1>7. ASSUME NEW c \in Cell, c.addr \notin tainted'
      PROVE  /\ Faithful(db', c)
             /\ \A i \in 1 .. Len(frames') :
                   ReturnsTo(db', db'.snapshots[frames'[i].snap], c, Read(frames'[i].pre, c))
  <2>0. c \in {x \in Cell : x.addr \notin tainted}
    BY <1>7
  <2>1. Faithful(db, c) /\ Faithful(db', c)
    BY <1>7, <2>0 DEF Revertible, FramesRestorable, Grows
  <2>2. ASSUME NEW i \in 1 .. Len(frames')
        PROVE  ReturnsTo(db', db'.snapshots[frames'[i].snap], c, Read(frames'[i].pre, c))
    <3>1. CASE i <= Len(frames)
      <4>1. i \in 1 .. Len(frames)
        BY <1>a, <3>1
      <4>2. frames'[i].snap = frames[i].snap /\ frames'[i].pre = frames[i].pre
        BY <3>1 DEF Continued, SameFrame
      <4> DEFINE n == db.snapshots[frames[i].snap]
      <4>3. frames[i].snap \in 1 .. Len(db.snapshots)
        BY <1>c, <4>1
      <4>4. n \in 0 .. Len(db.journal) /\ db'.snapshots[frames[i].snap] = n
        BY SMTT(60), <1>2, <1>4, <4>3 DEF Nested
      <4>5. ReturnsTo(db, n, c, Read(frames[i].pre, c))
        BY <1>3, <2>0, <4>1 DEF Revertible, FramesRestorable
      <4> HIDE DEF n
      <4>6. ReturnsTo(db', n, c, Read(frames[i].pre, c))
        BY <1>7, <2>1, <4>4, <4>5 DEF Grows
      <4> QED BY <4>2, <4>4, <4>6
    <3>2. CASE ~ (i <= Len(frames))
      <4>1. i = Len(frames') /\ Len(frames') = Len(frames) + 1
        BY <1>a, <3>2
      <4> QED BY <1>7, <4>1 DEF Begun
    <3> QED BY <3>1, <3>2
  <2> QED BY <2>1, <2>2
<1>8. FramesRestorable'
  BY <1>3, <1>7 DEF FramesRestorable
<1>9. SuicideRecorded(db') /\ CreationRecorded(db')
  BY DEF Revertible, Grows
<1>10. QuietBetween'
  BY DEF QuietBetween
<1>11. HeldAreSafe'
  BY HeldStaySafe
<1> QED BY <1>4, <1>6, <1>8, <1>9, <1>10, <1>11 DEF Revertible
-----------------------------------------------------------------------------
(***************************************************************************)
(* Calls that are answered and frames that begin.                          *)
(***************************************************************************)
\* The tracer has a root when a node is open: only then can its end be noted.
Rooted == tracer.open # << >> => tracer.root \in TraceNode

EVMInv == TypeOK /\ Revertible /\ Rooted

Outcome == {"none", "revert", "fail"}

\* A frame with other gas, and one that has ended.
LEMMA FrameChanges ==
    ASSUME NEW f \in Frame, NEW g \in Nat
    PROVE  /\ [f EXCEPT !.gas = g] \in Frame /\ SameFrame([f EXCEPT !.gas = g], f)
           /\ [f EXCEPT !.gas = g].gas = g /\ [f EXCEPT !.gas = g].err = f.err
           /\ [f EXCEPT !.gas = g].depth = f.depth /\ [f EXCEPT !.gas = g].cap = f.cap
           /\ \A e \in Outcome :
                 /\ [f EXCEPT !.gas = g, !.err = e] \in Frame
                 /\ SameFrame([f EXCEPT !.gas = g, !.err = e], f)
                 /\ [f EXCEPT !.gas = g, !.err = e].gas = g
                 /\ [f EXCEPT !.gas = g, !.err = e].err = e
BY DEF Frame, Outcome, SameFrame

\* The types of a frame's fields.
LEMMA FrameFields ==
    ASSUME NEW f \in Frame
    PROVE  /\ f.kind \in CallKind \cup {"create"} /\ f.contract \in Addr /\ f.caller \in Addr
           /\ f.code \in Code /\ f.gas \in Nat /\ f.cap \in Nat \cup {Nil}
           /\ f.depth \in 0 .. (MaxCallDepth - 1) /\ f.snap \in Nat \ {0}
           /\ f.err \in {"running"} \cup Outcome /\ f.pre \in DB
BY DEF Frame, Outcome

\* The running transaction.
LEMMA RunningTx ==
    ASSUME TypeOK, PhasesMatch, tx.phase = "running" \/ frames # << >>
    PROVE  /\ tx # NoTx /\ tx.phase = "running" /\ tx.gasLeft = 0
           /\ IntrinsicGas(tx.msg) <= tx.msg.gas
           /\ tx \in [phase : {"running", "settling"}, msg : Message, err : Outcome,
                       gasLeft : Nat, before : [Addr -> Account \cup {NoAccount}]]
<1>1. tx.phase = "running"
  <2>1. tx.phase # "running" => frames = << >>
    BY DEF PhasesMatch
  <2> QED BY <2>1
<1>2. NoTx.phase = "idle"
  BY DEF NoTx
<1>3. tx # NoTx
  BY <1>1, <1>2
<1>4. tx \in TxState
  BY DEF TypeOK
<1> QED BY <1>1, <1>3, <1>4 DEF TxState, PhasesMatch, Outcome

\* Giving gas back to the caller, or the result to Execute.
LEMMA DeliverStep ==
    ASSUME TypeOK, PhasesMatch, tx.phase = "running", NEW fs \in Seq(Frame), NEW err \in Outcome,
           NEW g \in Nat, Deliver(fs, err, g)
    PROVE  /\ frames' \in Seq(Frame) /\ Len(frames') = Len(fs)
           /\ \A i \in 1 .. Len(fs) : SameFrame(frames'[i], fs[i])
           /\ tx' \in TxState /\ tx' # NoTx /\ tx'.before = tx.before /\ tx'.msg = tx.msg
           /\ PhasesMatch'
<1> DEFINE R == [phase : {"running", "settling"}, msg : Message, err : Outcome,
                 gasLeft : Nat, before : [Addr -> Account \cup {NoAccount}]]
<1>1. tx \in R /\ tx # NoTx /\ tx.gasLeft = 0 /\ IntrinsicGas(tx.msg) <= tx.msg.gas
  BY RunningTx
<1>2. CASE fs = << >>
  <2>1. frames' = fs /\ tx' = [tx EXCEPT !.phase = "settling", !.err = err, !.gasLeft = g]
    BY <1>2 DEF Deliver
  <2>2. /\ tx' \in R /\ tx'.phase = "settling" /\ tx'.before = tx.before /\ tx'.msg = tx.msg
    BY <1>1, <2>1
  <2>3. tx' \in TxState /\ tx' # NoTx
    BY <2>2 DEF TxState, Outcome, NoTx
  <2>4. \A i \in 1 .. Len(fs) : FALSE
    BY <1>2
  <2>5. PhasesMatch'
    BY <1>2, <2>1, <2>2 DEF PhasesMatch
  <2> QED BY <2>1, <2>2, <2>3, <2>4, <2>5
<1>3. CASE fs # << >>
  <2> DEFINE m == Len(fs)
  <2> DEFINE h == [fs[m] EXCEPT !.gas = @ + g]
  <2>1. tx' = tx /\ frames' = [fs EXCEPT ![m] = h]
    BY <1>3 DEF Deliver
  <2>2. m \in Nat \ {0} /\ fs[m] \in Frame /\ m \in 1 .. m
    BY <1>3, WithTopFrames
  <2>3. fs[m].gas + g \in Nat
    BY <2>2, FrameFields
  <2>4. h \in Frame /\ SameFrame(h, fs[m])
    BY <2>2, <2>3, FrameChanges
  <2> HIDE DEF h, m
  <2>5. /\ frames' \in Seq(Frame) /\ Len(frames') = Len(fs)
        /\ \A i \in 1 .. Len(fs) : frames'[i] = IF i = m THEN h ELSE fs[i]
    BY <2>1, <2>2, <2>4 DEF m
  <2>6. \A i \in 1 .. Len(fs) : SameFrame(frames'[i], fs[i])
    BY <2>4, <2>5 DEF SameFrame
  <2>7. PhasesMatch'
    BY <2>1, <1>1 DEF PhasesMatch, IntrinsicGas
  <2>8. tx' \in TxState
    BY <2>1 DEF TypeOK
  <2> QED BY <1>1, <2>1, <2>5, <2>6, <2>7, <2>8
<1> QED BY <1>2, <1>3

\* A call or creation that runs no frame.
LEMMA AnswerStep ==
    ASSUME EVMInv, tx.phase = "running", NEW fs \in Seq(Frame), Outermost(fs), NEW d,
           NEW err \in Outcome, NEW g \in Nat, Answer(d, fs, err, g),
           tainted \subseteq tainted', tainted' \subseteq Creatable,
           Grows(db, d, tainted', Unheld(tainted')), UNCHANGED txs
    PROVE  EVMInv'
<1>1. TypeOK /\ Revertible /\ Rooted /\ PhasesMatch
  BY DEF EVMInv, Revertible
<1>2. db' = d /\ Deliver(fs, err, g) /\ pool' = pool /\ tracer' = tracer
  BY DEF Answer
<1>3. /\ frames' \in Seq(Frame) /\ Len(frames') = Len(fs)
      /\ \A i \in 1 .. Len(fs) : SameFrame(frames'[i], fs[i])
      /\ tx' \in TxState /\ tx' # NoTx /\ tx'.before = tx.before /\ PhasesMatch'
  BY <1>1, <1>2, DeliverStep
<1>4. /\ Len(frames') <= Len(frames) /\ Len(frames) \in Nat /\ Len(frames') \in Nat
  BY <1>1, <1>3 DEF Outermost, TypeOK
<1>5. Continued
  BY <1>3, <1>4 DEF Continued, Outermost, SameFrame
<1>6. Grows(db, db', tainted', Unheld(tainted')) /\ tx # NoTx
  BY <1>1, <1>2, RunningTx
<1>7. Len(frames') <= Len(frames) + 1 /\ Len(frames') # Len(frames) + 1
  BY <1>4
<1>8. Revertible'
  BY <1>1, <1>3, <1>5, <1>6, <1>7, StepPreserves
<1>9. db' \in DB
  BY <1>6 DEF Grows
<1>10. TypeOK'
  BY <1>1, <1>2, <1>3, <1>9 DEF TypeOK
<1>11. Rooted'
  BY <1>1, <1>2 DEF Rooted
<1> QED BY <1>8, <1>10, <1>11 DEF EVMInv

\* Where a call or creation begins, the journal can return to.
LEMMA BeginsAt ==
    ASSUME NEW d \in DB, NEW b, NEW T, NEW X, Grows(Snapshot(d), b, T, X)
    PROVE  /\ b \in DB /\ Grows(d, b, T, X)
           /\ Len(d.snapshots) + 1 <= Len(b.snapshots)
           /\ \A c \in Cell : c.addr \notin T /\ Faithful(d, c) =>
                 ReturnsTo(b, b.snapshots[Len(d.snapshots) + 1], c, Read(d, c))
<1> DEFINE s == Snapshot(d)
<1> DEFINE m == Len(d.snapshots) + 1
<1>0. b \in DB
  BY DEF Grows
<1>1. /\ s \in DB /\ Grows(d, s, T, X) /\ s.snapshots = Append(d.snapshots, Len(d.journal))
      /\ s.journal = d.journal /\ \A c \in Cell : Read(s, c) = Read(d, c)
  BY SnapshotGrows
<1>2. /\ Len(d.snapshots) \in Nat /\ Len(d.journal) \in Nat /\ d.snapshots \in Seq(Nat)
      /\ Len(b.snapshots) \in Nat
  BY <1>0, Lengths
<1>3. Len(s.snapshots) = m /\ s.snapshots[m] = Len(d.journal) /\ m \in 1 .. m
  BY <1>1, <1>2
<1> HIDE DEF s, m
<1>4. Grows(s, b, T, X)
  BY DEF s
<1>5. m <= Len(b.snapshots) /\ b.snapshots[m] = Len(d.journal)
  BY <1>3, <1>4 DEF Grows
<1>6. ASSUME NEW c \in Cell, c.addr \notin T, Faithful(d, c)
      PROVE  ReturnsTo(b, Len(d.journal), c, Read(d, c))
  <2>1. Faithful(s, c)
    BY <1>1, <1>6 DEF Grows
  <2>2. ReturnsTo(s, Len(d.journal), c, Read(d, c))
    BY <1>1, ReturnsHere
  <2>3. Len(d.journal) \in 0 .. Len(s.journal)
    BY <1>1, <1>2
  <2> QED BY <1>4, <1>6, <2>1, <2>2, <2>3 DEF Grows
<1>7. Grows(d, b, T, X)
  BY <1>0, <1>1, <1>4, GrowsTrans
<1> QED BY <1>0, <1>5, <1>6, <1>7 DEF m

\* The arguments of newFrame, and what its frame is like.
FrameArgs(k, code, contract, caller, gas, cap, snap, pre, depth) ==
    /\ k \in CallKind \cup {"create"} /\ code \in Code /\ contract \in Addr /\ caller \in Addr
    /\ gas \in Nat /\ cap \in Nat \cup {Nil} /\ snap \in Nat \ {0} /\ pre \in DB
    /\ depth \in {Nil} \cup 0 .. (MaxCallDepth - 1)

NewFrames(fs, k, contract, caller, gas, cap, snap, pre) ==
    \E g \in Frame : /\ frames' = Append(fs, g)
                    /\ g.snap = snap /\ g.pre = pre /\ g.kind = k
                    /\ g.caller = caller /\ g.contract = contract
                    /\ g.gas = gas /\ g.cap = cap /\ g.err = "running"

\* A frame that newFrame makes.
LEMMA NewFrameType ==
    ASSUME TypeOK, NEW fs, NEW k, NEW code, NEW contract, NEW caller, NEW gas, NEW cap, NEW snap,
           NEW pre, NEW depth, FrameArgs(k, code, contract, caller, gas, cap, snap, pre, depth),
           newFrame(fs, k, code, contract, caller, gas, cap, snap, pre, depth)
    PROVE  /\ pool' \in [Depths -> Nat] /\ tx' = tx
           /\ NewFrames(fs, k, contract, caller, gas, cap, snap, pre)
<1>0. /\ k \in CallKind \cup {"create"} /\ code \in Code /\ contract \in Addr /\ caller \in Addr
      /\ gas \in Nat /\ cap \in Nat \cup {Nil} /\ snap \in Nat \ {0} /\ pre \in DB
      /\ depth \in {Nil} \cup 0 .. (MaxCallDepth - 1)
  BY DEF FrameArgs
<1>1. PICK stale \in StaleDepths :
        /\ pool' = AcquireFrame(stale)
        /\ frames' = Append(fs,
              [kind |-> k, contract |-> contract, caller |-> caller, code |-> code,
               gas |-> gas, cap |-> cap, static |-> k = "staticcall",
               depth |-> IF depth = Nil THEN stale ELSE depth,
               snap |-> snap, err |-> "running", pre |-> pre])
        /\ UNCHANGED tx
  BY DEF newFrame
<1>2. MaxCallDepth \in Nat \ {0} /\ Nil \notin Nat
  BY FramesAssumption
<1>3. stale = 0 \/ (stale \in Depths /\ pool[stale] > 0)
  BY DEF StaleDepths
<1>4. stale \in 0 .. (MaxCallDepth - 1)
  BY <1>2, <1>3 DEF Depths
<1>5. pool \in [Depths -> Nat]
  BY DEF TypeOK
<1>6. pool' \in [Depths -> Nat]
  <2>1. CASE stale = 0
    BY <1>1, <1>5, <2>1 DEF AcquireFrame
  <2>2. CASE stale # 0
    <3>1. stale \in Depths /\ pool[stale] - 1 \in Nat
      BY <1>3, <1>5, <2>2
    <3>2. pool' = [pool EXCEPT ![stale] = pool[stale] - 1]
      BY <1>1, <2>2 DEF AcquireFrame
    <3> QED BY <1>5, <3>1, <3>2
  <2> QED BY <2>1, <2>2
<1> DEFINE dep == IF depth = Nil THEN stale ELSE depth
<1> DEFINE st == k = "staticcall"
<1> DEFINE g == [kind |-> k, contract |-> contract, caller |-> caller, code |-> code,
               gas |-> gas, cap |-> cap, static |-> st, depth |-> dep,
               snap |-> snap, err |-> "running", pre |-> pre]
<1>7. dep \in 0 .. (MaxCallDepth - 1) /\ st \in BOOLEAN
  BY <1>0, <1>4
<1>8. frames' = Append(fs, g)
  BY <1>1
<1> HIDE DEF dep, st
<1>9. g \in Frame
  BY <1>0, <1>7 DEF Frame
<1> QED BY <1>1, <1>6, <1>8, <1>9 DEF NewFrames

\* The tracer is typed and rooted.
TracerOK(t) ==
    /\ t \in [root : TraceNode \cup {Nil}, open : Seq(TraceNode)]
    /\ t.open # << >> => t.root \in TraceNode

\* A frame begins over the frames fs; d is the database when the call began.
LEMMA FrameStep ==
    ASSUME EVMInv, tx.phase = "running", NEW fs \in Seq(Frame), Outermost(fs),
           Len(fs) = Len(frames), NEW d, NEW k, NEW code, NEW contract, NEW caller, NEW gas,
           NEW cap, NEW snap, snap = Len(d.snapshots) + 1, NEW depth,
           FrameArgs(k, code, contract, caller, gas, cap, snap, d, depth),
           newFrame(fs, k, code, contract, caller, gas, cap, snap, d, depth),
           TracerOK(tracer)', tainted \subseteq tainted', tainted' \subseteq Creatable,
           Grows(db, d, tainted', Unheld(tainted')), d.snapshots = db.snapshots,
           Grows(Snapshot(d), db', tainted', Unheld(tainted')), UNCHANGED txs
    PROVE  EVMInv'
<1>1. TypeOK /\ Revertible /\ Rooted /\ PhasesMatch
  BY DEF EVMInv, Revertible
<1>2. db \in DB /\ Len(db.snapshots) \in Nat /\ d \in DB
  BY <1>1, Lengths DEF TypeOK, FrameArgs
<1>4. /\ pool' \in [Depths -> Nat] /\ tx' = tx
      /\ NewFrames(fs, k, contract, caller, gas, cap, snap, d)
  BY <1>1, NewFrameType
<1>5. PICK g \in Frame : frames' = Append(fs, g) /\ g.snap = Len(d.snapshots) + 1 /\ g.pre = d
  BY <1>4 DEF NewFrames
<1>6. /\ frames' \in Seq(Frame) /\ Len(fs) \in Nat /\ Len(frames') = Len(fs) + 1
      /\ frames'[Len(fs) + 1] = g /\ frames' # << >>
      /\ \A i \in 1 .. Len(fs) : frames'[i] = fs[i]
  BY <1>5, AppendFrame
<1>7. /\ db' \in DB /\ Grows(d, db', tainted', Unheld(tainted'))
      /\ Len(d.snapshots) + 1 <= Len(db'.snapshots)
      /\ \A c \in Cell : c.addr \notin tainted' /\ Faithful(d, c) =>
            ReturnsTo(db', db'.snapshots[Len(d.snapshots) + 1], c, Read(d, c))
  BY <1>2, BeginsAt
<1>8. Grows(db, db', tainted', Unheld(tainted'))
  BY <1>2, <1>7, GrowsTrans
<1>9. Continued
  <2>1. ASSUME NEW i \in 1 .. Len(frames'), i <= Len(frames)
        PROVE  SameFrame(frames'[i], frames[i])
    <3>1. i \in 1 .. Len(fs)
      BY <1>6, <2>1
    <3> QED BY <1>6, <3>1 DEF Outermost
  <2> QED BY <2>1 DEF Continued
<1>10. Begun(frames'[Len(frames')])
  <2>1. ASSUME NEW c \in Cell, c.addr \notin tainted'
        PROVE  ReturnsTo(db', db'.snapshots[g.snap], c, Read(g.pre, c))
    <3>1. c \in {x \in Cell : x.addr \notin tainted}
      BY <2>1
    <3>2. Faithful(db, c)
      BY <1>1, <3>1 DEF Revertible, FramesRestorable
    <3>3. Faithful(d, c)
      BY <2>1, <3>2 DEF Grows
    <3> QED BY <1>5, <1>7, <2>1, <3>3
  <2> QED BY <1>5, <1>6, <1>7, <2>1 DEF Begun
<1>11. /\ tx # NoTx /\ tx' # NoTx /\ tx'.before = tx.before /\ PhasesMatch'
  <2>1. /\ tx # NoTx /\ tx.phase = "running" /\ tx.gasLeft = 0
        /\ IntrinsicGas(tx.msg) <= tx.msg.gas
    BY <1>1, RunningTx
  <2> QED BY <1>4, <2>1 DEF PhasesMatch, IntrinsicGas
<1>12. Len(frames') <= Len(frames) + 1
  BY <1>6
<1>13. Revertible'
  BY <1>1, <1>6, <1>8, <1>9, <1>10, <1>11, <1>12, StepPreserves
<1>14. TypeOK'
  BY <1>1, <1>4, <1>6, <1>7 DEF TypeOK, TracerOK
<1>15. Rooted'
  BY DEF TracerOK, Rooted
<1> QED BY <1>13, <1>14, <1>15 DEF EVMInv

\* What the tracer is told keeps it typed and rooted.
LEMMA TracerSteps ==
    ASSUME TypeOK, Rooted
    PROVE  /\ TracerOK(tracer)
           /\ \A ct \in CallKind, from \in Addr, to \in Addr : TracerOK(OnEnter(ct, from, to))
           /\ \A err \in Outcome : TracerOK(OnExit(err))
<1>1. /\ tracer \in [root : TraceNode \cup {Nil}, open : Seq(TraceNode)]
      /\ tracer.open # << >> => tracer.root \in TraceNode
  BY DEF TypeOK, Rooted
<1>2. tracer.open \in Seq(TraceNode) /\ tracer.root \in TraceNode \cup {Nil}
  BY <1>1
<1>3. ASSUME NEW ct \in CallKind, NEW from \in Addr, NEW to \in Addr
      PROVE  TracerOK(OnEnter(ct, from, to))
  <2> DEFINE n == Node(ct, from, to)
  <2> DEFINE root == IF tracer.open = << >> THEN n ELSE tracer.root
  <2>1. n \in TraceNode
    BY DEF Node, TraceNode
  <2> HIDE DEF n
  <2>2. root \in TraceNode
    BY <1>1, <2>1
  <2>3. Append(tracer.open, n) \in Seq(TraceNode)
    BY <1>2, <2>1
  <2>4. OnEnter(ct, from, to) = [root |-> root, open |-> Append(tracer.open, n)]
    BY DEF OnEnter, n
  <2> HIDE DEF root
  <2> QED BY <2>2, <2>3, <2>4 DEF TracerOK
<1>4. ASSUME NEW err \in Outcome
      PROVE  TracerOK(OnExit(err))
  <2> DEFINE m == Len(tracer.open)
  <2>1. m \in Nat
    BY <1>2
  <2>2. CASE m = 0
    BY <1>1, <2>2 DEF OnExit, TracerOK
  <2>3. CASE m # 0
    <3> DEFINE root == IF m = 1 THEN [tracer.root EXCEPT !.err = err] ELSE tracer.root
    <3> DEFINE open == SubSeq(tracer.open, 1, m - 1)
    <3>1. tracer.root \in TraceNode
      BY <1>1, <1>2, <2>3
    <3>2. root \in TraceNode
      BY <3>1 DEF TraceNode, Outcome
    <3>3. open \in Seq(TraceNode)
      BY <1>2, <2>1, <2>3
    <3>4. OnExit(err) = [root |-> root, open |-> open]
      BY <2>3 DEF OnExit
    <3> HIDE DEF root, open
    <3> QED BY <3>2, <3>3, <3>4 DEF TracerOK
  <2> QED BY <2>2, <2>3
<1> QED BY <1>1, <1>3, <1>4 DEF TracerOK

\* The gas that is taken back.
LEMMA CappedType ==
    ASSUME NEW g \in Nat, NEW cap \in Nat \cup {Nil}
    PROVE  Capped(g, cap) \in Nat /\ Capped(g, cap) <= g /\ (cap # Nil => Capped(g, cap) <= cap)
BY FramesAssumption DEF Capped

\* Codes that are read are codes.
LEMMA CodeType ==
    ASSUME NEW d \in DB, NEW a \in Addr
    PROVE  /\ GetCode(d, a) \in Code /\ GetBalance(d, a) \in Word /\ GetNonce(d, a) \in Nat
           /\ GetBalance(d, a) \in Int
<1>1. getOrCreate(d, a) \in Account
  BY GetOrCreateType
<1>2. GetCode(d, a) \in Code /\ GetBalance(d, a) \in Word /\ GetNonce(d, a) \in Nat
  BY <1>1 DEF GetCode, GetBalance, GetNonce, Account
<1> QED BY <1>2, StateAssumption DEF Word

\* A call over fs, from the database d.
CallOver(fs, d) ==
    /\ EVMInv /\ tx.phase = "running"
    /\ fs \in Seq(Frame) /\ Outermost(fs) /\ Len(fs) = Len(frames)
    /\ d \in DB /\ d.snapshots = db.snapshots /\ Nested(d)
    /\ tainted \subseteq tainted' /\ tainted' \subseteq Creatable /\ UNCHANGED txs
    /\ Grows(db, d, tainted', Unheld(tainted'))

\* EVM.execCall keeps the invariant.
LEMMA ExecCallStep ==
    ASSUME NEW fs, NEW d, CallOver(fs, d), NEW caller \in Addr, NEW contract \in Addr,
           NEW value \in Word, NEW gas \in Nat, NEW cap \in Nat \cup {Nil},
           execCall(d, fs, caller, contract, value, gas, cap)
    PROVE  EVMInv'
<1> DEFINE T == tainted'
<1> DEFINE X == Unheld(tainted')
<1> DEFINE snap == Len(d.snapshots) + 1
<1> DEFINE s == Snapshot(d)
<1> DEFINE w == WarmAddress(s, caller)
<1> DEFINE begun == WarmAddress(w, contract)
<1> DEFINE moved == Transfer(begun, caller, contract, value)
<1> DEFINE r == RevertToSnapshot(begun, snap)
<1>1. /\ EVMInv /\ tx.phase = "running" /\ fs \in Seq(Frame) /\ Outermost(fs) /\ Len(fs) = Len(frames)
      /\ d \in DB /\ d.snapshots = db.snapshots /\ Nested(d)
      /\ tainted \subseteq T /\ T \subseteq Creatable /\ UNCHANGED txs
      /\ Grows(db, d, T, X)
  BY DEF CallOver
<1>a. TypeOK /\ Rooted /\ db \in DB
  BY <1>1 DEF EVMInv, TypeOK
<1>2. \/ \E left \in 0 .. gas : Answer(d, fs, "none", Capped(left, cap))
      \/ Answer(r, fs, "fail", 0)
      \/ Answer(moved, fs, "none", Capped(gas, cap))
      \/ /\ db' = moved
         /\ tracer' = OnEnter("call", caller, contract)
         /\ newFrame(fs, "call", GetCode(moved, contract), contract, caller,
                     gas, cap, snap, d, Nil)
  BY DEF execCall
<1> HIDE DEF snap, T, X
<1>3. /\ s \in DB /\ Grows(d, s, T, X)
      /\ s.snapshots = Append(d.snapshots, Len(d.journal))
  BY <1>1, SnapshotGrows
<1> HIDE DEF s
<1>4. w \in DB /\ Grows(s, w, T, X) /\ w.snapshots = s.snapshots
  BY <1>3, QuietOpsGrow
<1> HIDE DEF w
<1>5. begun \in DB /\ Grows(w, begun, T, X) /\ begun.snapshots = w.snapshots
  BY <1>4, QuietOpsGrow
<1> HIDE DEF begun
<1>6. Grows(s, begun, T, X) /\ begun.snapshots = s.snapshots
  BY <1>3, <1>4, <1>5, GrowsTrans
<1>7. moved \in DB /\ Grows(begun, moved, T, X)
  BY <1>5, TransferGrows
<1> HIDE DEF moved
<1>8. Grows(s, moved, T, X)
  BY <1>3, <1>5, <1>6, <1>7, GrowsTrans
<1>9. Grows(d, moved, T, X)
  BY <1>1, <1>3, <1>7, <1>8, GrowsTrans
<1>10. Grows(db, moved, T, X)
  BY <1>1, <1>a, <1>7, <1>9, GrowsTrans
<1>11. r \in DB /\ Grows(d, r, T, X)
  BY <1>1, <1>5, <1>6, RevertGrows DEF s, snap
<1> HIDE DEF r
<1>12. Grows(db, r, T, X)
  BY <1>1, <1>a, <1>11, GrowsTrans
<1>13. "none" \in Outcome /\ "fail" \in Outcome /\ 0 \in Nat
  BY DEF Outcome
<1>14. ASSUME NEW left \in 0 .. gas, Answer(d, fs, "none", Capped(left, cap))
       PROVE  EVMInv'
  <2>0. left \in Nat
    OBVIOUS
  <2>1. Capped(left, cap) \in Nat
    BY <2>0, CappedType
  <2> QED BY <1>1, <1>13, <1>14, <2>1, AnswerStep DEF T, X
<1>15. CASE Answer(r, fs, "fail", 0)
  BY <1>1, <1>12, <1>13, <1>15, AnswerStep DEF T, X
<1>16. CASE Answer(moved, fs, "none", Capped(gas, cap))
  <2>1. Capped(gas, cap) \in Nat
    BY CappedType
  <2> QED BY <1>1, <1>10, <1>13, <1>16, <2>1, AnswerStep DEF T, X
<1>17. ASSUME db' = moved, tracer' = OnEnter("call", caller, contract),
              newFrame(fs, "call", GetCode(moved, contract), contract, caller,
                       gas, cap, snap, d, Nil)
       PROVE  EVMInv'
  <2>1. TracerOK(tracer')
    BY <1>a, <1>17, TracerSteps DEF CallKind
  <2>2. snap \in Nat \ {0}
    BY <1>1, Lengths DEF snap
  <2>3. FrameArgs("call", GetCode(moved, contract), contract, caller, gas, cap, snap, d, Nil)
    BY <1>1, <1>7, <2>2, CodeType DEF FrameArgs, CallKind
  <2>4. Grows(Snapshot(d), db', T, X)
    BY <1>8, <1>17 DEF s
  <2>5. snap = Len(d.snapshots) + 1
    BY DEF snap
  <2> DEFINE code == GetCode(moved, contract)
  <2>6. /\ newFrame(fs, "call", code, contract, caller, gas, cap, snap, d, Nil)
        /\ FrameArgs("call", code, contract, caller, gas, cap, snap, d, Nil)
    BY <1>17, <2>3
  <2> HIDE DEF code
  <2> QED BY <1>1, <2>1, <2>4, <2>5, <2>6, FrameStep DEF T, X
<1> QED BY <1>2, <1>14, <1>15, <1>16, <1>17

\* CALLCODE and DELEGATECALL keep the invariant.
LEMMA ExecCodeOfStep ==
    ASSUME NEW fs, NEW d, CallOver(fs, d), NEW ct \in {"callcode", "delegatecall"},
           NEW f \in Frame, f.depth + 1 < MaxCallDepth, NEW addr \in Addr, NEW value \in Word,
           NEW gas \in Nat, NEW cap \in Nat \cup {Nil},
           execCodeOf(ct, d, fs, f, addr, value, gas, cap)
    PROVE  EVMInv'
<1> DEFINE T == tainted'
<1> DEFINE X == Unheld(tainted')
<1> DEFINE snap == Len(d.snapshots) + 1
<1> DEFINE s == Snapshot(d)
<1> DEFINE code == GetCode(d, addr)
<1> DEFINE caller == IF ct = "delegatecall" THEN f.caller ELSE f.contract
<1> DEFINE depth == f.depth + 1
<1> DEFINE g == Capped(gas, cap)
<1>1. /\ EVMInv /\ tx.phase = "running" /\ fs \in Seq(Frame) /\ Outermost(fs) /\ Len(fs) = Len(frames)
      /\ d \in DB /\ d.snapshots = db.snapshots
      /\ tainted \subseteq T /\ T \subseteq Creatable /\ UNCHANGED txs
      /\ Grows(db, d, T, X)
  BY DEF CallOver
<1>a. TypeOK /\ Rooted /\ db \in DB
  BY <1>1 DEF EVMInv, TypeOK
<1>2. \/ Answer(s, fs, "fail", g)
      \/ Answer(s, fs, "none", g)
      \/ /\ db' = s
         /\ tracer' = OnEnter(ct, caller, f.contract)
         /\ newFrame(fs, ct, code, f.contract, caller, gas, cap, snap, d, depth)
  BY DEF execCodeOf
<1>b. ct \in CallKind
  BY DEF CallKind
<1>d. code \in Code /\ caller \in Addr /\ f.contract \in Addr /\ g \in Nat
  BY <1>1, FrameFields, CodeType, CappedType
<1>e. depth \in 0 .. (MaxCallDepth - 1)
  BY FrameFields, FramesAssumption
<1>f. snap = Len(d.snapshots) + 1 /\ snap \in Nat \ {0}
  BY <1>1, Lengths
<1>c. /\ snap = Len(d.snapshots) + 1 /\ snap \in Nat \ {0}
      /\ code \in Code /\ caller \in Addr /\ f.contract \in Addr
      /\ depth \in 0 .. (MaxCallDepth - 1) /\ g \in Nat
  BY <1>d, <1>e, <1>f
<1> HIDE DEF snap, T, X, code, caller, depth, g
<1>3. s \in DB /\ Grows(d, s, T, X)
  BY <1>1, SnapshotGrows
<1>4. Grows(s, s, T, X)
  BY <1>3, QuietGrows
<1>5. Grows(Snapshot(d), s, T, X)
  BY <1>4 DEF s
<1> HIDE DEF s
<1>6. Grows(db, s, T, X)
  BY <1>1, <1>a, <1>3, GrowsTrans
<1>7. "none" \in Outcome /\ "fail" \in Outcome
  BY DEF Outcome
<1>8. CASE Answer(s, fs, "fail", g)
  BY <1>1, <1>c, <1>6, <1>7, <1>8, AnswerStep DEF T, X
<1>9. CASE Answer(s, fs, "none", g)
  BY <1>1, <1>c, <1>6, <1>7, <1>9, AnswerStep DEF T, X
<1>10. ASSUME db' = s, tracer' = OnEnter(ct, caller, f.contract),
              newFrame(fs, ct, code, f.contract, caller, gas, cap, snap, d, depth)
       PROVE  EVMInv'
  <2>1. TracerOK(tracer')
    BY <1>a, <1>b, <1>c, <1>10, TracerSteps
  <2>2. FrameArgs(ct, code, f.contract, caller, gas, cap, snap, d, depth)
    BY <1>1, <1>b, <1>c DEF FrameArgs
  <2>3. Grows(Snapshot(d), db', T, X)
    BY <1>5, <1>10
  <2> QED BY <1>1, <1>c, <1>10, <2>1, <2>2, <2>3, FrameStep DEF T, X
<1> QED BY <1>2, <1>8, <1>9, <1>10

\* STATICCALL keeps the invariant.
LEMMA ExecStaticStep ==
    ASSUME NEW fs, NEW d, CallOver(fs, d), NEW f \in Frame, f.depth + 1 < MaxCallDepth,
           NEW addr \in Addr, NEW gas \in Nat, NEW cap \in Nat \cup {Nil},
           execStatic(d, fs, f, addr, gas, cap)
    PROVE  EVMInv'
<1> DEFINE T == tainted'
<1> DEFINE X == Unheld(tainted')
<1> DEFINE snap == Len(d.snapshots) + 1
<1> DEFINE code == GetCode(d, addr)
<1> DEFINE depth == f.depth + 1
<1> DEFINE caller == f.contract
<1>1. /\ EVMInv /\ tx.phase = "running" /\ fs \in Seq(Frame) /\ Outermost(fs) /\ Len(fs) = Len(frames)
      /\ d \in DB /\ d.snapshots = db.snapshots
      /\ tainted \subseteq T /\ T \subseteq Creatable /\ UNCHANGED txs
      /\ Grows(db, d, T, X)
  BY DEF CallOver
<1>a. TypeOK /\ Rooted /\ db \in DB
  BY <1>1 DEF EVMInv, TypeOK
<1>2. /\ db' = Snapshot(d) /\ tracer' = tracer
      /\ newFrame(fs, "staticcall", code, addr, caller, gas, cap, snap, d, depth)
  BY DEF execStatic
<1>c. /\ snap = Len(d.snapshots) + 1 /\ snap \in Nat \ {0}
      /\ code \in Code /\ caller \in Addr
      /\ depth \in 0 .. (MaxCallDepth - 1)
  BY SMTT(60), <1>1, Lengths, FrameFields, CodeType, FramesAssumption
<1> HIDE DEF snap, T, X, code, depth, caller
<1>3. Snapshot(d) \in DB
  BY <1>1, SnapshotGrows
<1>4. Grows(Snapshot(d), db', T, X)
  BY <1>2, <1>3, QuietGrows
<1>5. TracerOK(tracer')
  BY <1>a, <1>2, TracerSteps
<1>6. FrameArgs("staticcall", code, addr, caller, gas, cap, snap, d, depth)
  BY <1>1, <1>c DEF FrameArgs, CallKind
<1> QED BY <1>1, <1>c, <1>2, <1>4, <1>5, <1>6, FrameStep DEF T, X

\* EVM.Call keeps the invariant.
LEMMA CallStep ==
    ASSUME NEW fs, NEW d, CallOver(fs, d), NEW ct \in CallKind, NEW f \in Frame, NEW addr \in Addr,
           NEW value \in Word, NEW gas \in Nat, NEW cap \in Nat \cup {Nil},
           Call(ct, d, fs, f, addr, value, gas, cap)
    PROVE  EVMInv'
<1>1. MaxCallDepth \in Nat /\ f.depth \in Nat /\ f.contract \in Addr
  BY FrameFields, FramesAssumption
<1>2. CASE f.depth + 1 >= MaxCallDepth
  <2>1. Answer(d, fs, "fail", Capped(gas, cap))
    BY <1>2 DEF Call
  <2>2. Capped(gas, cap) \in Nat /\ "fail" \in Outcome
    BY CappedType DEF Outcome
  <2> QED BY <2>1, <2>2, AnswerStep DEF CallOver
<1>3. CASE ~ (f.depth + 1 >= MaxCallDepth)
  <2>1. f.depth + 1 < MaxCallDepth
    BY <1>1, <1>3
  <2>2. CASE ct = "call"
    <3>1. execCall(d, fs, f.contract, addr, value, gas, cap)
      BY <1>3, <2>2 DEF Call
    <3> QED BY <1>1, <3>1, ExecCallStep
  <2>3. CASE ct = "staticcall"
    <3>1. execStatic(d, fs, f, addr, gas, cap)
      BY <1>3, <2>3 DEF Call
    <3> QED BY <2>1, <3>1, ExecStaticStep
  <2>4. CASE ct \in {"callcode", "delegatecall"}
    <3>1. execCodeOf(ct, d, fs, f, addr, value, gas, cap)
      BY <1>3, <2>4 DEF Call
    <3> QED BY <2>1, <2>4, <3>1, ExecCodeOfStep
  <2> QED BY <2>2, <2>3, <2>4 DEF CallKind
<1> QED BY <1>2, <1>3
-----------------------------------------------------------------------------
(***************************************************************************)
(* Creations.                                                              *)
(***************************************************************************)
\* An address whose creation has nothing to give back held nothing before the
\* transaction either.
LEMMA FreshHeldNothing ==
    ASSUME TypeOK, Revertible, tx.phase = "running", NEW from, NEW a \in Addr, a \notin tainted,
           Fresh(db, from, a)
    PROVE  getOrCreate(db, a) = EmptyAccount /\ ~ CreatedInTx(db, a) /\ ~ Held(a)
<1>0. /\ db \in DB /\ tx # NoTx /\ tx.before \in [Addr -> Account \cup {NoAccount}]
  BY RunningTx DEF TypeOK, Revertible
<1>1. /\ GetBalance(db, a) = 0 /\ GetNonce(db, a) = 0 /\ GetCode(db, a) = NoCode
      /\ \A k \in 1 .. Len(db.journal) : db.journal[k].addr # a
  BY DEF Fresh, Empty, GetBalance, GetNonce, GetCode
<1>2. ~ HasSuicided(db, a)
  <2>1. \A k \in 1 .. Len(db.journal) : ~ Sets(db.journal[k], a)
    BY <1>1 DEF Sets
  <2> QED BY <2>1 DEF Revertible, SuicideRecorded
<1>3. ~ CreatedInTx(db, a)
  <2>1. \A k \in 1 .. Len(db.journal) : ~ Creates(db.journal[k], a)
    BY <1>1 DEF Creates
  <2> QED BY <2>1 DEF Revertible, CreationRecorded, CreatedInTx
<1>4. getOrCreate(db, a) = EmptyAccount
  <2>1. getOrCreate(db, a) \in Account
    BY <1>0, GetOrCreateType
  <2>2. HasSuicided(db, a) = FALSE
    BY <1>0, <1>2, SuicideCell
  <2> QED BY <1>1, <2>1, <2>2 DEF Account, EmptyAccount, GetBalance, GetNonce, GetCode, HasSuicided
<1>5. ASSUME Held(a)
      PROVE  FALSE
  <2> DEFINE b == [db EXCEPT !.accounts = tx.before]
  <2>1. PICK n \in 0 .. Len(db.journal) :
          \A c \in {x \in AccountCell : x.addr \notin tainted} : ReturnsTo(db, n, c, Read(b, c))
    BY <1>0 DEF Revertible, HeldAreSafe
  <2>2. b.accounts = tx.before
    BY <1>0 DEF DB
  <2> HIDE DEF b
  <2>3. getOrCreate(b, a) = tx.before[a] /\ tx.before[a] \in Account
    BY <1>0, <1>5, <2>2 DEF Held, getOrCreate, Exists
  <2>4. ASSUME NEW c \in AccountCell, c.addr = a
        PROVE  Read(db, c) = Read(b, c)
    <3>1. ReturnsTo(db, n, c, Read(b, c))
      BY <2>1, <2>4
    <3>2. \A k \in 1 .. Len(db.journal) : ~ Touches(db.journal[k], c)
      BY <1>1, <2>4 DEF Touches, Records, Resets
    <3>3. \A k \in (n + 1) .. Len(db.journal) : k \in 1 .. Len(db.journal)
      BY <1>0, Lengths
    <3>4. Untouched(db, n, c)
      BY <3>2, <3>3 DEF Untouched
    <3> QED BY <3>1, <3>4 DEF ReturnsTo
  <2>5. GetBalance(b, a) = GetBalance(db, a)
    <3> DEFINE c == [addr |-> a, field |-> "balance"]
    <3>1. c \in AccountCell /\ c.addr = a /\ \A d : Read(d, c) = GetBalance(d, a)
      BY DEF AccountCell, AccountField, Read
    <3> HIDE DEF c
    <3> QED BY <2>4, <3>1
  <2>6. GetNonce(b, a) = GetNonce(db, a)
    <3> DEFINE c == [addr |-> a, field |-> "nonce"]
    <3>1. c \in AccountCell /\ c.addr = a /\ \A d : Read(d, c) = GetNonce(d, a)
      BY DEF AccountCell, AccountField, Read
    <3> HIDE DEF c
    <3> QED BY <2>4, <3>1
  <2>7. GetCode(b, a) = GetCode(db, a)
    <3> DEFINE c == [addr |-> a, field |-> "code"]
    <3>1. c \in AccountCell /\ c.addr = a /\ \A d : Read(d, c) = GetCode(d, a)
      BY DEF AccountCell, AccountField, Read
    <3> HIDE DEF c
    <3> QED BY <2>4, <3>1
  <2>8. HasSuicided(b, a) = HasSuicided(db, a)
    <3> DEFINE c == [addr |-> a, field |-> "suicide"]
    <3>1. c \in AccountCell /\ c.addr = a /\ \A d : Read(d, c) = HasSuicided(d, a)
      BY SuicideCell
    <3> HIDE DEF c
    <3> QED BY <2>4, <3>1
  <2>9. /\ tx.before[a].balance = EmptyAccount.balance /\ tx.before[a].nonce = EmptyAccount.nonce
        /\ tx.before[a].code = EmptyAccount.code /\ tx.before[a].suicide = EmptyAccount.suicide
    BY <1>4, <2>3, <2>5, <2>6, <2>7, <2>8 DEF GetBalance, GetNonce, GetCode, HasSuicided
  <2>10. EmptyAccount \in Account
    BY StateAssumption DEF EmptyAccount, Account, Word
  <2>11. tx.before[a] = EmptyAccount
    BY <2>3, <2>9, <2>10 DEF Account
  <2> QED BY <1>5, <2>11 DEF Held
<1> QED BY <1>3, <1>4, <1>5

\* Setting a nonce changes no other account, and the journal only by one entry.
LEMMA SetNonceReads ==
    ASSUME NEW d \in DB, NEW a \in Addr, NEW nonce \in Nat, NEW b \in Addr, b # a
    PROVE  /\ getOrCreate(SetNonce(d, a, nonce), b) = getOrCreate(d, b)
           /\ CreatedInTx(SetNonce(d, a, nonce), b) = CreatedInTx(d, b)
           /\ (\A k \in 1 .. Len(d.journal) : d.journal[k].addr # b) =>
                 \A k \in 1 .. Len(SetNonce(d, a, nonce).journal) :
                    SetNonce(d, a, nonce).journal[k].addr # b
<1> DEFINE d2 == SetNonce(d, a, nonce)
<1> DEFINE acc == [getOrCreate(d, a) EXCEPT !.nonce = nonce]
<1>1. /\ d2.accounts = [d.accounts EXCEPT ![a] = acc] /\ d2.createdInTx = d.createdInTx
  BY DEF SetNonce, Journaled, DB
<1>2. getOrCreate(d2, b) = getOrCreate(d, b)
  <2>1. d2.accounts[b] = d.accounts[b]
    BY <1>1 DEF DB
  <2> QED BY <2>1 DEF getOrCreate, Exists
<1>3. PICK e \in JournalEntry \ JCreate : Logs(d, d2, e) /\ e.kind = "nonce" /\ e.addr = a
  BY SettersWrite
<1> HIDE DEF d2
<1>4. /\ Len(d.journal) \in Nat /\ Len(d2.journal) = Len(d.journal) + 1
      /\ d2.journal[Len(d.journal) + 1] = e
      /\ \A k \in 1 .. Len(d.journal) : d2.journal[k] = d.journal[k]
  BY <1>3, LoggedJournal
<1>5. ASSUME \A k \in 1 .. Len(d.journal) : d.journal[k].addr # b,
             NEW k \in 1 .. Len(d2.journal)
      PROVE  d2.journal[k].addr # b
  <2>1. k \in 1 .. Len(d.journal) \/ k = Len(d.journal) + 1
    BY <1>4
  <2> QED BY <1>3, <1>4, <1>5, <2>1
<1>6. CreatedInTx(d2, b) = CreatedInTx(d, b)
  BY <1>1 DEF CreatedInTx
<1> QED BY <1>2, <1>5, <1>6 DEF d2

\* EVM.create keeps the invariant.
LEMMA CreateStep ==
    ASSUME EVMInv, tx.phase = "running", NEW fs \in Seq(Frame), Outermost(fs),
           Len(fs) = Len(frames), NEW from \in Addr, NEW contract \in Creatable,
           NEW value \in Word, NEW gas \in Nat, NEW initCode \in Code,
           create(db, fs, from, contract, value, gas, initCode), UNCHANGED txs
    PROVE  EVMInv'
<1> DEFINE T == tainted'
<1> DEFINE X == Unheld(tainted')
<1> DEFINE snap == Len(db.snapshots) + 1
<1> DEFINE s == Snapshot(db)
<1> DEFINE n == SetNonce(s, from, GetNonce(db, from) + 1)
<1> DEFINE m == CreateAccount(n, contract)
<1> DEFINE made == SetNonce(m, contract, 1)
<1> DEFINE begun == WarmAddress(made, contract)
<1> DEFINE moved == Transfer(begun, from, contract, value)
<1> DEFINE r == RevertToSnapshot(begun, snap)
<1>1. /\ tainted' = IF Fresh(db, from, contract) THEN tainted ELSE tainted \cup {contract}
      /\ \/ Answer(r, fs, "fail", 0)
         \/ /\ db' = moved
            /\ newFrame(fs, "create", initCode, contract, from, gas, Nil, snap, db, Nil)
            /\ UNCHANGED tracer
  BY DEF create
<1>2. TypeOK /\ Revertible /\ Rooted /\ db \in DB /\ Nested(db) /\ tainted \subseteq Creatable
  BY DEF EVMInv, TypeOK, Revertible
<1>3. contract \in Addr
  BY EVMAssumption
<1>4. tainted \subseteq T /\ T \subseteq Creatable
  BY <1>1, <1>2
<1>5. contract \notin T =>
         /\ getOrCreate(db, contract) = EmptyAccount /\ ~ CreatedInTx(db, contract)
         /\ ~ Held(contract) /\ contract # from
         /\ \A k \in 1 .. Len(db.journal) : db.journal[k].addr # contract
  <2>1. contract \notin T => Fresh(db, from, contract) /\ contract \notin tainted
    BY <1>1
  <2> QED BY <1>2, <1>3, <2>1, FreshHeldNothing DEF Fresh
<1>6. contract \in X
  BY <1>3, <1>5 DEF Unheld
<1> HIDE DEF snap, T, X
<1>7. /\ s \in DB /\ Grows(db, s, T, X) /\ s.journal = db.journal
      /\ s.snapshots = Append(db.snapshots, Len(db.journal))
      /\ getOrCreate(s, contract) = getOrCreate(db, contract)
  BY <1>2, SnapshotGrows
<1>8. CreatedInTx(s, contract) = CreatedInTx(db, contract)
  BY <1>2 DEF CreatedInTx, Snapshot, DB
<1> HIDE DEF s
<1>9. GetNonce(db, from) + 1 \in Nat
  BY <1>2, CodeType
<1>10. n \in DB /\ Grows(s, n, T, X) /\ n.snapshots = s.snapshots
  BY <1>7, <1>9, SettersGrow
<1>11. contract \notin T =>
         /\ getOrCreate(n, contract) = EmptyAccount /\ ~ CreatedInTx(n, contract)
         /\ \A k \in 1 .. Len(n.journal) : n.journal[k].addr # contract
  BY SMTT(60), <1>3, <1>5, <1>7, <1>8, <1>9, SetNonceReads
<1> HIDE DEF n
<1>12. m \in DB /\ Grows(n, m, T, X) /\ m.snapshots = n.snapshots
  BY <1>3, <1>6, <1>10, <1>11, CreateGrows
<1> HIDE DEF m
<1>13. made \in DB /\ Grows(m, made, T, X) /\ made.snapshots = m.snapshots
  <2> DEFINE one == 1
  <2>1. one \in Nat
    OBVIOUS
  <2> HIDE DEF one
  <2>2. LET d2 == SetNonce(m, contract, one)
        IN  d2 \in DB /\ Grows(m, d2, T, X) /\ d2.snapshots = m.snapshots
    BY <1>3, <1>12, <2>1, SettersGrow
  <2> QED BY <2>2 DEF one
<1> HIDE DEF made
<1>14. begun \in DB /\ Grows(made, begun, T, X) /\ begun.snapshots = made.snapshots
  BY <1>3, <1>13, QuietOpsGrow
<1> HIDE DEF begun
<1>15. Grows(s, begun, T, X) /\ begun.snapshots = s.snapshots
  <2>1. Grows(s, m, T, X)
    BY <1>7, <1>10, <1>12, GrowsTrans
  <2>2. Grows(s, made, T, X)
    BY <1>7, <1>12, <1>13, <2>1, GrowsTrans
  <2> QED BY <1>7, <1>10, <1>12, <1>13, <1>14, <2>2, GrowsTrans
<1>16. moved \in DB /\ Grows(begun, moved, T, X)
  BY <1>3, <1>14, TransferGrows
<1> HIDE DEF moved
<1>17. Grows(s, moved, T, X)
  BY <1>7, <1>14, <1>15, <1>16, GrowsTrans
<1>18. r \in DB /\ Grows(db, r, T, X)
  BY <1>2, <1>14, <1>15, RevertGrows DEF s, snap
<1> HIDE DEF r
<1>19. CASE Answer(r, fs, "fail", 0)
  <2>1. "fail" \in Outcome /\ 0 \in Nat
    BY DEF Outcome
  <2> QED BY <1>4, <1>18, <1>19, <2>1, AnswerStep DEF T, X
<1>20. ASSUME db' = moved, UNCHANGED tracer,
              newFrame(fs, "create", initCode, contract, from, gas, Nil, snap, db, Nil)
       PROVE  EVMInv'
  <2>1. TracerOK(tracer')
    BY <1>2, <1>20, TracerSteps
  <2>2. snap = Len(db.snapshots) + 1 /\ snap \in Nat \ {0}
    BY <1>2, Lengths DEF snap
  <2>3. FrameArgs("create", initCode, contract, from, gas, Nil, snap, db, Nil)
    BY <1>2, <1>3, <2>2 DEF FrameArgs
  <2>4. Grows(Snapshot(db), db', T, X)
    BY <1>17, <1>20 DEF s
  <2>5. Grows(db, db, T, X)
    BY <1>2, QuietGrows
  <2> QED BY <1>4, <1>20, <2>1, <2>2, <2>3, <2>4, <2>5, FrameStep DEF T, X
<1> QED BY <1>1, <1>19, <1>20

\* The frames with a top that has other gas are the active frames.
LEMMA ChargedFrames ==
    ASSUME TypeOK, frames # << >>, NEW g \in Frame, SameFrame(g, Top)
    PROVE  /\ WithTop(frames, g) \in Seq(Frame) /\ Outermost(WithTop(frames, g))
           /\ Len(WithTop(frames, g)) = Len(frames) /\ Top \in Frame
           /\ Len(frames) \in Nat \ {0}
<1>1. frames \in Seq(Frame)
  BY DEF TypeOK
<1>2. /\ Len(frames) \in Nat \ {0} /\ frames[Len(frames)] \in Frame
      /\ WithTop(frames, g) \in Seq(Frame) /\ Len(WithTop(frames, g)) = Len(frames)
      /\ WithTop(frames, g)[Len(frames)] = g
      /\ \A i \in 1 .. (Len(frames) - 1) : WithTop(frames, g)[i] = frames[i]
  BY <1>1, WithTopFrames
<1>3. ASSUME NEW i \in 1 .. Len(frames)
      PROVE  SameFrame(WithTop(frames, g)[i], frames[i])
  <2>1. i \in 1 .. (Len(frames) - 1) \/ i = Len(frames)
    BY <1>2
  <2> QED BY <1>2, <2>1 DEF SameFrame, Top
<1> QED BY <1>2, <1>3 DEF Outermost, Top

\* EVM.Create keeps the invariant.
LEMMA CreateCallStep ==
    ASSUME EVMInv, tx.phase = "running", NEW fs \in Seq(Frame), Outermost(fs),
           Len(fs) = Len(frames), NEW f \in Frame, NEW contract \in Creatable,
           NEW value \in Word, NEW gas \in Nat, NEW initCode \in Code,
           Create(db, fs, f, contract, value, gas, initCode), UNCHANGED txs
    PROVE  EVMInv'
<1>1. CASE f.depth + 1 >= MaxCallDepth
  <2>1. Answer(db, fs, "fail", 0) /\ tainted' = tainted
    BY <1>1 DEF Create
  <2>2. db \in DB /\ tainted \subseteq Creatable
    BY DEF EVMInv, TypeOK
  <2>3. Grows(db, db, tainted', Unheld(tainted'))
    BY <2>2, QuietGrows
  <2>4. "fail" \in Outcome /\ 0 \in Nat
    BY DEF Outcome
  <2> QED BY <2>1, <2>2, <2>3, <2>4, AnswerStep
<1>2. CASE ~ (f.depth + 1 >= MaxCallDepth)
  <2>1. create(db, fs, f.contract, contract, value, gas, initCode)
    BY <1>2 DEF Create
  <2>2. f.contract \in Addr
    BY FrameFields
  <2> QED BY <2>1, <2>2, CreateStep
<1> QED BY <1>1, <1>2
-----------------------------------------------------------------------------
(***************************************************************************)
(* Opcodes.                                                                *)
(***************************************************************************)
\* The top frame changes its gas or ends, and the database grows.
LEMMA TopStep ==
    ASSUME EVMInv, frames # << >>, NEW g \in Frame, SameFrame(g, Top),
           frames' = WithTop(frames, g), Grows(db, db', tainted, Unheld(tainted)),
           UNCHANGED <<pool, tx, tracer, tainted, txs>>
    PROVE  EVMInv'
<1>1. TypeOK /\ Revertible /\ Rooted /\ PhasesMatch
  BY DEF EVMInv, Revertible
<1>2. /\ frames' \in Seq(Frame) /\ Outermost(frames') /\ Len(frames') = Len(frames)
      /\ Len(frames) \in Nat \ {0}
  BY <1>1, ChargedFrames
<1>3. /\ tx # NoTx /\ tx.phase = "running" /\ tx.gasLeft = 0
      /\ IntrinsicGas(tx.msg) <= tx.msg.gas
  BY <1>1, RunningTx
<1>4. PhasesMatch'
  BY <1>3 DEF PhasesMatch, IntrinsicGas
<1>5. Continued
  BY <1>2 DEF Continued, Outermost
<1>6. tx' = tx /\ tainted' = tainted
  OBVIOUS
<1>7. /\ tx' # NoTx /\ tx'.before = tx.before /\ tainted \subseteq tainted'
      /\ Grows(db, db', tainted', Unheld(tainted'))
  BY <1>3, <1>6
<1>8. Len(frames') <= Len(frames) + 1 /\ Len(frames') # Len(frames) + 1
  BY <1>2
<1>9. Revertible'
  BY <1>1, <1>2, <1>3, <1>4, <1>5, <1>7, <1>8, StepPreserves
<1>10. db' \in DB
  BY DEF Grows
<1>11. TypeOK'
  BY <1>1, <1>2, <1>10 DEF TypeOK
<1>12. Rooted'
  BY <1>1 DEF Rooted
<1> QED BY <1>9, <1>11, <1>12 DEF EVMInv

\* An opcode that the top frame pays for, and one that ends it.
LEMMA ChargeStep ==
    ASSUME EVMInv, frames # << >>, NEW cost \in Nat, NEW d, Grows(db, d, tainted, Unheld(tainted)),
           Charge(cost, d) \/ \E err \in Outcome : Halt(err, cost, d)
    PROVE  EVMInv'
<1>1. TypeOK
  BY DEF EVMInv
<1>2. Top \in Frame /\ SameFrame(Top, Top)
  <2>1. frames \in Seq(Frame)
    BY <1>1 DEF TypeOK
  <2> QED BY <2>1, WithTopFrames DEF Top, SameFrame
<1>3. Top.gas \in Nat
  BY <1>2, FrameFields
<1>4. ASSUME Charge(cost, d)
      PROVE  EVMInv'
  <2> DEFINE g == [Top EXCEPT !.gas = @ - cost]
  <2>1. /\ Top.gas >= cost /\ frames' = WithTop(frames, g) /\ db' = d
        /\ UNCHANGED <<pool, tx, tracer, tainted, txs>>
    BY <1>4 DEF Charge
  <2>2. Top.gas - cost \in Nat
    BY <1>3, <2>1
  <2>3. g \in Frame /\ SameFrame(g, Top)
    BY <1>2, <2>2, FrameChanges
  <2> HIDE DEF g
  <2> QED BY <2>1, <2>3, TopStep
<1>5. ASSUME NEW err \in Outcome, Halt(err, cost, d)
      PROVE  EVMInv'
  <2> DEFINE g == [Top EXCEPT !.gas = @ - cost, !.err = err]
  <2>1. /\ Top.gas >= cost /\ frames' = WithTop(frames, g) /\ db' = d
        /\ UNCHANGED <<pool, tx, tracer, tainted, txs>>
    BY <1>5 DEF Halt
  <2>2. Top.gas - cost \in Nat
    BY <1>3, <2>1
  <2>3. g \in Frame /\ SameFrame(g, Top)
    BY <1>2, <2>2, FrameChanges
  <2> HIDE DEF g
  <2> QED BY <2>1, <2>3, TopStep
<1> QED BY <1>4, <1>5

\* The prices of the opcodes are numbers.
LEMMA Prices ==
    /\ WarmStorageRead \in Nat \ {0} /\ ColdAccountAccess \in Nat \ {0} /\ ColdSload \in Nat \ {0}
    /\ LogGas \in Nat \ {0} /\ SelfDestruct \in Nat \ {0} /\ SelfDestructNewAccount \in Nat
    /\ CallValue \in Nat /\ CallStipend \in Nat /\ CallStipend <= CallValue /\ NewAccount \in Nat
    /\ \A cur, orig, new, zero :
          /\ SstoreCost(cur, orig, new, zero).cost \in Nat \ {0}
          /\ SstoreCost(cur, orig, new, zero).refund \in Nat
    /\ \A a : AccessCost(a) \in Nat \ {0}
<1>1. /\ WarmStorageRead \in Nat \ {0} /\ ColdAccountAccess \in Nat \ {0} /\ ColdSload \in Nat \ {0}
      /\ LogGas \in Nat \ {0} /\ SelfDestruct \in Nat \ {0} /\ SelfDestructNewAccount \in Nat
      /\ CallValue \in Nat /\ CallStipend \in Nat /\ CallStipend <= CallValue /\ NewAccount \in Nat
  BY GasAssumption
<1>2. /\ {SstoreNoopGas, SstoreSet, SstoreReset} \subseteq Nat \ {0}
      /\ SstoreClear \in Nat /\ SstoreInitRefund \in Nat /\ SstoreCleanRefund \in Nat
  BY GasAssumption
<1>3. ASSUME NEW cur, NEW orig, NEW new, NEW zero
      PROVE  /\ SstoreCost(cur, orig, new, zero).cost \in Nat \ {0}
             /\ SstoreCost(cur, orig, new, zero).refund \in Nat
  BY <1>2 DEF SstoreCost
<1>4. \A a : AccessCost(a) \in Nat \ {0}
  BY <1>1 DEF AccessCost
<1> QED BY <1>1, <1>3, <1>4

\* An account that counts as created was not there before the transaction.
LEMMA CreatedIsUnheld ==
    ASSUME EVMInv, tx.phase = "running", NEW a \in Addr, NEW d, CreationRecorded(d), CreatedInTx(d, a),
           Grows(db, d, tainted, Unheld(tainted))
    PROVE  a \in Unheld(tainted)
<1>1. ASSUME a \notin tainted, Held(a)
      PROVE  FALSE
  <2>1. tx # NoTx
    BY RunningTx DEF EVMInv, Revertible
  <2>2. Safe(db, a)
    BY <1>1, <2>1 DEF EVMInv, Revertible, HeldAreSafe
  <2>3. a \in Addr \ Unheld(tainted)
    BY <1>1 DEF Unheld
  <2>4. Safe(d, a)
    BY <2>2, <2>3 DEF Grows
  <2>5. PICK k \in 1 .. Len(d.journal) : Creates(d.journal[k], a)
    BY DEF CreationRecorded, CreatedInTx
  <2> QED BY <2>4, <2>5 DEF Safe, Creates
<1> QED BY <1>1 DEF Unheld

\* A call forwards all but a part of the gas, and at most half is kept back.
LEMMA CallGasBounds ==
    ASSUME NEW x \in Nat
    PROVE  /\ CallGas(x) \in Nat /\ CallGas(x) <= x
           /\ x - CallGas(x) \in Nat /\ 2 * (x - CallGas(x)) <= x
<1> DEFINE q == x \div CallGasDivisor
<1>1. CallGasDivisor \in Nat /\ CallGasDivisor >= 2
  BY GasAssumption
<1>2. q \in Nat /\ 2 * q <= x
  BY <1>1
<1>3. CallGas(x) = x - q
  BY DEF CallGas
<1> HIDE DEF q
<1> QED BY <1>2, <1>3

\* The opcodes that run no call keep the invariant.
LEMMA PlainOpcodes ==
    ASSUME EVMInv,
           \/ OpCompute \/ OpLog \/ OpReturn \/ OpRevert \/ Fail
           \/ \E a \in Addr : OpBalance(a) \/ OpSelfDestruct(a)
           \/ \E s \in Slot : OpSload(s) \/ \E newVal \in Val : OpSstore(s, newVal) \/ SstoreFails(s, newVal)
           \/ \E ct \in CallKind, a \in Addr, value \in Values : CallFails(ct, a, value)
    PROVE  EVMInv'
<1> DEFINE T == tainted
<1> DEFINE X == Unheld(tainted)
<1>1. TypeOK /\ Revertible /\ PhasesMatch /\ db \in DB /\ frames \in Seq(Frame)
  BY DEF EVMInv, Revertible, TypeOK
<1>2. frames # << >>
  BY DEF OpCompute, OpLog, OpReturn, OpRevert, Fail, OpBalance, OpSelfDestruct, OpSload, OpSstore,
         SstoreFails, CallFails, Has, Running
<1>3. Top \in Frame /\ Top.contract \in Addr
  BY <1>1, <1>2, WithTopFrames, FrameFields DEF Top
<1>4. "none" \in Outcome /\ "revert" \in Outcome /\ "fail" \in Outcome /\ 0 \in Nat /\ 1 \in Nat
  BY DEF Outcome
<1>5. Grows(db, db, T, X)
  BY <1>1, QuietGrows
<1>a. tx.phase = "running"
  BY <1>1, <1>2, RunningTx
<1> HIDE DEF T, X
<1>6. CASE OpCompute
  BY <1>2, <1>4, <1>5, <1>6, ChargeStep DEF OpCompute, T, X
<1>7. CASE OpLog
  <2>1. Grows(db, AddLog(db, Top.contract), T, X)
    BY <1>1, <1>3, QuietOpsGrow
  <2>2. Charge(LogGas, AddLog(db, Top.contract)) /\ LogGas \in Nat
    BY <1>7, Prices DEF OpLog
  <2> QED BY <1>2, <2>1, <2>2, ChargeStep DEF T, X
<1>8. CASE OpReturn
  BY <1>2, <1>4, <1>5, <1>8, ChargeStep DEF OpReturn, T, X
<1>9. CASE OpRevert
  BY <1>2, <1>4, <1>5, <1>9, ChargeStep DEF OpRevert, T, X
<1>10. CASE Fail
  BY <1>2, <1>4, <1>5, <1>10, ChargeStep DEF Fail, T, X
<1>11. ASSUME NEW a \in Addr, OpBalance(a)
       PROVE  EVMInv'
  <2>1. Grows(db, WarmAddress(db, a), T, X)
    BY <1>1, QuietOpsGrow
  <2>2. Charge(AccessCost(a), WarmAddress(db, a)) /\ AccessCost(a) \in Nat
    BY <1>11, Prices DEF OpBalance
  <2> QED BY <1>2, <2>1, <2>2, ChargeStep DEF T, X
<1>12. ASSUME NEW ben \in Addr, OpSelfDestruct(ben)
       PROVE  EVMInv'
  <2> DEFINE c == Top.contract
  <2> DEFINE bal == GetBalance(db, c)
  <2> DEFINE credited == AddBalance(db, ben, bal)
  <2> DEFINE moved == IF bal = 0 THEN db ELSE SubBalance(credited, c, bal)
  <2> DEFINE cost == SelfDestruct + (IF AddressWarm(db, ben) THEN 0 ELSE ColdAccountAccess)
                       + (IF Exists(db, ben) THEN 0 ELSE SelfDestructNewAccount)
  <2> DEFINE d == IF CreatedInTx(moved, c) THEN Suicide(moved, c) ELSE moved
  <2>1. Halt("none", cost, d)
    BY <1>12 DEF OpSelfDestruct
  <2>2. cost \in Nat
    BY Prices
  <2>3. bal \in Int
    BY <1>1, <1>3, CodeType
  <2> HIDE DEF cost, bal
  <2>4. credited \in DB /\ Grows(db, credited, T, X)
    BY <1>1, <2>3, SettersGrow
  <2> HIDE DEF credited
  <2>5. SubBalance(credited, c, bal) \in DB /\ Grows(credited, SubBalance(credited, c, bal), T, X)
    BY <1>3, <2>3, <2>4, SettersGrow
  <2>6. Grows(db, SubBalance(credited, c, bal), T, X)
    BY <1>1, <2>4, <2>5, GrowsTrans
  <2>7. moved \in DB /\ Grows(db, moved, T, X)
    BY <1>1, <1>5, <2>5, <2>6
  <2> HIDE DEF moved
  <2>8. Grows(db, d, T, X)
    <3>1. CASE CreatedInTx(moved, c)
      <4>1. CreationRecorded(moved)
        BY <1>1, <2>7 DEF Revertible, Grows
      <4>2. c \in X
        BY <1>a, <1>3, <2>7, <3>1, <4>1, CreatedIsUnheld DEF T, X
      <4>3. Suicide(moved, c) \in DB /\ Grows(moved, Suicide(moved, c), T, X)
        BY <1>3, <2>7, <4>2, SettersGrow
      <4> QED BY <1>1, <2>7, <3>1, <4>3, GrowsTrans
    <3>2. CASE ~ CreatedInTx(moved, c)
      BY <2>7, <3>2
    <3> QED BY <3>1, <3>2
  <2> HIDE DEF d
  <2> QED BY <1>2, <1>4, <2>1, <2>2, <2>8, ChargeStep DEF T, X
<1>13. ASSUME NEW s \in Slot, OpSload(s)
       PROVE  EVMInv'
  <2> DEFINE cost == IF SlotWarm(db, Top.contract, s) THEN WarmStorageRead ELSE ColdSload
  <2>1. Grows(db, WarmSlot(db, Top.contract, s), T, X)
    BY <1>1, <1>3, QuietOpsGrow
  <2>2. Charge(cost, WarmSlot(db, Top.contract, s)) /\ cost \in Nat
    BY <1>13, Prices DEF OpSload
  <2> HIDE DEF cost
  <2> QED BY <1>2, <2>1, <2>2, ChargeStep DEF T, X
<1>14. ASSUME NEW s \in Slot, NEW newVal \in Val, OpSstore(s, newVal)
       PROVE  EVMInv'
  <2> DEFINE c == Top.contract
  <2> DEFINE price == SstoreCost(GetStorage(db, c, s), GetCommittedStorage(db, c, s), newVal, Zero)
  <2> DEFINE cost == (IF SlotWarm(db, c, s) THEN 0 ELSE ColdSload) + price.cost
  <2> DEFINE w == WarmSlot(db, c, s)
  <2> DEFINE q == AddRefund(w, price.refund)
  <2> DEFINE d == SetStorage(q, c, s, newVal)
  <2>1. Charge(cost, d)
    BY <1>14 DEF OpSstore
  <2>2. cost \in Nat /\ price.refund \in Nat
    BY Prices
  <2> HIDE DEF cost, price
  <2>3. w \in DB /\ Grows(db, w, T, X)
    BY <1>1, <1>3, QuietOpsGrow
  <2> HIDE DEF w
  <2>4. q \in DB /\ Grows(w, q, T, X)
    BY <2>2, <2>3, QuietOpsGrow
  <2> HIDE DEF q
  <2>5. d \in DB /\ Grows(q, d, T, X)
    BY <1>3, <2>4, SettersGrow
  <2> HIDE DEF d
  <2>6. Grows(db, q, T, X)
    BY <1>1, <2>3, <2>4, GrowsTrans
  <2>7. Grows(db, d, T, X)
    BY <1>1, <2>4, <2>5, <2>6, GrowsTrans
  <2> QED BY <1>2, <2>1, <2>2, <2>7, ChargeStep DEF T, X
<1>15. ASSUME NEW s \in Slot, NEW newVal \in Val, SstoreFails(s, newVal)
       PROVE  EVMInv'
  <2>1. Grows(db, WarmSlot(db, Top.contract, s), T, X)
    BY <1>1, <1>3, QuietOpsGrow
  <2>2. Halt("fail", 0, WarmSlot(db, Top.contract, s))
    BY <1>15 DEF SstoreFails
  <2> QED BY <1>2, <1>4, <2>1, <2>2, ChargeStep DEF T, X
<1>16. ASSUME NEW ct \in CallKind, NEW a \in Addr, NEW value \in Values, CallFails(ct, a, value)
       PROVE  EVMInv'
  <2>1. Grows(db, WarmAddress(db, a), T, X)
    BY <1>1, QuietOpsGrow
  <2>2. Halt("fail", 0, WarmAddress(db, a))
    BY <1>16 DEF CallFails
  <2> QED BY <1>2, <1>4, <2>1, <2>2, ChargeStep DEF T, X
<1> QED BY <1>6, <1>7, <1>8, <1>9, <1>10, <1>11, <1>12, <1>13, <1>14, <1>15, <1>16

\* The intrinsic gas of a message is a number.
LEMMA IntrinsicGasType ==
    ASSUME NEW msg \in Message
    PROVE  IntrinsicGas(msg) \in Nat
<1>1. /\ msg.dataGas \in Nat /\ IsFiniteSet(msg.accessList.addrs) /\ IsFiniteSet(msg.accessList.slots)
  BY DEF Message, Finite
<1>2. /\ Cardinality(msg.accessList.addrs) \in Nat /\ Cardinality(msg.accessList.slots) \in Nat
  BY <1>1, FS_CardinalityType
<1>3. /\ TxBase \in Nat /\ TxCreate \in Nat
      /\ TxAccessListAddress \in Nat /\ TxAccessListStorage \in Nat
  BY GasAssumption
<1>4. ASSUME NEW x \in Nat, NEW y \in Nat
      PROVE  x * y \in Nat
  OBVIOUS
<1> DEFINE u == Cardinality(msg.accessList.addrs) * TxAccessListAddress
<1> DEFINE v == Cardinality(msg.accessList.slots) * TxAccessListStorage
<1>5. u \in Nat /\ v \in Nat
  BY <1>2, <1>3, <1>4
<1>6. \A b : intrinsicGas(msg.dataGas, b, msg.accessList) = TxBase + (IF b THEN TxCreate ELSE 0) + msg.dataGas + u + v
  BY DEF intrinsicGas
<1> HIDE DEF u, v
<1>7. IntrinsicGas(msg) \in {0, TxBase + TxCreate + msg.dataGas + u + v, TxBase + 0 + msg.dataGas + u + v}
  BY <1>6 DEF IntrinsicGas
<1> QED BY <1>1, <1>3, <1>5, <1>7

\* A calling opcode keeps the invariant.
LEMMA OpCallStep ==
    ASSUME EVMInv, NEW ct \in CallKind, NEW a \in Addr, NEW value \in Values, frames # << >>,
           NEW fwd \in 0 .. Top.gas, OpCall(ct, a, value, fwd)
    PROVE  EVMInv'
<1> DEFINE cost == CallCost(a, value)
<1> DEFINE stipend == IF value > 0 THEN CallStipend ELSE 0
<1> DEFINE f == [Top EXCEPT !.gas = @ - cost - fwd]
<1> DEFINE fs == WithTop(frames, f)
<1> DEFINE d == WarmAddress(db, a)
<1> DEFINE gas == fwd + stipend
<1>1. /\ Top.gas >= cost /\ fwd <= CallGas(Top.gas - cost)
      /\ Call(ct, d, fs, f, a, value, gas, fwd)
      /\ tainted' = tainted /\ txs' = txs
  BY DEF OpCall
<1>2. TypeOK /\ Revertible /\ PhasesMatch /\ db \in DB /\ frames \in Seq(Frame) /\ Nested(db)
      /\ tainted \subseteq Creatable
  BY DEF EVMInv, Revertible, TypeOK
<1>3. Top \in Frame /\ Top.gas \in Nat
  BY <1>2, WithTopFrames, FrameFields DEF Top
<1>4. value \in Word /\ value \in Nat
  BY EVMAssumption, StateAssumption DEF Word
<1>5. cost \in Nat /\ gas \in Nat /\ fwd \in Nat
  BY <1>3, Prices DEF CallCost
<1>6. tx.phase = "running"
  BY <1>2, RunningTx
<1> HIDE DEF cost, gas
<1>7. Top.gas - cost \in Nat
  BY <1>1, <1>3, <1>5
<1>8. Top.gas - cost - fwd \in Nat
  BY <1>1, <1>5, <1>7, CallGasBounds
<1>9. f \in Frame /\ SameFrame(f, Top)
  BY <1>3, <1>8, FrameChanges
<1> HIDE DEF f
<1>10. fs \in Seq(Frame) /\ Outermost(fs) /\ Len(fs) = Len(frames)
  BY <1>2, <1>9, ChargedFrames
<1> HIDE DEF fs
<1>11. /\ d \in DB /\ d.snapshots = db.snapshots
       /\ Grows(db, d, tainted', Unheld(tainted'))
  BY <1>2, QuietOpsGrow
<1> HIDE DEF d
<1>12. Nested(d)
  BY <1>2, <1>11 DEF Grows
<1>13. CallOver(fs, d)
  BY <1>1, <1>2, <1>6, <1>10, <1>11, <1>12 DEF CallOver
<1>14. fwd \in Nat \cup {Nil}
  BY <1>5
<1> QED BY <1>1, <1>4, <1>5, <1>9, <1>13, <1>14, CallStep

\* CREATE and CREATE2 keep the invariant.
LEMMA OpCreateStep ==
    ASSUME EVMInv, NEW op, NEW c \in Creatable, NEW value \in Values, NEW initCode \in Code,
           OpCreate(op, c, value, initCode)
    PROVE  EVMInv'
<1> DEFINE kept == (Top.gas - 1) - CallGas(Top.gas - 1)
<1> DEFINE f == [Top EXCEPT !.gas = kept]
<1> DEFINE fs == WithTop(frames, f)
<1>1. /\ frames # << >> /\ Top.gas >= 1
      /\ Create(db, fs, f, c, value, kept, initCode)
      /\ UNCHANGED txs
  BY DEF OpCreate, Has, Running
<1>2. TypeOK /\ Revertible /\ PhasesMatch /\ db \in DB /\ frames \in Seq(Frame)
  BY DEF EVMInv, Revertible, TypeOK
<1>3. Top \in Frame /\ Top.gas \in Nat
  BY <1>1, <1>2, WithTopFrames, FrameFields DEF Top
<1>4. value \in Word
  BY EVMAssumption
<1>5. Top.gas - 1 \in Nat
  BY <1>1, <1>3
<1>6. kept \in Nat
  BY <1>5, CallGasBounds
<1> HIDE DEF kept
<1>7. f \in Frame /\ SameFrame(f, Top)
  BY <1>3, <1>6, FrameChanges
<1> HIDE DEF f
<1>8. fs \in Seq(Frame) /\ Outermost(fs) /\ Len(fs) = Len(frames)
  BY <1>1, <1>2, <1>7, ChargedFrames
<1>9. tx.phase = "running"
  BY <1>1, <1>2, RunningTx
<1> HIDE DEF fs
<1> QED BY <1>1, <1>4, <1>6, <1>7, <1>8, <1>9, CreateCallStep

\* The outermost call or creation keeps the invariant.
LEMMA EnterStep ==
    ASSUME EVMInv, Enter
    PROVE  EVMInv'
<1> DEFINE msg == tx.msg
<1> DEFINE gas == msg.gas - IntrinsicGas(msg)
<1>1. /\ tx.phase = "running" /\ frames = << >> /\ UNCHANGED txs
      /\ \/ \E c \in NewAddress("CREATE"), initCode \in Code :
               create(db, frames, msg.from, c, msg.value, gas, initCode)
         \/ /\ msg.to # Nil
            /\ execCall(db, frames, msg.from, msg.to, msg.value, gas, Nil)
            /\ tainted' = tainted
  BY DEF Enter
<1>2. TypeOK /\ Revertible /\ PhasesMatch /\ db \in DB /\ frames \in Seq(Frame) /\ Nested(db)
      /\ tainted \subseteq Creatable
  BY DEF EVMInv, Revertible, TypeOK
<1>3. msg \in Message /\ IntrinsicGas(msg) <= msg.gas
  BY <1>1, <1>2, RunningTx
<1>4. msg.from \in Addr /\ msg.value \in Word /\ msg.gas \in Nat /\ msg.to \in Addr \cup {Nil}
  BY <1>3 DEF Message
<1>5. gas \in Nat
  BY <1>3, <1>4, IntrinsicGasType
<1>6. Outermost(frames) /\ Len(frames) = Len(frames)
  BY <1>1 DEF Outermost
<1>7. \A c \in NewAddress("CREATE") : c \in Creatable
  BY DEF NewAddress
<1> HIDE DEF gas, msg
<1>8. ASSUME NEW c \in NewAddress("CREATE"), NEW initCode \in Code,
             create(db, frames, msg.from, c, msg.value, gas, initCode)
      PROVE  EVMInv'
  BY <1>1, <1>2, <1>4, <1>5, <1>6, <1>7, <1>8, CreateStep
<1>9. ASSUME msg.to # Nil, tainted' = tainted,
             execCall(db, frames, msg.from, msg.to, msg.value, gas, Nil)
      PROVE  EVMInv'
  <2>1. Grows(db, db, tainted', Unheld(tainted'))
    BY <1>2, QuietGrows
  <2>2. CallOver(frames, db)
    BY <1>1, <1>2, <1>6, <1>9, <2>1 DEF CallOver
  <2>3. msg.to \in Addr /\ Nil \in Nat \cup {Nil}
    BY <1>4, <1>9
  <2> QED BY <1>4, <1>5, <1>9, <2>2, <2>3, ExecCallStep
<1> QED BY <1>1, <1>8, <1>9
-----------------------------------------------------------------------------
(***************************************************************************)
(* The end of a frame.                                                     *)
(***************************************************************************)
\* Reverting the top frame gives back every cell that its call found.
LEMMA TopReverted ==
    ASSUME TypeOK, Revertible, frames # << >>, db' = RevertToSnapshot(db, Top.snap)
    PROVE  /\ db' \in DB /\ Top \in Frame
           /\ Top.snap \in 1 .. Len(db.snapshots)
           /\ db.snapshots[Top.snap] \in 0 .. Len(db.journal)
           /\ Len(db'.journal) = db.snapshots[Top.snap]
           /\ Len(db'.snapshots) = Top.snap - 1
           /\ \A i \in 1 .. (Top.snap - 1) : db'.snapshots[i] = db.snapshots[i]
           /\ \A c \in Cell : c.addr \notin tainted =>
                 /\ Faithful(db', c) /\ Read(db', c) = Read(Top.pre, c)
                 /\ \A v : \A n \in 0 .. db.snapshots[Top.snap] :
                       ReturnsTo(db, n, c, v) => ReturnsTo(db', n, c, v)
           /\ SuicideRecorded(db') /\ CreationRecorded(db')
           /\ \A a \in Addr : Safe(db, a) => Safe(db', a)
<1> DEFINE m == Len(frames)
<1> DEFINE id == Top.snap
<1>1. db \in DB /\ frames \in Seq(Frame) /\ Nested(db)
  BY DEF TypeOK, Revertible
<1>2. m \in Nat \ {0} /\ Top = frames[m] /\ Top \in Frame /\ DOMAIN frames = 1 .. m
  BY <1>1, WithTopFrames DEF Top
<1>3. m \in 1 .. m
  BY <1>2
<1>4. id \in Nat \ {0}
  BY <1>2, FrameFields
<1>5. id <= Len(db.snapshots)
  BY <1>2, <1>3 DEF Revertible, SnapshotsMatchFrames
<1>6. /\ Len(db.journal) \in Nat /\ Len(db.snapshots) \in Nat /\ db.snapshots \in Seq(Nat)
      /\ \A i \in 1 .. Len(db.snapshots) : db.snapshots[i] \in Nat
  BY <1>1, Lengths
<1>7. id \in 1 .. Len(db.snapshots)
  BY <1>4, <1>5, <1>6
<1>8. db.snapshots[id] \in 0 .. Len(db.journal) /\ db.snapshots[id] <= Len(db.journal)
  BY <1>1, <1>6, <1>7 DEF Nested
<1>9. \A c \in Cell : c.addr \notin tainted =>
         Faithful(db, c) /\ ReturnsTo(db, db.snapshots[id], c, Read(Top.pre, c))
  BY <1>2, <1>3 DEF Revertible, FramesRestorable
<1> HIDE DEF id, m
<1>a. db' = RevertToSnapshot(db, id)
  BY DEF id
<1>10. /\ db' \in DB /\ Len(db'.journal) = db.snapshots[id]
       /\ db'.snapshots = SubSeq(db.snapshots, 1, id - 1)
       /\ \A c \in Cell : Faithful(db, c) =>
             /\ Faithful(db', c)
             /\ \A v : \A n \in 0 .. db.snapshots[id] : ReturnsTo(db, n, c, v) => ReturnsTo(db', n, c, v)
  <2>1. Reverted(db, id, db')
    BY <1>1, <1>7, <1>8, <1>a, RevertReturns
  <2> QED BY <2>1 DEF Reverted
<1>11. SuicideRecorded(db') /\ CreationRecorded(db') /\ \A a \in Addr : Safe(db, a) => Safe(db', a)
  BY <1>1, <1>7, <1>8, <1>a, RevertRecords DEF Revertible
<1>12. Len(db'.snapshots) = id - 1 /\ \A i \in 1 .. (id - 1) : db'.snapshots[i] = db.snapshots[i]
  BY <1>6, <1>7, <1>10
<1>13. ASSUME NEW c \in Cell, c.addr \notin tainted
       PROVE  Read(db', c) = Read(Top.pre, c)
  <2>1. Faithful(db, c) /\ ReturnsTo(db, db.snapshots[id], c, Read(Top.pre, c))
    BY <1>9, <1>13
  <2>2. db.snapshots[id] \in 0 .. db.snapshots[id] /\ db.snapshots[id] \in Nat
    BY <1>8
  <2>3. ReturnsTo(db', db.snapshots[id], c, Read(Top.pre, c))
    BY <1>10, <2>1, <2>2
  <2>4. Len(db'.journal) <= db.snapshots[id]
    BY <1>10, <2>2
  <2> QED BY <1>10, <2>2, <2>3, <2>4, Returned
<1> QED BY <1>2, <1>7, <1>8, <1>9, <1>10, <1>11, <1>12, <1>13 DEF id

\* A frame that fails leaves the invariant to its callers.
LEMMA RevertStep ==
    ASSUME TypeOK, Revertible, frames # << >>, db' = RevertToSnapshot(db, Top.snap),
           tainted' = tainted, tx' # NoTx, tx'.before = tx.before, PhasesMatch',
           frames' \in Seq(Frame), Len(frames') = Len(frames) - 1, Continued
    PROVE  Revertible'
<1> DEFINE id == Top.snap
<1> DEFINE m == Len(frames)
<1>1. /\ db' \in DB /\ id \in 1 .. Len(db.snapshots)
      /\ db.snapshots[id] \in 0 .. Len(db.journal)
      /\ Len(db'.journal) = db.snapshots[id]
      /\ Len(db'.snapshots) = id - 1
      /\ \A i \in 1 .. (id - 1) : db'.snapshots[i] = db.snapshots[i]
  BY TopReverted
<1>2. /\ \A c \in Cell : c.addr \notin tainted =>
            /\ Faithful(db', c)
            /\ \A v : \A n \in 0 .. db.snapshots[id] :
                  ReturnsTo(db, n, c, v) => ReturnsTo(db', n, c, v)
      /\ SuicideRecorded(db') /\ CreationRecorded(db')
      /\ \A a \in Addr : Safe(db, a) => Safe(db', a)
  BY TopReverted
<1>3. db \in DB /\ frames \in Seq(Frame) /\ Nested(db)
  BY DEF TypeOK, Revertible
<1>4. /\ Len(db.snapshots) \in Nat /\ \A i \in 1 .. Len(db.snapshots) : db.snapshots[i] \in Nat
  BY <1>3, Lengths
<1>5. m \in Nat \ {0} /\ Top = frames[m]
  BY <1>3, WithTopFrames DEF Top
<1>6. DOMAIN frames = 1 .. m /\ DOMAIN frames' = 1 .. (m - 1)
  BY <1>3, <1>5
<1>7. /\ \A i \in 1 .. m : \A j \in 1 .. (i - 1) : frames[j].snap < frames[i].snap
  BY <1>6 DEF Revertible, SnapshotsMatchFrames
<1>8. \A i \in 1 .. (m - 1) : SameFrame(frames'[i], frames[i]) /\ frames[i] \in Frame
  BY <1>3, <1>5 DEF Continued
<1>9. \A i \in 1 .. (m - 1) : frames[i].snap \in Nat \ {0}
  BY <1>8, FrameFields
<1>10. \A i \in 1 .. (m - 1) : frames[i].snap < id
  <2>1. m \in 1 .. m
    BY <1>5
  <2> QED BY <1>5, <1>7, <2>1
<1> HIDE DEF m
<1>11. \A i \in 1 .. (m - 1) : frames[i].snap \in 1 .. (id - 1)
  BY <1>1, <1>4, <1>9, <1>10
<1> HIDE DEF id
<1>12. \A i \in 1 .. (m - 1) : frames'[i].snap = frames[i].snap /\ frames'[i].pre = frames[i].pre
  BY <1>8 DEF SameFrame
<1>13. \A i \in 1 .. (id - 1) :
          /\ i \in 1 .. Len(db.snapshots) /\ db.snapshots[i] \in 0 .. db.snapshots[id]
          /\ db'.snapshots[i] = db.snapshots[i]
  <2>1. ASSUME NEW i \in 1 .. (id - 1)
        PROVE  /\ i \in 1 .. Len(db.snapshots) /\ db.snapshots[i] \in 0 .. db.snapshots[id]
    <3>1. i \in 1 .. Len(db.snapshots) /\ i <= id
      BY <1>1, <1>4
    <3>2. db.snapshots[i] <= db.snapshots[id] /\ db.snapshots[i] \in Nat
      BY <1>1, <1>3, <1>4, <3>1 DEF Nested
    <3>3. db.snapshots[id] \in Nat
      BY <1>1, <1>4
    <3> QED BY <3>1, <3>2, <3>3
  <2> QED BY <1>1, <2>1
<1>14. Nested(db')
  <2>1. ASSUME NEW i \in 1 .. (id - 1), NEW j \in 1 .. (id - 1), i <= j
        PROVE  db'.snapshots[i] <= db'.snapshots[j]
    BY <1>3, <1>13, <2>1 DEF Nested
  <2>2. ASSUME NEW i \in 1 .. (id - 1)
        PROVE  db'.snapshots[i] <= Len(db'.journal)
    BY <1>1, <1>13
  <2> QED BY <1>1, <2>1, <2>2 DEF Nested
<1>15. SnapshotsMatchFrames'
  <2>1. ASSUME NEW i \in 1 .. (m - 1)
        PROVE  frames'[i].snap <= Len(db'.snapshots)
    BY <1>1, <1>11, <1>12
  <2>2. ASSUME NEW i \in 1 .. (m - 1), NEW j \in 1 .. (i - 1)
        PROVE  frames'[j].snap < frames'[i].snap
    <3>1. j \in 1 .. (m - 1) /\ i \in 1 .. m
      BY <1>5 DEF m
    <3> QED BY <1>7, <1>12, <3>1
  <2> QED BY <1>6, <2>1, <2>2 DEF SnapshotsMatchFrames
<1>16. ASSUME NEW c \in Cell, c.addr \notin tainted, NEW i \in 1 .. (m - 1)
       PROVE  ReturnsTo(db', db'.snapshots[frames'[i].snap], c, Read(frames'[i].pre, c))
  <2>1. i \in DOMAIN frames
    BY <1>5, <1>6 DEF m
  <2>2. ReturnsTo(db, db.snapshots[frames[i].snap], c, Read(frames[i].pre, c))
    BY <1>16, <2>1 DEF Revertible, FramesRestorable
  <2> QED BY <1>2, <1>11, <1>12, <1>13, <1>16, <2>2
<1>17. FramesRestorable'
  BY <1>2, <1>6, <1>16 DEF FramesRestorable
<1>18. QuietBetween'
  BY DEF QuietBetween
<1>19. tx # NoTx
  BY RunningTx DEF Revertible
<1>20. HeldAreSafe'
  <2>1. PICK n \in 0 .. Len(db.journal) :
        /\ \A i \in 1 .. Len(db.snapshots) : n <= db.snapshots[i]
        /\ \A c \in {x \in AccountCell : x.addr \notin tainted} :
              ReturnsTo(db, n, c, Read([db EXCEPT !.accounts = tx.before], c))
    BY <1>19 DEF Revertible, HeldAreSafe
  <2>2. n \in 0 .. db.snapshots[id] /\ n \in 0 .. Len(db'.journal)
    BY <1>1, <2>1
  <2>3. \A i \in 1 .. Len(db'.snapshots) : n <= db'.snapshots[i]
    BY <1>1, <1>13, <2>1
  <2>4. ASSUME NEW c \in AccountCell, c.addr \notin tainted
        PROVE  ReturnsTo(db', n, c, Read([db' EXCEPT !.accounts = tx'.before], c))
    <3>1. c \in Cell
      BY DEF Cell
    <3>a. db \in DB /\ db' \in DB
      BY <1>1, <1>3
    <3>2. Read([db' EXCEPT !.accounts = tx'.before], c) = Read([db EXCEPT !.accounts = tx.before], c)
      BY ONLY SMTT(60), <3>a, BeforeReads, c \in AccountCell, tx'.before = tx.before
    <3>3. ReturnsTo(db, n, c, Read([db EXCEPT !.accounts = tx.before], c))
      BY <2>1, <2>4
    <3>4. \A v : ReturnsTo(db, n, c, v) => ReturnsTo(db', n, c, v)
      BY <1>2, <2>2, <2>4, <3>1
    <3>5. ReturnsTo(db', n, c, Read([db EXCEPT !.accounts = tx.before], c))
      BY ONLY <3>3, <3>4
    <3> QED BY ONLY <3>2, <3>5
  <2>5. ASSUME NEW a \in Addr, a \notin tainted, Held(a)'
        PROVE  Safe(db', a)
    <3>1. Held(a)
      BY <2>5 DEF Held
    <3> QED BY <1>2, <1>19, <2>5, <3>1 DEF Revertible, HeldAreSafe
  <2> QED BY <2>2, <2>3, <2>4, <2>5 DEF HeldAreSafe
<1> QED BY <1>2, <1>14, <1>15, <1>17, <1>18, <1>20 DEF Revertible

\* The gas that a frame gives back.
LEMMA GasLeftType ==
    ASSUME NEW f \in Frame
    PROVE  GasLeft(f) \in Nat /\ GasLeft(f) <= f.gas
<1>1. f.gas \in Nat /\ f.cap \in Nat \cup {Nil}
  BY FrameFields
<1>2. Capped(f.gas, f.cap) \in Nat /\ Capped(f.gas, f.cap) <= f.gas
  BY <1>1, CappedType
<1>3. GasLeft(f) = 0 \/ GasLeft(f) = Capped(f.gas, f.cap)
  BY DEF GasLeft
<1> QED BY <1>1, <1>2, <1>3

\* The end of a frame keeps the invariant.
LEMMA EndFrameStep ==
    ASSUME EVMInv, EndFrame
    PROVE  EVMInv'
<1> DEFINE f == Top
<1> DEFINE fs == Callers(frames)
<1> DEFINE m == Len(frames)
<1>0. TypeOK /\ Revertible /\ Rooted /\ PhasesMatch /\ db \in DB /\ frames \in Seq(Frame)
  BY DEF EVMInv, Revertible, TypeOK
<1>1. PICK code \in Code : frames # << >> /\ Return(code) /\ UNCHANGED txs
  BY StateAssumption DEF EndFrame
<1>2. /\ f.err # "running"
      /\ db' = IF MustRevert(f) THEN RevertToSnapshot(db, f.snap)
               ELSE IF f.kind = "create" THEN SetCode(db, f.contract, code)
               ELSE db
      /\ pool' = ReleaseFrame(f.depth)
      /\ tracer' = IF TracedAtExit(f.kind) THEN OnExit(f.err) ELSE tracer
      /\ Deliver(fs, f.err, GasLeft(f))
      /\ tainted' = tainted
  BY <1>1 DEF Return
<1>3. /\ f \in Frame /\ m \in Nat \ {0} /\ fs \in Seq(Frame) /\ Len(fs) = m - 1
      /\ \A i \in 1 .. (m - 1) : fs[i] = frames[i]
  BY <1>0, <1>1, WithTopFrames DEF Top
<1>4. f.err \in Outcome /\ f.contract \in Addr /\ f.depth \in 0 .. (MaxCallDepth - 1)
  BY <1>2, <1>3, FrameFields
<1>5. GasLeft(f) \in Nat
  BY <1>3, GasLeftType
<1>6. tx.phase = "running" /\ tx # NoTx
  BY <1>0, <1>1, RunningTx
<1> HIDE DEF fs
<1>7. /\ frames' \in Seq(Frame) /\ Len(frames') = m - 1
      /\ \A i \in 1 .. (m - 1) : SameFrame(frames'[i], frames[i])
      /\ tx' \in TxState /\ tx' # NoTx /\ tx'.before = tx.before /\ PhasesMatch'
  <2> DEFINE err == f.err
  <2> DEFINE g == GasLeft(f)
  <2>0. Deliver(fs, err, g) /\ err \in Outcome /\ g \in Nat
    BY <1>2, <1>4, <1>5
  <2> HIDE DEF err, g
  <2>1. /\ frames' \in Seq(Frame) /\ Len(frames') = Len(fs)
        /\ \A i \in 1 .. Len(fs) : SameFrame(frames'[i], fs[i])
        /\ tx' \in TxState /\ tx' # NoTx /\ tx'.before = tx.before /\ PhasesMatch'
    BY <1>0, <1>3, <1>6, <2>0, DeliverStep
  <2> QED BY <1>3, <2>1
<1>8. Continued
  BY <1>7 DEF Continued
<1>9. Revertible' /\ db' \in DB
  <2>1. CASE MustRevert(f)
    <3>1. db' = RevertToSnapshot(db, Top.snap)
      BY <1>2, <2>1
    <3> QED BY <1>0, <1>1, <1>2, <1>7, <1>8, <3>1, RevertStep, TopReverted
  <2>2. CASE ~ MustRevert(f)
    <3>1. Grows(db, db', tainted', Unheld(tainted'))
      <4>1. Grows(db, db, tainted', Unheld(tainted'))
        BY <1>0, QuietGrows
      <4>2. Grows(db, SetCode(db, f.contract, code), tainted', Unheld(tainted'))
        BY <1>0, <1>4, SettersGrow
      <4> QED BY <1>2, <2>2, <4>1, <4>2
    <3>2. Len(frames') <= Len(frames) + 1 /\ Len(frames') # Len(frames) + 1
      BY <1>3, <1>7
    <3>3. tainted \subseteq tainted'
      BY <1>2
    <3>4. Revertible'
      BY <1>0, <1>6, <1>7, <1>8, <3>1, <3>2, <3>3, StepPreserves
    <3> QED BY <3>1, <3>4 DEF Grows
  <2> QED BY <2>1, <2>2
<1>10. pool' \in [Depths -> Nat]
  <2>1. pool \in [Depths -> Nat]
    BY <1>0 DEF TypeOK
  <2>2. CASE f.depth = 0
    BY <1>2, <2>1, <2>2 DEF ReleaseFrame
  <2>3. CASE f.depth # 0
    <3>1. f.depth \in Depths
      BY <1>4, <2>3, FramesAssumption DEF Depths
    <3>2. pool[f.depth] + 1 \in Nat
      BY <2>1, <3>1
    <3>3. pool' = [pool EXCEPT ![f.depth] = pool[f.depth] + 1]
      BY <1>2, <2>3 DEF ReleaseFrame
    <3> QED BY <2>1, <3>1, <3>2, <3>3
  <2> QED BY <2>2, <2>3
<1>11. TracerOK(tracer')
  BY <1>0, <1>2, <1>4, TracerSteps
<1>12. TypeOK' /\ Rooted'
  BY <1>0, <1>1, <1>2, <1>7, <1>9, <1>10, <1>11 DEF TypeOK, Rooted, TracerOK
<1> QED BY <1>9, <1>12 DEF EVMInv
-----------------------------------------------------------------------------
(***************************************************************************)
(* The beginning and the end of a transaction.                             *)
(***************************************************************************)
\* All that the journal holds are old balances and nonces.
OnlyMoney(d) == \A k \in 1 .. Len(d.journal) : d.journal[k].kind \in {"balance", "nonce"}

\* Writing a balance or a nonce.
LEMMA MoneyWrites ==
    ASSUME NEW d \in DB, NEW a \in Addr, OnlyMoney(d)
    PROVE  /\ \A amount \in Int : OnlyMoney(AddBalance(d, a, amount)) /\ OnlyMoney(SubBalance(d, a, amount))
           /\ \A nonce \in Nat : OnlyMoney(SetNonce(d, a, nonce))
<1>1. ASSUME NEW d2, NEW e, Logs(d, d2, e), e.kind \in {"balance", "nonce"}
      PROVE  OnlyMoney(d2)
  <2>1. /\ Len(d.journal) \in Nat /\ Len(d2.journal) = Len(d.journal) + 1
        /\ d2.journal[Len(d.journal) + 1] = e
        /\ \A k \in 1 .. Len(d.journal) : d2.journal[k] = d.journal[k]
    BY <1>1, LoggedJournal
  <2>2. ASSUME NEW k \in 1 .. (Len(d.journal) + 1)
        PROVE  d2.journal[k].kind \in {"balance", "nonce"}
    <3>1. k \in 1 .. Len(d.journal) \/ k = Len(d.journal) + 1
      BY <2>1
    <3> QED BY <1>1, <2>1, <3>1 DEF OnlyMoney
  <2> QED BY <2>1, <2>2 DEF OnlyMoney
<1>2. \A val \in Word : OnlyMoney(SetBalance(d, a, val))
  BY <1>1, SettersWrite
<1>3. \A nonce \in Nat : OnlyMoney(SetNonce(d, a, nonce))
  BY <1>1, SettersWrite
<1>4. ASSUME NEW x \in Int
      PROVE  x % WordMod \in Word
  BY StateAssumption DEF Word
<1>5. GetBalance(d, a) \in Int
  BY CodeType
<1>6. ASSUME NEW amount \in Int
      PROVE  OnlyMoney(AddBalance(d, a, amount)) /\ OnlyMoney(SubBalance(d, a, amount))
  <2>1. /\ (GetBalance(d, a) + amount) % WordMod \in Word
        /\ (GetBalance(d, a) - amount) % WordMod \in Word
    BY <1>4, <1>5
  <2> QED BY <1>2, <2>1 DEF AddBalance, SubBalance
<1> QED BY <1>3, <1>6

\* What Execute does to the database before its outermost call.
LEMMA BeginGrows ==
    ASSUME db \in DB, OnlyMoney(db), NEW msg \in Message, NEW T, NEW X
    PROVE  /\ Begin(msg) \in DB /\ Grows(db, Begin(msg), T, X)
           /\ Begin(msg).snapshots = db.snapshots /\ OnlyMoney(Begin(msg))
           /\ Upfront(msg) \in Int /\ msg.from \in Addr
<1> DEFINE from == msg.from
<1> DEFINE paid == SubBalance(db, from, Upfront(msg))
<1> DEFINE n == SetNonce(paid, from, GetNonce(paid, from) + 1)
<1> DEFINE b == [n EXCEPT !.accessedAddrs = @ \cup Precompiles \cup msg.accessList.addrs,
                          !.accessedSlots = @ \cup msg.accessList.slots]
<1>1. /\ from \in Addr /\ msg.gas \in Nat /\ msg.price \in Nat
      /\ msg.accessList.addrs \subseteq Addr /\ msg.accessList.slots \subseteq Addr \X Slot
  BY DEF Message, Finite
<1>2. Upfront(msg) \in Int
  BY <1>1 DEF Upfront
<1>3. Begin(msg) = b
  BY DEF Begin
<1> HIDE DEF from
<1>4. /\ paid \in DB /\ Grows(db, paid, T, X) /\ paid.snapshots = db.snapshots /\ OnlyMoney(paid)
  BY <1>1, <1>2, SettersGrow, MoneyWrites
<1> HIDE DEF paid
<1>5. GetNonce(paid, from) + 1 \in Nat
  BY <1>1, <1>4, CodeType
<1>6. n \in DB /\ Grows(paid, n, T, X) /\ n.snapshots = paid.snapshots /\ OnlyMoney(n)
  BY <1>1, <1>4, <1>5, SettersGrow, MoneyWrites
<1> HIDE DEF n
<1>7. b \in DB
  BY <1>1, <1>6, FramesAssumption DEF DB
<1>8. /\ b.journal = n.journal /\ b.snapshots = n.snapshots
      /\ b.accounts = n.accounts /\ b.storage = n.storage /\ b.createdInTx = n.createdInTx
  BY <1>6 DEF DB
<1> HIDE DEF b
<1>9. Grows(n, b, T, X)
  BY <1>6, <1>7, <1>8, QuietGrows
<1>10. Grows(db, n, T, X)
  BY <1>4, <1>6, GrowsTrans
<1>11. Grows(db, b, T, X)
  BY <1>6, <1>7, <1>9, <1>10, GrowsTrans
<1>12. OnlyMoney(b)
  BY <1>6, <1>8 DEF OnlyMoney
<1> QED BY <1>1, <1>2, <1>3, <1>4, <1>6, <1>7, <1>8, <1>11, <1>12 DEF from

\* Between transactions.
LEMMA IdleState ==
    ASSUME EVMInv, tx = NoTx
    PROVE  /\ frames = << >> /\ db \in DB /\ db.snapshots = << >> /\ OnlyMoney(db) /\ Nested(db)
           /\ \A c \in Cell : Faithful(db, c)
           /\ SuicideRecorded(db) /\ CreationRecorded(db)
<1>1. tx.phase # "running"
  BY DEF NoTx
<1> QED BY <1>1 DEF EVMInv, TypeOK, Revertible, PhasesMatch, QuietBetween, OnlyMoney

\* Between transactions the journal can do no harm.
Idle ==
    /\ db \in DB /\ db.snapshots = << >> /\ OnlyMoney(db) /\ Nested(db)
    /\ frames = << >> /\ tx = NoTx
    /\ \A c \in Cell : Faithful(db, c)
    /\ SuicideRecorded(db) /\ CreationRecorded(db)

\* An idle state satisfies the invariant.
LEMMA IdleInv == Idle => Revertible
<1> SUFFICES ASSUME Idle PROVE Revertible
  OBVIOUS
<1> USE DEF Idle
<1>1. DOMAIN frames = {}
  OBVIOUS
<1>2. SnapshotsMatchFrames
  BY <1>1 DEF SnapshotsMatchFrames
<1>3. FramesRestorable
  BY <1>1 DEF FramesRestorable
<1>4. QuietBetween
  BY DEF QuietBetween, OnlyMoney
<1>5. PhasesMatch
  BY DEF PhasesMatch, NoTx
<1>6. HeldAreSafe
  BY DEF HeldAreSafe
<1> QED BY <1>2, <1>3, <1>4, <1>5, <1>6 DEF Revertible

\* The initial state satisfies the invariant.
LEMMA InitInv == Init => EVMInv
<1> SUFFICES ASSUME Init PROVE EVMInv
  OBVIOUS
<1>1. /\ db = [New EXCEPT !.accounts = Genesis] /\ frames = << >> /\ pool = [d \in Depths |-> 0]
      /\ tx = NoTx /\ tracer = NewTracer /\ tainted = {} /\ txs = 0
  BY DEF Init
<1>2. Genesis \in [Addr -> Account \cup {NoAccount}] /\ MaxTx \in Nat
  BY EVMAssumption
<1>3. db \in DB
  BY <1>1, <1>2, NewType DEF DB
<1>4. /\ db.journal = << >> /\ db.snapshots = << >> /\ db.createdInTx = {} /\ db.accounts = Genesis
  BY <1>1 DEF New
<1>5. Len(db.journal) = 0 /\ Len(db.snapshots) = 0 /\ \A k \in 1 .. 0 : FALSE
  BY <1>4
<1>6. OnlyMoney(db) /\ Nested(db) /\ CreationRecorded(db)
  BY <1>4, <1>5 DEF OnlyMoney, Nested, CreationRecorded
<1>7. \A c \in Cell : Faithful(db, c)
  BY <1>4, EmptyJournal
<1>8. ASSUME NEW a \in Addr
      PROVE  ~ HasSuicided(db, a)
  <2>1. Genesis[a] # NoAccount => ~ Genesis[a].suicide
    BY EVMAssumption
  <2>2. EmptyAccount.suicide = FALSE
    BY DEF EmptyAccount
  <2> QED BY <1>4, <2>1, <2>2 DEF HasSuicided, getOrCreate, Exists
<1>9. SuicideRecorded(db)
  BY <1>5, <1>8 DEF SuicideRecorded
<1>10. Revertible
  BY <1>1, <1>3, <1>4, <1>6, <1>7, <1>9, IdleInv DEF Idle
<1>11. tracer \in [root : TraceNode \cup {Nil}, open : Seq(TraceNode)] /\ Rooted
  BY <1>1 DEF NewTracer, Rooted
<1>12. frames \in Seq(Frame) /\ pool \in [Depths -> Nat] /\ tx \in TxState
  BY <1>1 DEF TxState
<1>13. TypeOK
  BY <1>1, <1>2, <1>3, <1>11, <1>12 DEF TypeOK
<1> QED BY <1>10, <1>11, <1>13 DEF EVMInv

\* A rejected transaction keeps the invariant.
LEMMA RejectStep ==
    ASSUME EVMInv, txs < MaxTx, NEW msg \in Message, Reject(msg)
    PROVE  EVMInv'
<1>1. /\ tx = NoTx /\ UNCHANGED <<frames, pool, tx, tracer, tainted>> /\ txs' = txs + 1
      /\ db' = db \/ db' = AddBalance(Begin(msg), msg.from, Upfront(msg))
  BY DEF Reject
<1>2. /\ frames = << >> /\ db \in DB /\ db.snapshots = << >> /\ OnlyMoney(db) /\ Nested(db)
      /\ \A c \in Cell : Faithful(db, c)
      /\ SuicideRecorded(db) /\ CreationRecorded(db)
  BY <1>1, IdleState
<1>3. db' \in DB /\ Grows(db, db', {}, {}) /\ db'.snapshots = db.snapshots /\ OnlyMoney(db')
  <2>1. CASE db' = db
    BY <1>2, <2>1, QuietGrows
  <2>2. CASE db' = AddBalance(Begin(msg), msg.from, Upfront(msg))
    <3> DEFINE b == Begin(msg)
    <3> DEFINE u == Upfront(msg)
    <3>1. /\ b \in DB /\ Grows(db, b, {}, {}) /\ b.snapshots = db.snapshots /\ OnlyMoney(b)
          /\ u \in Int /\ msg.from \in Addr
      BY <1>2, BeginGrows
    <3> HIDE DEF b, u
    <3>2. /\ AddBalance(b, msg.from, u) \in DB /\ Grows(b, AddBalance(b, msg.from, u), {}, {})
          /\ AddBalance(b, msg.from, u).snapshots = b.snapshots /\ OnlyMoney(AddBalance(b, msg.from, u))
      BY <3>1, SettersGrow, MoneyWrites
    <3>3. db' = AddBalance(b, msg.from, u)
      BY <2>2 DEF b, u
    <3> QED BY <1>2, <3>1, <3>2, <3>3, GrowsTrans
  <2> QED BY <1>1, <2>1, <2>2
<1>4. /\ Nested(db') /\ SuicideRecorded(db') /\ CreationRecorded(db')
      /\ \A c \in Cell : Faithful(db', c)
  BY <1>2, <1>3 DEF Grows
<1>5. frames' = << >> /\ tx' = NoTx /\ db'.snapshots = << >>
  BY <1>1, <1>2, <1>3
<1>6. Idle'
  BY <1>3, <1>4, <1>5 DEF Idle
<1>7. Revertible'
  BY <1>6, IdleInv, PTL
<1>8. TypeOK' /\ Rooted'
  <2>1. txs' \in 0 .. MaxTx
    BY <1>1, EVMAssumption DEF EVMInv, TypeOK
  <2> QED BY <1>1, <1>3, <2>1 DEF EVMInv, TypeOK, Rooted
<1> QED BY <1>7, <1>8 DEF EVMInv

\* The start of a transaction establishes what it has to keep.
LEMMA StartStep ==
    ASSUME EVMInv, txs < MaxTx, NEW msg \in Message, Start(msg)
    PROVE  EVMInv'
<1> DEFINE t == [phase |-> "running", msg |-> msg, err |-> "none", gasLeft |-> 0,
                 before |-> db.accounts]
<1>1. /\ tx = NoTx /\ msg.gas >= IntrinsicGas(msg) /\ db' = Begin(msg)
      /\ tx' = t /\ txs' = txs + 1 /\ tainted' = {}
      /\ UNCHANGED <<frames, pool, tracer>>
  BY DEF Start
<1>2. /\ frames = << >> /\ db \in DB /\ db.snapshots = << >> /\ OnlyMoney(db) /\ Nested(db)
      /\ \A c \in Cell : Faithful(db, c)
      /\ SuicideRecorded(db) /\ CreationRecorded(db)
  BY <1>1, IdleState
<1>3. db' \in DB /\ Grows(db, db', {}, {}) /\ db'.snapshots = db.snapshots
  BY <1>1, <1>2, BeginGrows
<1>4. /\ Nested(db') /\ SuicideRecorded(db') /\ CreationRecorded(db')
      /\ \A c \in Cell : Faithful(db', c)
  BY <1>2, <1>3 DEF Grows
<1>5. /\ t.phase = "running" /\ t.msg = msg /\ t.gasLeft = 0 /\ t.before = db.accounts
      /\ t \in TxState /\ t # NoTx
  <2>1. db.accounts \in [Addr -> Account \cup {NoAccount}]
    BY <1>2 DEF DB
  <2> QED BY <2>1 DEF TxState, NoTx
<1> HIDE DEF t
<1>6. frames' = << >> /\ DOMAIN frames' = {} /\ db'.snapshots = << >>
  BY <1>1, <1>2, <1>3
<1>7. SnapshotsMatchFrames' /\ FramesRestorable' /\ QuietBetween'
  BY <1>1, <1>4, <1>5, <1>6 DEF SnapshotsMatchFrames, FramesRestorable, QuietBetween
<1>8. PhasesMatch'
  <2>1. IntrinsicGas(msg) <= msg.gas
    <3>1. IntrinsicGas(msg) \in Nat /\ msg.gas \in Nat
      BY IntrinsicGasType DEF Message
    <3> QED BY <1>1, <3>1
  <2> QED BY <1>1, <1>5, <1>6, <2>1 DEF PhasesMatch, IntrinsicGas
<1>9. HeldAreSafe'
  <2> DEFINE n == Len(db.journal)
  <2>1. n \in Nat /\ Len(db'.journal) \in Nat /\ n <= Len(db'.journal)
    BY <1>2, <1>3, Lengths DEF Grows
  <2>2. n \in 0 .. Len(db'.journal) /\ n \in 0 .. Len(db.journal)
    BY <2>1
  <2>3. \A i \in 1 .. Len(db'.snapshots) : n <= db'.snapshots[i]
    <3>1. Len(db'.snapshots) = 0
      BY <1>6
    <3> QED BY <3>1
  <2>4. ASSUME NEW c \in AccountCell
        PROVE  ReturnsTo(db', n, c, Read([db' EXCEPT !.accounts = tx'.before], c))
    <3>1. c \in Cell
      BY DEF Cell
    <3>2. ReturnsTo(db, n, c, Read(db, c))
      BY <1>2, ReturnsHere
    <3>3. ReturnsTo(db', n, c, Read(db, c))
      BY <1>2, <1>3, <2>2, <3>1, <3>2 DEF Grows
    <3>a. db \in DB /\ db' \in DB
      BY <1>2, <1>3
    <3>4. Read([db' EXCEPT !.accounts = db.accounts], c) = Read([db EXCEPT !.accounts = db.accounts], c)
      BY ONLY <3>a, BeforeReads, c \in AccountCell
    <3>5. [db EXCEPT !.accounts = db.accounts] = db
      BY <1>2 DEF DB
    <3>6. tx'.before = db.accounts
      BY <1>1, <1>5
    <3> QED BY ONLY <3>3, <3>4, <3>5, <3>6
  <2>5. ASSUME NEW a \in Addr, Held(a)'
        PROVE  Safe(db', a)
    <3>1. db.accounts[a] # NoAccount
      BY <1>1, <1>5, <2>5 DEF Held
    <3>2. Safe(db, a)
      BY <1>2, <3>1 DEF Safe, Exists, OnlyMoney
    <3> QED BY <1>3, <3>2 DEF Grows
  <2> HIDE DEF n
  <2> QED BY <2>2, <2>3, <2>4, <2>5 DEF HeldAreSafe
<1>10. Revertible'
  BY <1>4, <1>7, <1>8, <1>9 DEF Revertible
<1>11. TypeOK' /\ Rooted'
  <2>1. txs' \in 0 .. MaxTx
    BY <1>1, EVMAssumption DEF EVMInv, TypeOK
  <2> QED BY <1>1, <1>3, <1>5, <2>1 DEF EVMInv, TypeOK, Rooted
<1> QED BY <1>10, <1>11 DEF EVMInv

\* What Finalise leaves: an empty journal, and the accounts that did not
\* self-destruct.
LEMMA Finalised ==
    ASSUME NEW d \in DB
    PROVE  LET e == Finalise(d)
           IN  /\ e \in DB /\ e.journal = << >> /\ e.snapshots = << >> /\ e.createdInTx = {}
               /\ \A a \in Addr : /\ ~ HasSuicided(e, a)
                                  /\ Exists(d, a) /\ ~ HasSuicided(d, a) => Exists(e, a)
<1> DEFINE e == Finalise(d)
<1>1. e \in DB
  BY OtherOpsType
<1>2. /\ e.journal = << >> /\ e.snapshots = << >> /\ e.createdInTx = {}
      /\ e.accounts = [a \in Addr |-> IF HasSuicided(d, a) THEN NoAccount ELSE d.accounts[a]]
  BY DEF Finalise, DB
<1>3. EmptyAccount.suicide = FALSE
  BY DEF EmptyAccount
<1>4. ASSUME NEW a \in Addr
      PROVE  /\ ~ HasSuicided(e, a)
             /\ Exists(d, a) /\ ~ HasSuicided(d, a) => Exists(e, a)
  <2>1. e.accounts[a] = IF HasSuicided(d, a) THEN NoAccount ELSE d.accounts[a]
    BY <1>2
  <2> HIDE DEF e
  <2>2. CASE HasSuicided(d, a)
    BY <1>3, <2>1, <2>2 DEF Exists, getOrCreate, HasSuicided
  <2>3. CASE ~ HasSuicided(d, a)
    BY <1>3, <2>1, <2>3 DEF Exists, getOrCreate, HasSuicided
  <2> QED BY <2>2, <2>3
<1> QED BY <1>1, <1>2, <1>4

\* A finalised database is as quiet as a new one.
LEMMA FinalisedQuiet ==
    ASSUME NEW e \in DB, e.journal = << >>, e.snapshots = << >>, e.createdInTx = {},
           \A a \in Addr : ~ HasSuicided(e, a)
    PROVE  /\ OnlyMoney(e) /\ Nested(e) /\ SuicideRecorded(e) /\ CreationRecorded(e)
           /\ \A c \in Cell : Faithful(e, c)
<1>1. Len(e.journal) = 0 /\ Len(e.snapshots) = 0 /\ \A k \in 1 .. 0 : FALSE
  OBVIOUS
<1>2. OnlyMoney(e) /\ Nested(e) /\ CreationRecorded(e) /\ SuicideRecorded(e)
  BY <1>1 DEF OnlyMoney, Nested, CreationRecorded, SuicideRecorded
<1>3. \A c \in Cell : Faithful(e, c)
  BY EmptyJournal
<1> QED BY <1>2, <1>3

\* The amounts that a settlement pays are numbers.
LEMMA PaymentsType ==
    ASSUME TypeOK, tx # NoTx
    PROVE  /\ tx.msg.from \in Addr /\ tx.gasLeft * tx.msg.price \in Int
           /\ Bonus \in Int /\ Fee \in Int
<1>1. tx \in [phase : {"running", "settling"}, msg : Message, err : Outcome,
              gasLeft : Nat, before : [Addr -> Account \cup {NoAccount}]]
  BY DEF TypeOK, TxState, Outcome
<1>2. tx.gasLeft \in Nat /\ tx.msg \in Message
  BY <1>1
<1>3. tx.msg.from \in Addr /\ tx.msg.gas \in Nat /\ tx.msg.price \in Nat
  BY <1>2 DEF Message
<1>4. db.refund \in Nat
  BY DEF TypeOK, DB
<1> DEFINE q == GasUsed \div MaxRefundQuotient
<1>5. GasUsed \in Int
  BY <1>2, <1>3 DEF GasUsed
<1>6. q \in Int
  BY <1>5, GasAssumption
<1>7. Min({db.refund, q}) \in Int
  <2> HIDE DEF q
  <2>1. \E x \in {db.refund, q} : \A y \in {db.refund, q} : x <= y
    <3>1. db.refund <= q \/ q <= db.refund
      BY <1>4, <1>6
    <3>2. CASE db.refund <= q
      BY <1>4, <3>2
    <3>3. CASE q <= db.refund
      BY <1>6, <3>3
    <3> QED BY <3>1, <3>2, <3>3
  <2>2. Min({db.refund, q}) \in {db.refund, q}
    BY <2>1 DEF Min
  <2> QED BY <1>4, <1>6, <2>2
<1>8. Bonus \in Int
  <2> DEFINE x == Min({db.refund, q})
  <2>1. Bonus = IF tx.err = "fail" THEN 0 ELSE x * tx.msg.price
    BY DEF Bonus
  <2> HIDE DEF x
  <2>2. x * tx.msg.price \in Int
    BY <1>3, <1>7 DEF x
  <2> QED BY <2>1, <2>2
<1>9. Fee \in Int
  <2>1. tx.msg.price - BaseFee \in Int
    BY <1>3, EVMAssumption
  <2> QED BY <1>5, <2>1 DEF Fee
<1> QED BY <1>2, <1>3, <1>8, <1>9

\* The end of a transaction keeps the invariant and every account that held
\* something before it.
LEMMA SettleStep ==
    ASSUME EVMInv, Settle
    PROVE  /\ EVMInv'
           /\ \A a \in Addr \ tainted : Held(a) => Exists(db', a)
<1> DEFINE from == tx.msg.from
<1> DEFINE due == tx.gasLeft * tx.msg.price
<1> DEFINE repaid == AddBalance(db, from, due)
<1> DEFINE b == IF Bonus = 0 THEN repaid ELSE AddBalance(repaid, from, Bonus)
<1> DEFINE done == Finalise(b)
<1>1. /\ tx.phase = "settling" /\ tx' = NoTx
      /\ db' = IF Fee = 0 THEN done ELSE AddBalance(done, Coinbase, Fee)
      /\ UNCHANGED <<frames, pool, tracer, tainted, txs>>
  BY DEF Settle
<1>2. tx # NoTx /\ frames = << >> /\ db \in DB /\ TypeOK /\ Rooted
  <2>1. NoTx.phase = "idle"
    BY DEF NoTx
  <2> QED BY <1>1, <2>1 DEF EVMInv, Revertible, PhasesMatch, TypeOK
<1>3. from \in Addr /\ due \in Int /\ Bonus \in Int /\ Fee \in Int
  BY <1>2, PaymentsType
<1> HIDE DEF from, due
<1>4. repaid \in DB /\ Grows(db, repaid, {}, {})
  BY <1>2, <1>3, SettersGrow
<1> HIDE DEF repaid
<1>5. b \in DB /\ Grows(repaid, b, {}, {})
  <2>1. CASE Bonus = 0
    BY <1>4, <2>1, QuietGrows
  <2>2. CASE Bonus # 0
    BY <1>3, <1>4, <2>2, SettersGrow
  <2> QED BY <2>1, <2>2
<1> HIDE DEF b
<1>6. Grows(db, b, {}, {})
  BY <1>2, <1>4, <1>5, GrowsTrans
<1>7. SuicideRecorded(b) /\ \A a \in Addr : Safe(db, a) => Safe(b, a)
  BY <1>6 DEF Grows, EVMInv, Revertible
<1>8. /\ done \in DB /\ done.journal = << >> /\ done.snapshots = << >> /\ done.createdInTx = {}
      /\ \A a \in Addr : /\ ~ HasSuicided(done, a)
                         /\ Exists(b, a) /\ ~ HasSuicided(b, a) => Exists(done, a)
  BY <1>5, Finalised
<1> HIDE DEF done
<1>9. /\ OnlyMoney(done) /\ Nested(done) /\ SuicideRecorded(done) /\ CreationRecorded(done)
      /\ \A c \in Cell : Faithful(done, c)
  BY <1>8, FinalisedQuiet
<1>10. /\ db' \in DB /\ Grows(done, db', {}, {}) /\ db'.snapshots = done.snapshots /\ OnlyMoney(db')
  <2>1. CASE Fee = 0
    BY <1>1, <1>8, <1>9, <2>1, QuietGrows
  <2>2. CASE Fee # 0
    <3>1. Coinbase \in Addr /\ db' = AddBalance(done, Coinbase, Fee)
      BY <1>1, <2>2, EVMAssumption
    <3>2. db' \in DB /\ Grows(done, db', {}, {}) /\ db'.snapshots = done.snapshots
      BY <1>3, <1>8, <3>1, SettersGrow
    <3>3. OnlyMoney(db')
      BY <1>3, <1>8, <1>9, <3>1, MoneyWrites
    <3> QED BY <3>2, <3>3
  <2> QED BY <2>1, <2>2
<1>11. /\ Nested(db') /\ SuicideRecorded(db') /\ CreationRecorded(db')
       /\ \A c \in Cell : Faithful(db', c)
  BY <1>9, <1>10 DEF Grows
<1>12. Idle'
  BY <1>1, <1>2, <1>8, <1>10, <1>11 DEF Idle
<1>13. Revertible'
  BY <1>12, IdleInv, PTL
<1>14. TypeOK' /\ Rooted'
  <2>1. tx' \in TxState
    BY <1>1 DEF TxState
  <2> QED BY <1>1, <1>2, <1>10, <2>1 DEF TypeOK, Rooted
<1>15. ASSUME NEW a \in Addr \ tainted, Held(a)
       PROVE  Exists(db', a)
  <2>1. Safe(b, a)
    BY <1>2, <1>7, <1>15 DEF EVMInv, Revertible, HeldAreSafe
  <2>2. ~ HasSuicided(b, a)
    <3>1. SUFFICES ASSUME HasSuicided(b, a) PROVE FALSE
      OBVIOUS
    <3>2. PICK k \in 1 .. Len(b.journal) : Sets(b.journal[k], a)
      BY <1>7, <3>1 DEF SuicideRecorded
    <3>3. b.journal[k].addr = a /\ b.journal[k].kind = "suicide"
      BY <3>2 DEF Sets
    <3> QED BY <2>1, <3>3 DEF Safe
  <2>3. Exists(done, a)
    BY <1>8, <2>1, <2>2 DEF Safe
  <2>4. Safe(done, a)
    <3>1. Len(done.journal) = 0 /\ \A k \in 1 .. 0 : FALSE
      BY <1>8
    <3> QED BY <2>3, <3>1 DEF Safe
  <2> QED BY <1>10, <2>4 DEF Grows, Safe
<1> QED BY <1>13, <1>14, <1>15 DEF EVMInv
-----------------------------------------------------------------------------
(***************************************************************************)
(* The steps together, and the theorems.                                   *)
(***************************************************************************)
\* An opcode keeps the invariant.
LEMMA OpcodeStep ==
    ASSUME EVMInv, Opcode
    PROVE  EVMInv'
<1>1. CASE \/ OpCompute \/ OpLog \/ OpReturn \/ OpRevert \/ Fail
           \/ \E a \in Addr : OpBalance(a) \/ OpSelfDestruct(a)
           \/ \E s \in Slot : OpSload(s) \/ \E newVal \in Val : OpSstore(s, newVal) \/ SstoreFails(s, newVal)
           \/ \E ct \in CallKind, a \in Addr, value \in Values : CallFails(ct, a, value)
  BY <1>1, PlainOpcodes
<1>2. CASE \E ct \in CallKind, a \in Addr, value \in Values :
              Running /\ \E fwd \in 0 .. Top.gas : OpCall(ct, a, value, fwd)
  BY <1>2, OpCallStep DEF Running
<1>3. CASE \E op \in {"CREATE", "CREATE2"}, c \in Creatable, value \in Values, initCode \in Code :
              OpCreate(op, c, value, initCode)
  BY <1>3, OpCreateStep
<1> QED BY <1>1, <1>2, <1>3 DEF Opcode

\* Every step keeps the invariant.
LEMMA NextInv == EVMInv /\ [Next]_vars => EVMInv'
<1> SUFFICES ASSUME EVMInv, [Next]_vars PROVE EVMInv'
  OBVIOUS
<1>1. ASSUME txs < MaxTx, NEW msg \in Messages[txs + 1], Reject(msg) \/ Start(msg)
      PROVE  EVMInv'
  <2>1. txs + 1 \in 1 .. MaxTx
    BY <1>1, EVMAssumption DEF EVMInv, TypeOK
  <2>2. msg \in Message
    BY <2>1, EVMAssumption
  <2> QED BY <1>1, <2>2, RejectStep, StartStep
<1>2. ASSUME Step
      PROVE  EVMInv'
  BY <1>2, EnterStep, OpcodeStep, EndFrameStep, SettleStep DEF Step
<1>3. ASSUME UNCHANGED vars
      PROVE  EVMInv'
  <2>1. /\ db' = db /\ frames' = frames /\ pool' = pool /\ tx' = tx /\ tracer' = tracer
        /\ tainted' = tainted /\ txs' = txs
    BY <1>3 DEF vars
  <2>2. TypeOK' /\ Rooted'
    BY <2>1 DEF EVMInv, TypeOK, Rooted
  <2>3. SnapshotsMatchFrames' /\ FramesRestorable' /\ QuietBetween' /\ PhasesMatch'
    BY <2>1 DEF EVMInv, Revertible, SnapshotsMatchFrames, FramesRestorable, QuietBetween, PhasesMatch,
                IntrinsicGas
  <2>4. \A a \in Addr : Held(a)' <=> Held(a)
    BY <2>1 DEF Held
  <2>5. HeldAreSafe'
    BY <2>1, <2>4 DEF EVMInv, Revertible, HeldAreSafe
  <2>6. Revertible'
    BY <2>1, <2>3, <2>5 DEF EVMInv, Revertible
  <2> QED BY <2>2, <2>6 DEF EVMInv
<1> QED BY <1>1, <1>2, <1>3 DEF Next, Done

\* The inductive invariant: the state is well typed, every active frame and the
\* transaction as a whole can be returned from, and no more than that is recorded.
THEOREM FramesAreRevertible == Spec => []EVMInv
<1> QED BY InitInv, NextInv, PTL DEF Spec

\* The EVM is type correct: whatever contracts do, no frame's Depth reaches
\* MaxCallDepth and no frame's gas, balance or refund is negative (evm.go, op_call.go).
THEOREM EVMTypeCorrect == Spec => []TypeOK
<1>1. EVMInv => TypeOK
  BY DEF EVMInv
<1> QED BY <1>1, FramesAreRevertible, PTL

\* The snapshot that execCall, Call and create took for an active frame is live as
\* long as the frame is, and the snapshots of nested frames are nested.
THEOREM SnapshotsStayLive == Spec => []SnapshotsMatchFrames
<1>1. EVMInv => SnapshotsMatchFrames
  BY DEF EVMInv, Revertible
<1> QED BY <1>1, FramesAreRevertible, PTL
-----------------------------------------------------------------------------
(***************************************************************************)
(* Sums.                                                                   *)
(***************************************************************************)
AddUp(s) == [p \in (1 .. Len(s)) \X Nat |-> p[2] + s[p[1]]]

\* The sum of a sequence is the last value of such a function.
LEMMA TotalIsRecursive ==
    ASSUME NEW s \in Seq(Nat)
    PROVE  \E f \in [0 .. Len(s) -> Nat] : Recursive(f, Len(s), 0, AddUp(s)) /\ Total(s) = f[Len(s)]
<1> DEFINE N == Len(s)
<1> DEFINE sum[n \in 0 .. N] == IF n = 0 THEN 0 ELSE sum[n - 1] + s[n]
<1>1. N \in Nat /\ \A n \in 1 .. N : s[n] \in Nat
  OBVIOUS
<1>2. Total(s) = sum[N]
  BY DEF Total
<1>3. AddUp(s) \in [(1 .. N) \X Nat -> Nat]
  <2>1. ASSUME NEW p \in (1 .. N) \X Nat
        PROVE  p[2] + s[p[1]] \in Nat
    BY <1>1
  <2> QED BY <2>1 DEF AddUp
<1>4. \A n \in 1 .. N, x \in Nat : AddUp(s)[<<n, x>>] = x + s[n]
  BY DEF AddUp
<1> HIDE DEF N
<1>5. PICK f \in [0 .. N -> Nat] : Recursive(f, N, 0, AddUp(s))
  BY <1>1, <1>3, RecursionExists
<1>6. f = [n \in 0 .. N |-> IF n = 0 THEN 0 ELSE f[n - 1] + s[n]]
  <2>1. ASSUME NEW n \in 0 .. N
        PROVE  f[n] = IF n = 0 THEN 0 ELSE f[n - 1] + s[n]
    <3>1. CASE n = 0
      BY <1>5, <3>1 DEF Recursive
    <3>2. CASE n # 0
      <4>1. n \in 1 .. N /\ n - 1 \in 0 .. N
        BY <1>1, <3>2
      <4>2. f[n - 1] \in Nat
        BY <1>5, <4>1
      <4> QED BY <1>4, <1>5, <3>2, <4>1, <4>2 DEF Recursive
    <3> QED BY <3>1, <3>2
  <2> QED BY <1>5, <2>1
<1>7. sum = [n \in 0 .. N |-> IF n = 0 THEN 0 ELSE sum[n - 1] + s[n]]
  <2>1. \E g : g = [n \in 0 .. N |-> IF n = 0 THEN 0 ELSE g[n - 1] + s[n]]
    BY <1>6
  <2> QED BY <2>1
<1> HIDE DEF sum
<1> DEFINE T == {n \in 0 .. N : sum[n] = f[n]}
<1>8. 0 \in T
  BY <1>1, <1>6, <1>7
<1>9. ASSUME NEW n \in 0 .. N, n \in T, n < N
      PROVE  n + 1 \in T
  <2>1. n + 1 \in 0 .. N /\ n + 1 # 0 /\ (n + 1) - 1 = n
    BY <1>1, <1>9
  <2>2. sum[n + 1] = sum[n] + s[n + 1] /\ f[n + 1] = f[n] + s[n + 1]
    BY <1>6, <1>7, <2>1
  <2> QED BY <1>9, <2>1, <2>2
<1> HIDE DEF T
<1>a. \A n \in 0 .. N : n \in T
  BY <1>1, <1>8, <1>9, CountingUp
<1>10. N \in T
  BY <1>1, <1>a
<1> QED BY <1>2, <1>5, <1>10 DEF T, N

\* The sum of a longer sequence.
LEMMA TotalAppend ==
    ASSUME NEW s \in Seq(Nat), NEW x \in Nat
    PROVE  Total(s) \in Nat /\ Total(Append(s, x)) = Total(s) + x
<1> DEFINE N == Len(s)
<1> DEFINE t == Append(s, x)
<1>1. /\ N \in Nat /\ t \in Seq(Nat) /\ Len(t) = N + 1 /\ t[N + 1] = x
      /\ \A n \in 1 .. N : t[n] = s[n]
  OBVIOUS
<1> HIDE DEF t
<1>2. PICK f : f \in [0 .. N -> Nat] /\ Recursive(f, N, 0, AddUp(s)) /\ Total(s) = f[N]
  BY TotalIsRecursive
<1>3. PICK g : g \in [0 .. (N + 1) -> Nat] /\ Recursive(g, N + 1, 0, AddUp(t)) /\ Total(t) = g[N + 1]
  BY <1>1, TotalIsRecursive
<1>4. Recursive(g, N, 0, AddUp(s))
  <2>1. ASSUME NEW n \in 1 .. N
        PROVE  g[n] = AddUp(s)[<<n, g[n - 1]>>]
    <3>1. n \in 1 .. (N + 1) /\ n - 1 \in 0 .. (N + 1)
      BY <1>1
    <3>2. g[n - 1] \in Nat
      BY <1>3, <3>1
    <3>3. AddUp(t)[<<n, g[n - 1]>>] = g[n - 1] + t[n]
      BY <1>1, <3>1, <3>2 DEF AddUp
    <3>4. AddUp(s)[<<n, g[n - 1]>>] = g[n - 1] + s[n]
      BY <3>2 DEF AddUp
    <3> QED BY <1>1, <1>3, <3>1, <3>3, <3>4 DEF Recursive
  <2> QED BY <1>3, <2>1 DEF Recursive
<1>5. g[N] = f[N] /\ f[N] \in Nat
  <2> HIDE DEF N
  <2>1. N \in 0 .. N
    BY <1>1
  <2> DEFINE step == AddUp(s)
  <2> DEFINE zero == 0
  <2>a. N \in Nat /\ Recursive(f, N, zero, step) /\ Recursive(g, N, zero, step)
    BY <1>1, <1>2, <1>4
  <2> HIDE DEF step, zero
  <2>2. \A n \in 0 .. N : f[n] = g[n]
    BY ONLY <2>a, RecursionUnique
  <2> QED BY <1>2, <2>1, <2>2
<1>6. g[N + 1] = g[N] + x
  <2>1. N + 1 \in 1 .. (N + 1) /\ (N + 1) - 1 = N
    BY <1>1
  <2>2. AddUp(t)[<<N + 1, g[N]>>] = g[N] + t[N + 1]
    BY <1>1, <1>5, <2>1 DEF AddUp
  <2> QED BY <1>1, <1>3, <2>1, <2>2 DEF Recursive
<1> QED BY <1>2, <1>3, <1>5, <1>6 DEF t

\* The sum of no numbers.
LEMMA TotalEmpty == Total(<< >>) = 0
<1>1. << >> \in Seq(Nat) /\ Len(<< >>) = 0
  OBVIOUS
<1>2. PICK f \in [0 .. 0 -> Nat] : Recursive(f, 0, 0, AddUp(<< >>)) /\ Total(<< >>) = f[0]
  BY <1>1, TotalIsRecursive
<1> QED BY <1>2 DEF Recursive
-----------------------------------------------------------------------------
(***************************************************************************)
(* What the properties sum up over the frames.                             *)
(***************************************************************************)
GasOf(fs) == Total([i \in DOMAIN fs |-> fs[i].gas])
FuelOf(fs) == Total([i \in DOMAIN fs |-> FrameFuel(fs[i])])

\* The gas and the fuel of one more frame.
LEMMA SumsAppend ==
    ASSUME NEW fs \in Seq(Frame), NEW f \in Frame
    PROVE  /\ GasOf(fs) \in Nat /\ GasOf(Append(fs, f)) = GasOf(fs) + f.gas
           /\ FuelOf(fs) \in Nat /\ FuelOf(Append(fs, f)) = FuelOf(fs) + FrameFuel(f)
<1> DEFINE m == Len(fs)
<1> DEFINE t == Append(fs, f)
<1>1. /\ m \in Nat /\ DOMAIN fs = 1 .. m /\ DOMAIN t = 1 .. (m + 1) /\ t[m + 1] = f
      /\ \A i \in 1 .. m : t[i] = fs[i] /\ fs[i] \in Frame
  <2> HIDE DEF Frame
  <2> QED OBVIOUS
<1> HIDE DEF t, m
<1>2. ASSUME NEW g \in Frame
      PROVE  g.gas \in Nat /\ FrameFuel(g) \in Nat
  <2>1. g.gas \in Nat
    BY FrameFields
  <2> QED BY <2>1 DEF FrameFuel
<1>3. ASSUME NEW u \in [1 .. m -> Nat], NEW w \in [1 .. (m + 1) -> Nat],
             \A i \in 1 .. m : w[i] = u[i]
      PROVE  Total(u) \in Nat /\ Total(w) = Total(u) + w[m + 1]
  <2>1. u \in Seq(Nat) /\ Len(u) = m
    BY <1>1
  <2>2. w[m + 1] \in Nat
    BY <1>1
  <2>3. w = Append(u, w[m + 1])
    BY <1>1, <1>3, <2>1, <2>2
  <2> QED BY <2>1, <2>2, <2>3, TotalAppend
<1>4. GasOf(fs) \in Nat /\ GasOf(t) = GasOf(fs) + f.gas
  <2> DEFINE u == [i \in 1 .. m |-> fs[i].gas]
  <2> DEFINE w == [i \in 1 .. (m + 1) |-> t[i].gas]
  <2>1. u \in [1 .. m -> Nat]
    BY <1>1, <1>2
  <2>2. ASSUME NEW i \in 1 .. (m + 1)
        PROVE  t[i] \in Frame
    <3>1. i \in 1 .. m \/ i = m + 1
      BY <1>1
    <3> QED BY <1>1, <3>1
  <2>3. w \in [1 .. (m + 1) -> Nat]
    BY <1>2, <2>2
  <2>4. ASSUME NEW i \in 1 .. m
        PROVE  w[i] = u[i]
    <3>1. i \in 1 .. (m + 1)
      BY <1>1
    <3> QED BY <1>1, <3>1
  <2>5. w[m + 1] = f.gas
    <3>1. m + 1 \in 1 .. (m + 1)
      BY <1>1
    <3> QED BY <1>1, <3>1
  <2>6. GasOf(fs) = Total(u) /\ GasOf(t) = Total(w)
    BY <1>1 DEF GasOf
  <2> HIDE DEF u, w
  <2> QED BY <1>3, <2>1, <2>3, <2>4, <2>5, <2>6
<1>5. FuelOf(fs) \in Nat /\ FuelOf(t) = FuelOf(fs) + FrameFuel(f)
  <2> DEFINE u == [i \in 1 .. m |-> FrameFuel(fs[i])]
  <2> DEFINE w == [i \in 1 .. (m + 1) |-> FrameFuel(t[i])]
  <2>1. u \in [1 .. m -> Nat]
    BY <1>1, <1>2
  <2>2. ASSUME NEW i \in 1 .. (m + 1)
        PROVE  t[i] \in Frame
    <3>1. i \in 1 .. m \/ i = m + 1
      BY <1>1
    <3> QED BY <1>1, <3>1
  <2>3. w \in [1 .. (m + 1) -> Nat]
    BY <1>2, <2>2
  <2>4. ASSUME NEW i \in 1 .. m
        PROVE  w[i] = u[i]
    <3>1. i \in 1 .. (m + 1)
      BY <1>1
    <3> QED BY <1>1, <3>1
  <2>5. w[m + 1] = FrameFuel(f)
    <3>1. m + 1 \in 1 .. (m + 1)
      BY <1>1
    <3> QED BY <1>1, <3>1
  <2>6. FuelOf(fs) = Total(u) /\ FuelOf(t) = Total(w)
    BY <1>1 DEF FuelOf
  <2> HIDE DEF u, w
  <2> QED BY <1>3, <2>1, <2>3, <2>4, <2>5, <2>6
<1> QED BY <1>4, <1>5 DEF t

\* Without frames there is no gas and no fuel.
LEMMA SumsEmpty == GasOf(<< >>) = 0 /\ FuelOf(<< >>) = 0
<1>1. DOMAIN << >> = {}
  OBVIOUS
<1>2. [i \in DOMAIN << >> |-> << >>[i].gas] = << >> /\ [i \in DOMAIN << >> |-> FrameFuel(<< >>[i])] = << >>
  BY <1>1
<1> QED BY <1>2, TotalEmpty DEF GasOf, FuelOf

NodeOf(f) == Node(f.kind, f.caller, f.contract)

Lengthen(fs) ==
    [p \in (1 .. Len(fs)) \X Seq(TraceNode) |->
        IF Traced(fs[p[1]]) THEN Append(p[2], NodeOf(fs[p[1]])) ELSE p[2]]

\* The node of a traced frame.
LEMMA NodeType ==
    ASSUME NEW f \in Frame, Traced(f)
    PROVE  NodeOf(f) \in TraceNode
<1>1. f.kind \in CallKind /\ f.caller \in Addr /\ f.contract \in Addr
  BY DEF Frame, Traced, CallKind
<1> QED BY <1>1 DEF NodeOf, Node, TraceNode

\* The path of the active frames is the last value of a recursive function.
LEMMA PathIsRecursive ==
    ASSUME NEW fs \in Seq(Frame)
    PROVE  \E f : /\ f \in [0 .. Len(fs) -> Seq(TraceNode)]
                  /\ Recursive(f, Len(fs), << >>, Lengthen(fs)) /\ CallPath(fs) = f[Len(fs)]
<1> DEFINE N == Len(fs)
<1> DEFINE path[n \in 0 .. N] ==
      IF n = 0 THEN << >>
      ELSE IF Traced(fs[n]) THEN Append(path[n - 1], Node(fs[n].kind, fs[n].caller, fs[n].contract))
      ELSE path[n - 1]
<1> DEFINE S == Seq(TraceNode)
<1> DEFINE At(n, p) == IF Traced(fs[n]) THEN Append(p, NodeOf(fs[n])) ELSE p
<1>1. N \in Nat /\ \A n \in 1 .. N : fs[n] \in Frame
  OBVIOUS
<1>2. CallPath(fs) = path[N]
  BY DEF CallPath
<1>3. ASSUME NEW n \in 1 .. N, NEW p \in S
      PROVE  At(n, p) \in S
  <2>1. CASE Traced(fs[n])
    <3>1. NodeOf(fs[n]) \in TraceNode
      BY <1>1, <2>1, NodeType
    <3> HIDE DEF TraceNode
    <3> QED BY <2>1, <3>1
  <2>2. CASE ~ Traced(fs[n])
    BY <2>2
  <2> QED BY <2>1, <2>2
<1>4. Lengthen(fs) = [p \in (1 .. N) \X S |-> At(p[1], p[2])]
  BY DEF Lengthen
<1>5. << >> \in S
  OBVIOUS
<1> DEFINE Body(n, f) == IF n = 0 THEN << >> ELSE At(n, f[n - 1])
<1> HIDE DEF N, S, At
<1>7. Lengthen(fs) \in [(1 .. N) \X S -> S]
  BY <1>3, <1>4
<1>8. \A n \in 1 .. N, x \in S : Lengthen(fs)[<<n, x>>] = At(n, x)
  BY <1>4
<1>9. PICK f : f \in [0 .. N -> S] /\ Recursive(f, N, << >>, Lengthen(fs))
  BY <1>1, <1>5, <1>7, RecursionExists
<1>10. f = [n \in 0 .. N |-> Body(n, f)]
  <2>1. ASSUME NEW n \in 0 .. N
        PROVE  f[n] = Body(n, f)
    <3>1. CASE n = 0
      BY <1>9, <3>1 DEF Recursive
    <3>2. CASE n # 0
      <4>1. n \in 1 .. N /\ n - 1 \in 0 .. N
        BY <1>1, <3>2
      <4>2. f[n - 1] \in S
        BY <1>9, <4>1
      <4> QED BY <1>8, <1>9, <3>2, <4>1, <4>2 DEF Recursive
    <3> QED BY <3>1, <3>2
  <2> QED BY <1>9, <2>1
<1>11. path = [n \in 0 .. N |-> Body(n, path)]
  <2>1. \E g : g = [n \in 0 .. N |->
                     IF n = 0 THEN << >>
                     ELSE IF Traced(fs[n]) THEN Append(g[n - 1], Node(fs[n].kind, fs[n].caller, fs[n].contract))
                     ELSE g[n - 1]]
    BY <1>10 DEF At, NodeOf
  <2> QED BY <2>1 DEF At, NodeOf
<1> HIDE DEF path
<1> DEFINE T == {n \in 0 .. N : path[n] = f[n]}
<1>12. 0 \in T
  BY <1>1, <1>10, <1>11
<1>13. ASSUME NEW n \in 0 .. N, n \in T, n < N
       PROVE  n + 1 \in T
  <2>1. n + 1 \in 0 .. N /\ n + 1 # 0 /\ (n + 1) - 1 = n
    BY <1>1, <1>13
  <2>2. path[n + 1] = At(n + 1, path[n]) /\ f[n + 1] = At(n + 1, f[n])
    BY <1>10, <1>11, <2>1
  <2> QED BY <1>13, <2>1, <2>2
<1> HIDE DEF T
<1>14. \A n \in 0 .. N : n \in T
  BY <1>1, <1>12, <1>13, CountingUp
<1>15. N \in T
  BY <1>1, <1>14
<1> QED BY <1>2, <1>9, <1>15 DEF T, N, S

\* The path over one more frame, and over none.
LEMMA PathAppend ==
    /\ CallPath(<< >>) = << >>
    /\ \A fs \in Seq(Frame), f \in Frame :
          /\ CallPath(fs) \in Seq(TraceNode)
          /\ CallPath(Append(fs, f)) = IF Traced(f) THEN Append(CallPath(fs), NodeOf(f)) ELSE CallPath(fs)
<1>1. CallPath(<< >>) = << >>
  <2>1. << >> \in Seq(Frame) /\ Len(<< >>) = 0
    OBVIOUS
  <2>2. PICK f : Recursive(f, 0, << >>, Lengthen(<< >>)) /\ CallPath(<< >>) = f[0]
    BY <2>1, PathIsRecursive
  <2> QED BY <2>2 DEF Recursive
<1>2. ASSUME NEW fs \in Seq(Frame), NEW f \in Frame
      PROVE  /\ CallPath(fs) \in Seq(TraceNode)
             /\ CallPath(Append(fs, f)) = IF Traced(f) THEN Append(CallPath(fs), NodeOf(f)) ELSE CallPath(fs)
  <2> DEFINE N == Len(fs)
  <2> DEFINE t == Append(fs, f)
  <2> DEFINE S == Seq(TraceNode)
  <2> DEFINE nil == << >>
  <2>1. /\ N \in Nat /\ t \in Seq(Frame) /\ Len(t) = N + 1 /\ t[N + 1] = f
        /\ \A n \in 1 .. N : t[n] = fs[n]
    BY AppendFrame
  <2> HIDE DEF t
  <2>2. PICK p : p \in [0 .. N -> S] /\ Recursive(p, N, nil, Lengthen(fs)) /\ CallPath(fs) = p[N]
    BY PathIsRecursive
  <2>3. PICK q : q \in [0 .. (N + 1) -> S] /\ Recursive(q, N + 1, nil, Lengthen(t)) /\ CallPath(t) = q[N + 1]
    BY <2>1, PathIsRecursive
  <2>4. \A n \in 1 .. N, x \in S :
           Lengthen(fs)[<<n, x>>] = IF Traced(fs[n]) THEN Append(x, NodeOf(fs[n])) ELSE x
    BY DEF Lengthen
  <2>5. \A n \in 1 .. (N + 1), x \in S :
           Lengthen(t)[<<n, x>>] = IF Traced(t[n]) THEN Append(x, NodeOf(t[n])) ELSE x
    BY <2>1 DEF Lengthen
  <2> HIDE DEF S, N, nil
  <2>6. ASSUME NEW n \in 1 .. N
        PROVE  q[n] = Lengthen(fs)[<<n, q[n - 1]>>]
    <3>1. n \in 1 .. (N + 1) /\ n - 1 \in 0 .. (N + 1)
      BY <2>1
    <3>2. q[n - 1] \in S
      BY <2>3, <3>1
    <3>3. q[n] = Lengthen(t)[<<n, q[n - 1]>>]
      BY <2>3, <3>1 DEF Recursive
    <3> QED BY <2>1, <2>4, <2>5, <3>1, <3>2, <3>3
  <2>7. N \in Nat /\ Recursive(p, N, nil, Lengthen(fs)) /\ Recursive(q, N, nil, Lengthen(fs))
    BY <2>1, <2>2, <2>3, <2>6 DEF Recursive
  <2>8. \A n \in 0 .. N : p[n] = q[n]
    BY ONLY <2>7, RecursionUnique
  <2>9. q[N] = p[N] /\ p[N] \in S
    <3>1. N \in 0 .. N
      BY <2>1
    <3> QED BY <2>2, <2>8, <3>1
  <2>10. q[N + 1] = IF Traced(f) THEN Append(q[N], NodeOf(f)) ELSE q[N]
    <3>1. N + 1 \in 1 .. (N + 1) /\ (N + 1) - 1 = N
      BY <2>1
    <3>2. q[N + 1] = Lengthen(t)[<<N + 1, q[N]>>]
      BY <2>3, <3>1 DEF Recursive
    <3> QED BY <2>1, <2>5, <2>9, <3>1, <3>2
  <2> QED BY <2>2, <2>3, <2>9, <2>10 DEF t, S
<1> QED BY <1>1, <1>2
-----------------------------------------------------------------------------
(***************************************************************************)
(* What a step does to the frames, the transaction and the tracer.         *)
(***************************************************************************)
\* A call or creation over the frames fs, which was given gas, has been answered
\* without running a frame ...
Answered(fs, gas) ==
    /\ \E err \in Outcome, back \in 0 .. gas : Deliver(fs, err, back)
    /\ tracer' = tracer

\* ... or runs one, of which the tracer knows if it is traced.
Runs(fs, gas) ==
    /\ \E f : /\ frames' = Append(fs, f) /\ f.gas = gas /\ f.err = "running"
              /\ tracer' = IF Traced(f) THEN OnEnter(f.kind, f.caller, f.contract) ELSE tracer
    /\ tx' = tx

Called(fs, gas) == Answered(fs, gas) \/ Runs(fs, gas)

\* At most all of the gas is given back.
LEMMA CappedLess ==
    ASSUME NEW gas \in Nat, NEW left \in 0 .. gas, NEW cap \in Nat \cup {Nil}
    PROVE  Capped(left, cap) \in 0 .. gas
BY DEF Capped

\* The frame that newFrame starts.
LEMMA NewFrameRuns ==
    ASSUME NEW fs, NEW k, NEW code, NEW contract, NEW caller, NEW gas, NEW cap, NEW snap, NEW pre,
           NEW depth, newFrame(fs, k, code, contract, caller, gas, cap, snap, pre, depth)
    PROVE  /\ tx' = tx
           /\ \E f : /\ frames' = Append(fs, f) /\ f.gas = gas /\ f.err = "running"
                     /\ f.kind = k /\ f.caller = caller /\ f.contract = contract
<1>1. PICK stale \in StaleDepths :
         /\ frames' = Append(fs,
              [kind |-> k, contract |-> contract, caller |-> caller, code |-> code,
               gas |-> gas, cap |-> cap, static |-> k = "staticcall",
               depth |-> IF depth = Nil THEN stale ELSE depth,
               snap |-> snap, err |-> "running", pre |-> pre])
         /\ tx' = tx
  BY DEF newFrame
<1> DEFINE f == [kind |-> k, contract |-> contract, caller |-> caller, code |-> code,
                 gas |-> gas, cap |-> cap, static |-> k = "staticcall",
                 depth |-> IF depth = Nil THEN stale ELSE depth,
                 snap |-> snap, err |-> "running", pre |-> pre]
<1>2. /\ f.gas = gas /\ f.err = "running" /\ f.kind = k /\ f.caller = caller /\ f.contract = contract
  OBVIOUS
<1> HIDE DEF f
<1>3. frames' = Append(fs, f)
  BY <1>1 DEF f
<1> QED BY <1>1, <1>2, <1>3

\* What Answer does.
LEMMA AnswerDelivers ==
    ASSUME NEW d, NEW fs, NEW err \in Outcome, NEW gas, NEW back \in 0 .. gas, Answer(d, fs, err, back)
    PROVE  Called(fs, gas)
BY DEF Answer, Called, Answered

\* EVM.execCall.
LEMMA ExecCallShape ==
    ASSUME NEW d, NEW fs, NEW caller, NEW contract, NEW value, NEW gas \in Nat,
           NEW cap \in Nat \cup {Nil}, execCall(d, fs, caller, contract, value, gas, cap)
    PROVE  Called(fs, gas)
<1> DEFINE snap == Len(d.snapshots) + 1
<1> DEFINE begun == WarmAddress(WarmAddress(Snapshot(d), caller), contract)
<1> DEFINE moved == Transfer(begun, caller, contract, value)
<1>1. \/ \E left \in 0 .. gas : Answer(d, fs, "none", Capped(left, cap))
      \/ Answer(RevertToSnapshot(begun, snap), fs, "fail", 0)
      \/ Answer(moved, fs, "none", Capped(gas, cap))
      \/ /\ tracer' = OnEnter("call", caller, contract)
         /\ newFrame(fs, "call", GetCode(moved, contract), contract, caller, gas, cap, snap, d, Nil)
  BY DEF execCall
<1> HIDE DEF snap, begun, moved
<1>2. ASSUME NEW left \in 0 .. gas, Answer(d, fs, "none", Capped(left, cap))
      PROVE  Called(fs, gas)
  <2>1. Capped(left, cap) \in 0 .. gas
    BY CappedLess
  <2> QED BY <1>2, <2>1, AnswerDelivers DEF Outcome
<1>3. ASSUME Answer(RevertToSnapshot(begun, snap), fs, "fail", 0)
      PROVE  Called(fs, gas)
  <2>1. 0 \in 0 .. gas
    OBVIOUS
  <2> QED BY <1>3, <2>1, AnswerDelivers DEF Outcome
<1>4. ASSUME Answer(moved, fs, "none", Capped(gas, cap))
      PROVE  Called(fs, gas)
  <2>1. gas \in 0 .. gas
    OBVIOUS
  <2>2. Capped(gas, cap) \in 0 .. gas
    BY <2>1, CappedLess
  <2> QED BY <1>4, <2>2, AnswerDelivers DEF Outcome
<1>5. ASSUME tracer' = OnEnter("call", caller, contract),
             newFrame(fs, "call", GetCode(moved, contract), contract, caller, gas, cap, snap, d, Nil)
      PROVE  Called(fs, gas)
  <2>1. /\ tx' = tx
        /\ \E f : /\ frames' = Append(fs, f) /\ f.gas = gas /\ f.err = "running"
                  /\ f.kind = "call" /\ f.caller = caller /\ f.contract = contract
    BY <1>5, NewFrameRuns
  <2> QED BY <1>5, <2>1 DEF Called, Runs, Traced
<1> QED BY <1>1, <1>2, <1>3, <1>4, <1>5

\* EVM.Call, for each kind of call.
LEMMA CallShape ==
    ASSUME NEW ct \in CallKind, NEW d, NEW fs, NEW f, NEW addr, NEW value, NEW gas \in Nat,
           NEW cap \in Nat \cup {Nil}, Call(ct, d, fs, f, addr, value, gas, cap)
    PROVE  Called(fs, gas)
<1>0. /\ gas \in 0 .. gas
      /\ Capped(gas, cap) \in 0 .. gas
  <2>1. gas \in 0 .. gas
    OBVIOUS
  <2> QED BY <2>1, CappedLess
<1>1. ASSUME NEW e, NEW err \in {"none", "fail"}, Answer(e, fs, err, Capped(gas, cap))
      PROVE  Called(fs, gas)
  <2>1. err \in Outcome
    BY DEF Outcome
  <2> QED BY <1>0, <1>1, <2>1, AnswerDelivers
<1>2. ASSUME execCodeOf(ct, d, fs, f, addr, value, gas, cap), ct \in {"callcode", "delegatecall"}
      PROVE  Called(fs, gas)
  <2> DEFINE caller == IF ct = "delegatecall" THEN f.caller ELSE f.contract
  <2> DEFINE self == f.contract
  <2> DEFINE snap == Len(d.snapshots) + 1
  <2> DEFINE depth == f.depth + 1
  <2>1. \/ \E err \in {"none", "fail"} : Answer(Snapshot(d), fs, err, Capped(gas, cap))
        \/ /\ tracer' = OnEnter(ct, caller, self)
           /\ newFrame(fs, ct, GetCode(d, addr), self, caller, gas, cap, snap, d, depth)
    BY <1>2 DEF execCodeOf
  <2> HIDE DEF caller, self, snap, depth
  <2>2. ASSUME tracer' = OnEnter(ct, caller, self),
               newFrame(fs, ct, GetCode(d, addr), self, caller, gas, cap, snap, d, depth)
        PROVE  Called(fs, gas)
    <3>1. /\ tx' = tx
          /\ \E g : /\ frames' = Append(fs, g) /\ g.gas = gas /\ g.err = "running"
                    /\ g.kind = ct /\ g.caller = caller /\ g.contract = self
      BY <2>2, NewFrameRuns
    <3> QED BY <1>2, <2>2, <3>1 DEF Called, Runs, Traced
  <2> QED BY <1>1, <2>1, <2>2
<1>3. ASSUME execStatic(d, fs, f, addr, gas, cap)
      PROVE  Called(fs, gas)
  <2> DEFINE self == f.contract
  <2> DEFINE snap == Len(d.snapshots) + 1
  <2> DEFINE depth == f.depth + 1
  <2>1. /\ newFrame(fs, "staticcall", GetCode(d, addr), addr, self, gas, cap, snap, d, depth)
        /\ tracer' = tracer
    BY <1>3 DEF execStatic
  <2> HIDE DEF self, snap, depth
  <2>2. /\ tx' = tx
        /\ \E g : /\ frames' = Append(fs, g) /\ g.gas = gas /\ g.err = "running"
                  /\ g.kind = "staticcall" /\ g.caller = self /\ g.contract = addr
    BY <2>1, NewFrameRuns
  <2> QED BY <2>1, <2>2 DEF Called, Runs, Traced
<1>4. ASSUME execCall(d, fs, f.contract, addr, value, gas, cap)
      PROVE  Called(fs, gas)
  <2> DEFINE self == f.contract
  <2>1. execCall(d, fs, self, addr, value, gas, cap)
    BY <1>4
  <2> HIDE DEF self
  <2> QED BY <2>1, ExecCallShape
<1>5. \/ Answer(d, fs, "fail", Capped(gas, cap))
      \/ execCall(d, fs, f.contract, addr, value, gas, cap)
      \/ execStatic(d, fs, f, addr, gas, cap)
      \/ execCodeOf(ct, d, fs, f, addr, value, gas, cap) /\ ct \in {"callcode", "delegatecall"}
  BY DEF Call, CallKind
<1> QED BY <1>1, <1>2, <1>3, <1>4, <1>5

\* EVM.Create and EVM.create.
LEMMA CreateShape ==
    ASSUME NEW d, NEW fs, NEW from, NEW contract, NEW value, NEW gas \in Nat, NEW initCode
    PROVE  /\ create(d, fs, from, contract, value, gas, initCode) => Called(fs, gas)
           /\ \A f : f.contract = from /\ Create(d, fs, f, contract, value, gas, initCode) => Called(fs, gas)
<1>0. 0 \in 0 .. gas /\ "fail" \in Outcome
  BY DEF Outcome
<1>1. ASSUME NEW e, Answer(e, fs, "fail", 0)
      PROVE  Called(fs, gas)
  BY <1>0, <1>1, AnswerDelivers
<1>2. ASSUME create(d, fs, from, contract, value, gas, initCode)
      PROVE  Called(fs, gas)
  <2> DEFINE snap == Len(d.snapshots) + 1
  <2>1. \/ \E e : Answer(e, fs, "fail", 0)
        \/ /\ newFrame(fs, "create", initCode, contract, from, gas, Nil, snap, d, Nil)
           /\ tracer' = tracer
    BY <1>2 DEF create
  <2> HIDE DEF snap
  <2>2. ASSUME newFrame(fs, "create", initCode, contract, from, gas, Nil, snap, d, Nil), tracer' = tracer
        PROVE  Called(fs, gas)
    <3>1. /\ tx' = tx
          /\ \E g : /\ frames' = Append(fs, g) /\ g.gas = gas /\ g.err = "running"
                    /\ g.kind = "create" /\ g.caller = from /\ g.contract = contract
      BY <2>2, NewFrameRuns
    <3> QED BY <2>2, <3>1 DEF Called, Runs, Traced
  <2> QED BY <1>1, <2>1, <2>2
<1>3. ASSUME NEW f, f.contract = from, Create(d, fs, f, contract, value, gas, initCode)
      PROVE  Called(fs, gas)
  BY <1>1, <1>2, <1>3 DEF Create
<1> QED BY <1>2, <1>3

\* The top frame spends gas or ends.
Spends ==
    /\ \E f \in Frame : /\ frames' = WithTop(frames, f) /\ SameFrame(f, Top) /\ f.gas <= Top.gas
                        /\ f.err # "running" \/ f.gas < Top.gas
    /\ tx' = tx /\ tracer' = tracer

\* The top frame calls or creates: what it keeps and what it gives away is less
\* than what it had.
CallsOut ==
    \E f \in Frame, gas \in Nat :
        /\ SameFrame(f, Top) /\ f.err = "running" /\ f.gas + gas < Top.gas
        /\ Called(WithTop(frames, f), gas)

\* Charge and Halt.
LEMMA ChargeSpends ==
    ASSUME TypeOK, frames # << >>, NEW cost \in Nat, NEW d,
           (Charge(cost, d) /\ cost # 0) \/ \E err \in Outcome : Halt(err, cost, d)
    PROVE  Spends
<1>1. Top \in Frame /\ Top.gas \in Nat
  <2>1. frames \in Seq(Frame)
    BY DEF TypeOK
  <2> QED BY <2>1, WithTopFrames, FrameFields DEF Top
<1>2. ASSUME Charge(cost, d), cost # 0
      PROVE  Spends
  <2> DEFINE g == [Top EXCEPT !.gas = @ - cost]
  <2>1. Top.gas >= cost /\ frames' = WithTop(frames, g) /\ tx' = tx /\ tracer' = tracer
    BY <1>2 DEF Charge
  <2>2. Top.gas - cost \in Nat /\ Top.gas - cost <= Top.gas /\ Top.gas - cost < Top.gas
    BY <1>1, <1>2, <2>1
  <2>3. g \in Frame /\ SameFrame(g, Top) /\ g.gas = Top.gas - cost
    BY <1>1, <2>2, FrameChanges
  <2> HIDE DEF g
  <2> QED BY <2>1, <2>2, <2>3 DEF Spends
<1>3. ASSUME NEW err \in Outcome, Halt(err, cost, d)
      PROVE  Spends
  <2> DEFINE g == [Top EXCEPT !.gas = @ - cost, !.err = err]
  <2>1. Top.gas >= cost /\ frames' = WithTop(frames, g) /\ tx' = tx /\ tracer' = tracer
    BY <1>3 DEF Halt
  <2>2. Top.gas - cost \in Nat /\ Top.gas - cost <= Top.gas
    BY <1>1, <2>1
  <2> DEFINE left == Top.gas - cost
  <2>3. g = [Top EXCEPT !.gas = left, !.err = err] /\ left \in Nat
    BY <2>2
  <2> HIDE DEF left, g
  <2>a. g \in Frame /\ SameFrame(g, Top) /\ g.gas = left /\ g.err = err
    <3>1. Top \in Frame /\ left \in Nat /\ err \in Outcome
      BY <1>1, <2>3
    <3>2. /\ [Top EXCEPT !.gas = left, !.err = err] \in Frame
          /\ SameFrame([Top EXCEPT !.gas = left, !.err = err], Top)
          /\ [Top EXCEPT !.gas = left, !.err = err].gas = left
          /\ [Top EXCEPT !.gas = left, !.err = err].err = err
      BY <3>1 DEF Frame, Outcome, SameFrame
    <3> QED BY <2>3, <3>2
  <2>4. err # "running"
    BY DEF Outcome
  <2> QED BY <2>1, <2>2, <2>a, <2>4 DEF Spends, left
<1> QED BY <1>2, <1>3

\* The opcodes that run no call.
LEMMA PlainSpends ==
    ASSUME EVMInv,
           \/ OpCompute \/ OpLog \/ OpReturn \/ OpRevert \/ Fail
           \/ \E a \in Addr : OpBalance(a) \/ OpSelfDestruct(a)
           \/ \E s \in Slot : OpSload(s) \/ \E newVal \in Val : OpSstore(s, newVal) \/ SstoreFails(s, newVal)
           \/ \E ct \in CallKind, a \in Addr, value \in Values : CallFails(ct, a, value)
    PROVE  Running /\ Spends
<1>1. TypeOK
  BY DEF EVMInv
<1>2. Running /\ frames # << >>
  BY DEF OpCompute, OpLog, OpReturn, OpRevert, Fail, OpBalance, OpSelfDestruct, OpSload, OpSstore,
         SstoreFails, CallFails, Has, Running
<1>3. ASSUME NEW cost \in Nat \ {0}, NEW d, Charge(cost, d)
      PROVE  Spends
  BY <1>1, <1>2, <1>3, ChargeSpends
<1>4. ASSUME NEW cost \in Nat, NEW err \in Outcome, NEW d, Halt(err, cost, d)
      PROVE  Spends
  BY <1>1, <1>2, <1>4, ChargeSpends
<1>5. 0 \in Nat /\ {"none", "revert", "fail"} \subseteq Outcome
  BY DEF Outcome
<1>6. ASSUME OpCompute PROVE Spends
  <2> DEFINE one == 1
  <2>1. one \in Nat \ {0} /\ Charge(one, db)
    BY <1>6 DEF OpCompute
  <2> HIDE DEF one
  <2> QED BY <1>3, <2>1
<1>7. ASSUME OpLog PROVE Spends
  BY <1>3, <1>7, Prices DEF OpLog
<1>8. ASSUME OpReturn \/ OpRevert \/ Fail PROVE Spends
  <2> DEFINE nought == 0
  <2>1. \E err \in Outcome : Halt(err, nought, db)
    BY <1>5, <1>8 DEF OpReturn, OpRevert, Fail
  <2>2. nought \in Nat
    OBVIOUS
  <2> HIDE DEF nought
  <2> QED BY <1>4, <2>1, <2>2
<1>9. ASSUME NEW a \in Addr, OpBalance(a) PROVE Spends
  BY <1>3, <1>9, Prices DEF OpBalance
<1>10. ASSUME NEW a \in Addr, OpSelfDestruct(a) PROVE Spends
  <2>1. PICK d : Halt("none", SelfDestruct + (IF AddressWarm(db, a) THEN 0 ELSE ColdAccountAccess)
                    + (IF Exists(db, a) THEN 0 ELSE SelfDestructNewAccount), d)
    BY <1>10 DEF OpSelfDestruct
  <2> DEFINE cost == SelfDestruct + (IF AddressWarm(db, a) THEN 0 ELSE ColdAccountAccess)
                    + (IF Exists(db, a) THEN 0 ELSE SelfDestructNewAccount)
  <2>2. cost \in Nat /\ Halt("none", cost, d)
    BY <2>1, Prices
  <2> HIDE DEF cost
  <2> QED BY <1>4, <1>5, <2>2
<1>11. ASSUME NEW s \in Slot, OpSload(s) PROVE Spends
  <2> DEFINE cost == IF SlotWarm(db, Top.contract, s) THEN WarmStorageRead ELSE ColdSload
  <2>1. cost \in Nat \ {0} /\ \E d : Charge(cost, d)
    BY <1>11, Prices DEF OpSload
  <2> HIDE DEF cost
  <2> QED BY <1>3, <2>1
<1>12. ASSUME NEW s \in Slot, NEW newVal \in Val, OpSstore(s, newVal) PROVE Spends
  <2> DEFINE c == Top.contract
  <2> DEFINE price == SstoreCost(GetStorage(db, c, s), GetCommittedStorage(db, c, s), newVal, Zero)
  <2> DEFINE cold == IF SlotWarm(db, c, s) THEN 0 ELSE ColdSload
  <2>1. \E d : Charge(cold + price.cost, d)
    BY <1>12 DEF OpSstore
  <2>2. cold \in Nat /\ price.cost \in Nat \ {0}
    BY Prices
  <2> DEFINE cost == cold + price.cost
  <2> HIDE DEF cold, price
  <2>3. cost \in Nat \ {0}
    BY <2>2
  <2> QED BY <1>3, <2>1, <2>3
<1>13. ASSUME NEW s \in Slot, NEW newVal \in Val, SstoreFails(s, newVal) PROVE Spends
  <2> DEFINE nought == 0
  <2>1. nought \in Nat /\ \E d : Halt("fail", nought, d)
    BY <1>13 DEF SstoreFails
  <2> HIDE DEF nought
  <2> QED BY <1>4, <1>5, <2>1
<1>14. ASSUME NEW ct \in CallKind, NEW a \in Addr, NEW value \in Values, CallFails(ct, a, value)
       PROVE  Spends
  <2> DEFINE nought == 0
  <2>1. nought \in Nat /\ \E d : Halt("fail", nought, d)
    BY <1>14 DEF CallFails
  <2> HIDE DEF nought
  <2> QED BY <1>4, <1>5, <2>1
<1> QED BY <1>2, <1>6, <1>7, <1>8, <1>9, <1>10, <1>11, <1>12, <1>13, <1>14

\* The calling opcodes.
LEMMA OpCallCallsOut ==
    ASSUME EVMInv, NEW ct \in CallKind, NEW a \in Addr, NEW value \in Values, frames # << >>,
           NEW fwd \in 0 .. Top.gas, OpCall(ct, a, value, fwd)
    PROVE  Running /\ CallsOut
<1> DEFINE cost == CallCost(a, value)
<1> DEFINE stipend == IF value > 0 THEN CallStipend ELSE 0
<1> DEFINE f == [Top EXCEPT !.gas = @ - cost - fwd]
<1> DEFINE d == WarmAddress(db, a)
<1> DEFINE gas == fwd + stipend
<1>1. /\ Running /\ Top.err = "running" /\ Top.gas >= cost /\ fwd <= CallGas(Top.gas - cost)
      /\ Call(ct, d, WithTop(frames, f), f, a, value, gas, fwd)
  BY DEF OpCall, Has, Running
<1>2. Top \in Frame /\ Top.gas \in Nat
  <2>1. frames \in Seq(Frame)
    BY DEF EVMInv, TypeOK
  <2> QED BY <2>1, WithTopFrames, FrameFields DEF Top
<1>3. value \in Nat
  BY EVMAssumption, StateAssumption DEF Word
<1>4. cost \in Nat /\ gas \in Nat /\ fwd \in Nat /\ gas < fwd + cost
  <2>1. fwd \in Nat
    BY <1>2
  <2>2. AccessCost(a) \in Nat \ {0}
    BY Prices
  <2>3. CASE value > 0
    BY <1>3, <2>1, <2>2, <2>3, Prices DEF CallCost
  <2>4. CASE ~ value > 0
    BY <1>3, <2>1, <2>2, <2>4, Prices DEF CallCost
  <2> QED BY <2>3, <2>4
<1> HIDE DEF cost, gas, d
<1>5. Top.gas - cost \in Nat
  BY <1>1, <1>2, <1>4
<1> DEFINE kept == Top.gas - cost - fwd
<1>6. kept \in Nat
  BY <1>1, <1>4, <1>5, CallGasBounds
<1>7. kept + gas < Top.gas
  BY <1>2, <1>4, <1>6
<1>8. f = [Top EXCEPT !.gas = kept]
  OBVIOUS
<1> HIDE DEF kept, f
<1>9. f \in Frame /\ SameFrame(f, Top) /\ f.gas = kept /\ f.err = "running"
  BY <1>1, <1>2, <1>6, <1>8, FrameChanges
<1>10. Called(WithTop(frames, f), gas)
  <2> DEFINE fs == WithTop(frames, f)
  <2>1. Call(ct, d, fs, f, a, value, gas, fwd) /\ fwd \in Nat \cup {Nil}
    BY <1>1, <1>4
  <2> HIDE DEF fs
  <2>2. Called(fs, gas)
    BY <1>4, <2>1, CallShape
  <2> QED BY <2>2 DEF fs
<1> QED BY <1>1, <1>4, <1>7, <1>9, <1>10 DEF CallsOut

\* CREATE and CREATE2.
LEMMA OpCreateCallsOut ==
    ASSUME EVMInv, NEW op, NEW c \in Creatable, NEW value \in Values, NEW initCode \in Code,
           OpCreate(op, c, value, initCode)
    PROVE  Running /\ CallsOut
<1> DEFINE kept == (Top.gas - 1) - CallGas(Top.gas - 1)
<1> DEFINE f == [Top EXCEPT !.gas = kept]
<1>1. /\ Running /\ frames # << >> /\ Top.err = "running" /\ Top.gas >= 1
      /\ Create(db, WithTop(frames, f), f, c, value, kept, initCode)
  BY DEF OpCreate, Has, Running
<1>2. Top \in Frame /\ Top.gas \in Nat
  <2>1. frames \in Seq(Frame)
    BY DEF EVMInv, TypeOK
  <2> QED BY <1>1, <2>1, WithTopFrames, FrameFields DEF Top
<1>3. kept \in Nat /\ kept + kept < Top.gas
  <2> DEFINE x == Top.gas - 1
  <2>1. x \in Nat /\ x < Top.gas
    BY <1>1, <1>2
  <2>2. kept = x - CallGas(x)
    OBVIOUS
  <2> HIDE DEF x, kept
  <2>3. x - CallGas(x) \in Nat /\ 2 * (x - CallGas(x)) <= x
    BY <2>1, CallGasBounds
  <2> QED BY <1>2, <2>1, <2>2, <2>3
<1> HIDE DEF kept
<1>4. f \in Frame /\ SameFrame(f, Top) /\ f.gas = kept /\ f.err = "running"
  BY <1>1, <1>2, <1>3, FrameChanges
<1> HIDE DEF f
<1>5. Called(WithTop(frames, f), kept)
  <2> DEFINE fs == WithTop(frames, f)
  <2>1. Create(db, fs, f, c, value, kept, initCode)
    BY <1>1
  <2> HIDE DEF fs
  <2>2. Called(fs, kept)
    BY <1>3, <2>1, CreateShape
  <2> QED BY <2>2 DEF fs
<1> QED BY <1>1, <1>3, <1>4, <1>5 DEF CallsOut

\* Every opcode is run by the top frame, which spends gas, ends or calls.
LEMMA OpcodeShape ==
    ASSUME EVMInv, Opcode
    PROVE  Running /\ (Spends \/ CallsOut)
<1>1. CASE \/ OpCompute \/ OpLog \/ OpReturn \/ OpRevert \/ Fail
           \/ \E a \in Addr : OpBalance(a) \/ OpSelfDestruct(a)
           \/ \E s \in Slot : OpSload(s) \/ \E newVal \in Val : OpSstore(s, newVal) \/ SstoreFails(s, newVal)
           \/ \E ct \in CallKind, a \in Addr, value \in Values : CallFails(ct, a, value)
  BY <1>1, PlainSpends
<1>2. CASE \E ct \in CallKind, a \in Addr, value \in Values :
              Running /\ \E fwd \in 0 .. Top.gas : OpCall(ct, a, value, fwd)
  BY <1>2, OpCallCallsOut DEF Running
<1>3. CASE \E op \in {"CREATE", "CREATE2"}, c \in Creatable, value \in Values, initCode \in Code :
              OpCreate(op, c, value, initCode)
  BY <1>3, OpCreateCallsOut
<1> QED BY <1>1, <1>2, <1>3 DEF Opcode

\* The outermost call or creation is given the gas that the intrinsic gas leaves.
LEMMA EnterShape ==
    ASSUME EVMInv, Enter
    PROVE  /\ tx.phase = "running" /\ frames = << >> /\ tx # NoTx
           /\ tx.msg.gas - IntrinsicGas(tx.msg) \in Nat
           /\ Called(<< >>, tx.msg.gas - IntrinsicGas(tx.msg))
<1> DEFINE msg == tx.msg
<1> DEFINE gas == msg.gas - IntrinsicGas(msg)
<1> DEFINE from == msg.from
<1> DEFINE to == msg.to
<1> DEFINE value == msg.value
<1> DEFINE fs == frames
<1>1. /\ tx.phase = "running" /\ frames = << >>
      /\ \/ \E c \in NewAddress("CREATE"), initCode \in Code :
               create(db, fs, from, c, value, gas, initCode)
         \/ execCall(db, fs, from, to, value, gas, Nil)
  BY DEF Enter
<1>2. tx # NoTx /\ gas \in Nat
  <2>1. TypeOK /\ PhasesMatch
    BY DEF EVMInv, Revertible
  <2>2. tx # NoTx /\ IntrinsicGas(tx.msg) <= tx.msg.gas /\ tx.msg \in Message
    BY <1>1, <2>1, RunningTx
  <2>3. IntrinsicGas(tx.msg) \in Nat /\ tx.msg.gas \in Nat
    BY <2>2, IntrinsicGasType DEF Message
  <2> QED BY <2>2, <2>3
<1> HIDE DEF gas, from, to, value, fs
<1>3. Called(fs, gas)
  <2>1. Nil \in Nat \cup {Nil}
    OBVIOUS
  <2> QED BY <1>1, <1>2, <2>1, CreateShape, ExecCallShape
<1> QED BY <1>1, <1>2, <1>3 DEF gas, fs

\* The end of a frame.
LEMMA EndFrameShape ==
    ASSUME EVMInv, EndFrame
    PROVE  /\ frames # << >> /\ Top \in Frame /\ Top.err \in Outcome /\ Top.err # "running"
           /\ tracer' = IF Traced(Top) THEN OnExit(Top.err) ELSE tracer
           /\ \E back \in 0 .. Top.gas : Deliver(Callers(frames), Top.err, back)
<1>1. PICK code \in Code : frames # << >> /\ Return(code)
  BY StateAssumption DEF EndFrame
<1>2. /\ Top.err # "running"
      /\ tracer' = IF TracedAtExit(Top.kind) THEN OnExit(Top.err) ELSE tracer
      /\ Deliver(Callers(frames), Top.err, GasLeft(Top))
  BY <1>1 DEF Return
<1>3. Top \in Frame /\ Top.gas \in Nat /\ Top.cap \in Nat \cup {Nil} /\ Top.err \in {"running"} \cup Outcome
  <2>1. frames \in Seq(Frame)
    BY DEF EVMInv, TypeOK
  <2> QED BY <1>1, <2>1, WithTopFrames, FrameFields DEF Top
<1>4. GasLeft(Top) \in 0 .. Top.gas
  <2>1. Top.gas \in 0 .. Top.gas /\ 0 \in 0 .. Top.gas
    BY <1>3
  <2>2. Capped(Top.gas, Top.cap) \in 0 .. Top.gas
    BY <1>3, <2>1, CappedLess
  <2> QED BY <2>1, <2>2 DEF GasLeft
<1>5. TracedAtExit(Top.kind) <=> Traced(Top)
  BY DEF TracedAtExit, Traced
<1> QED BY <1>1, <1>2, <1>3, <1>4, <1>5
-----------------------------------------------------------------------------
(***************************************************************************)
(* The steps of a transaction, by what they do to the last of the frames.  *)
(***************************************************************************)
Bought == tx.msg.gas - IntrinsicGas(tx.msg)

\* Execute has the result of its outermost call or creation.
Settling(err, back) == tx' = [tx EXCEPT !.phase = "settling", !.err = err, !.gasLeft = back]

Begins(f) ==
    /\ f.err = "running" /\ tx' = tx
    /\ tracer' = IF Traced(f) THEN OnEnter(f.kind, f.caller, f.contract) ELSE tracer

Ends(f) ==
    /\ f.err \in Outcome
    /\ tracer' = IF Traced(f) THEN OnExit(f.err) ELSE tracer

\* A frame spends gas or stops running.
SpendStep ==
    /\ \E b \in Seq(Frame), t \in Frame, f \in Frame :
          /\ frames = Append(b, t) /\ frames' = Append(b, f)
          /\ SameFrame(f, t) /\ t.err = "running"
          /\ f.gas <= t.gas /\ (f.err # "running" \/ f.gas < t.gas)
    /\ tx' = tx /\ tracer' = tracer

\* A frame calls another.
CallOutStep ==
    \E b \in Seq(Frame), t \in Frame, f \in Frame, g \in Frame :
        /\ frames = Append(b, t) /\ frames' = Append(Append(b, f), g)
        /\ SameFrame(f, t) /\ t.err = "running" /\ f.err = "running"
        /\ f.gas + g.gas < t.gas
        /\ Begins(g)

\* The outermost call or creation is answered, or runs.
EnterAnswered ==
    /\ frames = << >> /\ frames' = << >> /\ tracer' = tracer
    /\ \E err \in Outcome, back \in 0 .. Bought : Settling(err, back)

EnterRuns ==
    /\ frames = << >>
    /\ \E g \in Frame : frames' = Append(<< >>, g) /\ g.gas = Bought /\ Begins(g)

\* A frame returns to Execute, or to the frame that called it.
EndOuter ==
    \E t \in Frame : \E back \in 0 .. t.gas :
        /\ frames = Append(<< >>, t) /\ frames' = << >>
        /\ Settling(t.err, back) /\ Ends(t)

EndInner ==
    \E b \in Seq(Frame), h \in Frame, g \in Frame, t \in Frame : \E back \in 0 .. t.gas :
        /\ frames = Append(Append(b, h), t) /\ frames' = Append(b, g)
        /\ SameFrame(g, h) /\ g.err = h.err /\ g.gas = h.gas + back
        /\ tx' = tx /\ Ends(t)

\* The active frames are the callers of the top frame and the top frame.
LEMMA SplitFrames ==
    ASSUME NEW fs \in Seq(Frame), fs # << >>
    PROVE  /\ Callers(fs) \in Seq(Frame) /\ fs[Len(fs)] \in Frame
           /\ fs = Append(Callers(fs), fs[Len(fs)])
<1>1. /\ Len(fs) \in Nat \ {0} /\ fs[Len(fs)] \in Frame
      /\ Callers(fs) \in Seq(Frame) /\ Len(Callers(fs)) = Len(fs) - 1
      /\ \A i \in 1 .. (Len(fs) - 1) : Callers(fs)[i] = fs[i]
  BY WithTopFrames
<1> DEFINE t == Append(Callers(fs), fs[Len(fs)])
<1>2. /\ t \in Seq(Frame) /\ Len(t) = Len(Callers(fs)) + 1 /\ t[Len(Callers(fs)) + 1] = fs[Len(fs)]
      /\ \A i \in 1 .. Len(Callers(fs)) : t[i] = Callers(fs)[i]
  BY <1>1, AppendFrame
<1> HIDE DEF t
<1>3. Len(t) = Len(fs)
  BY <1>1, <1>2
<1>4. ASSUME NEW i \in 1 .. Len(fs)
      PROVE  fs[i] = t[i]
  <2>1. i \in 1 .. (Len(fs) - 1) \/ i = Len(fs)
    BY <1>1
  <2> QED BY <1>1, <1>2, <2>1
<1>5. fs = t
  BY <1>2, <1>3, <1>4, SameSequence
<1> QED BY <1>1, <1>5 DEF t

\* What Deliver does to the frame that takes the gas back.
LEMMA DeliverShape ==
    ASSUME NEW fs \in Seq(Frame), fs # << >>, NEW back \in Nat, NEW err, Deliver(fs, err, back)
    PROVE  /\ tx' = tx
           /\ \E g \in Frame : /\ frames' = Append(Callers(fs), g)
                               /\ SameFrame(g, fs[Len(fs)]) /\ g.err = fs[Len(fs)].err
                               /\ g.gas = fs[Len(fs)].gas + back
<1> DEFINE m == Len(fs)
<1> DEFINE h == fs[m]
<1> DEFINE left == h.gas + back
<1> DEFINE g == [h EXCEPT !.gas = left]
<1>1. /\ m \in Nat \ {0} /\ h \in Frame /\ Callers(fs) \in Seq(Frame) /\ Len(Callers(fs)) = m - 1
      /\ \A i \in 1 .. (m - 1) : Callers(fs)[i] = fs[i]
  BY WithTopFrames
<1>2. tx' = tx /\ frames' = [fs EXCEPT ![m] = g]
  BY DEF Deliver
<1>3. left \in Nat
  BY <1>1, FrameFields
<1> HIDE DEF h, left
<1>4. g \in Frame /\ SameFrame(g, h) /\ g.err = h.err /\ g.gas = left
  BY <1>1, <1>3, FrameChanges
<1> HIDE DEF g
<1>5. /\ frames' \in Seq(Frame) /\ Len(frames') = m /\ frames'[m] = g
      /\ \A i \in 1 .. (m - 1) : frames'[i] = fs[i]
  <2> HIDE DEF Frame
  <2>1. m \in 1 .. m /\ DOMAIN fs = 1 .. m
    BY <1>1
  <2> QED BY <1>1, <1>2, <1>4, <2>1
<1> DEFINE t == Append(Callers(fs), g)
<1>6. /\ t \in Seq(Frame) /\ Len(t) = Len(Callers(fs)) + 1 /\ t[Len(Callers(fs)) + 1] = g
      /\ \A i \in 1 .. Len(Callers(fs)) : t[i] = Callers(fs)[i]
  BY <1>1, <1>4, AppendFrame
<1> HIDE DEF t, m
<1>7. Len(t) = m
  BY <1>1, <1>6
<1>8. ASSUME NEW i \in 1 .. m
      PROVE  frames'[i] = t[i]
  <2>1. i \in 1 .. (m - 1) \/ i = m
    BY <1>1
  <2> QED BY <1>1, <1>5, <1>6, <2>1
<1>9. frames' = t
  BY <1>5, <1>6, <1>7, <1>8, SameSequence
<1> QED BY <1>2, <1>4, <1>9 DEF t, h, m, left

\* The opcodes.
LEMMA OpcodeKinds ==
    ASSUME EVMInv, Opcode
    PROVE  frames # << >> /\ (SpendStep \/ CallOutStep)
<1>1. Running /\ (Spends \/ CallsOut)
  BY OpcodeShape
<1>2. frames \in Seq(Frame) /\ frames' \in Seq(Frame)
  BY OpcodeStep DEF EVMInv, TypeOK
<1>3. frames # << >> /\ Top.err = "running"
  BY <1>1 DEF Running
<1> DEFINE b == Callers(frames)
<1>4. b \in Seq(Frame) /\ Top \in Frame /\ frames = Append(b, Top)
  BY <1>2, <1>3, SplitFrames DEF Top
<1>5. \A f : WithTop(frames, f) = Append(b, f)
  BY DEF WithTop
<1> HIDE DEF b
<1>6. ASSUME Spends
      PROVE  SpendStep
  BY <1>3, <1>4, <1>5, <1>6 DEF Spends, SpendStep
<1>7. ASSUME CallsOut
      PROVE  SpendStep \/ CallOutStep
  <2>1. PICK f \in Frame, gas \in Nat :
          /\ SameFrame(f, Top) /\ f.err = "running" /\ f.gas + gas < Top.gas
          /\ Called(WithTop(frames, f), gas)
    BY <1>7 DEF CallsOut
  <2> DEFINE fs == Append(b, f)
  <2>2. /\ fs \in Seq(Frame) /\ fs # << >> /\ Len(fs) = Len(b) + 1 /\ fs[Len(b) + 1] = f
    BY <1>4, AppendFrame
  <2>3. Callers(fs) = b
    <3>1. Callers(WithTop(frames, f)) = Callers(frames)
      BY <1>2, <1>3, WithTopFrames
    <3> QED BY <1>5, <3>1 DEF b
  <2>4. Called(fs, gas)
    BY <1>5, <2>1
  <2> HIDE DEF fs
  <2>5. ASSUME Answered(fs, gas)
        PROVE  SpendStep
    <3>1. PICK err \in Outcome, back \in 0 .. gas : Deliver(fs, err, back)
      BY <2>5 DEF Answered
    <3>2. back \in Nat
      OBVIOUS
    <3>3. tx' = tx /\ tracer' = tracer
      BY <2>2, <2>5, <3>1, <3>2, DeliverShape DEF Answered
    <3>4. PICK g \in Frame : /\ frames' = Append(Callers(fs), g)
                             /\ SameFrame(g, fs[Len(fs)]) /\ g.err = fs[Len(fs)].err
                             /\ g.gas = fs[Len(fs)].gas + back
      BY <2>2, <3>1, <3>2, DeliverShape
    <3>5. fs[Len(fs)] = f
      BY <2>2
    <3>6. frames' = Append(b, g) /\ SameFrame(g, Top) /\ g.gas = f.gas + back
      BY <2>1, <2>3, <3>4, <3>5 DEF SameFrame
    <3>7. g.gas < Top.gas /\ g.gas <= Top.gas
      <4>1. f.gas \in Nat /\ Top.gas \in Nat
        BY <1>4, FrameFields
      <4> QED BY <2>1, <3>6, <4>1
    <3> QED BY <1>3, <1>4, <3>3, <3>6, <3>7 DEF SpendStep
  <2>6. ASSUME Runs(fs, gas)
        PROVE  CallOutStep
    <3>1. PICK g : /\ frames' = Append(fs, g) /\ g.gas = gas /\ g.err = "running"
                   /\ tracer' = IF Traced(g) THEN OnEnter(g.kind, g.caller, g.contract) ELSE tracer
      BY <2>6 DEF Runs
    <3>2. g \in Frame
      <4> DEFINE m == Len(fs)
      <4> HIDE DEF Frame
      <4>1. m \in Nat /\ m + 1 \in 1 .. (m + 1) /\ Len(frames') = m + 1 /\ frames'[m + 1] = g
        BY <2>2, <3>1
      <4> QED BY <1>2, <4>1
    <3>3. Begins(g)
      BY <2>6, <3>1 DEF Begins, Runs
    <3> QED BY <1>3, <1>4, <2>1, <3>1, <3>2, <3>3 DEF CallOutStep, fs
  <2> QED BY <2>4, <2>5, <2>6 DEF Called
<1> QED BY <1>1, <1>3, <1>6, <1>7

\* The outermost call or creation.
LEMMA EnterKinds ==
    ASSUME EVMInv, Enter
    PROVE  /\ tx # NoTx /\ tx.phase = "running" /\ Bought \in Nat
           /\ EnterAnswered \/ EnterRuns
<1>1. /\ tx.phase = "running" /\ frames = << >> /\ tx # NoTx /\ Bought \in Nat
      /\ Called(<< >>, Bought)
  BY EnterShape DEF Bought
<1>2. frames' \in Seq(Frame)
  BY EnterStep DEF EVMInv, TypeOK
<1>3. ASSUME Answered(<< >>, Bought)
      PROVE  EnterAnswered
  BY <1>1, <1>3 DEF Answered, Deliver, EnterAnswered, Settling
<1>4. ASSUME Runs(<< >>, Bought)
      PROVE  EnterRuns
  <2>1. PICK g : /\ frames' = Append(<< >>, g) /\ g.gas = Bought /\ g.err = "running"
                 /\ tracer' = IF Traced(g) THEN OnEnter(g.kind, g.caller, g.contract) ELSE tracer
    BY <1>4 DEF Runs
  <2>2. g \in Frame
    <3> HIDE DEF Frame
    <3>1. Len(frames') = 1 /\ frames'[1] = g
      BY <2>1
    <3> QED BY <1>2, <3>1
  <2> QED BY <1>1, <1>4, <2>1, <2>2 DEF Runs, Begins, EnterRuns
<1> QED BY <1>1, <1>3, <1>4 DEF Called

\* The end of a frame.
LEMMA EndFrameKinds ==
    ASSUME EVMInv, EndFrame
    PROVE  frames # << >> /\ (EndOuter \/ EndInner)
<1>1. /\ frames # << >> /\ Top \in Frame /\ Top.err \in Outcome
      /\ tracer' = IF Traced(Top) THEN OnExit(Top.err) ELSE tracer
  BY EndFrameShape
<1>2. PICK back \in 0 .. Top.gas : Deliver(Callers(frames), Top.err, back)
  BY EndFrameShape
<1>3. frames \in Seq(Frame)
  BY DEF EVMInv, TypeOK
<1> DEFINE cs == Callers(frames)
<1>4. cs \in Seq(Frame) /\ frames = Append(cs, Top)
  BY <1>1, <1>3, SplitFrames DEF Top
<1>5. Ends(Top)
  BY <1>1 DEF Ends
<1> HIDE DEF cs
<1>6. CASE cs = << >>
  <2>1. frames' = << >> /\ Settling(Top.err, back) /\ frames = Append(<< >>, Top)
    BY <1>2, <1>4, <1>6 DEF Deliver, Settling, cs
  <2> QED BY <1>1, <1>5, <2>1 DEF EndOuter
<1>7. CASE cs # << >>
  <2>1. back \in Nat
    BY <1>1, FrameFields
  <2>2. Deliver(cs, Top.err, back)
    BY <1>2 DEF cs
  <2> DEFINE b == Callers(cs)
  <2> DEFINE h == cs[Len(cs)]
  <2>3. b \in Seq(Frame) /\ h \in Frame /\ cs = Append(b, h)
    BY <1>4, <1>7, SplitFrames
  <2>4. /\ tx' = tx
        /\ \E g \in Frame : /\ frames' = Append(b, g)
                            /\ SameFrame(g, h) /\ g.err = h.err /\ g.gas = h.gas + back
    BY <1>4, <1>7, <2>1, <2>2, DeliverShape
  <2> HIDE DEF b, h
  <2>5. frames = Append(Append(b, h), Top)
    BY <1>4, <2>3
  <2> QED BY <1>1, <1>5, <2>3, <2>4, <2>5 DEF EndInner
<1> QED BY <1>1, <1>6, <1>7
-----------------------------------------------------------------------------
(***************************************************************************)
(* Theorems about gas.                                                     *)
(***************************************************************************)
\* A transaction that goes on, and one that has the result of its outermost call.
LEMMA TxGoesOn ==
    ASSUME EVMInv, tx # NoTx
    PROVE  /\ tx.msg \in Message /\ tx.gasLeft \in Nat /\ Bought \in Int
           /\ tx.phase \in {"running", "settling"}
           /\ \A err, back : Settling(err, back) =>
                 /\ tx' # NoTx /\ tx'.phase = "settling" /\ tx'.gasLeft = back /\ tx'.msg = tx.msg
                 /\ Bought' = Bought
           /\ tx' = tx => Bought' = Bought
<1>1. tx \in [phase : {"running", "settling"}, msg : Message, err : Outcome,
              gasLeft : Nat, before : [Addr -> Account \cup {NoAccount}]]
  BY DEF EVMInv, TypeOK, TxState, Outcome
<1>2. tx.msg \in Message /\ tx.gasLeft \in Nat /\ tx.phase \in {"running", "settling"}
  BY <1>1
<1>3. Bought \in Int
  <2>1. IntrinsicGas(tx.msg) \in Nat /\ tx.msg.gas \in Nat
    BY <1>2, IntrinsicGasType DEF Message
  <2> QED BY <2>1 DEF Bought
<1>4. ASSUME NEW err, NEW back, Settling(err, back)
      PROVE  /\ tx' # NoTx /\ tx'.phase = "settling" /\ tx'.gasLeft = back /\ tx'.msg = tx.msg
             /\ Bought' = Bought
  <2>1. tx'.phase = "settling" /\ tx'.gasLeft = back /\ tx'.msg = tx.msg
    BY <1>1, <1>4 DEF Settling
  <2>2. NoTx.phase = "idle"
    BY DEF NoTx
  <2>3. tx' # NoTx
    BY <2>1, <2>2
  <2> QED BY <2>1, <2>3 DEF Bought, IntrinsicGas
<1>5. tx' = tx => Bought' = Bought
  BY DEF Bought, IntrinsicGas
<1> QED BY <1>2, <1>3, <1>4, <1>5

\* What remains to be done of a transaction is done by Step.
LEMMA TxSteps ==
    ASSUME EVMInv, [Next]_vars, tx # NoTx
    PROVE  Enter \/ Opcode \/ EndFrame \/ Settle \/ UNCHANGED vars
BY DEF Next, Step, Done, Reject, Start

\* Between transactions Execute can only be called again.
LEMMA IdleSteps ==
    ASSUME EVMInv, [Next]_vars, tx = NoTx
    PROVE  (\E msg \in Message : Reject(msg) \/ Start(msg)) \/ UNCHANGED vars
<1>1. frames = << >>
  BY IdleState
<1>2. NoTx.phase = "idle"
  BY DEF NoTx
<1>3. ~ Enter /\ ~ Settle
  BY <1>2 DEF Enter, Settle
<1>4. ~ Opcode
  BY <1>1, OpcodeShape DEF Running
<1>5. ~ EndFrame
  BY <1>1 DEF EndFrame
<1>6. ASSUME txs < MaxTx, NEW msg \in Messages[txs + 1]
      PROVE  msg \in Message
  <2>1. txs + 1 \in 1 .. MaxTx
    BY <1>6, EVMAssumption DEF EVMInv, TypeOK
  <2> QED BY <2>1, EVMAssumption
<1> QED BY <1>3, <1>4, <1>5, <1>6 DEF Next, Step, Done

\* The gas that all active frames and Execute have together.
GasHeld == tx.gasLeft + GasOf(frames)

\* The steps that run a transaction do not mint gas.
LEMMA GasSteps ==
    ASSUME EVMInv, tx # NoTx, GasHeld <= Bought, Enter \/ Opcode \/ EndFrame
    PROVE  GasHeld' <= Bought'
<1>1. /\ tx.gasLeft \in Nat /\ Bought \in Int
      /\ \A err, back : Settling(err, back) => tx'.gasLeft = back /\ Bought' = Bought
      /\ tx' = tx => Bought' = Bought /\ tx'.gasLeft = tx.gasLeft
  BY TxGoesOn
<1>2. \A f \in Frame : f.gas \in Nat
  BY FrameFields
<1>3. frames = << >> => GasOf(frames) = 0
  BY SumsEmpty
<1>4. frames' = << >> => GasOf(frames') = 0
  BY SumsEmpty
<1>5. \A b \in Seq(Frame), f \in Frame : GasOf(b) \in Nat /\ GasOf(Append(b, f)) = GasOf(b) + f.gas
  BY SumsAppend
<1>6. GasHeld' = tx'.gasLeft + GasOf(frames')
  BY DEF GasHeld, GasOf
<1>a. GasHeld = tx.gasLeft + GasOf(frames)
  BY DEF GasHeld
<1>7. ASSUME SpendStep
      PROVE  GasHeld' <= Bought'
  <2>1. PICK b \in Seq(Frame), t \in Frame, f \in Frame :
          frames = Append(b, t) /\ frames' = Append(b, f) /\ f.gas <= t.gas
    BY <1>7 DEF SpendStep
  <2>2. GasOf(frames') = GasOf(b) + f.gas /\ GasOf(frames) = GasOf(b) + t.gas
        /\ GasOf(b) \in Nat /\ f.gas \in Nat /\ t.gas \in Nat
    BY <1>2, <1>5, <2>1
  <2>3. tx' = tx
    BY <1>7 DEF SpendStep
  <2> QED BY SMTT(60), <1>1, <1>6, <1>a, <2>1, <2>2, <2>3
<1>8. ASSUME CallOutStep
      PROVE  GasHeld' <= Bought'
  <2>1. PICK b \in Seq(Frame), t \in Frame, f \in Frame, g \in Frame :
          /\ frames = Append(b, t) /\ frames' = Append(Append(b, f), g)
          /\ f.gas + g.gas < t.gas /\ tx' = tx
    BY <1>8 DEF CallOutStep, Begins
  <2>2. Append(b, f) \in Seq(Frame)
    BY AppendFrame
  <2>3. /\ GasOf(frames') = (GasOf(b) + f.gas) + g.gas /\ GasOf(frames) = GasOf(b) + t.gas
        /\ GasOf(b) \in Nat /\ f.gas \in Nat /\ t.gas \in Nat /\ g.gas \in Nat
    BY <1>2, <1>5, <2>1, <2>2
  <2>4. f.gas + g.gas < t.gas /\ tx' = tx
    BY <2>1
  <2>5. GasOf(frames') <= GasOf(frames) /\ GasOf(frames') \in Nat /\ GasOf(frames) \in Nat
    BY <2>3, <2>4
  <2>6. tx'.gasLeft = tx.gasLeft /\ Bought' = Bought
    BY <1>1, <2>4
  <2> QED BY <1>1, <1>6, <1>a, <2>5, <2>6
<1>9. ASSUME EndOuter
      PROVE  GasHeld' <= Bought'
  <2>1. PICK t \in Frame : \E back \in 0 .. t.gas :
          frames = Append(<< >>, t) /\ frames' = << >> /\ Settling(t.err, back)
    BY <1>9 DEF EndOuter
  <2>2. PICK back \in 0 .. t.gas : frames = Append(<< >>, t) /\ frames' = << >> /\ Settling(t.err, back)
    BY <2>1
  <2>3. << >> \in Seq(Frame)
    OBVIOUS
  <2>4. GasOf(frames) = 0 + t.gas
    BY <1>5, <2>2, <2>3, SumsEmpty
  <2>5. t.gas \in Nat
    BY <1>2
  <2>6. tx'.gasLeft = back /\ Bought' = Bought
    BY <1>1, <2>2
  <2> QED BY <1>1, <1>4, <1>6, <1>a, <2>2, <2>4, <2>5, <2>6
<1>10. ASSUME EndInner
       PROVE  GasHeld' <= Bought'
  <2>1. PICK b \in Seq(Frame), h \in Frame, g \in Frame, t \in Frame :
          \E back \in 0 .. t.gas :
            /\ frames = Append(Append(b, h), t) /\ frames' = Append(b, g)
            /\ g.gas = h.gas + back /\ tx' = tx
    BY <1>10 DEF EndInner
  <2>2. PICK back \in 0 .. t.gas :
            /\ frames = Append(Append(b, h), t) /\ frames' = Append(b, g)
            /\ g.gas = h.gas + back /\ tx' = tx
    BY <2>1
  <2>3. Append(b, h) \in Seq(Frame)
    BY AppendFrame
  <2>4. /\ GasOf(frames) = (GasOf(b) + h.gas) + t.gas /\ GasOf(frames') = GasOf(b) + g.gas
        /\ GasOf(b) \in Nat /\ g.gas \in Nat /\ t.gas \in Nat /\ h.gas \in Nat
    BY <1>2, <1>5, <2>2, <2>3
  <2>5. g.gas = h.gas + back /\ tx' = tx
    BY <2>2
  <2>6. GasOf(frames') <= GasOf(frames) /\ GasOf(frames') \in Nat /\ GasOf(frames) \in Nat
    BY SMTT(60), <2>4, <2>5
  <2>7. tx'.gasLeft = tx.gasLeft /\ Bought' = Bought
    BY <1>1, <2>5
  <2> QED BY <1>1, <1>6, <1>a, <2>6, <2>7
<1>11. ASSUME EnterAnswered, Bought \in Nat
       PROVE  GasHeld' <= Bought'
  <2>1. PICK err \in Outcome, back \in 0 .. Bought : Settling(err, back)
    BY <1>11 DEF EnterAnswered
  <2>2. tx'.gasLeft = back /\ Bought' = Bought
    BY <1>1, <2>1
  <2>3. GasOf(frames') = 0
    BY <1>4, <1>11 DEF EnterAnswered
  <2> QED BY <1>6, <1>11, <2>2, <2>3
<1>12. ASSUME EnterRuns, tx.phase = "running"
       PROVE  GasHeld' <= Bought'
  <2>1. PICK g \in Frame : frames' = Append(<< >>, g) /\ g.gas = Bought /\ tx' = tx
    BY <1>12 DEF EnterRuns, Begins
  <2>2. << >> \in Seq(Frame)
    OBVIOUS
  <2>3. GasOf(frames') = 0 + Bought
    BY <1>5, <2>1, <2>2, SumsEmpty
  <2>4. tx.gasLeft = 0
    BY <1>12 DEF EVMInv, Revertible, PhasesMatch
  <2> QED BY <1>1, <1>6, <2>1, <2>3, <2>4
<1> QED BY <1>7, <1>8, <1>9, <1>10, <1>11, <1>12, OpcodeKinds, EnterKinds, EndFrameKinds

\* Every step keeps GasNeverMinted.
LEMMA NextGas == EVMInv /\ GasNeverMinted /\ [Next]_vars => GasNeverMinted'
<1> SUFFICES ASSUME EVMInv, GasNeverMinted, [Next]_vars, (tx # NoTx)'
             PROVE  GasHeld' <= Bought'
  BY DEF GasNeverMinted, GasHeld, GasOf, Bought
<1>1. CASE tx # NoTx
  <2>1. GasHeld <= Bought
    BY <1>1 DEF GasNeverMinted, GasHeld, GasOf, Bought
  <2>2. CASE Enter \/ Opcode \/ EndFrame
    BY <1>1, <2>1, <2>2, GasSteps
  <2>3. CASE Settle
    BY <2>3 DEF Settle
  <2>4. CASE UNCHANGED vars
    BY <2>1, <2>4 DEF vars, GasHeld, GasOf, Bought, IntrinsicGas
  <2> QED BY <1>1, <2>2, <2>3, <2>4, TxSteps
<1>2. CASE tx = NoTx
  <2>1. PICK msg \in Message : Start(msg)
    BY <1>2, IdleSteps DEF Reject, vars
  <2>2. /\ tx'.gasLeft = 0 /\ tx'.msg = msg /\ frames' = frames /\ msg.gas >= IntrinsicGas(msg)
    BY <2>1 DEF Start
  <2>3. frames = << >>
    BY <1>2, IdleState
  <2>4. GasOf(frames') = 0
    BY <2>2, <2>3, SumsEmpty
  <2>5. IntrinsicGas(msg) \in Nat /\ msg.gas \in Nat
    BY IntrinsicGasType DEF Message
  <2>6. Bought' = msg.gas - IntrinsicGas(msg)
    BY <2>2 DEF Bought, IntrinsicGas
  <2>7. GasHeld' = 0 + 0
    BY <2>2, <2>4 DEF GasHeld, GasOf
  <2> QED BY <2>2, <2>5, <2>6, <2>7
<1> QED BY <1>1, <1>2

\* Gas is never minted: whatever calls, stipends and creations a transaction nests,
\* Execute, Call and Create never give its frames together, or Execute to pay back,
\* more gas than the sender bought.
THEOREM NoGasIsMinted == Spec => []GasNeverMinted
<1>1. Init => GasNeverMinted
  BY DEF Init, GasNeverMinted
<1> QED BY <1>1, InitInv, NextInv, NextGas, PTL DEF Spec

\* The fuel of a transaction whose outermost call has begun.
LEMMA FuelRuns ==
    ASSUME EVMInv, tx # NoTx
    PROVE  /\ tx.phase = "running" /\ frames = << >> => Fuel = 4 * Bought + 4
           /\ tx.phase = "running" /\ frames # << >> => Fuel = FuelOf(frames)
           /\ tx.phase = "settling" => Fuel = 4 * tx.gasLeft + 1
<1>1. /\ tx.phase \in {"running", "settling"} /\ tx.gasLeft \in Nat
  BY TxGoesOn
<1>2. PhasesMatch
  BY DEF EVMInv, Revertible
<1>3. ASSUME tx.phase = "running", frames = << >>
      PROVE  Fuel = 4 * Bought + 4
  BY <1>3 DEF Fuel, Bought
<1> DEFINE rest == Total([i \in DOMAIN frames |-> FrameFuel(frames[i])])
<1>4. FuelOf(frames) = rest
  BY DEF FuelOf
<1>5. ~ (tx.phase = "running" /\ frames = << >>) =>
         Fuel = 4 * tx.gasLeft + (IF tx.phase = "settling" THEN 1 ELSE 0) + rest
  BY DEF Fuel
<1> HIDE DEF rest
<1>6. ASSUME tx.phase = "running", frames # << >>
      PROVE  Fuel = FuelOf(frames)
  <2>1. tx.gasLeft = 0
    BY <1>2, <1>6 DEF PhasesMatch
  <2>2. frames \in Seq(Frame)
    BY DEF EVMInv, TypeOK
  <2>3. FuelOf(frames) \in Nat
    BY <1>6, <2>2, SplitFrames, SumsAppend
  <2> QED BY <1>4, <1>5, <1>6, <2>1, <2>3
<1>7. ASSUME tx.phase = "settling"
      PROVE  Fuel = 4 * tx.gasLeft + 1
  <2>1. frames = << >>
    BY <1>2, <1>7 DEF PhasesMatch
  <2>2. rest = 0
    BY <1>4, <2>1, SumsEmpty
  <2> QED BY <1>1, <1>5, <1>7, <2>2
<1> QED BY <1>3, <1>6, <1>7

\* FuelRuns as an implication.
LEMMA FuelForms ==
    EVMInv /\ tx # NoTx =>
           /\ tx.phase = "running" /\ frames = << >> => Fuel = 4 * Bought + 4
           /\ tx.phase = "running" /\ frames # << >> => Fuel = FuelOf(frames)
           /\ tx.phase = "settling" => Fuel = 4 * tx.gasLeft + 1
BY FuelRuns

\* A step of a frame, or of Execute, leaves less to do.
LEMMA FuelSteps ==
    ASSUME EVMInv, EVMInv', tx # NoTx, Enter \/ Opcode \/ EndFrame
    PROVE  Fuel' < Fuel
<1>1. /\ tx.gasLeft \in Nat /\ Bought \in Int
      /\ \A err, back : Settling(err, back) => /\ tx' # NoTx /\ tx'.phase = "settling" /\ tx'.gasLeft = back
                                               /\ Bought' = Bought
      /\ tx' = tx => Bought' = Bought /\ tx'.gasLeft = tx.gasLeft /\ tx'.phase = tx.phase /\ tx' # NoTx
  BY TxGoesOn
<1>2. ASSUME NEW f \in Frame
      PROVE  /\ f.gas \in Nat /\ FrameFuel(f) \in Nat
             /\ f.err = "running" => FrameFuel(f) = 4 * f.gas + 3
             /\ f.err # "running" => FrameFuel(f) = 4 * f.gas + 2
  <2>1. f.gas \in Nat
    BY FrameFields
  <2> QED BY <2>1 DEF FrameFuel
<1>3. \A b \in Seq(Frame), f \in Frame :
         FuelOf(b) \in Nat /\ FuelOf(Append(b, f)) = FuelOf(b) + FrameFuel(f) /\ Append(b, f) # << >>
  BY SumsAppend, AppendFrame
<1>4. /\ tx.phase = "running" /\ frames = << >> => Fuel = 4 * Bought + 4
      /\ tx.phase = "running" /\ frames # << >> => Fuel = FuelOf(frames)
  BY FuelRuns
<1>5. ( EVMInv /\ tx # NoTx =>
           /\ tx.phase = "running" /\ frames = << >> => Fuel = 4 * Bought + 4
           /\ tx.phase = "running" /\ frames # << >> => Fuel = FuelOf(frames)
           /\ tx.phase = "settling" => Fuel = 4 * tx.gasLeft + 1 )'
  BY FuelForms, PTL
<1>6. tx' # NoTx =>
           /\ tx'.phase = "running" /\ frames' # << >> => Fuel' = FuelOf(frames')
           /\ tx'.phase = "settling" => Fuel' = 4 * tx'.gasLeft + 1
  <2>1. FuelOf(frames)' = FuelOf(frames')
    BY DEF FuelOf
  <2> QED BY <1>5, <2>1
<1>7. frames # << >> => tx.phase = "running"
  BY DEF EVMInv, Revertible, PhasesMatch
<1>8. ASSUME SpendStep
      PROVE  Fuel' < Fuel
  <2>1. PICK b \in Seq(Frame), t \in Frame, f \in Frame :
          /\ frames = Append(b, t) /\ frames' = Append(b, f) /\ t.err = "running"
          /\ f.gas <= t.gas /\ (f.err # "running" \/ f.gas < t.gas)
    BY <1>8 DEF SpendStep
  <2>2. tx' = tx
    BY <1>8 DEF SpendStep
  <2>3. /\ Fuel = FuelOf(b) + FrameFuel(t) /\ Fuel' = FuelOf(b) + FrameFuel(f) /\ FuelOf(b) \in Nat
    BY <1>1, <1>3, <1>4, <1>6, <1>7, <2>1, <2>2
  <2>4. /\ f.gas <= t.gas /\ (f.err # "running" \/ f.gas < t.gas) /\ t.err = "running"
    BY <2>1
  <2>5. FrameFuel(f) < FrameFuel(t) /\ FrameFuel(f) \in Nat /\ FrameFuel(t) \in Nat
    BY SMTT(60), <1>2, <2>4
  <2> QED BY <2>3, <2>5
<1>9. ASSUME CallOutStep
      PROVE  Fuel' < Fuel
  <2>1. PICK b \in Seq(Frame), t \in Frame, f \in Frame, g \in Frame :
          /\ frames = Append(b, t) /\ frames' = Append(Append(b, f), g)
          /\ t.err = "running" /\ f.err = "running" /\ g.err = "running"
          /\ f.gas + g.gas < t.gas /\ tx' = tx
    BY <1>9 DEF CallOutStep, Begins
  <2>2. Append(b, f) \in Seq(Frame)
    BY AppendFrame
  <2>3. /\ Fuel = FuelOf(b) + FrameFuel(t) /\ FuelOf(b) \in Nat
        /\ Fuel' = (FuelOf(b) + FrameFuel(f)) + FrameFuel(g)
    BY <1>1, <1>3, <1>4, <1>6, <1>7, <2>1, <2>2
  <2>4. /\ t.err = "running" /\ f.err = "running" /\ g.err = "running"
        /\ f.gas + g.gas < t.gas
    BY <2>1
  <2>5. /\ FrameFuel(t) = 4 * t.gas + 3 /\ FrameFuel(f) = 4 * f.gas + 3 /\ FrameFuel(g) = 4 * g.gas + 3
        /\ t.gas \in Nat /\ f.gas \in Nat /\ g.gas \in Nat
    BY <1>2, <2>4
  <2>6. FrameFuel(f) + FrameFuel(g) < FrameFuel(t)
    BY SMTT(60), <2>4, <2>5
  <2>7. FrameFuel(f) \in Nat /\ FrameFuel(g) \in Nat /\ FrameFuel(t) \in Nat
    BY <1>2
  <2> QED BY <2>3, <2>6, <2>7
<1>10. ASSUME EndOuter
       PROVE  Fuel' < Fuel
  <2>1. PICK t \in Frame : \E back \in 0 .. t.gas :
          /\ frames = Append(<< >>, t) /\ frames' = << >> /\ Settling(t.err, back) /\ t.err \in Outcome
    BY <1>10 DEF EndOuter, Ends
  <2>2. PICK back \in 0 .. t.gas :
          /\ frames = Append(<< >>, t) /\ frames' = << >> /\ Settling(t.err, back) /\ t.err \in Outcome
    BY <2>1
  <2>3. << >> \in Seq(Frame) /\ t.err # "running"
    BY <2>2 DEF Outcome
  <2>4. FuelOf(frames) = 0 + FrameFuel(t) /\ frames # << >>
    BY <1>3, <2>2, <2>3, SumsEmpty
  <2>5. FrameFuel(t) = 4 * t.gas + 2 /\ t.gas \in Nat
    BY <1>2, <2>3
  <2>6. Fuel' = 4 * back + 1
    BY <1>1, <1>6, <2>2
  <2>7. Fuel = 4 * t.gas + 2
    BY <1>4, <1>7, <2>4, <2>5
  <2> QED BY <2>5, <2>6, <2>7
<1>11. ASSUME EndInner
       PROVE  Fuel' < Fuel
  <2>1. PICK b \in Seq(Frame), h \in Frame, g \in Frame, t \in Frame :
          \E back \in 0 .. t.gas :
            /\ frames = Append(Append(b, h), t) /\ frames' = Append(b, g)
            /\ g.err = h.err /\ g.gas = h.gas + back /\ tx' = tx /\ t.err \in Outcome
    BY <1>11 DEF EndInner, Ends
  <2>2. PICK back \in 0 .. t.gas :
            /\ frames = Append(Append(b, h), t) /\ frames' = Append(b, g)
            /\ g.err = h.err /\ g.gas = h.gas + back /\ tx' = tx /\ t.err \in Outcome
    BY <2>1
  <2>3. Append(b, h) \in Seq(Frame)
    BY AppendFrame
  <2>4. /\ Fuel = (FuelOf(b) + FrameFuel(h)) + FrameFuel(t) /\ Fuel' = FuelOf(b) + FrameFuel(g)
        /\ FuelOf(b) \in Nat
    BY <1>1, <1>3, <1>4, <1>6, <1>7, <2>2, <2>3
  <2>5. g.err = h.err /\ g.gas = h.gas + back /\ t.err # "running"
    BY <2>2 DEF Outcome
  <2>6. FrameFuel(t) = 4 * t.gas + 2 /\ t.gas \in Nat /\ h.gas \in Nat /\ g.gas \in Nat
    BY <1>2, <2>5
  <2>7. FrameFuel(g) = FrameFuel(h) + 4 * back /\ FrameFuel(h) \in Nat
    <3>1. /\ FrameFuel(g) = 4 * g.gas + (IF h.err = "running" THEN 3 ELSE 2)
          /\ FrameFuel(h) = 4 * h.gas + (IF h.err = "running" THEN 3 ELSE 2)
      BY <2>5 DEF FrameFuel
    <3>2. back \in Nat
      BY <2>6
    <3> DEFINE k == IF h.err = "running" THEN 3 ELSE 2
    <3>3. k \in Nat /\ FrameFuel(g) = 4 * g.gas + k /\ FrameFuel(h) = 4 * h.gas + k
      BY <3>1
    <3> HIDE DEF k
    <3>4. g.gas = h.gas + back /\ h.gas \in Nat
      BY <2>5, <2>6
    <3> QED BY <3>2, <3>3, <3>4
  <2> QED BY SMTT(60), <2>4, <2>6, <2>7
<1>12. ASSUME EnterAnswered, Bought \in Nat, tx.phase = "running"
       PROVE  Fuel' < Fuel
  <2>1. PICK err \in Outcome, back \in 0 .. Bought : Settling(err, back)
    BY <1>12 DEF EnterAnswered
  <2>2. Fuel' = 4 * back + 1
    BY <1>1, <1>6, <2>1
  <2>3. Fuel = 4 * Bought + 4
    BY <1>4, <1>12 DEF EnterAnswered
  <2> QED BY <1>12, <2>2, <2>3
<1>13. ASSUME EnterRuns, tx.phase = "running", Bought \in Nat
       PROVE  Fuel' < Fuel
  <2>1. PICK g \in Frame : frames' = Append(<< >>, g) /\ g.gas = Bought /\ tx' = tx /\ g.err = "running"
    BY <1>13 DEF EnterRuns, Begins
  <2>2. << >> \in Seq(Frame)
    OBVIOUS
  <2>3. FuelOf(frames') = 0 + FrameFuel(g) /\ frames' # << >>
    BY <1>3, <2>1, <2>2, SumsEmpty
  <2>4. FrameFuel(g) = 4 * Bought + 3
    BY <1>2, <2>1
  <2>5. Fuel' = FuelOf(frames')
    BY <1>1, <1>6, <1>13, <2>1, <2>3
  <2>6. Fuel = 4 * Bought + 4
    BY <1>4, <1>13 DEF EnterRuns
  <2> QED BY <1>13, <2>3, <2>4, <2>5, <2>6
<1> QED BY <1>8, <1>9, <1>10, <1>11, <1>12, <1>13, OpcodeKinds, EnterKinds, EndFrameKinds

\* Every transaction ends: each step of Execute, of the frames that it runs and of
\* the opcodes in them leaves less to do than there was, however they nest.
THEOREM TransactionsEnd == Spec => TxProgress
<1>1. ASSUME EVMInv, EVMInv', [Next]_vars
      PROVE  [tx # NoTx => Fuel' < Fuel]_vars
  <2>1. SUFFICES ASSUME tx # NoTx, ~ UNCHANGED vars
                 PROVE  Fuel' < Fuel
    OBVIOUS
  <2>2. CASE Enter \/ Opcode \/ EndFrame
    BY <1>1, <2>1, <2>2, FuelSteps
  <2>3. CASE Settle
    <3>1. tx.phase = "settling" /\ tx' = NoTx
      BY <2>3 DEF Settle
    <3>2. Fuel = 4 * tx.gasLeft + 1 /\ tx.gasLeft \in Nat
      BY <1>1, <2>1, <3>1, FuelRuns, TxGoesOn
    <3>3. Fuel' = 0
      BY <3>1 DEF Fuel
    <3> QED BY <3>2, <3>3
  <2> QED BY <1>1, <2>1, <2>2, <2>3, TxSteps
<1>2. EVMInv /\ EVMInv' /\ [Next]_vars => [tx # NoTx => Fuel' < Fuel]_vars
  BY <1>1
<1> QED BY <1>2, InitInv, NextInv, PTL DEF Spec, TxProgress
-----------------------------------------------------------------------------
(***************************************************************************)
(* Theorems about what a frame and a transaction leave behind.             *)
(***************************************************************************)
\* Only the end of a frame makes the call stack shorter, and only Settle ends a
\* transaction.
LEMMA StackAndTx ==
    ASSUME EVMInv, EVMInv', [Next]_vars
    PROVE  /\ Len(frames') < Len(frames) => EndFrame
           /\ tx # NoTx /\ tx' = NoTx => Settle
<1>1. /\ Len(frames) \in Nat /\ Len(frames') \in Nat
  BY DEF EVMInv, TypeOK
<1>2. \A b \in Seq(Frame), f \in Frame :
         /\ Append(b, f) \in Seq(Frame) /\ Len(b) \in Nat /\ Len(Append(b, f)) = Len(b) + 1
  BY AppendFrame
<1>3. ASSUME Opcode
      PROVE  ~ Len(frames') < Len(frames) /\ tx' = tx
  <2>1. CASE SpendStep
    <3>1. PICK b \in Seq(Frame), t \in Frame, f \in Frame : frames = Append(b, t) /\ frames' = Append(b, f)
      BY <2>1 DEF SpendStep
    <3>2. Len(frames') = Len(frames)
      BY <1>2, <3>1
    <3> QED BY <1>1, <2>1, <3>2 DEF SpendStep
  <2>2. CASE CallOutStep
    <3>1. PICK b \in Seq(Frame), t \in Frame, f \in Frame, g \in Frame :
            frames = Append(b, t) /\ frames' = Append(Append(b, f), g) /\ tx' = tx
      BY <2>2 DEF CallOutStep, Begins
    <3>2. Len(frames') = (Len(b) + 1) + 1 /\ Len(frames) = Len(b) + 1 /\ Len(b) \in Nat
      BY <1>2, <3>1
    <3> QED BY <3>1, <3>2
  <2> QED BY <1>3, <2>1, <2>2, OpcodeKinds
<1>4. ASSUME Enter
      PROVE  ~ Len(frames') < Len(frames) /\ tx # NoTx /\ tx' # NoTx
  <2>1. tx # NoTx /\ frames = << >> /\ (EnterAnswered \/ EnterRuns)
    BY <1>4, EnterKinds DEF Enter
  <2>2. tx' # NoTx
    <3>1. tx' = tx \/ \E err, back : Settling(err, back)
      BY <2>1 DEF EnterAnswered, EnterRuns, Begins
    <3> QED BY <2>1, <3>1, TxGoesOn
  <2> QED BY <1>1, <2>1, <2>2
<1>5. ASSUME EndFrame
      PROVE  tx' = tx \/ tx' # NoTx
  <2>1. tx # NoTx
    BY <1>5, RunningTx, EndFrameKinds DEF EVMInv, Revertible
  <2>2. tx' = tx \/ \E err, back : Settling(err, back)
    BY <1>5, EndFrameKinds DEF EndOuter, EndInner
  <2> QED BY <2>1, <2>2, TxGoesOn
<1>6. CASE tx = NoTx
  <2>1. frames' = frames
    BY <1>6, IdleSteps DEF Reject, Start, vars
  <2> QED BY <1>1, <1>6, <2>1
<1>7. CASE tx # NoTx
  <2>1. Settle \/ UNCHANGED vars => frames' = frames
    BY DEF Settle, vars
  <2>2. UNCHANGED vars => tx' = tx
    BY DEF vars
  <2> QED BY <1>1, <1>3, <1>4, <1>5, <1>7, <2>1, <2>2, TxSteps
<1> QED BY <1>6, <1>7

\* EIP-6780: Finalise never deletes an account that held something when Execute
\* began, unless a creation replaced it.
THEOREM HeldAccountsSurvive == Spec => OldAccountsSurvive
<1> DEFINE A == tx # NoTx /\ tx' = NoTx =>
          \A a \in Addr \ tainted : tx.before[a] \notin {NoAccount, EmptyAccount} => Exists(db', a)
<1>1. ASSUME EVMInv, EVMInv', [Next]_vars
      PROVE  A
  <2>1. SUFFICES ASSUME tx # NoTx, tx' = NoTx
                 PROVE  \A a \in Addr \ tainted : Held(a) => Exists(db', a)
    BY DEF Held
  <2>2. Settle
    BY <1>1, <2>1, StackAndTx
  <2> QED BY <1>1, <2>2, SettleStep
<1>2. EVMInv /\ EVMInv' /\ [Next]_vars => [A]_vars
  BY <1>1
<1> QED BY <1>2, InitInv, NextInv, PTL DEF Spec, OldAccountsSurvive

\* Databases in which every cell of an address reads the same look the same there.
LEMMA SameAddressView ==
    ASSUME NEW d \in DB, NEW e \in DB, NEW a \in Addr,
           \A c \in Cell : c.addr = a => Read(d, c) = Read(e, c)
    PROVE  AddressView(d, a) = AddressView(e, a)
<1>1. getOrCreate(d, a) \in Account /\ getOrCreate(e, a) \in Account
  BY GetOrCreateType
<1>2. ASSUME NEW x \in AccountField
      PROVE  Read(d, [addr |-> a, field |-> x]) = Read(e, [addr |-> a, field |-> x])
  <2> DEFINE c == [addr |-> a, field |-> x]
  <2>1. c \in Cell /\ c.addr = a
    BY DEF Cell, AccountCell
  <2> HIDE DEF c
  <2>2. Read(d, c) = Read(e, c)
    BY <2>1
  <2> QED BY <2>2 DEF c
<1>3. /\ GetBalance(d, a) = GetBalance(e, a) /\ GetNonce(d, a) = GetNonce(e, a)
      /\ GetCode(d, a) = GetCode(e, a) /\ HasSuicided(d, a) = HasSuicided(e, a)
  <2>1. {"balance", "nonce", "code", "suicide"} = AccountField
    BY DEF AccountField
  <2>2. \A x : [addr |-> a, field |-> x].addr = a /\ [addr |-> a, field |-> x].field = x
    OBVIOUS
  <2>3. GetBalance(d, a) = GetBalance(e, a)
    BY <1>2, <2>1, <2>2 DEF Read
  <2>4. GetNonce(d, a) = GetNonce(e, a)
    BY <1>2, <2>1, <2>2 DEF Read
  <2>5. GetCode(d, a) = GetCode(e, a)
    BY <1>2, <2>1, <2>2 DEF Read
  <2>6. HasSuicided(d, a) = HasSuicided(e, a)
    BY <1>2, <2>1, <2>2 DEF Read
  <2> QED BY <2>3, <2>4, <2>5, <2>6
<1>4. getOrCreate(d, a) = getOrCreate(e, a)
  <2> DEFINE x == getOrCreate(d, a)
  <2> DEFINE y == getOrCreate(e, a)
  <2>1. x.balance = y.balance /\ x.nonce = y.nonce /\ x.code = y.code /\ x.suicide = y.suicide
    BY <1>3 DEF GetBalance, GetNonce, GetCode, HasSuicided
  <2>2. x \in Account /\ y \in Account
    BY <1>1
  <2> HIDE DEF x, y
  <2>3. x = y
    BY <2>1, <2>2 DEF Account
  <2> QED BY <2>3 DEF x, y
<1>5. d.storage[a] = e.storage[a]
  <2>1. ASSUME NEW s \in Slot
        PROVE  d.storage[a][s] = e.storage[a][s]
    <3> DEFINE c == [addr |-> a, field |-> "storage", slot |-> s]
    <3>1. c \in Cell /\ c.addr = a /\ c.field = "storage" /\ c.slot = s
      BY DEF Cell, StorageCell
    <3> HIDE DEF c
    <3>2. Read(d, c) = Read(e, c)
      BY <3>1
    <3> QED BY <3>1, <3>2 DEF Read, GetStorage
  <2>2. d.storage[a] \in [Slot -> Val] /\ e.storage[a] \in [Slot -> Val]
    BY DEF DB
  <2> QED BY <2>1, <2>2
<1>6. CreatedInTx(d, a) = CreatedInTx(e, a)
  <2> DEFINE c == [addr |-> a, field |-> "created"]
  <2>1. c \in Cell /\ c.addr = a /\ c.field = "created"
    BY DEF Cell, CreatedCell
  <2> HIDE DEF c
  <2>2. Read(d, c) = Read(e, c)
    BY <2>1
  <2> QED BY <2>1, <2>2 DEF Read
<1> QED BY <1>4, <1>5, <1>6 DEF AddressView

\* A call or creation that fails leaves no trace: when RevertToSnapshot has run for
\* the frame, every account, its storage and its mark as created are as they were
\* when the call began, whatever succeeded or failed inside it, except at addresses
\* that a creation replaced.
THEOREM FailedFramesRestore == Spec => FailedFrameRestores
<1> DEFINE A == frames # << >> /\ Len(frames') < Len(frames) /\ Failed(Top)
                  => Unchanged(db', Top.pre, Addr \ tainted)
<1>1. ASSUME EVMInv, EVMInv', [Next]_vars
      PROVE  A
  <2>1. SUFFICES ASSUME frames # << >>, Len(frames') < Len(frames), Failed(Top)
                 PROVE  Unchanged(db', Top.pre, Addr \ tainted)
    OBVIOUS
  <2>2. EndFrame
    BY <1>1, <2>1, StackAndTx
  <2>3. PICK code : Return(code)
    BY <2>2 DEF EndFrame
  <2>4. db' = RevertToSnapshot(db, Top.snap)
    BY <2>1, <2>3 DEF Return, MustRevert, Failed
  <2>5. /\ db' \in DB /\ Top \in Frame
        /\ \A c \in Cell : c.addr \notin tainted => Read(db', c) = Read(Top.pre, c)
    BY <1>1, <2>1, <2>4, TopReverted DEF EVMInv
  <2>6. Top.pre \in DB
    BY <2>5, FrameFields
  <2>7. ASSUME NEW a \in Addr \ tainted
        PROVE  AddressView(db', a) = AddressView(Top.pre, a)
    <3> DEFINE d == db'
    <3> DEFINE e == Top.pre
    <3>1. d \in DB /\ e \in DB /\ a \in Addr /\ \A c \in Cell : c.addr = a => Read(d, c) = Read(e, c)
      BY <2>5, <2>6
    <3> HIDE DEF d, e
    <3>2. AddressView(d, a) = AddressView(e, a)
      BY <3>1, SameAddressView
    <3> QED BY <3>2 DEF d, e
  <2> QED BY <2>7 DEF Unchanged
<1>2. EVMInv /\ EVMInv' /\ [Next]_vars => [A]_vars
  BY <1>1
<1> QED BY <1>2, InitInv, NextInv, PTL DEF Spec, FailedFrameRestores
-----------------------------------------------------------------------------
(***************************************************************************)
(* The theorem about the trace.                                            *)
(***************************************************************************)
\* Tracer t is at the end of path.
Follows(t, path) ==
    /\ t.open = path
    /\ t.open # << >> => t.root = Head(t.open)
    /\ t.root # Nil => (t.root.err = "running" <=> t.open # << >>)

\* A path with one more node is not empty.
LEMMA AppendNonEmpty ==
    ASSUME NEW S, NEW p \in Seq(S), NEW x \in S
    PROVE  Append(p, x) # << >>
<1>1. Len(Append(p, x)) = Len(p) + 1 /\ Len(p) \in Nat
  OBVIOUS
<1>2. Len(<< >>) = 0
  OBVIOUS
<1>3. Len(p) + 1 # 0
  BY <1>1
<1> QED BY <1>1, <1>2, <1>3

\* A traced frame lengthens the path by its node.
LEMMA EnterFollows ==
    ASSUME NEW path \in Seq(TraceNode), Follows(tracer, path), NEW f \in Frame, Traced(f),
           tracer' = OnEnter(f.kind, f.caller, f.contract)
    PROVE  Follows(tracer', Append(path, NodeOf(f)))
<1> DEFINE n == NodeOf(f)
<1>1. n \in TraceNode /\ n.err = "running"
  BY NodeType DEF NodeOf, Node
<1>2. /\ tracer'.open = Append(path, n)
      /\ tracer'.root = IF path = << >> THEN n ELSE tracer.root
  BY DEF OnEnter, Follows, NodeOf
<1> HIDE DEF n, TraceNode
<1>3. Append(path, n) # << >>
  BY <1>1, AppendNonEmpty
<1>4. CASE path = << >>
  <2>1. Head(Append(path, n)) = n
    BY <1>1, <1>4
  <2> QED BY <1>1, <1>2, <1>3, <1>4, <2>1 DEF Follows, n
<1>5. CASE path # << >>
  <2>1. Head(Append(path, n)) = Head(path)
    BY <1>1, <1>5
  <2>2. tracer'.root = tracer.root /\ tracer.root = Head(path)
    BY <1>2, <1>5 DEF Follows
  <2>3. tracer.root # Nil => tracer.root.err = "running"
    BY <1>5 DEF Follows
  <2> QED BY <1>2, <1>3, <2>1, <2>2, <2>3 DEF Follows, n
<1> QED BY <1>4, <1>5

\* The end of a traced frame takes its node off the path.
LEMMA ExitFollows ==
    ASSUME NEW path \in Seq(TraceNode), NEW n \in TraceNode, Follows(tracer, Append(path, n)), Rooted,
           NEW err \in Outcome, tracer' = OnExit(err)
    PROVE  Follows(tracer', path)
<1> DEFINE m == Len(path)
<1> DEFINE long == Append(path, n)
<1>1. tracer.open = long /\ tracer.root \in TraceNode /\ tracer.root = Head(long) /\ long # << >>
  <2>1. long # << >>
    BY AppendNonEmpty
  <2> QED BY <2>1 DEF Follows, Rooted
<1>2. m \in Nat /\ Len(long) = m + 1 /\ SubSeq(long, 1, m) = path
  <2> HIDE DEF TraceNode
  <2>1. m \in Nat /\ Len(long) = m + 1 /\ long \in Seq(TraceNode)
    OBVIOUS
  <2>2. SubSeq(long, 1, m) \in Seq(TraceNode) /\ Len(SubSeq(long, 1, m)) = m
    BY <2>1
  <2>3. \A i \in 1 .. m : SubSeq(long, 1, m)[i] = path[i]
    BY <2>1, <2>2
  <2> QED BY <2>1, <2>2, <2>3, SameSequence
<1> HIDE DEF long
<1>3. /\ tracer'.open = path
      /\ tracer'.root = IF m + 1 = 1 THEN [tracer.root EXCEPT !.err = err] ELSE tracer.root
  <2>1. m + 1 # 0 /\ (m + 1) - 1 = m
    BY <1>2
  <2> QED BY <1>1, <1>2, <2>1 DEF OnExit
<1>4. CASE m = 0
  <2>1. path = << >> /\ tracer'.root = [tracer.root EXCEPT !.err = err]
    <3>1. path = << >>
      BY <1>4
    <3> QED BY <1>3, <1>4, <3>1
  <2>2. tracer'.root.err = err /\ err # "running"
    BY <1>1, <2>1 DEF TraceNode, Outcome
  <2> QED BY <1>3, <2>1, <2>2 DEF Follows
<1>5. CASE m # 0
  <2>1. tracer'.root = tracer.root
    BY <1>2, <1>3, <1>5
  <2>2. path # << >> /\ Head(long) = Head(path)
    <3> HIDE DEF TraceNode
    <3> QED BY <1>2, <1>5 DEF long
  <2>3. tracer.root # Nil => tracer.root.err = "running"
    BY <1>1 DEF Follows, long
  <2> QED BY <1>1, <1>3, <2>1, <2>2, <2>3 DEF Follows
<1> QED BY <1>4, <1>5

\* A frame that begins, traced or not.
LEMMA BeginsFollows ==
    ASSUME NEW fs \in Seq(Frame), NEW f \in Frame, Follows(tracer, CallPath(fs)), Begins(f)
    PROVE  Follows(tracer', CallPath(Append(fs, f)))
<1>1. /\ CallPath(fs) \in Seq(TraceNode)
      /\ CallPath(Append(fs, f)) = IF Traced(f) THEN Append(CallPath(fs), NodeOf(f)) ELSE CallPath(fs)
  BY PathAppend
<1> DEFINE p == CallPath(fs)
<1>2. p \in Seq(TraceNode) /\ Follows(tracer, p)
  BY <1>1
<1> HIDE DEF p
<1>3. ASSUME Traced(f)
      PROVE  Follows(tracer', Append(p, NodeOf(f)))
  <2>1. tracer' = OnEnter(f.kind, f.caller, f.contract)
    BY <1>3 DEF Begins
  <2> QED BY <1>2, <1>3, <2>1, EnterFollows
<1>4. ~ Traced(f) => tracer' = tracer
  BY DEF Begins
<1> QED BY <1>1, <1>2, <1>3, <1>4 DEF p

\* The same for a frame that ends.
LEMMA EndsFollows ==
    ASSUME NEW fs \in Seq(Frame), NEW f \in Frame, Follows(tracer, CallPath(Append(fs, f))), Rooted, Ends(f)
    PROVE  Follows(tracer', CallPath(fs))
<1>1. /\ CallPath(fs) \in Seq(TraceNode)
      /\ CallPath(Append(fs, f)) = IF Traced(f) THEN Append(CallPath(fs), NodeOf(f)) ELSE CallPath(fs)
  BY PathAppend
<1> DEFINE p == CallPath(fs)
<1>2. p \in Seq(TraceNode) /\ Follows(tracer, IF Traced(f) THEN Append(p, NodeOf(f)) ELSE p)
  BY <1>1
<1> HIDE DEF p
<1>3. ASSUME Traced(f)
      PROVE  Follows(tracer', p)
  <2> DEFINE n == NodeOf(f)
  <2> DEFINE err == f.err
  <2>1. tracer' = OnExit(err) /\ err \in Outcome
    BY <1>3 DEF Ends
  <2>2. n \in TraceNode
    BY <1>3, NodeType
  <2>3. Follows(tracer, Append(p, n))
    BY <1>2, <1>3
  <2> HIDE DEF n, err
  <2> QED BY <1>2, <2>1, <2>2, <2>3, ExitFollows
<1>4. ~ Traced(f) => tracer' = tracer /\ Follows(tracer, p)
  BY <1>2 DEF Ends
<1> QED BY <1>3, <1>4 DEF p

\* A frame that goes on stays where it is on the path.
LEMMA SamePath ==
    ASSUME NEW fs \in Seq(Frame), NEW f \in Frame, NEW g \in Frame, SameFrame(f, g)
    PROVE  CallPath(Append(fs, f)) = CallPath(Append(fs, g))
<1>1. NodeOf(f) = NodeOf(g) /\ (Traced(f) <=> Traced(g))
  BY DEF NodeOf, Traced, SameFrame
<1> QED BY <1>1, PathAppend

\* Every step keeps TraceFollowsFrames.
LEMMA NextTrace == EVMInv /\ TraceFollowsFrames /\ [Next]_vars => TraceFollowsFrames'
<1> SUFFICES ASSUME EVMInv, TraceFollowsFrames, [Next]_vars
             PROVE  Follows(tracer', CallPath(frames'))
  BY DEF TraceFollowsFrames, Follows, CallPath, Traced, Node
<1>1. Follows(tracer, CallPath(frames)) /\ Rooted
  BY DEF TraceFollowsFrames, Follows, EVMInv
<1>2. ASSUME frames' = frames, tracer' = tracer
      PROVE  Follows(tracer', CallPath(frames'))
  BY <1>1, <1>2
<1>3. << >> \in Seq(Frame) /\ CallPath(<< >>) = << >>
  BY PathAppend
<1>4. ASSUME SpendStep
      PROVE  Follows(tracer', CallPath(frames'))
  <2>1. PICK b \in Seq(Frame), t \in Frame, f \in Frame :
          frames = Append(b, t) /\ frames' = Append(b, f) /\ SameFrame(f, t)
    BY <1>4 DEF SpendStep
  <2>2. tracer' = tracer
    BY <1>4 DEF SpendStep
  <2> QED BY <1>1, <2>1, <2>2, SamePath
<1>5. ASSUME CallOutStep
      PROVE  Follows(tracer', CallPath(frames'))
  <2>1. PICK b \in Seq(Frame), t \in Frame, f \in Frame, g \in Frame :
          frames = Append(b, t) /\ frames' = Append(Append(b, f), g) /\ SameFrame(f, t) /\ Begins(g)
    BY <1>5 DEF CallOutStep
  <2> DEFINE fs == Append(b, f)
  <2>2. fs \in Seq(Frame) /\ Follows(tracer, CallPath(fs))
    BY <1>1, <2>1, SamePath, AppendFrame
  <2> HIDE DEF fs
  <2>3. Follows(tracer', CallPath(Append(fs, g)))
    BY <2>1, <2>2, BeginsFollows
  <2> QED BY <2>1, <2>3 DEF fs
<1>6. ASSUME EnterAnswered
      PROVE  Follows(tracer', CallPath(frames'))
  BY <1>2, <1>6 DEF EnterAnswered
<1>7. ASSUME EnterRuns
      PROVE  Follows(tracer', CallPath(frames'))
  <2>1. PICK g \in Frame : frames' = Append(<< >>, g) /\ Begins(g)
    BY <1>7 DEF EnterRuns
  <2> DEFINE fs == << >>
  <2>2. fs \in Seq(Frame) /\ Follows(tracer, CallPath(fs)) /\ frames' = Append(fs, g)
    BY <1>1, <1>3, <1>7, <2>1 DEF EnterRuns
  <2> HIDE DEF fs
  <2> QED BY <2>1, <2>2, BeginsFollows
<1>8. ASSUME EndOuter
      PROVE  Follows(tracer', CallPath(frames'))
  <2>1. PICK t \in Frame : frames = Append(<< >>, t) /\ frames' = << >> /\ Ends(t)
    BY <1>8 DEF EndOuter
  <2> DEFINE fs == << >>
  <2>2. fs \in Seq(Frame) /\ Follows(tracer, CallPath(Append(fs, t))) /\ frames' = fs
    BY <1>1, <1>3, <2>1
  <2> HIDE DEF fs
  <2>3. Follows(tracer', CallPath(fs))
    BY <1>1, <2>1, <2>2, EndsFollows
  <2> QED BY <2>2, <2>3
<1>9. ASSUME EndInner
      PROVE  Follows(tracer', CallPath(frames'))
  <2>1. PICK b \in Seq(Frame), h \in Frame, g \in Frame, t \in Frame :
          frames = Append(Append(b, h), t) /\ frames' = Append(b, g) /\ SameFrame(g, h) /\ Ends(t)
    BY <1>9 DEF EndInner
  <2> DEFINE fs == Append(b, h)
  <2>2. fs \in Seq(Frame) /\ Follows(tracer, CallPath(Append(fs, t)))
    BY <1>1, <2>1, AppendFrame
  <2>3. CallPath(frames') = CallPath(fs)
    BY <2>1, SamePath
  <2> HIDE DEF fs
  <2>4. Follows(tracer', CallPath(fs))
    BY <1>1, <2>1, <2>2, EndsFollows
  <2> QED BY <2>3, <2>4
<1>10. CASE tx = NoTx
  <2>1. frames' = frames /\ tracer' = tracer
    BY <1>10, IdleSteps DEF Reject, Start, vars
  <2> QED BY <1>2, <2>1
<1>11. CASE tx # NoTx
  <2>1. Settle \/ UNCHANGED vars => frames' = frames /\ tracer' = tracer
    BY DEF Settle, vars
  <2> QED BY <1>2, <1>4, <1>5, <1>6, <1>7, <1>8, <1>9, <1>11, <2>1, TxSteps,
             OpcodeKinds, EnterKinds, EndFrameKinds
<1> QED BY <1>10, <1>11

\* The call tracer keeps up with the frames: newFrame and Return open and close its
\* nodes so that the open ones are always the active frames of CALL, CALLCODE and
\* DELEGATECALL, although OnExit closes whatever node is current.
THEOREM TracerFollows == Spec => []TraceFollowsFrames
<1>1. Init => TraceFollowsFrames
  <2> SUFFICES ASSUME Init PROVE TraceFollowsFrames
    OBVIOUS
  <2>1. frames = << >> /\ tracer.root = Nil /\ tracer.open = << >>
    BY DEF Init, NewTracer
  <2> QED BY <2>1, PathAppend DEF TraceFollowsFrames
<1> QED BY <1>1, InitInv, NextInv, NextTrace, PTL DEF Spec
-----------------------------------------------------------------------------
(***************************************************************************)
(* The sum of all balances.                                                *)
(***************************************************************************)
Pick(s) == CHOOSE x \in s : TRUE

Balance(accounts, a) == IF accounts[a] = NoAccount THEN 0 ELSE accounts[a].balance

\* One element after the other, Pick reaches every set of addresses.
LEMMA PickInduction ==
    ASSUME NEW T, {} \in T,
           \A s \in SUBSET Addr : s # {} /\ s \ {Pick(s)} \in T => s \in T
    PROVE  \A s \in SUBSET Addr : s \in T
<1>1. \A s \in SUBSET Addr : IsFiniteSet(s) /\ Cardinality(s) \in Nat
  BY EVMAssumption, FS_Subset, FS_CardinalityType
<1>2. ASSUME NEW s \in SUBSET Addr, s # {}
      PROVE  /\ Pick(s) \in s /\ s \ {Pick(s)} \in SUBSET Addr
             /\ Cardinality(s \ {Pick(s)}) < Cardinality(s)
  <2>1. Pick(s) \in s
    BY <1>2 DEF Pick
  <2>2. PICK x \in s : x = Pick(s)
    BY <2>1
  <2>3. Cardinality(s \ {x}) = Cardinality(s) - 1
    BY <1>1, FS_RemoveElement
  <2> QED BY <1>1, <2>2, <2>3
<1> DEFINE Bad == {n \in Nat : \E s \in SUBSET Addr : s \notin T /\ Cardinality(s) = n}
<1>3. ASSUME NEW n \in Bad, \A m \in Bad : n <= m
      PROVE  FALSE
  <2>1. PICK s \in SUBSET Addr : s \notin T /\ Cardinality(s) = n
    OBVIOUS
  <2>2. s # {}
    BY <2>1
  <2>3. s \ {Pick(s)} \notin T
    BY <2>1, <2>2
  <2>4. PICK r \in SUBSET Addr : r \notin T /\ Cardinality(r) < n
    BY <1>2, <2>1, <2>2, <2>3
  <2>5. Cardinality(r) \in Bad
    BY <1>1, <2>4
  <2> QED BY <1>1, <1>3, <2>4, <2>5
<1>4. Bad = {}
  <2>1. Bad \in SUBSET Nat
    OBVIOUS
  <2> HIDE DEF Bad
  <2> QED BY <1>3, <2>1, LeastNumber
<1> QED BY <1>1, <1>4

Sums(h, bal) ==
    /\ h \in [SUBSET Addr -> Nat]
    /\ h[{}] = 0
    /\ \A s \in SUBSET Addr : s # {} => h[s] = bal[Pick(s)] + h[s \ {Pick(s)}]

\* The sums over all sets of addresses exist.
LEMMA SumsExist ==
    ASSUME NEW bal \in [Addr -> Nat]
    PROVE  \E h : Sums(h, bal)
<1> DEFINE V == [SUBSET Addr -> Nat]
<1> DEFINE N == Cardinality(Addr)
<1> DEFINE next(F) == [s \in SUBSET Addr |-> IF s = {} THEN 0 ELSE bal[Pick(s)] + F[s \ {Pick(s)}]]
<1> DEFINE step == [p \in (1 .. (N + 1)) \X V |-> next(p[2])]
<1> DEFINE zero == [s \in SUBSET Addr |-> 0]
<1>1. N \in Nat /\ N + 1 \in Nat
  BY EVMAssumption, FS_CardinalityType
<1>2. \A s \in SUBSET Addr : IsFiniteSet(s) /\ Cardinality(s) \in 0 .. N
  BY EVMAssumption, <1>1, FS_Subset, FS_CardinalityType
<1>3. ASSUME NEW s \in SUBSET Addr, s # {}
      PROVE  /\ Pick(s) \in Addr /\ s \ {Pick(s)} \in SUBSET Addr
             /\ Cardinality(s \ {Pick(s)}) = Cardinality(s) - 1
  <2>1. Pick(s) \in s
    BY <1>3 DEF Pick
  <2>2. PICK x \in s : x = Pick(s)
    BY <2>1
  <2>3. Cardinality(s \ {x}) = Cardinality(s) - 1
    BY <1>2, FS_RemoveElement
  <2> QED BY <2>2, <2>3
<1>4. ASSUME NEW F \in V
      PROVE  next(F) \in V
  <2>1. ASSUME NEW s \in SUBSET Addr
        PROVE  (IF s = {} THEN 0 ELSE bal[Pick(s)] + F[s \ {Pick(s)}]) \in Nat
    <3>1. CASE s = {}
      BY <3>1
    <3>2. CASE s # {}
      <4>1. bal[Pick(s)] \in Nat /\ F[s \ {Pick(s)}] \in Nat
        BY <1>3, <3>2
      <4> QED BY <3>2, <4>1
    <3> QED BY <3>1, <3>2
  <2> QED BY <2>1
<1>5. zero \in V
  OBVIOUS
<1>6. step \in [(1 .. (N + 1)) \X V -> V]
  <2>1. ASSUME NEW p \in (1 .. (N + 1)) \X V
        PROVE  next(p[2]) \in V
    <3>1. p[2] \in V
      OBVIOUS
    <3> HIDE DEF next, V
    <3> QED BY <1>4, <3>1
  <2> HIDE DEF next, V
  <2> QED BY <2>1
<1>7. \A n \in 1 .. (N + 1), F \in V : step[<<n, F>>] = next(F)
  OBVIOUS
<1>8. \A F \in V, s \in SUBSET Addr :
         next(F)[s] = IF s = {} THEN 0 ELSE bal[Pick(s)] + F[s \ {Pick(s)}]
  OBVIOUS
<1> HIDE DEF step, next, N
<1>9. PICK f \in [0 .. (N + 1) -> V] : Recursive(f, N + 1, zero, step)
  <2> HIDE DEF V, zero
  <2> QED BY <1>1, <1>5, <1>6, RecursionExists
<1>10. \A n \in 0 .. N : f[n] \in V /\ f[n + 1] \in V /\ f[n + 1] = next(f[n])
  <2> HIDE DEF V
  <2>1. ASSUME NEW n \in 0 .. N
        PROVE  f[n] \in V /\ f[n + 1] \in V /\ f[n + 1] = next(f[n])
    <3>1. n \in 0 .. (N + 1) /\ n + 1 \in 0 .. (N + 1) /\ n + 1 \in 1 .. (N + 1) /\ (n + 1) - 1 = n
      BY <1>1
    <3>2. f[n] \in V /\ f[n + 1] \in V
      BY <3>1
    <3>3. f[n + 1] = step[<<n + 1, f[n]>>]
      BY <1>9, <3>1 DEF Recursive
    <3> QED BY <1>7, <3>1, <3>2, <3>3
  <2> QED BY <2>1
<1> DEFINE T == {n \in 0 .. N : \A s \in SUBSET Addr : Cardinality(s) <= n => f[n + 1][s] = f[n][s]}
<1>11. 0 \in T
  <2>1. ASSUME NEW s \in SUBSET Addr, Cardinality(s) <= 0
        PROVE  f[0 + 1][s] = f[0][s]
    <3>1. Cardinality(s) = 0 /\ s = {}
      <4>1. Cardinality(s) = 0
        BY <1>2, <2>1
      <4> QED BY <1>2, <4>1, FS_EmptySet
    <3>2. 0 \in 0 .. N
      BY <1>1
    <3>3. f[0] = zero /\ f[0][s] = 0
      BY <1>9 DEF Recursive
    <3>4. f[0 + 1] = next(f[0]) /\ f[0] \in V
      BY <1>10, <3>2
    <3> HIDE DEF V, zero
    <3> QED BY <1>8, <3>1, <3>3, <3>4
  <2> QED BY <1>1, <2>1
<1>12. ASSUME NEW n \in 0 .. N, n \in T, n < N
       PROVE  n + 1 \in T
  <2>1. n + 1 \in 0 .. N /\ n \in Int
    BY <1>1, <1>12
  <2>2. ASSUME NEW s \in SUBSET Addr, Cardinality(s) <= n + 1
        PROVE  f[(n + 1) + 1][s] = f[n + 1][s]
    <3>1. /\ f[(n + 1) + 1] = next(f[n + 1]) /\ f[n + 1] \in V
          /\ f[n + 1] = next(f[n]) /\ f[n] \in V
      BY <1>10, <2>1
    <3>2. CASE s = {}
      <4> HIDE DEF V
      <4> QED BY <1>8, <3>1, <3>2
    <3>3. CASE s # {}
      <4>1. PICK r \in SUBSET Addr : r = s \ {Pick(s)} /\ Cardinality(r) = Cardinality(s) - 1
        BY <1>3, <3>3
      <4>2. Cardinality(r) <= n
        BY <1>2, <2>1, <2>2, <4>1
      <4>3. f[n + 1][r] = f[n][r]
        BY <1>12, <4>2
      <4>4. /\ f[(n + 1) + 1][s] = bal[Pick(s)] + f[n + 1][r]
            /\ f[n + 1][s] = bal[Pick(s)] + f[n][r]
        <5> HIDE DEF V
        <5> QED BY <1>8, <3>1, <3>3, <4>1
      <4> QED BY <4>3, <4>4
    <3> QED BY <3>2, <3>3
  <2> QED BY <2>1, <2>2
<1>13. N \in T
  <2> HIDE DEF T
  <2>1. \A n \in 0 .. N : n \in T
    BY <1>1, <1>11, <1>12, CountingUp
  <2>2. N \in 0 .. N
    BY <1>1
  <2> QED BY <2>1, <2>2
<1>14. f[N] \in V /\ f[N + 1] = next(f[N])
  <2> HIDE DEF V
  <2>1. N \in 0 .. N
    BY <1>1
  <2> QED BY <1>10, <2>1
<1>15. \A s \in SUBSET Addr : f[N][s] = IF s = {} THEN 0 ELSE bal[Pick(s)] + f[N][s \ {Pick(s)}]
  <2>1. \A s \in SUBSET Addr : Cardinality(s) <= N
    BY <1>1, <1>2
  <2>2. \A s \in SUBSET Addr : f[N + 1][s] = f[N][s]
    BY <1>13, <2>1
  <2> HIDE DEF V
  <2> QED BY <1>8, <1>14, <2>2
<1>16. Sums(f[N], bal)
  <2>1. {} \in SUBSET Addr
    OBVIOUS
  <2>2. f[N][{}] = 0
    BY <1>15, <2>1
  <2> QED BY <1>14, <1>15, <2>2 DEF Sums
<1> QED BY <1>16

\* Supply is such a sum.
LEMMA SupplyIsSum ==
    ASSUME NEW accounts, NEW bal \in [Addr -> Nat], \A a \in Addr : Balance(accounts, a) = bal[a]
    PROVE  \E h : Sums(h, bal) /\ Supply(accounts) = h[Addr]
<1> DEFINE iter[s \in SUBSET Addr] ==
              IF s = {} THEN 0
              ELSE LET x == CHOOSE x \in s : TRUE
                   IN  (IF accounts[x] = NoAccount THEN 0 ELSE accounts[x].balance) + iter[s \ {x}]
<1>1. Supply(accounts) = iter[Addr]
  BY DEF Supply, MapThenSumSet, MapThenFoldSet
<1>2. iter = [s \in SUBSET Addr |->
                 IF s = {} THEN 0
                 ELSE LET x == CHOOSE x \in s : TRUE
                      IN  (IF accounts[x] = NoAccount THEN 0 ELSE accounts[x].balance) + iter[s \ {x}]]
  <2>1. PICK h : Sums(h, bal)
    BY SumsExist
  <2>2. ASSUME NEW s \in SUBSET Addr
        PROVE  h[s] = IF s = {} THEN 0
                      ELSE LET x == CHOOSE x \in s : TRUE
                           IN  (IF accounts[x] = NoAccount THEN 0 ELSE accounts[x].balance) + h[s \ {x}]
    <3>1. CASE s = {}
      BY <2>1, <3>1 DEF Sums
    <3>2. CASE s # {}
      <4>1. Pick(s) \in Addr /\ Pick(s) = CHOOSE x \in s : TRUE
        BY <3>2 DEF Pick
      <4>2. h[s] = Balance(accounts, Pick(s)) + h[s \ {Pick(s)}]
        BY <2>1, <3>2, <4>1 DEF Sums
      <4> QED BY <3>2, <4>1, <4>2 DEF Balance
    <3> QED BY <3>1, <3>2
  <2>3. h = [s \in SUBSET Addr |->
                 IF s = {} THEN 0
                 ELSE LET x == CHOOSE x \in s : TRUE
                      IN  (IF accounts[x] = NoAccount THEN 0 ELSE accounts[x].balance) + h[s \ {x}]]
    BY <2>1, <2>2 DEF Sums
  <2> DEFINE F(g) == [s \in SUBSET Addr |->
                 IF s = {} THEN 0
                 ELSE LET x == CHOOSE x \in s : TRUE
                      IN  (IF accounts[x] = NoAccount THEN 0 ELSE accounts[x].balance) + g[s \ {x}]]
  <2>4. h = F(h)
    BY <2>3
  <2>5. iter = CHOOSE g : g = F(g)
    BY Zenon
  <2>6. iter = F(iter)
    <3> HIDE DEF F, iter
    <3> QED BY <2>4, <2>5, Zenon
  <2> QED BY <2>6, Zenon
<1> HIDE DEF iter
<1>3. \A s \in SUBSET Addr : s # {} => iter[s] = bal[Pick(s)] + iter[s \ {Pick(s)}]
  <2>1. ASSUME NEW s \in SUBSET Addr, s # {}
        PROVE  iter[s] = bal[Pick(s)] + iter[s \ {Pick(s)}]
    <3>1. Pick(s) \in Addr /\ Pick(s) = CHOOSE x \in s : TRUE
      BY <2>1 DEF Pick
    <3>2. iter[s] = Balance(accounts, Pick(s)) + iter[s \ {Pick(s)}]
      BY <1>2, <2>1, <3>1 DEF Balance
    <3> QED BY <3>1, <3>2
  <2> QED BY <2>1
<1>4. iter[{}] = 0
  BY <1>2
<1> DEFINE T == {s \in SUBSET Addr : iter[s] \in Nat}
<1>5. {} \in T
  BY <1>4
<1>6. ASSUME NEW s \in SUBSET Addr, s # {}, s \ {Pick(s)} \in T
      PROVE  s \in T
  <2>1. Pick(s) \in Addr
    BY <1>6 DEF Pick
  <2>2. bal[Pick(s)] \in Nat /\ iter[s \ {Pick(s)}] \in Nat
    BY <1>6, <2>1
  <2>3. iter[s] = bal[Pick(s)] + iter[s \ {Pick(s)}]
    BY <1>3, <1>6
  <2>4. iter[s] \in Nat
    BY <2>2, <2>3
  <2> QED BY <2>4
<1>7. \A s \in SUBSET Addr : s \in T
  <2> HIDE DEF T
  <2> QED BY <1>5, <1>6, PickInduction
<1>8. iter \in [SUBSET Addr -> Nat]
  BY <1>2, <1>7
<1> QED BY <1>1, <1>3, <1>4, <1>8 DEF Sums


\* The sum when one element changes.
LEMMA SumsChange ==
    ASSUME NEW bal \in [Addr -> Nat], NEW bal2 \in [Addr -> Nat], NEW a \in Addr,
           \A b \in Addr : b # a => bal2[b] = bal[b],
           NEW h, NEW h2, Sums(h, bal), Sums(h2, bal2)
    PROVE  h[Addr] \in Nat /\ h2[Addr] \in Nat /\ h2[Addr] = h[Addr] - bal[a] + bal2[a]
<1> DEFINE T == {s \in SUBSET Addr : h2[s] = IF a \in s THEN h[s] - bal[a] + bal2[a] ELSE h[s]}
<1>1. \A s \in SUBSET Addr : h[s] \in Nat /\ h2[s] \in Nat
  BY DEF Sums
<1>2. {} \in T
  BY DEF Sums
<1>3. ASSUME NEW s \in SUBSET Addr, s # {}, s \ {Pick(s)} \in T
      PROVE  s \in T
  <2>1. Pick(s) \in s
    BY <1>3 DEF Pick
  <2>2. PICK x \in s : x = Pick(s)
    BY <2>1
  <2>3. PICK r \in SUBSET Addr : r = s \ {x}
    OBVIOUS
  <2>4. h[s] = bal[x] + h[r] /\ h2[s] = bal2[x] + h2[r]
    BY <1>3, <2>2, <2>3 DEF Sums
  <2>5. h2[r] = IF a \in r THEN h[r] - bal[a] + bal2[a] ELSE h[r]
    BY <1>3, <2>2, <2>3
  <2>6. bal[x] \in Nat /\ bal2[x] \in Nat /\ bal[a] \in Nat /\ bal2[a] \in Nat
    OBVIOUS
  <2>7. CASE x = a
    <3>1. a \in s /\ a \notin r
      BY <2>3, <2>7
    <3> QED BY <1>1, <2>4, <2>5, <2>6, <2>7, <3>1
  <2>8. CASE x # a
    <3>1. bal2[x] = bal[x] /\ (a \in s <=> a \in r)
      BY <2>3, <2>8
    <3> QED BY <1>1, <2>4, <2>5, <2>6, <3>1
  <2> QED BY <2>7, <2>8
<1> HIDE DEF T
<1>4. Addr \in T
  BY <1>2, <1>3, PickInduction
<1> QED BY <1>1, <1>4 DEF T

Accounts == [Addr -> Account \cup {NoAccount}]

\* A balance is a word.
LEMMA BalanceType ==
    ASSUME NEW accounts \in Accounts
    PROVE  /\ \A a \in Addr : Balance(accounts, a) \in Word /\ Balance(accounts, a) \in Nat
           /\ [a \in Addr |-> Balance(accounts, a)] \in [Addr -> Nat]
<1>1. WordMod \in Nat \ {0} /\ 0 \in Word /\ \A x \in Word : x \in Nat
  BY StateAssumption DEF Word
<1>2. ASSUME NEW a \in Addr
      PROVE  Balance(accounts, a) \in Word
  <2>1. accounts[a] \in Account \cup {NoAccount}
    BY DEF Accounts
  <2>2. accounts[a] # NoAccount => accounts[a].balance \in Word
    BY <2>1 DEF Account
  <2> QED BY <1>1, <2>2 DEF Balance
<1> QED BY <1>1, <1>2

\* The supply when one account changes.
LEMMA SupplyChange ==
    ASSUME NEW acc \in Accounts, NEW acc2 \in Accounts, NEW a \in Addr,
           \A b \in Addr : b # a => Balance(acc2, b) = Balance(acc, b)
    PROVE  /\ Supply(acc) \in Nat /\ Supply(acc2) \in Nat
           /\ Supply(acc2) = Supply(acc) - Balance(acc, a) + Balance(acc2, a)
<1> DEFINE bal == [b \in Addr |-> Balance(acc, b)]
<1> DEFINE bal2 == [b \in Addr |-> Balance(acc2, b)]
<1>1. bal \in [Addr -> Nat] /\ bal2 \in [Addr -> Nat]
  BY BalanceType
<1>2. /\ \A b \in Addr : Balance(acc, b) = bal[b] /\ Balance(acc2, b) = bal2[b]
      /\ \A b \in Addr : b # a => bal2[b] = bal[b]
  OBVIOUS
<1> HIDE DEF bal, bal2
<1>3. PICK h : Sums(h, bal) /\ Supply(acc) = h[Addr]
  BY <1>1, <1>2, SupplyIsSum
<1>4. PICK h2 : Sums(h2, bal2) /\ Supply(acc2) = h2[Addr]
  BY <1>1, <1>2, SupplyIsSum
<1>5. h[Addr] \in Nat /\ h2[Addr] \in Nat /\ h2[Addr] = h[Addr] - bal[a] + bal2[a]
  BY <1>1, <1>2, <1>3, <1>4, SumsChange
<1> QED BY <1>2, <1>3, <1>4, <1>5

\* The supply depends on nothing but the balances.
LEMMA SupplySame ==
    ASSUME NEW acc \in Accounts, NEW acc2 \in Accounts,
           \A a \in Addr : Balance(acc2, a) = Balance(acc, a)
    PROVE  Supply(acc2) = Supply(acc)
<1>1. Coinbase \in Addr
  BY EVMAssumption
<1>2. /\ Supply(acc) \in Nat
      /\ Supply(acc2) = Supply(acc) - Balance(acc, Coinbase) + Balance(acc2, Coinbase)
  BY <1>1, SupplyChange
<1>3. Balance(acc, Coinbase) \in Nat /\ Balance(acc2, Coinbase) = Balance(acc, Coinbase)
  BY <1>1, BalanceType
<1> QED BY <1>2, <1>3

\* No account, and no two accounts, hold more than the supply.
LEMMA SupplyBounds ==
    ASSUME NEW acc \in Accounts
    PROVE  /\ Supply(acc) \in Nat
           /\ \A a \in Addr : Balance(acc, a) <= Supply(acc)
           /\ \A a, b \in Addr : a # b => Balance(acc, a) + Balance(acc, b) <= Supply(acc)
<1> DEFINE bal == [b \in Addr |-> Balance(acc, b)]
<1>1. bal \in [Addr -> Nat] /\ \A b \in Addr : Balance(acc, b) = bal[b]
  BY BalanceType
<1> HIDE DEF bal
<1>2. PICK h : Sums(h, bal) /\ Supply(acc) = h[Addr]
  BY <1>1, SupplyIsSum
<1>3. h[Addr] \in Nat
  BY <1>2 DEF Sums
<1>4. ASSUME NEW a \in Addr
      PROVE  bal[a] <= h[Addr] /\ \A b \in Addr : a # b => bal[a] + bal[b] <= h[Addr]
  <2> DEFINE one == [bal EXCEPT ![a] = 0]
  <2>1. one \in [Addr -> Nat] /\ one[a] = 0 /\ \A c \in Addr : c # a => one[c] = bal[c]
    BY <1>1
  <2> HIDE DEF one
  <2>2. PICK h1 : Sums(h1, one)
    BY <2>1, SumsExist
  <2>3. h1[Addr] \in Nat /\ h1[Addr] = h[Addr] - bal[a] + one[a]
    BY <1>1, <1>2, <2>1, <2>2, SumsChange
  <2>4. bal[a] <= h[Addr]
    BY <1>1, <1>3, <2>1, <2>3
  <2>5. ASSUME NEW b \in Addr, a # b
        PROVE  bal[a] + bal[b] <= h[Addr]
    <3> DEFINE two == [one EXCEPT ![b] = 0]
    <3>1. two \in [Addr -> Nat] /\ two[b] = 0 /\ \A c \in Addr : c # b => two[c] = one[c]
      BY <2>1
    <3> HIDE DEF two
    <3>2. PICK h2 : Sums(h2, two)
      BY <3>1, SumsExist
    <3>3. h2[Addr] \in Nat /\ h2[Addr] = h1[Addr] - one[b] + two[b]
      BY <2>1, <2>2, <3>1, <3>2, SumsChange
    <3>4. one[b] = bal[b]
      BY <2>1, <2>5
    <3> QED BY <1>1, <1>3, <2>1, <2>3, <3>1, <3>3, <3>4
  <2> QED BY <2>4, <2>5
<1> QED BY <1>1, <1>2, <1>3, <1>4
-----------------------------------------------------------------------------
(***************************************************************************)
(* What the operations of the StateDB do to the money in it.               *)
(***************************************************************************)
Money(d) == Supply(d.accounts)

SameBalances(d, e) == \A a \in Addr : GetBalance(e, a) = GetBalance(d, a)

\* Balances and their sum.
LEMMA MoneyBounds ==
    ASSUME NEW d \in DB
    PROVE  /\ d.accounts \in Accounts /\ Money(d) \in Nat
           /\ \A a \in Addr : /\ GetBalance(d, a) = Balance(d.accounts, a)
                              /\ GetBalance(d, a) \in Word /\ GetBalance(d, a) \in Nat
                              /\ GetBalance(d, a) <= Money(d)
           /\ \A a, b \in Addr : a # b => GetBalance(d, a) + GetBalance(d, b) <= Money(d)
<1>1. d.accounts \in Accounts
  BY DEF DB, Accounts
<1>2. ASSUME NEW a \in Addr
      PROVE  GetBalance(d, a) = Balance(d.accounts, a)
  BY DEF GetBalance, getOrCreate, Exists, EmptyAccount, Balance
<1> QED BY <1>1, <1>2, BalanceType, SupplyBounds DEF Money

\* The money depends on nothing but the balances.
LEMMA SameMoney ==
    ASSUME NEW d \in DB, NEW e \in DB, SameBalances(d, e)
    PROVE  Money(e) = Money(d)
<1>1. /\ d.accounts \in Accounts /\ e.accounts \in Accounts
      /\ \A a \in Addr : Balance(e.accounts, a) = Balance(d.accounts, a)
  BY MoneyBounds DEF SameBalances
<1> QED BY <1>1, SupplySame DEF Money

\* Writing an account.
LEMMA JournaledBalances ==
    ASSUME NEW d \in DB, NEW acc \in Account, NEW e, e.addr \in Addr
    PROVE  \A b \in Addr :
              GetBalance(Journaled(d, acc, e), b) =
                 IF b = e.addr THEN acc.balance ELSE GetBalance(d, b)
<1>1. Journaled(d, acc, e).accounts = [d.accounts EXCEPT ![e.addr] = acc]
  BY DEF Journaled, DB
<1>2. acc # NoAccount /\ DOMAIN d.accounts = Addr
  BY NoAccountAssumption DEF DB
<1> QED BY <1>1, <1>2 DEF GetBalance, getOrCreate, Exists

\* An account as the setters see it.
LEMMA AccountOf ==
    ASSUME NEW d \in DB, NEW a \in Addr
    PROVE  getOrCreate(d, a) \in Account /\ getOrCreate(d, a).balance = GetBalance(d, a)
<1>1. d.accounts[a] \in Account \cup {NoAccount}
  BY DEF DB
<1>2. EmptyAccount \in Account
  BY StateAssumption DEF EmptyAccount, Account, Word
<1> QED BY <1>1, <1>2 DEF getOrCreate, Exists, GetBalance

\* SetBalance.
LEMMA SetMoney ==
    ASSUME NEW d \in DB, NEW a \in Addr, NEW val \in Word
    PROVE  LET e == SetBalance(d, a, val)
           IN  /\ e \in DB /\ GetBalance(e, a) = val
               /\ \A b \in Addr : b # a => GetBalance(e, b) = GetBalance(d, b)
               /\ Money(e) = Money(d) - GetBalance(d, a) + val
<1> DEFINE e == SetBalance(d, a, val)
<1>1. e \in DB
  <2>1. LET d2 == SetBalance(d, a, val)
        IN  d2 \in DB /\ Grows(d, d2, {}, {}) /\ d2.snapshots = d.snapshots
    BY SettersGrow
  <2> QED BY <2>1
<1>2. \A b \in Addr : GetBalance(e, b) = IF b = a THEN val ELSE GetBalance(d, b)
  <2> DEFINE acc == [getOrCreate(d, a) EXCEPT !.balance = val]
  <2> DEFINE j == [kind |-> "balance", addr |-> a, old |-> getOrCreate(d, a).balance]
  <2>1. acc \in Account /\ acc.balance = val
    BY AccountOf DEF Account
  <2>2. e = Journaled(d, acc, j) /\ j.addr = a
    BY DEF SetBalance
  <2> HIDE DEF acc, j, e
  <2> QED BY <2>1, <2>2, JournaledBalances
<1> HIDE DEF e
<1>3. Money(e) = Money(d) - GetBalance(d, a) + val
  <2>1. /\ d.accounts \in Accounts /\ e.accounts \in Accounts
        /\ \A b \in Addr : b # a => Balance(e.accounts, b) = Balance(d.accounts, b)
        /\ Balance(d.accounts, a) = GetBalance(d, a) /\ Balance(e.accounts, a) = val
    BY <1>1, <1>2, MoneyBounds
  <2> QED BY <2>1, SupplyChange DEF Money
<1> QED BY <1>1, <1>2, <1>3 DEF e

\* The other setters move no money ...
LEMMA SettersKeepMoney ==
    ASSUME NEW d \in DB, NEW a \in Addr
    PROVE  /\ \A nonce \in Nat : SameBalances(d, SetNonce(d, a, nonce))
           /\ \A code \in Code : SameBalances(d, SetCode(d, a, code))
           /\ SameBalances(d, Suicide(d, a))
           /\ SameBalances(d, CreateAccount(d, a))
<1> DEFINE acc == getOrCreate(d, a)
<1>1. acc \in Account /\ acc.balance = GetBalance(d, a)
  BY AccountOf
<1> HIDE DEF acc
<1>2. ASSUME NEW nonce \in Nat
      PROVE  SameBalances(d, SetNonce(d, a, nonce))
  <2> DEFINE acc2 == [acc EXCEPT !.nonce = nonce]
  <2> DEFINE j == [kind |-> "nonce", addr |-> a, old |-> acc.nonce]
  <2>1. acc2 \in Account /\ acc2.balance = acc.balance
    BY <1>1 DEF Account
  <2>2. SetNonce(d, a, nonce) = Journaled(d, acc2, j) /\ j.addr = a
    BY DEF SetNonce, acc
  <2> HIDE DEF acc2, j
  <2> QED BY <1>1, <2>1, <2>2, JournaledBalances DEF SameBalances
<1>3. ASSUME NEW code \in Code
      PROVE  SameBalances(d, SetCode(d, a, code))
  <2> DEFINE acc2 == [acc EXCEPT !.code = code]
  <2> DEFINE j == [kind |-> "code", addr |-> a, old |-> acc.code]
  <2>1. acc2 \in Account /\ acc2.balance = acc.balance
    BY <1>1 DEF Account
  <2>2. SetCode(d, a, code) = Journaled(d, acc2, j) /\ j.addr = a
    BY DEF SetCode, acc
  <2> HIDE DEF acc2, j
  <2> QED BY <1>1, <2>1, <2>2, JournaledBalances DEF SameBalances
<1>4. SameBalances(d, Suicide(d, a))
  <2> DEFINE acc2 == [acc EXCEPT !.suicide = TRUE]
  <2> DEFINE j == [kind |-> "suicide", addr |-> a, old |-> acc.suicide]
  <2>1. acc2 \in Account /\ acc2.balance = acc.balance
    BY <1>1 DEF Account
  <2>2. Suicide(d, a) = Journaled(d, acc2, j) /\ j.addr = a
    BY DEF Suicide, acc
  <2> HIDE DEF acc2, j
  <2> QED BY <1>1, <2>1, <2>2, JournaledBalances DEF SameBalances
<1>5. SameBalances(d, CreateAccount(d, a))
  <2> DEFINE acc2 == [EmptyAccount EXCEPT !.balance = GetBalance(d, a)]
  <2> DEFINE j == [kind |-> "create", addr |-> a]
  <2>1. acc2 \in Account /\ acc2.balance = GetBalance(d, a)
    <3>1. GetBalance(d, a) \in Word
      BY MoneyBounds
    <3> QED BY <3>1, StateAssumption DEF EmptyAccount, Account
  <2>2. CreateAccount(d, a) = [Journaled(d, acc2, j) EXCEPT !.createdInTx = @ \cup {a}] /\ j.addr = a
    BY DEF CreateAccount
  <2> HIDE DEF acc2
  <2>3. CreateAccount(d, a).accounts = Journaled(d, acc2, j).accounts
    BY <2>2 DEF Journaled, DB
  <2>4. \A b \in Addr : GetBalance(CreateAccount(d, a), b) = GetBalance(Journaled(d, acc2, j), b)
    BY <2>3 DEF GetBalance, getOrCreate, Exists
  <2> HIDE DEF j
  <2>5. \A b \in Addr : GetBalance(Journaled(d, acc2, j), b) = IF b = a THEN acc2.balance ELSE GetBalance(d, b)
    BY <2>1, <2>2, JournaledBalances
  <2> QED BY <2>1, <2>4, <2>5 DEF SameBalances
<1> QED BY <1>2, <1>3, <1>4, <1>5

\* ... and neither do the operations that write no account.
LEMMA QuietOpsKeepMoney ==
    ASSUME NEW d \in DB
    PROVE  /\ Money(Snapshot(d)) = Money(d)
           /\ \A a \in Addr : Money(WarmAddress(d, a)) = Money(d)
           /\ \A a \in Addr, s \in Slot : Money(WarmSlot(d, a, s)) = Money(d)
           /\ \A a \in Addr : Money(AddLog(d, a)) = Money(d)
           /\ \A gas \in Nat : Money(AddRefund(d, gas)) = Money(d)
           /\ \A a \in Addr, s \in Slot, value \in Val : Money(SetStorage(d, a, s, value)) = Money(d)
<1>1. Snapshot(d).accounts = d.accounts
  BY DEF Snapshot, DB
<1>2. \A a \in Addr : WarmAddress(d, a).accounts = d.accounts
  BY DEF WarmAddress, DB
<1>3. \A a \in Addr, s \in Slot : WarmSlot(d, a, s).accounts = d.accounts
  BY DEF WarmSlot, DB
<1>4. \A a \in Addr : AddLog(d, a).accounts = d.accounts
  BY DEF AddLog, DB
<1>5. \A gas \in Nat : AddRefund(d, gas).accounts = d.accounts
  BY DEF AddRefund, DB
<1>6. \A a \in Addr, s \in Slot, value \in Val : SetStorage(d, a, s, value).accounts = d.accounts
  BY DEF SetStorage, DB
<1> QED BY <1>1, <1>2, <1>3, <1>4, <1>5, <1>6 DEF Money

\* The remainders of sums and differences of words.
LEMMA WordRemainders ==
    ASSUME NEW x \in Word
    PROVE  x % WordMod = x /\ (x - WordMod) % WordMod = x /\ (x + WordMod) % WordMod = x
<1>1. WordMod \in Nat \ {0} /\ x \in 0 .. (WordMod - 1) /\ x \in Int
  BY StateAssumption DEF Word
<1>2. /\ x = WordMod * 0 + x /\ x - WordMod = WordMod * (-1) + x
      /\ x + WordMod = WordMod * 1 + x
  BY <1>1
<1>3. x % WordMod = x
  BY <1>1, <1>2, DivModUnique
<1>4. (x - WordMod) % WordMod = x
  <2>1. PICK y \in Int : y = x - WordMod
    BY <1>1
  <2>2. PICK q \in Int : q = -1
    OBVIOUS
  <2>3. y = WordMod * q + x
    BY <1>2, <2>1, <2>2
  <2>4. y % WordMod = x
    BY ONLY <1>1, <2>3, DivModUnique
  <2> QED BY <2>1, <2>4
<1>5. (x + WordMod) % WordMod = x
  <2>1. PICK y \in Int : y = x + WordMod
    BY <1>1
  <2>2. y % WordMod = x
    BY <1>1, <1>2, <2>1, DivModUnique
  <2> QED BY <2>1, <2>2
<1> QED BY <1>3, <1>4, <1>5

\* Paying what there is, and receiving what fits.
LEMMA PaidAndReceived ==
    ASSUME NEW d \in DB, NEW a \in Addr, NEW amount \in Nat
    PROVE  /\ amount <= GetBalance(d, a) =>
                 LET e == SubBalance(d, a, amount)
                 IN  /\ e \in DB /\ GetBalance(e, a) = GetBalance(d, a) - amount
                     /\ \A b \in Addr : b # a => GetBalance(e, b) = GetBalance(d, b)
                     /\ Money(e) = Money(d) - amount
           /\ GetBalance(d, a) + amount < WordMod =>
                 LET e == AddBalance(d, a, amount)
                 IN  /\ e \in DB /\ GetBalance(e, a) = GetBalance(d, a) + amount
                     /\ \A b \in Addr : b # a => GetBalance(e, b) = GetBalance(d, b)
                     /\ Money(e) = Money(d) + amount
<1>1. /\ GetBalance(d, a) \in Word /\ GetBalance(d, a) \in Nat /\ Money(d) \in Nat
      /\ WordMod \in Nat \ {0} /\ GetBalance(d, a) < WordMod
  BY MoneyBounds, StateAssumption DEF Word
<1>2. ASSUME amount <= GetBalance(d, a)
      PROVE  LET e == SubBalance(d, a, amount)
             IN  /\ e \in DB /\ GetBalance(e, a) = GetBalance(d, a) - amount
                 /\ \A b \in Addr : b # a => GetBalance(e, b) = GetBalance(d, b)
                 /\ Money(e) = Money(d) - amount
  <2>1. PICK v : v = GetBalance(d, a) - amount
    OBVIOUS
  <2>2. v \in Word
    BY <1>1, <1>2, <2>1 DEF Word
  <2>3. v % WordMod = v
    BY <2>2, WordRemainders
  <2>4. SubBalance(d, a, amount) = SetBalance(d, a, v)
    BY <2>1, <2>3 DEF SubBalance
  <2>5. LET e == SetBalance(d, a, v)
        IN  /\ e \in DB /\ GetBalance(e, a) = v
            /\ \A b \in Addr : b # a => GetBalance(e, b) = GetBalance(d, b)
            /\ Money(e) = Money(d) - GetBalance(d, a) + v
    BY <2>2, SetMoney
  <2>6. PICK e : e = SetBalance(d, a, v)
    OBVIOUS
  <2>7. Money(e) = Money(d) - amount
    BY <1>1, <2>1, <2>5, <2>6
  <2> QED BY <2>1, <2>4, <2>5, <2>6, <2>7
<1>3. ASSUME GetBalance(d, a) + amount < WordMod
      PROVE  LET e == AddBalance(d, a, amount)
             IN  /\ e \in DB /\ GetBalance(e, a) = GetBalance(d, a) + amount
                 /\ \A b \in Addr : b # a => GetBalance(e, b) = GetBalance(d, b)
                 /\ Money(e) = Money(d) + amount
  <2>1. PICK v : v = GetBalance(d, a) + amount
    OBVIOUS
  <2>2. v \in Word
    BY <1>1, <1>3, <2>1 DEF Word
  <2>3. v % WordMod = v
    BY <2>2, WordRemainders
  <2>4. AddBalance(d, a, amount) = SetBalance(d, a, v)
    BY <2>1, <2>3 DEF AddBalance
  <2>5. LET e == SetBalance(d, a, v)
        IN  /\ e \in DB /\ GetBalance(e, a) = v
            /\ \A b \in Addr : b # a => GetBalance(e, b) = GetBalance(d, b)
            /\ Money(e) = Money(d) - GetBalance(d, a) + v
    BY <2>2, SetMoney
  <2>6. PICK e : e = SetBalance(d, a, v)
    OBVIOUS
  <2>7. Money(e) = Money(d) + amount
    BY <1>1, <2>1, <2>5, <2>6
  <2> QED BY <2>1, <2>4, <2>5, <2>6, <2>7
<1> QED BY <1>2, <1>3

\* A transfer moves money from one account to another, or to the same.
LEMMA TransferKeepsMoney ==
    ASSUME NEW d \in DB, NEW from \in Addr, NEW to \in Addr, NEW value \in Word,
           value <= GetBalance(d, from), Money(d) < WordMod
    PROVE  Money(Transfer(d, from, to, value)) = Money(d)
<1>0. value \in Nat /\ WordMod \in Nat
  BY StateAssumption DEF Word
<1>1. CASE value = 0
  BY <1>1 DEF Transfer
<1>2. CASE value # 0
  <2>1. PICK p : p = SubBalance(d, from, value)
    OBVIOUS
  <2>2. p \in DB /\ Money(p) = Money(d) - value /\ Money(d) \in Nat
    BY <1>0, <2>1, PaidAndReceived, MoneyBounds
  <2>3. GetBalance(p, to) \in Nat /\ GetBalance(p, to) <= Money(p)
    BY <2>2, MoneyBounds
  <2>4. GetBalance(p, to) + value < WordMod
    BY <1>0, <2>2, <2>3
  <2>5. Money(AddBalance(p, to, value)) = Money(p) + value
    BY <1>0, <2>2, <2>4, PaidAndReceived
  <2> QED BY <1>0, <1>2, <2>1, <2>2, <2>5 DEF Transfer
<1> QED BY <1>1, <1>2

\* So does SELFDESTRUCT, also for the contract itself, when the credit may wrap
\* around before the debit brings it back.
LEMMA SelfDestructKeepsMoney ==
    ASSUME NEW d \in DB, NEW ben \in Addr, NEW c \in Addr, Money(d) < WordMod,
           NEW bal, bal = GetBalance(d, c), bal # 0
    PROVE  LET e == SubBalance(AddBalance(d, ben, bal), c, bal)
           IN  e \in DB /\ Money(e) = Money(d)
<1>0. /\ bal \in Word /\ bal \in Nat /\ bal <= Money(d) /\ WordMod \in Nat \ {0} /\ Money(d) \in Nat
      /\ bal < WordMod
  BY MoneyBounds, StateAssumption DEF Word
<1>1. PICK p : p = AddBalance(d, ben, bal)
  OBVIOUS
<1>2. PICK e : e = SubBalance(p, c, bal)
  OBVIOUS
<1>3. CASE ben # c
  <2>1. GetBalance(d, ben) \in Nat /\ GetBalance(d, ben) + bal <= Money(d)
    BY <1>3, MoneyBounds
  <2>2. GetBalance(d, ben) + bal < WordMod
    BY <1>0, <2>1
  <2>3. p \in DB /\ Money(p) = Money(d) + bal /\ GetBalance(p, c) = bal
    BY <1>0, <1>1, <1>3, <2>2, PaidAndReceived
  <2>4. e \in DB /\ Money(e) = Money(p) - bal
    BY <1>0, <1>2, <2>3, PaidAndReceived
  <2> QED BY <1>0, <1>1, <1>2, <2>3, <2>4
<1>4. CASE ben = c
  <2>1. PICK v : v = (bal + bal) % WordMod
    OBVIOUS
  <2>2. v \in Word /\ (v - bal) % WordMod = bal
    <3>1. CASE bal + bal < WordMod
      <4>1. bal + bal \in Word
        BY <1>0, <3>1 DEF Word
      <4>2. v = bal + bal
        BY <2>1, <4>1, WordRemainders
      <4>3. v - bal = bal
        BY <1>0, <4>2
      <4> QED BY <1>0, <4>1, <4>2, <4>3, WordRemainders
    <3>2. CASE ~ (bal + bal < WordMod)
      <4>1. PICK x : x = bal + bal - WordMod
        OBVIOUS
      <4>2. x \in Word /\ x + WordMod = bal + bal
        BY <1>0, <3>2, <4>1 DEF Word
      <4>3. v = x
        BY <2>1, <4>2, WordRemainders
      <4>4. v - bal = bal - WordMod
        BY <1>0, <4>1, <4>3
      <4> QED BY <1>0, <4>2, <4>3, <4>4, WordRemainders
    <3> QED BY <3>1, <3>2
  <2>3. p = SetBalance(d, c, v)
    BY <1>1, <1>4, <2>1 DEF AddBalance
  <2>4. p \in DB /\ GetBalance(p, c) = v /\ Money(p) = Money(d) - bal + v
    BY <2>2, <2>3, SetMoney
  <2>5. e = SetBalance(p, c, bal)
    BY <1>2, <2>2, <2>4 DEF SubBalance
  <2>6. e \in DB /\ Money(e) = Money(p) - v + bal
    BY <1>0, <2>4, <2>5, SetMoney
  <2>7. v \in Int /\ Money(d) \in Int /\ bal \in Int
    BY <1>0, <2>2, StateAssumption DEF Word
  <2>8. Money(e) = Money(d)
    BY <2>4, <2>6, <2>7
  <2> QED BY <1>1, <1>2, <2>6, <2>8
<1> QED BY <1>3, <1>4

\* The cell of a balance.
LEMMA BalanceCell ==
    ASSUME NEW a \in Addr
    PROVE  /\ [addr |-> a, field |-> "balance"] \in Cell
           /\ [addr |-> a, field |-> "balance"].addr = a
           /\ \A d : Read(d, [addr |-> a, field |-> "balance"]) = GetBalance(d, a)
BY DEF Cell, AccountCell, AccountField, Read

\* A call or creation that is refused gives back what it has done.
LEMMA RevertedMoney ==
    ASSUME NEW d \in DB, NEW b \in DB, NEW X, Nested(d), Grows(Snapshot(d), b, {}, X),
           b.snapshots = Snapshot(d).snapshots, \A c \in Cell : Faithful(d, c),
           NEW r, r = RevertToSnapshot(b, Len(d.snapshots) + 1)
    PROVE  r \in DB /\ Money(r) = Money(d)
<1> DEFINE m == Len(d.snapshots)
<1>1. Len(d.journal) \in Nat /\ m \in Nat /\ d.snapshots \in Seq(Nat)
  BY Lengths
<1>2. Snapshot(d) \in DB /\ Grows(d, Snapshot(d), {}, X) /\ Snapshot(d).snapshots = Append(d.snapshots, Len(d.journal))
  BY SnapshotGrows
<1>3. /\ Grows(d, b, {}, X)
      /\ \A c \in Cell : ReturnsTo(b, b.snapshots[m + 1], c, Read(d, c))
  BY BeginsAt
<1>4. Len(b.snapshots) = m + 1 /\ b.snapshots[m + 1] = Len(d.journal)
  BY <1>1, <1>2
<1>5. Len(b.journal) \in Nat /\ Len(d.journal) <= Len(b.journal) /\ \A c \in Cell : Faithful(b, c)
  BY <1>3, Lengths DEF Grows
<1> HIDE DEF m
<1>6. PICK id : id = m + 1
  OBVIOUS
<1>7. id \in 1 .. Len(b.snapshots) /\ b.snapshots[id] <= Len(b.journal) /\ b.snapshots[id] \in Nat
  BY <1>1, <1>4, <1>5, <1>6
<1>8. Reverted(b, id, r)
  BY <1>6, <1>7, RevertReturns DEF m
<1>9. ASSUME NEW c \in Cell
      PROVE  Read(r, c) = Read(d, c)
  <2>1. r \in DB /\ Len(r.journal) <= b.snapshots[id]
    BY <1>7, <1>8 DEF Reverted
  <2>2. b.snapshots[id] \in 0 .. b.snapshots[id]
    BY <1>7
  <2>3. ReturnsTo(r, b.snapshots[id], c, Read(d, c))
    BY <1>3, <1>5, <1>6, <1>8, <2>2 DEF Reverted
  <2> QED BY <1>7, <2>1, <2>3, Returned
<1>10. r \in DB
  BY <1>8 DEF Reverted
<1>11. SameBalances(d, r)
  BY <1>9, BalanceCell DEF SameBalances
<1> QED BY <1>10, <1>11, SameMoney
-----------------------------------------------------------------------------
(***************************************************************************)
(* What each step does to the money, and to what a revert would bring back.*)
(***************************************************************************)
Funded(fs, K) == \A i \in DOMAIN fs : Money(fs[i].pre) = K

\* A step leaves K in the accounts, now and after a revert of any frame.
Keeps(K) == Money(db') = K /\ Funded(frames', K)

\* The frames that an operation was given are the active ones.
LEMMA OutermostFunded ==
    ASSUME NEW fs, Outermost(fs), Len(fs) = Len(frames), fs \in Seq(Frame), frames \in Seq(Frame),
           NEW K, Funded(frames, K)
    PROVE  Funded(fs, K)
<1>1. DOMAIN fs = 1 .. Len(fs) /\ DOMAIN frames = 1 .. Len(frames)
  OBVIOUS
<1> QED BY <1>1 DEF Funded, Outermost, SameFrame

\* A call or creation that ran no frame.
LEMMA AnswerKeeps ==
    ASSUME TypeOK, PhasesMatch, tx.phase = "running", NEW fs \in Seq(Frame), NEW d,
           NEW err \in Outcome, NEW g \in Nat, Answer(d, fs, err, g),
           NEW K, Money(d) = K, Funded(fs, K)
    PROVE  Keeps(K)
<1>1. db' = d /\ Deliver(fs, err, g)
  BY DEF Answer
<1>2. /\ frames' \in Seq(Frame) /\ Len(frames') = Len(fs)
      /\ \A i \in 1 .. Len(fs) : SameFrame(frames'[i], fs[i])
  BY <1>1, DeliverStep
<1>3. DOMAIN frames' = 1 .. Len(fs) /\ DOMAIN fs = 1 .. Len(fs)
  BY <1>2
<1>4. Funded(frames', K)
  BY <1>2, <1>3 DEF Funded, SameFrame
<1> QED BY <1>1, <1>4 DEF Keeps

\* A frame that begins.
LEMMA NewFrameKeeps ==
    ASSUME NEW fs \in Seq(Frame), NEW k, NEW code, NEW contract, NEW caller, NEW gas, NEW cap,
           NEW snap, NEW pre, NEW depth,
           newFrame(fs, k, code, contract, caller, gas, cap, snap, pre, depth),
           NEW K, Money(db') = K, Money(pre) = K, Funded(fs, K)
    PROVE  Keeps(K)
<1>1. PICK f : frames' = Append(fs, f) /\ f.pre = pre
  BY DEF newFrame
<1>2. Len(fs) \in Nat /\ DOMAIN fs = 1 .. Len(fs)
  OBVIOUS
<1>3. ASSUME NEW i \in DOMAIN frames'
      PROVE  Money(frames'[i].pre) = K
  <2>1. i \in 1 .. (Len(fs) + 1) /\ frames'[i] = IF i = Len(fs) + 1 THEN f ELSE fs[i]
    BY <1>1, <1>2
  <2>2. CASE i = Len(fs) + 1
    BY <1>1, <2>1, <2>2
  <2>3. CASE i # Len(fs) + 1
    <3>1. i \in DOMAIN fs
      BY <1>2, <2>1, <2>3
    <3> QED BY <2>1, <2>3, <3>1 DEF Funded
  <2> QED BY <2>2, <2>3
<1> QED BY <1>3 DEF Keeps, Funded

Solvent(fs, d, K) ==
    /\ CallOver(fs, d) /\ tainted' = {}
    /\ K \in Nat /\ K < WordMod /\ Money(d) = K /\ Funded(fs, K)

\* EVM.execCall.
LEMMA ExecCallKeeps ==
    ASSUME NEW fs, NEW d, NEW K, Solvent(fs, d, K), NEW caller \in Addr, NEW contract \in Addr,
           NEW value \in Word, NEW gas \in Nat, NEW cap \in Nat \cup {Nil},
           execCall(d, fs, caller, contract, value, gas, cap)
    PROVE  Keeps(K)
<1> DEFINE X == Unheld({})
<1> DEFINE snap == Len(d.snapshots) + 1
<1> DEFINE s == Snapshot(d)
<1> DEFINE w == WarmAddress(s, caller)
<1> DEFINE begun == WarmAddress(w, contract)
<1> DEFINE moved == Transfer(begun, caller, contract, value)
<1> DEFINE r == RevertToSnapshot(begun, snap)
<1>1. /\ EVMInv /\ tx.phase = "running" /\ fs \in Seq(Frame)
      /\ d \in DB /\ Nested(d) /\ Grows(db, d, {}, X)
      /\ tainted = {}
      /\ K \in Nat /\ K < WordMod /\ Money(d) = K /\ Funded(fs, K)
  BY DEF Solvent, CallOver
<1>2. TypeOK /\ Revertible /\ PhasesMatch
  BY <1>1 DEF EVMInv, Revertible
<1>3. \A c \in Cell : Faithful(d, c)
  <2>1. ASSUME NEW c \in Cell
        PROVE  Faithful(d, c)
    <3>1. c.addr \notin {} /\ Faithful(db, c)
      BY <1>1, <1>2 DEF Revertible, FramesRestorable
    <3> QED BY <1>1, <3>1 DEF Grows
  <2> QED BY <2>1
<1>4. \/ \E left \in 0 .. gas : Answer(d, fs, "none", Capped(left, cap))
      \/ Answer(r, fs, "fail", 0)
      \/ /\ GetBalance(begun, caller) >= value
         /\ \/ Answer(moved, fs, "none", Capped(gas, cap))
            \/ /\ db' = moved
               /\ newFrame(fs, "call", GetCode(moved, contract), contract, caller,
                           gas, cap, snap, d, Nil)
  BY DEF execCall
<1> HIDE DEF snap, X
<1>5. s \in DB /\ s.snapshots = Snapshot(d).snapshots /\ Money(s) = K
  BY <1>1, SnapshotGrows, QuietOpsKeepMoney
<1>6. Grows(s, s, {}, X)
  BY <1>5, QuietGrows
<1> HIDE DEF s
<1>7. w \in DB /\ Grows(s, w, {}, X) /\ w.snapshots = s.snapshots /\ Money(w) = K
  BY <1>5, QuietOpsGrow, QuietOpsKeepMoney
<1> HIDE DEF w
<1>8. begun \in DB /\ Grows(w, begun, {}, X) /\ begun.snapshots = w.snapshots /\ Money(begun) = K
  BY <1>7, QuietOpsGrow, QuietOpsKeepMoney
<1> HIDE DEF begun
<1>9. Grows(s, begun, {}, X)
  BY <1>5, <1>7, <1>8, GrowsTrans
<1>10. Money(r) = K
  <2>1. Grows(Snapshot(d), begun, {}, X) /\ begun.snapshots = Snapshot(d).snapshots
    BY <1>5, <1>7, <1>8, <1>9 DEF s
  <2> QED BY <1>1, <1>3, <1>8, <2>1, RevertedMoney DEF snap
<1>11. GetBalance(begun, caller) >= value => Money(moved) = K
  <2>1. GetBalance(begun, caller) \in Nat /\ value \in Nat
    BY <1>8, MoneyBounds, StateAssumption DEF Word
  <2>2. GetBalance(begun, caller) >= value => value <= GetBalance(begun, caller)
    BY <2>1
  <2> QED BY <1>1, <1>8, <2>2, TransferKeepsMoney
<1> HIDE DEF moved, r
<1>12. "none" \in Outcome /\ "fail" \in Outcome /\ 0 \in Nat
  BY DEF Outcome
<1>13. \A left \in 0 .. gas : Capped(left, cap) \in Nat
  <2>1. \A left \in 0 .. gas : left \in Nat
    OBVIOUS
  <2> QED BY <2>1, CappedType
<1>14. gas \in 0 .. gas
  OBVIOUS
<1>15. CASE \E left \in 0 .. gas : Answer(d, fs, "none", Capped(left, cap))
  BY <1>1, <1>2, <1>12, <1>13, <1>15, AnswerKeeps
<1>16. CASE Answer(r, fs, "fail", 0)
  BY <1>1, <1>2, <1>10, <1>12, <1>16, AnswerKeeps
<1>17. CASE GetBalance(begun, caller) >= value /\ Answer(moved, fs, "none", Capped(gas, cap))
  BY <1>1, <1>2, <1>11, <1>12, <1>13, <1>14, <1>17, AnswerKeeps
<1>18. ASSUME GetBalance(begun, caller) >= value, db' = moved,
              newFrame(fs, "call", GetCode(moved, contract), contract, caller,
                       gas, cap, snap, d, Nil)
       PROVE  Keeps(K)
  <2>1. Money(db') = K
    BY <1>11, <1>18
  <2> QED BY <1>1, <1>18, <2>1, NewFrameKeeps
<1> QED BY <1>4, <1>15, <1>16, <1>17, <1>18

\* CALLCODE, DELEGATECALL and STATICCALL move no money.
LEMMA ExecOthersKeep ==
    ASSUME NEW fs, NEW d, NEW K, Solvent(fs, d, K), NEW ct \in {"callcode", "delegatecall"},
           NEW f, NEW addr, NEW value, NEW gas \in Nat, NEW cap \in Nat \cup {Nil}
    PROVE  /\ execCodeOf(ct, d, fs, f, addr, value, gas, cap) => Keeps(K)
           /\ execStatic(d, fs, f, addr, gas, cap) => Keeps(K)
<1>1. /\ TypeOK /\ PhasesMatch /\ tx.phase = "running" /\ fs \in Seq(Frame)
      /\ d \in DB /\ Money(d) = K /\ Funded(fs, K)
  BY DEF Solvent, CallOver, EVMInv, Revertible
<1>2. Money(Snapshot(d)) = K
  BY <1>1, QuietOpsKeepMoney
<1>3. "none" \in Outcome /\ "fail" \in Outcome /\ Capped(gas, cap) \in Nat
  BY CappedType DEF Outcome
<1>4. ASSUME execCodeOf(ct, d, fs, f, addr, value, gas, cap)
      PROVE  Keeps(K)
  <2> DEFINE caller == IF ct = "delegatecall" THEN f.caller ELSE f.contract
  <2>1. \/ Answer(Snapshot(d), fs, "fail", Capped(gas, cap))
        \/ Answer(Snapshot(d), fs, "none", Capped(gas, cap))
        \/ /\ db' = Snapshot(d)
           /\ newFrame(fs, ct, GetCode(d, addr), f.contract, caller, gas, cap,
                       Len(d.snapshots) + 1, d, f.depth + 1)
    BY <1>4 DEF execCodeOf
  <2> HIDE DEF caller
  <2>2. CASE Answer(Snapshot(d), fs, "fail", Capped(gas, cap))
    BY <1>1, <1>2, <1>3, <2>2, AnswerKeeps
  <2>3. CASE Answer(Snapshot(d), fs, "none", Capped(gas, cap))
    BY <1>1, <1>2, <1>3, <2>3, AnswerKeeps
  <2>4. ASSUME db' = Snapshot(d),
               newFrame(fs, ct, GetCode(d, addr), f.contract, caller, gas, cap,
                        Len(d.snapshots) + 1, d, f.depth + 1)
        PROVE  Keeps(K)
    <3>1. Money(db') = K
      BY <1>2, <2>4
    <3> QED BY <1>1, <2>4, <3>1, NewFrameKeeps
  <2> QED BY <2>1, <2>2, <2>3, <2>4
<1>5. ASSUME execStatic(d, fs, f, addr, gas, cap)
      PROVE  Keeps(K)
  <2>1. /\ db' = Snapshot(d)
        /\ newFrame(fs, "staticcall", GetCode(d, addr), addr, f.contract,
                    gas, cap, Len(d.snapshots) + 1, d, f.depth + 1)
    BY <1>5 DEF execStatic
  <2>2. Money(db') = K
    BY <1>2, <2>1
  <2> QED BY <1>1, <2>1, <2>2, NewFrameKeeps
<1> QED BY <1>4, <1>5

\* EVM.Call.
LEMMA CallKeeps ==
    ASSUME NEW fs, NEW d, NEW K, Solvent(fs, d, K), NEW ct \in CallKind, NEW f \in Frame,
           NEW addr \in Addr, NEW value \in Word, NEW gas \in Nat, NEW cap \in Nat \cup {Nil},
           Call(ct, d, fs, f, addr, value, gas, cap)
    PROVE  Keeps(K)
<1>1. f.contract \in Addr
  BY FrameFields
<1>2. CASE Answer(d, fs, "fail", Capped(gas, cap))
  <2>1. /\ TypeOK /\ PhasesMatch /\ tx.phase = "running" /\ fs \in Seq(Frame)
        /\ Money(d) = K /\ Funded(fs, K)
    BY DEF Solvent, CallOver, EVMInv, Revertible
  <2>2. "fail" \in Outcome /\ Capped(gas, cap) \in Nat
    BY CappedType DEF Outcome
  <2> QED BY <1>2, <2>1, <2>2, AnswerKeeps
<1>3. CASE execCall(d, fs, f.contract, addr, value, gas, cap)
  BY <1>1, <1>3, ExecCallKeeps
<1>4. CASE execStatic(d, fs, f, addr, gas, cap)
  BY <1>4, ExecOthersKeep
<1>5. CASE ct \in {"callcode", "delegatecall"} /\ execCodeOf(ct, d, fs, f, addr, value, gas, cap)
  BY <1>5, ExecOthersKeep
<1> QED BY <1>2, <1>3, <1>4, <1>5 DEF Call, CallKind

\* EVM.create, at an address that has nothing to give back.
LEMMA CreateKeeps ==
    ASSUME EVMInv, tx.phase = "running", NEW fs \in Seq(Frame), Outermost(fs),
           Len(fs) = Len(frames), NEW from \in Addr, NEW contract \in Creatable,
           NEW value \in Word, NEW gas \in Nat, NEW initCode \in Code,
           create(db, fs, from, contract, value, gas, initCode), tainted' = {},
           NEW K \in Nat, K < WordMod, Money(db) = K, Funded(fs, K)
    PROVE  Keeps(K)
<1> DEFINE X == Addr
<1> DEFINE snap == Len(db.snapshots) + 1
<1> DEFINE s == Snapshot(db)
<1> DEFINE n == SetNonce(s, from, GetNonce(db, from) + 1)
<1> DEFINE m == CreateAccount(n, contract)
<1> DEFINE made == SetNonce(m, contract, 1)
<1> DEFINE begun == WarmAddress(made, contract)
<1> DEFINE moved == Transfer(begun, from, contract, value)
<1> DEFINE r == RevertToSnapshot(begun, snap)
<1>1. /\ tainted' = IF Fresh(db, from, contract) THEN tainted ELSE tainted \cup {contract}
      /\ \/ Answer(r, fs, "fail", 0)
         \/ /\ ~ (GetBalance(begun, from) < value)
            /\ db' = moved
            /\ newFrame(fs, "create", initCode, contract, from, gas, Nil, snap, db, Nil)
  BY DEF create
<1>2. TypeOK /\ Revertible /\ PhasesMatch /\ db \in DB /\ Nested(db)
  BY DEF EVMInv, TypeOK, Revertible
<1>3. contract \in Addr
  BY EVMAssumption
<1>4. tainted = {} /\ Fresh(db, from, contract)
  BY <1>1
<1>5. /\ getOrCreate(db, contract) = EmptyAccount /\ ~ CreatedInTx(db, contract)
      /\ contract # from
      /\ \A k \in 1 .. Len(db.journal) : db.journal[k].addr # contract
  <2>1. contract \notin tainted
    BY <1>4
  <2> QED BY <1>2, <1>3, <1>4, <2>1, FreshHeldNothing DEF Fresh
<1>6. \A c \in Cell : Faithful(db, c)
  BY <1>2, <1>4 DEF Revertible, FramesRestorable
<1> HIDE DEF snap, X
<1>7. /\ s \in DB /\ s.journal = db.journal
      /\ s.snapshots = Snapshot(db).snapshots
      /\ getOrCreate(s, contract) = getOrCreate(db, contract)
      /\ Money(s) = K
  BY <1>2, SnapshotGrows, QuietOpsKeepMoney
<1>8. CreatedInTx(s, contract) = CreatedInTx(db, contract)
  BY <1>2 DEF CreatedInTx, Snapshot, DB
<1> HIDE DEF s
<1>9. GetNonce(db, from) + 1 \in Nat
  BY <1>2, CodeType
<1>10. n \in DB /\ Grows(s, n, {}, X) /\ n.snapshots = s.snapshots
  BY <1>7, <1>9, SettersGrow
<1>a. Money(n) = K
  <2>1. SameBalances(s, n)
    BY <1>7, <1>9, SettersKeepMoney
  <2> HIDE DEF n
  <2> QED BY <1>7, <1>10, <2>1, SameMoney
<1>11. /\ getOrCreate(n, contract) = EmptyAccount /\ ~ CreatedInTx(n, contract)
       /\ \A k \in 1 .. Len(n.journal) : n.journal[k].addr # contract
  BY SMTT(60), <1>3, <1>5, <1>7, <1>8, <1>9, SetNonceReads
<1> HIDE DEF n
<1>12. m \in DB /\ Grows(n, m, {}, X) /\ m.snapshots = n.snapshots
  <2>1. contract \in X
    BY <1>3 DEF X
  <2> QED BY <1>3, <1>10, <1>11, <2>1, CreateGrows
<1>b. Money(m) = K
  <2>1. SameBalances(n, m)
    BY <1>3, <1>10, SettersKeepMoney
  <2> HIDE DEF m
  <2> QED BY <1>10, <1>12, <1>a, <2>1, SameMoney
<1> HIDE DEF m
<1>13. made \in DB /\ Grows(m, made, {}, X) /\ made.snapshots = m.snapshots /\ SameBalances(m, made)
  <2> DEFINE one == 1
  <2>1. one \in Nat
    OBVIOUS
  <2> HIDE DEF one
  <2>2. LET d2 == SetNonce(m, contract, one)
        IN  d2 \in DB /\ Grows(m, d2, {}, X) /\ d2.snapshots = m.snapshots
    BY <1>3, <1>12, <2>1, SettersGrow
  <2>3. SameBalances(m, SetNonce(m, contract, one))
    BY <1>3, <1>12, <2>1, SettersKeepMoney
  <2> QED BY <2>2, <2>3 DEF one
<1> HIDE DEF made
<1>c. Money(made) = K
  BY <1>12, <1>13, <1>b, SameMoney
<1>14. begun \in DB /\ Grows(made, begun, {}, X) /\ begun.snapshots = made.snapshots /\ Money(begun) = K
  BY <1>3, <1>13, <1>c, QuietOpsGrow, QuietOpsKeepMoney
<1> HIDE DEF begun
<1>15. Grows(s, begun, {}, X) /\ begun.snapshots = s.snapshots
  <2>1. Grows(s, m, {}, X)
    BY <1>7, <1>10, <1>12, GrowsTrans
  <2>2. Grows(s, made, {}, X)
    BY <1>7, <1>12, <1>13, <2>1, GrowsTrans
  <2> QED BY <1>7, <1>10, <1>12, <1>13, <1>14, <2>2, GrowsTrans
<1>16. Money(r) = K
  <2>1. Grows(Snapshot(db), begun, {}, X) /\ begun.snapshots = Snapshot(db).snapshots
    BY <1>7, <1>15 DEF s
  <2> QED BY <1>2, <1>6, <1>14, <2>1, RevertedMoney DEF snap
<1>17. ~ (GetBalance(begun, from) < value) => Money(moved) = K
  <2>1. GetBalance(begun, from) \in Nat /\ value \in Nat
    BY <1>14, MoneyBounds, StateAssumption DEF Word
  <2>2. ~ (GetBalance(begun, from) < value) => value <= GetBalance(begun, from)
    BY <2>1
  <2> QED BY <1>3, <1>14, <2>2, TransferKeepsMoney
<1> HIDE DEF moved, r
<1>18. CASE Answer(r, fs, "fail", 0)
  <2>1. "fail" \in Outcome /\ 0 \in Nat
    BY DEF Outcome
  <2> QED BY <1>2, <1>16, <1>18, <2>1, AnswerKeeps
<1>19. ASSUME ~ (GetBalance(begun, from) < value), db' = moved,
              newFrame(fs, "create", initCode, contract, from, gas, Nil, snap, db, Nil)
       PROVE  Keeps(K)
  <2>1. Money(db') = K
    BY <1>17, <1>19
  <2> QED BY <1>19, <2>1, NewFrameKeeps
<1> QED BY <1>1, <1>18, <1>19

\* EVM.Create.
LEMMA CreateCallKeeps ==
    ASSUME EVMInv, tx.phase = "running", NEW fs \in Seq(Frame), Outermost(fs),
           Len(fs) = Len(frames), NEW f \in Frame, NEW contract \in Creatable,
           NEW value \in Word, NEW gas \in Nat, NEW initCode \in Code,
           Create(db, fs, f, contract, value, gas, initCode), tainted' = {},
           NEW K \in Nat, K < WordMod, Money(db) = K, Funded(fs, K)
    PROVE  Keeps(K)
<1>1. f.contract \in Addr
  BY FrameFields
<1>2. CASE Answer(db, fs, "fail", 0)
  <2>1. TypeOK /\ PhasesMatch /\ "fail" \in Outcome /\ 0 \in Nat
    BY DEF EVMInv, Revertible, Outcome
  <2> QED BY <1>2, <2>1, AnswerKeeps
<1>3. CASE create(db, fs, f.contract, contract, value, gas, initCode)
  BY <1>1, <1>3, CreateKeeps
<1> QED BY <1>2, <1>3 DEF Create

\* An opcode that runs no frame.
LEMMA ChargeKeeps ==
    ASSUME TypeOK, frames # << >>, NEW cost, NEW d,
           Charge(cost, d) \/ \E err \in Outcome : Halt(err, cost, d),
           NEW K, Money(d) = K, Funded(frames, K)
    PROVE  Keeps(K)
<1>1. frames \in Seq(Frame) /\ Len(frames) \in Nat \ {0} /\ Top = frames[Len(frames)]
  BY WithTopFrames DEF TypeOK, Top
<1>2. PICK g : db' = d /\ frames' = WithTop(frames, g) /\ g.pre = Top.pre
  <2>1. Top \in Frame
    BY <1>1
  <2>2. CASE Charge(cost, d)
    <3> DEFINE g == [Top EXCEPT !.gas = @ - cost]
    <3>1. g.pre = Top.pre
      BY <2>1 DEF Frame
    <3> QED BY <2>2, <3>1 DEF Charge
  <2>3. ASSUME NEW err \in Outcome, Halt(err, cost, d)
        PROVE  \E g : db' = d /\ frames' = WithTop(frames, g) /\ g.pre = Top.pre
    <3> DEFINE g == [Top EXCEPT !.gas = @ - cost, !.err = err]
    <3>1. g.pre = Top.pre
      BY <2>1 DEF Frame
    <3> QED BY <2>3, <3>1 DEF Halt
  <2> QED BY <2>2, <2>3
<1>3. /\ Callers(frames) \in Seq(Frame) /\ Len(Callers(frames)) = Len(frames) - 1
      /\ \A i \in 1 .. (Len(frames) - 1) : Callers(frames)[i] = frames[i]
  BY <1>1, WithTopFrames
<1>4. ASSUME NEW i \in DOMAIN frames'
      PROVE  Money(frames'[i].pre) = K
  <2>1. /\ i \in 1 .. Len(frames)
        /\ frames'[i] = IF i = Len(frames) THEN g ELSE Callers(frames)[i]
    BY <1>1, <1>2, <1>3 DEF WithTop
  <2>2. Money(frames[i].pre) = K
    BY <1>1, <2>1 DEF Funded
  <2>3. CASE i = Len(frames)
    BY <1>1, <1>2, <2>1, <2>2, <2>3
  <2>4. CASE i # Len(frames)
    BY <1>1, <1>3, <2>1, <2>2, <2>4
  <2> QED BY <2>3, <2>4
<1> QED BY <1>2, <1>4 DEF Keeps, Funded

\* The opcodes that run no frame.
LEMMA PlainKeeps ==
    ASSUME EVMInv, NEW K \in Nat, K < WordMod, Money(db) = K, Funded(frames, K),
           \/ OpCompute \/ OpLog \/ OpReturn \/ OpRevert \/ Fail
           \/ \E a \in Addr : OpBalance(a) \/ OpSelfDestruct(a)
           \/ \E s \in Slot : OpSload(s) \/ \E newVal \in Val : OpSstore(s, newVal) \/ SstoreFails(s, newVal)
           \/ \E ct \in CallKind, a \in Addr, value \in Values : CallFails(ct, a, value)
    PROVE  Keeps(K)
<1>1. TypeOK /\ db \in DB /\ frames \in Seq(Frame)
  BY DEF EVMInv, TypeOK
<1>2. frames # << >>
  BY DEF OpCompute, OpLog, OpReturn, OpRevert, Fail, OpBalance, OpSelfDestruct, OpSload, OpSstore,
         SstoreFails, CallFails, Has, Running
<1>3. Top \in Frame /\ Top.contract \in Addr
  BY <1>1, <1>2, WithTopFrames, FrameFields DEF Top
<1>4. "none" \in Outcome /\ "revert" \in Outcome /\ "fail" \in Outcome
  BY DEF Outcome
<1>5. CASE OpCompute \/ OpReturn \/ OpRevert \/ Fail
  <2>1. \E cost : Charge(cost, db) \/ \E err \in Outcome : Halt(err, cost, db)
    BY <1>4, <1>5 DEF OpCompute, OpReturn, OpRevert, Fail
  <2> QED BY <1>1, <1>2, <2>1, ChargeKeeps
<1>6. CASE OpLog
  <2>1. Charge(LogGas, AddLog(db, Top.contract))
    BY <1>6 DEF OpLog
  <2>2. Money(AddLog(db, Top.contract)) = K
    BY <1>1, <1>3, QuietOpsKeepMoney
  <2> QED BY <1>1, <1>2, <2>1, <2>2, ChargeKeeps
<1>7. ASSUME NEW a \in Addr, OpBalance(a)
      PROVE  Keeps(K)
  <2>1. Charge(AccessCost(a), WarmAddress(db, a))
    BY <1>7 DEF OpBalance
  <2>2. Money(WarmAddress(db, a)) = K
    BY <1>1, QuietOpsKeepMoney
  <2> QED BY <1>1, <1>2, <2>1, <2>2, ChargeKeeps
<1>8. ASSUME NEW ben \in Addr, OpSelfDestruct(ben)
      PROVE  Keeps(K)
  <2> DEFINE c == Top.contract
  <2> DEFINE bal == GetBalance(db, c)
  <2> DEFINE moved == IF bal = 0 THEN db ELSE SubBalance(AddBalance(db, ben, bal), c, bal)
  <2> DEFINE cost == SelfDestruct + (IF AddressWarm(db, ben) THEN 0 ELSE ColdAccountAccess)
                       + (IF Exists(db, ben) THEN 0 ELSE SelfDestructNewAccount)
  <2> DEFINE d == IF CreatedInTx(moved, c) THEN Suicide(moved, c) ELSE moved
  <2>1. Halt("none", cost, d)
    BY <1>8 DEF OpSelfDestruct
  <2>2. moved \in DB /\ Money(moved) = K
    <3>1. CASE bal = 0
      BY <1>1, <3>1
    <3>2. CASE bal # 0
      <4>1. moved = SubBalance(AddBalance(db, ben, bal), c, bal)
        BY <3>2
      <4> HIDE DEF moved
      <4> QED BY <1>1, <1>3, <3>2, <4>1, SelfDestructKeepsMoney
    <3> QED BY <3>1, <3>2
  <2> HIDE DEF moved, cost
  <2>3. Money(d) = K
    <3>1. Suicide(moved, c) \in DB
      <4>1. c \in {c}
        OBVIOUS
      <4>2. LET d2 == Suicide(moved, c)
            IN  d2 \in DB /\ Grows(moved, d2, {}, {c}) /\ d2.snapshots = moved.snapshots
        BY <1>3, <2>2, <4>1, SettersGrow
      <4> QED BY <4>2
    <3>2. Money(Suicide(moved, c)) = K
      BY <1>3, <2>2, <3>1, SettersKeepMoney, SameMoney
    <3> QED BY <2>2, <3>2
  <2> HIDE DEF d
  <2> QED BY <1>1, <1>2, <1>4, <2>1, <2>3, ChargeKeeps
<1>9. ASSUME NEW s \in Slot, OpSload(s)
      PROVE  Keeps(K)
  <2>1. \E cost : Charge(cost, WarmSlot(db, Top.contract, s))
    BY <1>9 DEF OpSload
  <2>2. Money(WarmSlot(db, Top.contract, s)) = K
    BY <1>1, <1>3, QuietOpsKeepMoney
  <2> QED BY <1>1, <1>2, <2>1, <2>2, ChargeKeeps
<1>10. ASSUME NEW s \in Slot, NEW newVal \in Val, OpSstore(s, newVal)
       PROVE  Keeps(K)
  <2> DEFINE c == Top.contract
  <2> DEFINE price == SstoreCost(GetStorage(db, c, s), GetCommittedStorage(db, c, s), newVal, Zero)
  <2> DEFINE w == WarmSlot(db, c, s)
  <2> DEFINE q == AddRefund(w, price.refund)
  <2> DEFINE d == SetStorage(q, c, s, newVal)
  <2>1. \E cost : Charge(cost, d)
    BY <1>10 DEF OpSstore
  <2>2. price.refund \in Nat
    BY Prices
  <2> HIDE DEF price
  <2>3. w \in DB /\ Money(w) = K
    <3>1. w \in DB
      BY <1>1, <1>3, OtherOpsType
    <3>2. Money(w) = Money(db)
      BY <1>1, <1>3, QuietOpsKeepMoney
    <3> QED BY <1>1, <3>1, <3>2
  <2> HIDE DEF w
  <2>4. q \in DB /\ Money(q) = K
    <3>1. q \in DB
      BY <2>2, <2>3, OtherOpsType
    <3>2. Money(q) = Money(w)
      BY <2>2, <2>3, QuietOpsKeepMoney
    <3> QED BY <2>3, <3>1, <3>2
  <2> HIDE DEF q
  <2>5. Money(d) = K
    BY <1>3, <2>4, QuietOpsKeepMoney
  <2> HIDE DEF d
  <2> QED BY <1>1, <1>2, <2>1, <2>5, ChargeKeeps
<1>11. ASSUME NEW s \in Slot, NEW newVal \in Val, SstoreFails(s, newVal)
       PROVE  Keeps(K)
  <2>1. Halt("fail", 0, WarmSlot(db, Top.contract, s))
    BY <1>11 DEF SstoreFails
  <2>2. Money(WarmSlot(db, Top.contract, s)) = K
    BY <1>1, <1>3, QuietOpsKeepMoney
  <2> QED BY <1>1, <1>2, <1>4, <2>1, <2>2, ChargeKeeps
<1>12. ASSUME NEW ct \in CallKind, NEW a \in Addr, NEW value \in Values, CallFails(ct, a, value)
       PROVE  Keeps(K)
  <2>1. Halt("fail", 0, WarmAddress(db, a))
    BY <1>12 DEF CallFails
  <2>2. Money(WarmAddress(db, a)) = K
    BY <1>1, QuietOpsKeepMoney
  <2> QED BY <1>1, <1>2, <1>4, <2>1, <2>2, ChargeKeeps
<1> QED BY <1>5, <1>6, <1>7, <1>8, <1>9, <1>10, <1>11, <1>12

\* The calling opcodes.
LEMMA OpCallKeeps ==
    ASSUME EVMInv, NEW ct \in CallKind, NEW a \in Addr, NEW value \in Values, frames # << >>,
           NEW fwd \in 0 .. Top.gas, OpCall(ct, a, value, fwd), tainted' = {},
           NEW K \in Nat, K < WordMod, Money(db) = K, Funded(frames, K)
    PROVE  Keeps(K)
<1> DEFINE cost == CallCost(a, value)
<1> DEFINE stipend == IF value > 0 THEN CallStipend ELSE 0
<1> DEFINE f == [Top EXCEPT !.gas = @ - cost - fwd]
<1> DEFINE fs == WithTop(frames, f)
<1> DEFINE d == WarmAddress(db, a)
<1> DEFINE gas == fwd + stipend
<1>1. /\ Top.gas >= cost /\ fwd <= CallGas(Top.gas - cost)
      /\ Call(ct, d, fs, f, a, value, gas, fwd)
      /\ tainted' = tainted /\ txs' = txs
  BY DEF OpCall
<1>2. TypeOK /\ Revertible /\ PhasesMatch /\ db \in DB /\ frames \in Seq(Frame) /\ Nested(db)
      /\ tainted \subseteq Creatable
  BY DEF EVMInv, Revertible, TypeOK
<1>3. Top \in Frame /\ Top.gas \in Nat
  BY <1>2, WithTopFrames, FrameFields DEF Top
<1>4. value \in Word /\ value \in Nat
  BY EVMAssumption, StateAssumption DEF Word
<1>5. cost \in Nat /\ gas \in Nat /\ fwd \in Nat
  BY <1>3, Prices DEF CallCost
<1>6. tx.phase = "running"
  BY <1>2, RunningTx
<1> HIDE DEF cost, gas
<1>7. Top.gas - cost \in Nat
  BY <1>1, <1>3, <1>5
<1>8. Top.gas - cost - fwd \in Nat
  BY <1>1, <1>5, <1>7, CallGasBounds
<1>9. f \in Frame /\ SameFrame(f, Top)
  BY <1>3, <1>8, FrameChanges
<1> HIDE DEF f
<1>10. fs \in Seq(Frame) /\ Outermost(fs) /\ Len(fs) = Len(frames)
  BY <1>2, <1>9, ChargedFrames
<1> HIDE DEF fs
<1>11. /\ d \in DB /\ d.snapshots = db.snapshots /\ Money(d) = K
       /\ Grows(db, d, tainted', Unheld(tainted'))
  BY <1>2, QuietOpsGrow, QuietOpsKeepMoney
<1> HIDE DEF d
<1>12. Nested(d)
  BY <1>2, <1>11 DEF Grows
<1>13. CallOver(fs, d)
  BY <1>1, <1>2, <1>6, <1>10, <1>11, <1>12 DEF CallOver
<1>14. fwd \in Nat \cup {Nil}
  BY <1>5
<1>15. Funded(fs, K)
  BY <1>2, <1>10, OutermostFunded
<1>16. Solvent(fs, d, K)
  BY <1>11, <1>13, <1>15 DEF Solvent
<1> QED BY <1>1, <1>4, <1>5, <1>9, <1>14, <1>16, CallKeeps

\* The creating opcodes.
LEMMA OpCreateKeeps ==
    ASSUME EVMInv, NEW op, NEW c \in Creatable, NEW value \in Values, NEW initCode \in Code,
           OpCreate(op, c, value, initCode), tainted' = {},
           NEW K \in Nat, K < WordMod, Money(db) = K, Funded(frames, K)
    PROVE  Keeps(K)
<1> DEFINE kept == (Top.gas - 1) - CallGas(Top.gas - 1)
<1> DEFINE f == [Top EXCEPT !.gas = kept]
<1> DEFINE fs == WithTop(frames, f)
<1>1. /\ frames # << >> /\ Top.gas >= 1
      /\ Create(db, fs, f, c, value, kept, initCode)
  BY DEF OpCreate, Has, Running
<1>2. TypeOK /\ Revertible /\ PhasesMatch /\ db \in DB /\ frames \in Seq(Frame)
  BY DEF EVMInv, Revertible, TypeOK
<1>3. Top \in Frame /\ Top.gas \in Nat
  BY <1>1, <1>2, WithTopFrames, FrameFields DEF Top
<1>4. value \in Word
  BY EVMAssumption
<1>5. Top.gas - 1 \in Nat
  BY <1>1, <1>3
<1>6. kept \in Nat
  BY <1>5, CallGasBounds
<1> HIDE DEF kept
<1>7. f \in Frame /\ SameFrame(f, Top)
  BY <1>3, <1>6, FrameChanges
<1> HIDE DEF f
<1>8. fs \in Seq(Frame) /\ Outermost(fs) /\ Len(fs) = Len(frames)
  BY <1>1, <1>2, <1>7, ChargedFrames
<1>9. tx.phase = "running"
  BY <1>1, <1>2, RunningTx
<1> HIDE DEF fs
<1>10. Funded(fs, K)
  BY <1>2, <1>8, OutermostFunded
<1> QED BY <1>1, <1>4, <1>6, <1>7, <1>8, <1>9, <1>10, CreateCallKeeps

\* Every opcode.
LEMMA OpcodeKeeps ==
    ASSUME EVMInv, Opcode, tainted' = {}, NEW K \in Nat, K < WordMod, Money(db) = K, Funded(frames, K)
    PROVE  Keeps(K)
<1>1. ASSUME NEW ct \in CallKind, NEW a \in Addr, NEW value \in Values, Running,
             NEW fwd \in 0 .. Top.gas, OpCall(ct, a, value, fwd)
      PROVE  Keeps(K)
  <2>1. frames # << >>
    BY <1>1 DEF Running
  <2> QED BY <1>1, <2>1, OpCallKeeps
<1>2. ASSUME NEW op, NEW c \in Creatable, NEW value \in Values, NEW initCode \in Code,
             OpCreate(op, c, value, initCode)
      PROVE  Keeps(K)
  BY <1>2, OpCreateKeeps
<1>3. \/ \/ OpCompute \/ OpLog \/ OpReturn \/ OpRevert \/ Fail
         \/ \E a \in Addr : OpBalance(a) \/ OpSelfDestruct(a)
         \/ \E s \in Slot : OpSload(s) \/ \E newVal \in Val : OpSstore(s, newVal) \/ SstoreFails(s, newVal)
         \/ \E ct \in CallKind, a \in Addr, value \in Values : CallFails(ct, a, value)
      \/ \E ct \in CallKind, a \in Addr, value \in Values :
            Running /\ \E fwd \in 0 .. Top.gas : OpCall(ct, a, value, fwd)
      \/ \E op \in {"CREATE", "CREATE2"}, c \in Creatable, value \in Values, initCode \in Code :
            OpCreate(op, c, value, initCode)
  BY Zenon DEF Opcode
<1> QED BY <1>1, <1>2, <1>3, PlainKeeps

\* The outermost call or creation.
LEMMA EnterKeeps ==
    ASSUME EVMInv, Enter, tainted' = {}, NEW K \in Nat, K < WordMod, Money(db) = K, Funded(frames, K)
    PROVE  Keeps(K)
<1> DEFINE msg == tx.msg
<1> DEFINE gas == msg.gas - IntrinsicGas(msg)
<1>1. /\ tx.phase = "running" /\ frames = << >> /\ UNCHANGED txs
      /\ \/ \E c \in NewAddress("CREATE"), initCode \in Code :
               create(db, frames, msg.from, c, msg.value, gas, initCode)
         \/ /\ msg.to # Nil
            /\ execCall(db, frames, msg.from, msg.to, msg.value, gas, Nil)
            /\ tainted' = tainted
  BY DEF Enter
<1>2. TypeOK /\ Revertible /\ PhasesMatch /\ db \in DB /\ frames \in Seq(Frame) /\ Nested(db)
      /\ tainted \subseteq Creatable
  BY DEF EVMInv, Revertible, TypeOK
<1>3. msg \in Message /\ IntrinsicGas(msg) <= msg.gas
  BY <1>1, <1>2, RunningTx
<1>4. msg.from \in Addr /\ msg.value \in Word /\ msg.gas \in Nat /\ msg.to \in Addr \cup {Nil}
  BY <1>3 DEF Message
<1>5. gas \in Nat
  BY <1>3, <1>4, IntrinsicGasType
<1>6. Outermost(frames) /\ Len(frames) = Len(frames)
  BY <1>1 DEF Outermost
<1>7. \A c \in NewAddress("CREATE") : c \in Creatable
  BY DEF NewAddress
<1> HIDE DEF gas, msg
<1>8. ASSUME NEW c \in NewAddress("CREATE"), NEW initCode \in Code,
             create(db, frames, msg.from, c, msg.value, gas, initCode)
      PROVE  Keeps(K)
  BY <1>1, <1>2, <1>4, <1>5, <1>6, <1>7, <1>8, CreateKeeps
<1>9. ASSUME msg.to # Nil, tainted' = tainted,
             execCall(db, frames, msg.from, msg.to, msg.value, gas, Nil)
      PROVE  Keeps(K)
  <2>1. Grows(db, db, tainted', Unheld(tainted'))
    BY <1>2, QuietGrows
  <2>2. CallOver(frames, db)
    BY <1>1, <1>2, <1>6, <1>9, <2>1 DEF CallOver
  <2>3. msg.to \in Addr /\ Nil \in Nat \cup {Nil}
    BY <1>4, <1>9
  <2>4. Solvent(frames, db, K)
    BY <2>2 DEF Solvent
  <2> QED BY <1>4, <1>5, <1>9, <2>3, <2>4, ExecCallKeeps
<1> QED BY <1>1, <1>8, <1>9

\* The end of a frame: a revert brings back the money of its beginning.
LEMMA EndFrameKeeps ==
    ASSUME EVMInv, EndFrame, tainted' = {}, NEW K, Money(db) = K, Funded(frames, K)
    PROVE  Keeps(K)
<1> DEFINE f == Top
<1> DEFINE fs == Callers(frames)
<1>0. TypeOK /\ Revertible /\ PhasesMatch /\ db \in DB /\ frames \in Seq(Frame)
  BY DEF EVMInv, Revertible, TypeOK
<1>1. PICK code \in Code : frames # << >> /\ Return(code)
  BY StateAssumption DEF EndFrame
<1>2. /\ f.err # "running"
      /\ db' = IF MustRevert(f) THEN RevertToSnapshot(db, f.snap)
               ELSE IF f.kind = "create" THEN SetCode(db, f.contract, code)
               ELSE db
      /\ Deliver(fs, f.err, GasLeft(f))
      /\ tainted' = tainted
  BY <1>1 DEF Return
<1>3. /\ f \in Frame /\ fs \in Seq(Frame) /\ Len(fs) = Len(frames) - 1
      /\ \A i \in 1 .. (Len(frames) - 1) : fs[i] = frames[i]
      /\ Len(frames) \in Nat \ {0} /\ f = frames[Len(frames)]
  BY <1>0, <1>1, WithTopFrames DEF Top
<1>4. f.err \in Outcome /\ f.contract \in Addr /\ GasLeft(f) \in Nat
  BY <1>2, <1>3, FrameFields, GasLeftType
<1>5. tx.phase = "running"
  BY <1>0, <1>1, RunningTx
<1>6. Funded(fs, K) /\ Money(f.pre) = K /\ f.pre \in DB
  <2>1. /\ DOMAIN frames = 1 .. Len(frames) /\ DOMAIN fs = 1 .. (Len(frames) - 1)
        /\ Len(frames) \in DOMAIN frames
        /\ \A i \in 1 .. (Len(frames) - 1) : i \in DOMAIN frames
    BY <1>0, <1>3
  <2>2. Funded(fs, K)
    BY <1>3, <2>1 DEF Funded
  <2>3. Money(f.pre) = K
    BY <1>3, <2>1 DEF Funded
  <2> QED BY <1>3, <2>2, <2>3, FrameFields
<1>7. Money(db') = K
  <2>1. CASE MustRevert(f)
    <3>1. /\ db' \in DB
          /\ \A c \in Cell : c.addr \notin tainted => Read(db', c) = Read(Top.pre, c)
      BY <1>0, <1>1, <1>2, <2>1, TopReverted
    <3>2. SameBalances(f.pre, db')
      BY <1>2, <3>1, BalanceCell DEF SameBalances
    <3> QED BY <1>6, <3>1, <3>2, SameMoney
  <2>2. CASE ~ MustRevert(f)
    <3>1. SetCode(db, f.contract, code) \in DB
      <4>1. LET d2 == SetCode(db, f.contract, code)
            IN  d2 \in DB /\ Grows(db, d2, {}, {}) /\ d2.snapshots = db.snapshots
        BY <1>0, <1>4, SettersGrow
      <4> QED BY <4>1
    <3>2. Money(SetCode(db, f.contract, code)) = K
      BY <1>0, <1>4, <3>1, SettersKeepMoney, SameMoney
    <3> QED BY <1>2, <2>2, <3>2
  <2> QED BY <2>1, <2>2
<1> HIDE DEF fs
<1>8. /\ frames' \in Seq(Frame) /\ Len(frames') = Len(fs)
      /\ \A i \in 1 .. Len(fs) : SameFrame(frames'[i], fs[i])
  <2> DEFINE err == f.err
  <2> DEFINE g == GasLeft(f)
  <2>0. Deliver(fs, err, g) /\ err \in Outcome /\ g \in Nat
    BY <1>2, <1>4
  <2> HIDE DEF err, g
  <2> QED BY <1>0, <1>3, <1>5, <2>0, DeliverStep
<1>9. DOMAIN frames' = 1 .. Len(fs) /\ DOMAIN fs = 1 .. Len(fs)
  BY <1>3, <1>8
<1> QED BY <1>6, <1>7, <1>8, <1>9 DEF Keeps, Funded, SameFrame

-----------------------------------------------------------------------------
(***************************************************************************)
(* The theorems about the supply.                                          *)
(***************************************************************************)
\* The steps that run a transaction keep what it is measured by.
LEMMA TxKeeps ==
    ASSUME EVMInv, tx # NoTx, Enter \/ Opcode \/ EndFrame
    PROVE  tx' # NoTx /\ tx'.before = tx.before /\ tx'.msg = tx.msg
<1>1. tx' = tx \/ \E err, back : Settling(err, back)
  BY OpcodeKinds, EnterKinds, EndFrameKinds
     DEF SpendStep, CallOutStep, EnterAnswered, EnterRuns, EndOuter, EndInner, Begins
<1>2. tx \in [phase : {"running", "settling"}, msg : Message, err : Outcome,
              gasLeft : Nat, before : [Addr -> Account \cup {NoAccount}]]
  BY DEF EVMInv, TypeOK, TxState, Outcome
<1>3. ASSUME NEW err, NEW back, Settling(err, back)
      PROVE  tx'.before = tx.before
  BY <1>2, <1>3 DEF Settling
<1> QED BY <1>1, <1>3, TxGoesOn

\* A creation only adds to the addresses that were replaced.
LEMMA TaintedGrows ==
    ASSUME Enter \/ Opcode \/ EndFrame, tainted' = {}
    PROVE  tainted = {}
<1>1. \A d, fs, from, contract, value, gas, initCode :
         create(d, fs, from, contract, value, gas, initCode)
            => tainted' = tainted \/ tainted' = tainted \cup {contract}
  BY DEF create
<1>2. \A d, fs, f, contract, value, gas, initCode :
         Create(d, fs, f, contract, value, gas, initCode)
            => tainted' = tainted \/ tainted' = tainted \cup {contract}
  BY <1>1 DEF Create
<1>3. Enter => tainted' = tainted \/ \E c : tainted' = tainted \cup {c}
  BY <1>1 DEF Enter
<1>4. EndFrame => tainted' = tainted
  BY DEF EndFrame, Return
<1>5. Opcode => tainted' = tainted \/ \E c : tainted' = tainted \cup {c}
  <2>1. \A op, c, value, initCode :
           OpCreate(op, c, value, initCode) => tainted' = tainted \/ tainted' = tainted \cup {c}
    BY <1>2 DEF OpCreate
  <2>2. \A ct, a, value, fwd : OpCall(ct, a, value, fwd) => tainted' = tainted
    BY DEF OpCall
  <2>3. \A err, cost, d : Halt(err, cost, d) => tainted' = tainted
    BY DEF Halt
  <2>4. \A cost, d : Charge(cost, d) => tainted' = tainted
    BY DEF Charge
  <2>5. \A ct, a, value : CallFails(ct, a, value) => tainted' = tainted
    BY <2>3 DEF CallFails
  <2>6. /\ OpCompute \/ OpLog => tainted' = tainted
        /\ OpReturn \/ OpRevert \/ Fail => tainted' = tainted
    BY <2>3, <2>4 DEF OpCompute, OpLog, OpReturn, OpRevert, Fail
  <2>7. \A a : OpBalance(a) \/ OpSelfDestruct(a) => tainted' = tainted
    BY <2>3, <2>4 DEF OpBalance, OpSelfDestruct
  <2>8. \A s : OpSload(s) => tainted' = tainted
    BY <2>4 DEF OpSload
  <2>9. \A s, v : OpSstore(s, v) \/ SstoreFails(s, v) => tainted' = tainted
    BY <2>3, <2>4 DEF OpSstore, SstoreFails
  <2> QED BY <2>1, <2>2, <2>5, <2>6, <2>7, <2>8, <2>9, Zenon DEF Opcode
<1> QED BY <1>3, <1>4, <1>5

\* Execute takes the price of the gas from the sender.
LEMMA StartMoney ==
    ASSUME NEW msg \in Message, db \in DB, GetBalance(db, msg.from) >= Upfront(msg)
    PROVE  Money(Begin(msg)) = Money(db) - Upfront(msg) /\ Money(Begin(msg)) \in Nat
<1>1. msg.from \in Addr /\ Upfront(msg) \in Nat
  BY DEF Message, Upfront
<1>2. PICK amount \in Nat : amount = Upfront(msg)
  BY <1>1
<1>3. PICK paid : paid = SubBalance(db, msg.from, amount)
  OBVIOUS
<1>4. GetBalance(db, msg.from) \in Nat /\ GetBalance(db, msg.from) <= Money(db) /\ Money(db) \in Nat
  BY <1>1, MoneyBounds
<1>5. paid \in DB /\ Money(paid) = Money(db) - amount
  BY <1>1, <1>2, <1>3, <1>4, PaidAndReceived
<1>6. PICK n : n = GetNonce(paid, msg.from) + 1
  OBVIOUS
<1>7. n \in Nat
  BY <1>1, <1>5, <1>6, GetOrCreateType DEF GetNonce, Account
<1>8. PICK e : e = SetNonce(paid, msg.from, n)
  OBVIOUS
<1>9. e \in DB /\ Money(e) = Money(paid)
  <2>1. e \in DB
    BY <1>1, <1>5, <1>7, <1>8, SettersGrow
  <2>2. SameBalances(paid, e)
    BY <1>1, <1>5, <1>7, <1>8, SettersKeepMoney
  <2> QED BY <1>5, <2>1, <2>2, SameMoney
<1>10. Begin(msg) = [e EXCEPT !.accessedAddrs = @ \cup Precompiles \cup msg.accessList.addrs,
                              !.accessedSlots = @ \cup msg.accessList.slots]
  BY <1>2, <1>3, <1>6, <1>8 DEF Begin
<1>11. Begin(msg).accounts = e.accounts
  BY <1>9, <1>10 DEF DB
<1>12. Money(Begin(msg)) = Money(db) - amount
  BY <1>5, <1>9, <1>11 DEF Money
<1> QED BY <1>2, <1>4, <1>12

\* Balances are words: the sums of AddBalance wrap around when all accounts together
\* hold 2^256 or more.  A transaction that begins below that is what can be said
\* something of.
Headroom == tx # NoTx => Supply(tx.before) < WordMod

\* The money that a transaction began with, and that its frames would go back to.
Funds == Supply(tx.before) - Upfront(tx.msg)

Conserved ==
    tx # NoTx /\ tainted = {} /\ Supply(tx.before) < WordMod =>
        Money(db) = Funds /\ Funded(frames, Funds)

\* Numbers of a transaction that has begun.
LEMMA FundsType ==
    ASSUME EVMInv, tx # NoTx
    PROVE  /\ tx.msg \in Message /\ tx.before \in Accounts /\ Supply(tx.before) \in Nat
           /\ Upfront(tx.msg) \in Nat /\ Money(db) \in Nat /\ db \in DB
<1>1. tx \in [phase : {"running", "settling"}, msg : Message, err : Outcome,
              gasLeft : Nat, before : [Addr -> Account \cup {NoAccount}]]
  BY DEF EVMInv, TypeOK, TxState, Outcome
<1>2. tx.msg \in Message /\ tx.before \in Accounts
  BY <1>1 DEF Accounts
<1>3. Upfront(tx.msg) \in Nat
  BY <1>2 DEF Message, Upfront
<1>4. db \in DB
  BY DEF EVMInv, TypeOK
<1> QED BY <1>2, <1>3, <1>4, SupplyBounds, MoneyBounds

\* Every step keeps Conserved.
LEMMA NextConserved == EVMInv /\ Conserved /\ [Next]_vars => Conserved'
<1> SUFFICES ASSUME EVMInv, Conserved, [Next]_vars, tx' # NoTx, tainted' = {},
                    Supply(tx'.before) < WordMod
             PROVE  Money(db') = Funds' /\ Funded(frames', Funds')
  BY DEF Conserved, Money, Funded
<1>1. CASE tx # NoTx
  <2>0. /\ Supply(tx.before) \in Nat /\ Upfront(tx.msg) \in Nat /\ Money(db) \in Nat
        /\ WordMod \in Nat
    BY <1>1, FundsType, StateAssumption
  <2>1. CASE Enter \/ Opcode \/ EndFrame
    <3>1. tx'.before = tx.before /\ tx'.msg = tx.msg /\ tainted = {}
      BY <1>1, <2>1, TxKeeps, TaintedGrows
    <3>2. Funds' = Funds
      BY <3>1 DEF Funds, Upfront
    <3>3. Money(db) = Funds /\ Funded(frames, Funds)
      BY <1>1, <3>1 DEF Conserved
    <3>4. PICK K \in Nat : K = Funds
      BY <2>0, <3>3
    <3>5. K < WordMod
      BY <2>0, <3>1, <3>4 DEF Funds
    <3>6. Keeps(K)
      BY <2>1, <3>3, <3>4, <3>5, OpcodeKeeps, EnterKeeps, EndFrameKeeps
    <3> QED BY <3>2, <3>4, <3>6 DEF Keeps
  <2>2. CASE Settle
    BY <2>2 DEF Settle
  <2>3. CASE UNCHANGED vars
    <3>1. /\ db' = db /\ frames' = frames /\ tx' = tx /\ tainted = {}
      BY <2>3 DEF vars
    <3>2. Funds' = Funds
      BY <3>1 DEF Funds, Upfront
    <3> QED BY <1>1, <3>1, <3>2 DEF Conserved
  <2> QED BY <1>1, <2>1, <2>2, <2>3, TxSteps
<1>2. CASE tx = NoTx
  <2>1. PICK msg \in Message : Start(msg)
    BY <1>2, IdleSteps DEF Reject, vars
  <2>2. /\ tx'.msg = msg /\ tx'.before = db.accounts /\ frames' = frames
        /\ db' = Begin(msg) /\ GetBalance(db, msg.from) >= Upfront(msg)
    BY <2>1 DEF Start
  <2>3. frames = << >> /\ db \in DB
    BY <1>2, IdleState
  <2>4. Funds' = Money(db) - Upfront(msg)
    BY <2>2 DEF Funds, Upfront, Money
  <2>5. Money(db') = Funds'
    BY <2>2, <2>3, <2>4, StartMoney
  <2>6. DOMAIN frames' = {}
    BY <2>2, <2>3
  <2> QED BY <2>5, <2>6 DEF Funded
<1> QED BY <1>1, <1>2

\* Money is conserved while frames run: whatever calls, creations, transfers,
\* self-destructs and reverts a transaction nests, Transfer, SelfDestruct and
\* RevertToSnapshot leave in all accounts together what was there before it, less
\* the gas that Execute took from the sender.
THEOREM MoneyConserved == Spec => [](Headroom => SupplyConserved)
<1>1. Init => Conserved
  BY DEF Init, Conserved
<1>2. Conserved => (Headroom => SupplyConserved)
  BY DEF Conserved, Headroom, SupplyConserved, Money, Funds
<1> QED BY <1>1, <1>2, InitInv, NextInv, NextConserved, PTL DEF Spec

\* Accounts that hold no more hold no more together.
LEMMA SupplyLess ==
    ASSUME NEW acc \in Accounts, NEW acc2 \in Accounts,
           \A a \in Addr : Balance(acc2, a) <= Balance(acc, a)
    PROVE  Supply(acc2) <= Supply(acc)
<1> DEFINE bal == [a \in Addr |-> Balance(acc, a)]
<1> DEFINE bal2 == [a \in Addr |-> Balance(acc2, a)]
<1>1. /\ bal \in [Addr -> Nat] /\ bal2 \in [Addr -> Nat]
      /\ \A a \in Addr : bal[a] = Balance(acc, a) /\ bal2[a] = Balance(acc2, a) /\ bal2[a] <= bal[a]
  BY BalanceType
<1> HIDE DEF bal, bal2
<1>2. PICK h : Sums(h, bal) /\ Supply(acc) = h[Addr]
  BY <1>1, SupplyIsSum
<1>3. PICK h2 : Sums(h2, bal2) /\ Supply(acc2) = h2[Addr]
  BY <1>1, SupplyIsSum
<1> DEFINE T == {s \in SUBSET Addr : h2[s] <= h[s]}
<1>4. \A s \in SUBSET Addr : h[s] \in Nat /\ h2[s] \in Nat
  BY <1>2, <1>3 DEF Sums
<1>5. {} \in T
  BY <1>2, <1>3 DEF Sums
<1>6. ASSUME NEW s \in SUBSET Addr, s # {}, s \ {Pick(s)} \in T
      PROVE  s \in T
  <2>1. PICK x \in s : x = Pick(s)
    BY <1>6 DEF Pick
  <2>2. PICK r \in SUBSET Addr : r = s \ {x}
    OBVIOUS
  <2>3. h[s] = bal[x] + h[r] /\ h2[s] = bal2[x] + h2[r]
    BY <1>2, <1>3, <1>6, <2>1, <2>2 DEF Sums
  <2>4. h2[r] <= h[r]
    BY <1>6, <2>1, <2>2
  <2>5. bal[x] \in Nat /\ bal2[x] \in Nat /\ bal2[x] <= bal[x]
    BY <1>1
  <2>6. h2[s] <= h[s]
    BY <1>4, <2>3, <2>4, <2>5
  <2> QED BY <2>6
<1> HIDE DEF T
<1>7. Addr \in T
  BY <1>5, <1>6, PickInduction
<1> QED BY <1>2, <1>3, <1>7 DEF T

\* What Finalise deletes is gone.
LEMMA FinaliseMoney ==
    ASSUME NEW d \in DB
    PROVE  Finalise(d) \in DB /\ Money(Finalise(d)) <= Money(d)
<1>1. PICK e : e = Finalise(d)
  OBVIOUS
<1>2. e \in DB
  BY <1>1, Finalised
<1>3. e.accounts = [a \in Addr |-> IF HasSuicided(d, a) THEN NoAccount ELSE d.accounts[a]]
  BY <1>1 DEF Finalise, DB
<1>4. d.accounts \in Accounts /\ e.accounts \in Accounts
  BY <1>2, MoneyBounds
<1>5. ASSUME NEW a \in Addr
      PROVE  Balance(e.accounts, a) <= Balance(d.accounts, a)
  <2>1. Balance(e.accounts, a) = 0 \/ Balance(e.accounts, a) = Balance(d.accounts, a)
    BY <1>3 DEF Balance
  <2>2. Balance(d.accounts, a) \in Nat
    BY <1>4, BalanceType
  <2> QED BY <2>1, <2>2
<1> QED BY <1>1, <1>2, <1>4, <1>5, SupplyLess DEF Money

\* A payment into accounts that have room for it.
LEMMA PaymentFits ==
    ASSUME NEW d \in DB, NEW a \in Addr, NEW amount \in Nat, Money(d) + amount < WordMod
    PROVE  AddBalance(d, a, amount) \in DB /\ Money(AddBalance(d, a, amount)) = Money(d) + amount
<1>1. GetBalance(d, a) \in Nat /\ GetBalance(d, a) <= Money(d) /\ Money(d) \in Nat /\ WordMod \in Nat
  BY MoneyBounds, StateAssumption
<1>2. GetBalance(d, a) + amount < WordMod
  BY <1>1
<1> QED BY <1>2, PaidAndReceived

\* What is paid back and the tip are no more than what was paid.
LEMMA PaidBack ==
    ASSUME NEW gas \in Nat, NEW price \in Nat, NEW left \in 0 .. gas, NEW base \in Nat
    PROVE  /\ left * price \in Nat /\ left * price <= gas * price
           /\ price > base =>
                 /\ (gas - left) * (price - base) \in Nat
                 /\ left * price + (gas - left) * (price - base) <= gas * price
<1>1. gas - left \in Nat /\ left \in Nat /\ left + (gas - left) = gas
  OBVIOUS
<1>2. PICK used \in Nat : used = gas - left
  BY <1>1
<1>3. gas * price = left * price + used * price
  BY <1>1, <1>2
<1>4. left * price \in Nat /\ used * price \in Nat /\ gas * price \in Nat
  BY <1>1, <1>2
<1>5. ASSUME price > base
      PROVE  used * (price - base) \in Nat /\ used * (price - base) <= used * price
  <2>1. PICK tip \in Nat : tip = price - base
    BY <1>5
  <2>2. used * price = used * tip + used * base
    BY <2>1
  <2>3. used * tip \in Nat /\ used * base \in Nat
    OBVIOUS
  <2> QED BY <2>1, <2>2, <2>3
<1> QED BY <1>2, <1>3, <1>4, <1>5

\* A transaction that ends without a storage refund leaves no more than was there.
LEMMA SettleMoney ==
    ASSUME EVMInv, GasNeverMinted, Conserved, Settle, tainted = {}, db.refund = 0,
           tx # NoTx, Supply(tx.before) < WordMod
    PROVE  Money(db') <= Supply(tx.before)
<1> DEFINE msg == tx.msg
<1>0. PICK total \in Nat : total = Supply(tx.before)
  BY FundsType
<1>1. /\ tx.phase = "settling" /\ frames = << >> /\ db \in DB /\ msg \in Message
      /\ tx.gasLeft \in Nat
  <2>1. tx.phase = "settling"
    BY DEF Settle
  <2>2. frames = << >>
    BY <2>1 DEF EVMInv, Revertible, PhasesMatch
  <2> QED BY <2>1, <2>2, FundsType, TxGoesOn
<1>2. msg.from \in Addr /\ msg.gas \in Nat /\ msg.price \in Nat
  BY <1>1 DEF Message
<1>3. tx.gasLeft \in 0 .. msg.gas
  <2>1. GasHeld <= Bought
    BY DEF GasNeverMinted, GasHeld, GasOf, Bought
  <2>2. GasHeld = tx.gasLeft + 0
    BY <1>1, SumsEmpty DEF GasHeld
  <2>3. IntrinsicGas(msg) \in Nat
    BY <1>1, IntrinsicGasType
  <2> QED BY <1>1, <1>2, <2>1, <2>2, <2>3 DEF Bought
<1>4. BaseFee \in Nat /\ Coinbase \in Addr /\ WordMod \in Nat
  BY EVMAssumption, StateAssumption
<1> DEFINE due == tx.gasLeft * msg.price
<1> DEFINE paid == msg.gas * msg.price
<1>5. /\ due \in Nat /\ due <= paid /\ paid \in Nat
      /\ Fee \in Nat /\ due + Fee <= paid
  <2>1. /\ due \in Nat /\ due <= paid
        /\ msg.price > BaseFee =>
              /\ (msg.gas - tx.gasLeft) * (msg.price - BaseFee) \in Nat
              /\ due + (msg.gas - tx.gasLeft) * (msg.price - BaseFee) <= paid
    BY <1>2, <1>3, <1>4, PaidBack
  <2>2. paid \in Nat
    BY <1>2
  <2>3. Fee = IF msg.price > BaseFee THEN (msg.gas - tx.gasLeft) * (msg.price - BaseFee) ELSE 0
    BY DEF Fee, GasUsed
  <2> HIDE DEF due, paid
  <2>4. CASE msg.price > BaseFee
    BY <2>1, <2>2, <2>3, <2>4
  <2>5. CASE ~ (msg.price > BaseFee)
    BY <2>1, <2>2, <2>3, <2>5
  <2> QED BY <2>4, <2>5
<1>6. Bonus = 0
  <2> DEFINE q == GasUsed \div MaxRefundQuotient
  <2>1. GasUsed \in Nat
    BY <1>2, <1>3 DEF GasUsed
  <2>2. q \in Nat
    <3>1. MaxRefundQuotient \in Nat \ {0}
      BY GasAssumption
    <3> QED BY <2>1, <3>1, DivNat
  <2> HIDE DEF q
  <2>3. Min({0, q}) = 0
    <3>1. \A m \in {0, q} : (\A y \in {0, q} : m <= y) => m = 0
      BY <2>2
    <3>2. 0 \in {0, q} /\ \A y \in {0, q} : 0 <= y
      BY <2>2
    <3> QED BY <3>1, <3>2 DEF Min
  <2>4. 0 * msg.price = 0
    BY <1>2
  <2> QED BY <2>3, <2>4 DEF Bonus, q
<1>7. PICK repaid : repaid = AddBalance(db, msg.from, due)
  OBVIOUS
<1>8. PICK done : done = Finalise(repaid)
  OBVIOUS
<1>9. db' = IF Fee = 0 THEN done ELSE AddBalance(done, Coinbase, Fee)
  BY <1>6, <1>7, <1>8 DEF Settle
<1>10. Money(db) = total - paid /\ Money(db) \in Nat
  BY <1>0, FundsType DEF Conserved, Funds, Upfront
<1> HIDE DEF due, paid, msg
<1>11. repaid \in DB /\ Money(repaid) = (total - paid) + due
  <2>1. Money(db) + due < WordMod
    BY <1>0, <1>4, <1>5, <1>10
  <2> QED BY <1>1, <1>2, <1>5, <1>7, <1>10, <2>1, PaymentFits
<1>12. done \in DB /\ Money(done) <= (total - paid) + due /\ Money(done) \in Nat
  BY <1>8, <1>11, FinaliseMoney, MoneyBounds
<1>13. CASE Fee = 0
  BY <1>0, <1>5, <1>9, <1>12, <1>13
<1>14. CASE Fee # 0
  <2>1. Money(done) + Fee <= total
    BY <1>0, <1>5, <1>12
  <2>2. Money(done) + Fee < WordMod
    BY <1>0, <1>4, <1>5, <1>12, <2>1
  <2>3. Money(db') = Money(done) + Fee
    BY <1>4, <1>5, <1>9, <1>12, <1>14, <2>2, PaymentFits
  <2> QED BY <1>0, <2>1, <2>3
<1> QED BY <1>13, <1>14

\* A transaction without storage refunds creates no money: what Execute pays back,
\* the tip and what Finalise deletes never leave more in all accounts together than
\* there was before.
THEOREM SettlingMintsNothing == Spec /\ []Headroom => SettlementMintsNothing
<1> DEFINE A == tx # NoTx /\ tx' = NoTx /\ tainted = {} /\ db.refund = 0
                  => Supply(db'.accounts) <= Supply(tx.before)
<1>1. ASSUME EVMInv, EVMInv', GasNeverMinted, Conserved, Headroom, [Next]_vars
      PROVE  A
  <2>1. SUFFICES ASSUME tx # NoTx, tx' = NoTx, tainted = {}, db.refund = 0
                 PROVE  Supply(db'.accounts) <= Supply(tx.before)
    OBVIOUS
  <2>2. Settle
    BY <1>1, <2>1, StackAndTx
  <2>3. Money(db') <= Supply(tx.before)
    BY <1>1, <2>1, <2>2, SettleMoney DEF Headroom
  <2> QED BY <2>3 DEF Money
<1>2. EVMInv /\ EVMInv' /\ GasNeverMinted /\ Conserved /\ Headroom /\ [Next]_vars => [A]_vars
  BY <1>1
<1>3. Init => Conserved
  BY DEF Init, Conserved
<1> QED BY <1>2, <1>3, InitInv, NextInv, NextConserved, NoGasIsMinted, PTL
       DEF Spec, SettlementMintsNothing
=============================================================================
