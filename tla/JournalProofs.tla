---------------------------- MODULE JournalProofs ---------------------------
(***************************************************************************)
(* Facts about the operations of the StateDB, for every value of the       *)
(* constants: what each does to the types of the fields and to the cells,  *)
(* and what appending to the journal and undoing it do to the positions    *)
(* that can be returned to.  RevertToSnapshot is a recursive function of   *)
(* the journal: its facts are proved by induction, as the absence of a     *)
(* least counterexample.  The proofs about the components that use the     *)
(* StateDB rest on these facts.                                            *)
(***************************************************************************)
EXTENDS Cells, Recursion

(***************************************************************************)
(* The operations of StateOps keep the types of the struct's fields.       *)
(***************************************************************************)
\* New() and Reset() are well typed.
LEMMA NewType == New \in DB
BY StateAssumption DEF New, DB

\* getOrCreate returns an account.
LEMMA GetOrCreateType ==
    ASSUME NEW d \in DB, NEW a \in Addr
    PROVE  getOrCreate(d, a) \in Account
BY StateAssumption DEF getOrCreate, Exists, DB, EmptyAccount, Account, Word

\* Journaled keeps the type.
LEMMA JournaledType ==
    ASSUME NEW d \in DB, NEW acc \in Account, NEW e \in JournalEntry
    PROVE  Journaled(d, acc, e) \in DB
<1>1. e.addr \in Addr
  BY DEF JournalEntry, JBalance, JNonce, JCode, JStorage, JCreate, JSuicide
<1>2. Append(d.journal, e) \in Seq(JournalEntry)
  BY DEF DB
<1> HIDE DEF JournalEntry
<1> QED BY <1>1, <1>2 DEF Journaled, DB

\* The journaled setters keep the type.
LEMMA SettersType ==
    ASSUME NEW d \in DB, NEW a \in Addr
    PROVE  /\ \A val \in Word : SetBalance(d, a, val) \in DB
           /\ \A amount \in Word : AddBalance(d, a, amount) \in DB
           /\ \A amount \in Word : SubBalance(d, a, amount) \in DB
           /\ \A nonce \in Nat : SetNonce(d, a, nonce) \in DB
           /\ \A code \in Code : SetCode(d, a, code) \in DB
           /\ Suicide(d, a) \in DB
           /\ CreateAccount(d, a) \in DB
<1> DEFINE acc == getOrCreate(d, a)
<1>0. acc \in Account
  BY GetOrCreateType
<1>a. /\ acc.balance \in Word /\ acc.nonce \in Nat /\ acc.code \in Code
      /\ acc.suicide \in BOOLEAN
  BY <1>0 DEF Account
<1>b. /\ [kind |-> "balance", addr |-> a, old |-> acc.balance] \in JournalEntry
      /\ [kind |-> "nonce", addr |-> a, old |-> acc.nonce] \in JournalEntry
      /\ [kind |-> "code", addr |-> a, old |-> acc.code] \in JournalEntry
      /\ [kind |-> "suicide", addr |-> a, old |-> acc.suicide] \in JournalEntry
      /\ [kind |-> "create", addr |-> a] \in JournalEntry
  BY <1>a DEF JournalEntry, JBalance, JNonce, JCode, JStorage, JCreate, JSuicide
<1>1. \A val \in Word : SetBalance(d, a, val) \in DB
  <2> TAKE val \in Word
  <2>1. [acc EXCEPT !.balance = val] \in Account
    BY <1>0 DEF Account
  <2> QED BY <2>1, <1>b, JournaledType DEF SetBalance
<1>2. \A x \in Int : x % WordMod \in Word
  BY StateAssumption DEF Word
<1>3. \A amount \in Word : AddBalance(d, a, amount) \in DB
  BY <1>1, <1>2, <1>a DEF AddBalance, GetBalance, Word
<1>4. \A amount \in Word : SubBalance(d, a, amount) \in DB
  BY <1>1, <1>2, <1>a DEF SubBalance, GetBalance, Word
<1>5. \A nonce \in Nat : SetNonce(d, a, nonce) \in DB
  <2> TAKE nonce \in Nat
  <2>1. [acc EXCEPT !.nonce = nonce] \in Account
    BY <1>0 DEF Account
  <2> QED BY <2>1, <1>b, JournaledType DEF SetNonce
<1>6. \A code \in Code : SetCode(d, a, code) \in DB
  <2> TAKE code \in Code
  <2>1. [acc EXCEPT !.code = code] \in Account
    BY <1>0 DEF Account
  <2> QED BY <2>1, <1>b, JournaledType DEF SetCode
<1>7. Suicide(d, a) \in DB
  <2>1. [acc EXCEPT !.suicide = TRUE] \in Account
    BY <1>0 DEF Account
  <2> QED BY <2>1, <1>b, JournaledType DEF Suicide
<1>8. CreateAccount(d, a) \in DB
  <2>1. [EmptyAccount EXCEPT !.balance = GetBalance(d, a)] \in Account
    BY <1>a, StateAssumption DEF EmptyAccount, Account, GetBalance
  <2>2. Journaled(d, [EmptyAccount EXCEPT !.balance = GetBalance(d, a)],
                  [kind |-> "create", addr |-> a]) \in DB
    BY <2>1, <1>b, JournaledType
  <2> QED BY <2>2 DEF CreateAccount, DB
<1> QED BY <1>1, <1>3, <1>4, <1>5, <1>6, <1>7, <1>8

\* The storage setters keep the type.
LEMMA StorageType ==
    ASSUME NEW d \in DB, NEW a \in Addr, NEW s \in Slot, NEW value \in Val
    PROVE  SetStorage(d, a, s, value) \in DB /\ SetStorageDirect(d, a, s, value) \in DB
<1>1. [kind |-> "storage", addr |-> a, slot |-> s, old |-> d.storage[a][s]] \in JournalEntry
  BY DEF JournalEntry, JStorage, DB
<1>2. Append(d.journal, [kind |-> "storage", addr |-> a, slot |-> s,
                         old |-> d.storage[a][s]]) \in Seq(JournalEntry)
  BY <1>1 DEF DB
<1>3. /\ [d.storage EXCEPT ![a][s] = value] \in [Addr -> [Slot -> Val]]
      /\ \A w \in Val \cup {Unseen} :
            [d.origStorage EXCEPT ![a][s] = w] \in [Addr -> [Slot -> Val \cup {Unseen}]]
      /\ d.storage[a][s] \in Val
      /\ d.origStorage[a][s] \in Val \cup {Unseen}
  BY DEF DB
<1> QED BY <1>2, <1>3 DEF SetStorage, SetStorageDirect, DB

\* Replacing one account keeps the type.
LEMMA SetAccountType ==
    ASSUME NEW d \in DB, NEW a \in Addr, NEW acc \in Account
    PROVE  SetAccount(d, a, acc) \in DB
BY DEF SetAccount, DB

\* Undoing a journal entry keeps the type; so does dropping the entry.
LEMMA UndoType ==
    ASSUME NEW d \in DB, NEW e \in JournalEntry
    PROVE  Undo(d, e) \in DB
<1>1. CASE e \in JStorage
  BY <1>1 DEF JStorage, Undo, DB
<1>2. CASE e \in JCreate
  BY <1>2 DEF JCreate, Undo, DB
<1>3. CASE e \in JBalance
  <2>1. e.kind = "balance" /\ e.addr \in Addr /\ e.old \in Word
    BY <1>3 DEF JBalance
  <2>2. CASE ~ Exists(d, e.addr)
    BY <2>1, <2>2 DEF Undo
  <2>3. CASE Exists(d, e.addr)
    <3>1. d.accounts[e.addr] \in Account
      BY <2>1, <2>3 DEF Exists, DB
    <3>2. [d.accounts[e.addr] EXCEPT !.balance = e.old] \in Account
      BY <2>1, <3>1 DEF Account
    <3>3. Undo(d, e) = SetAccount(d, e.addr, [d.accounts[e.addr] EXCEPT !.balance = e.old])
      BY <2>1, <2>3 DEF Undo, SetAccount
    <3> QED BY <2>1, <3>2, <3>3, SetAccountType
  <2> QED BY <2>2, <2>3
<1>4. CASE e \in JNonce
  <2>1. e.kind = "nonce" /\ e.addr \in Addr /\ e.old \in Nat
    BY <1>4 DEF JNonce
  <2>2. CASE ~ Exists(d, e.addr)
    BY <2>1, <2>2 DEF Undo
  <2>3. CASE Exists(d, e.addr)
    <3>1. d.accounts[e.addr] \in Account
      BY <2>1, <2>3 DEF Exists, DB
    <3>2. [d.accounts[e.addr] EXCEPT !.nonce = e.old] \in Account
      BY <2>1, <3>1 DEF Account
    <3>3. Undo(d, e) = SetAccount(d, e.addr, [d.accounts[e.addr] EXCEPT !.nonce = e.old])
      BY <2>1, <2>3 DEF Undo, SetAccount
    <3> QED BY <2>1, <3>2, <3>3, SetAccountType
  <2> QED BY <2>2, <2>3
<1>5. CASE e \in JCode
  <2>1. e.kind = "code" /\ e.addr \in Addr /\ e.old \in Code
    BY <1>5 DEF JCode
  <2>2. CASE ~ Exists(d, e.addr)
    BY <2>1, <2>2 DEF Undo
  <2>3. CASE Exists(d, e.addr)
    <3>1. d.accounts[e.addr] \in Account
      BY <2>1, <2>3 DEF Exists, DB
    <3>2. [d.accounts[e.addr] EXCEPT !.code = e.old] \in Account
      BY <2>1, <3>1 DEF Account
    <3>3. Undo(d, e) = SetAccount(d, e.addr, [d.accounts[e.addr] EXCEPT !.code = e.old])
      BY <2>1, <2>3 DEF Undo, SetAccount
    <3> QED BY <2>1, <3>2, <3>3, SetAccountType
  <2> QED BY <2>2, <2>3
<1>6. CASE e \in JSuicide
  <2>1. e.kind = "suicide" /\ e.addr \in Addr /\ e.old \in BOOLEAN
    BY <1>6 DEF JSuicide
  <2>2. CASE ~ Exists(d, e.addr)
    BY <2>1, <2>2 DEF Undo
  <2>3. CASE Exists(d, e.addr)
    <3>1. d.accounts[e.addr] \in Account
      BY <2>1, <2>3 DEF Exists, DB
    <3>2. [d.accounts[e.addr] EXCEPT !.suicide = e.old] \in Account
      BY <2>1, <3>1 DEF Account
    <3>3. Undo(d, e) = SetAccount(d, e.addr, [d.accounts[e.addr] EXCEPT !.suicide = e.old])
      BY <2>1, <2>3 DEF Undo, SetAccount
    <3> QED BY <2>1, <3>2, <3>3, SetAccountType
  <2> QED BY <2>2, <2>3
<1> QED BY <1>1, <1>2, <1>3, <1>4, <1>5, <1>6 DEF JournalEntry

\* One iteration of RevertToSnapshot's loop keeps the type.
LEMMA UndoLastType ==
    ASSUME NEW d \in DB, Len(d.journal) > 0
    PROVE  UndoLast(d) \in DB
<1> DEFINE n == Len(d.journal)
<1> DEFINE u == Undo(d, d.journal[n])
<1>1. d.journal \in Seq(JournalEntry) /\ n \in Nat /\ d.journal[n] \in JournalEntry
  BY DEF DB
<1>2. u \in DB
  BY <1>1, UndoType
<1>3. u.journal \in Seq(JournalEntry)
  BY <1>2 DEF DB
<1>4. u.journal = d.journal
  BY <1>1 DEF Undo, DB, JournalEntry, JBalance, JNonce, JCode, JStorage, JCreate, JSuicide
<1>5. SubSeq(d.journal, 1, n - 1) \in Seq(JournalEntry)
  BY <1>1
<1> HIDE DEF n, u
<1>6. [u EXCEPT !.journal = SubSeq(u.journal, 1, n - 1)] \in DB
  BY <1>2, <1>4, <1>5 DEF DB
<1> QED BY <1>6 DEF UndoLast, n, u

\* The other operations keep the type.
LEMMA OtherOpsType ==
    ASSUME NEW d \in DB
    PROVE  /\ \A a \in Addr : WarmAddress(d, a) \in DB
           /\ \A a \in Addr, s \in Slot : WarmSlot(d, a, s) \in DB
           /\ \A a \in Addr : AddLog(d, a) \in DB
           /\ \A gas \in Nat : AddRefund(d, gas) \in DB /\ SubRefund(d, gas) \in DB
           /\ \A a \in Addr, acc \in Account : SetAccount(d, a, acc) \in DB
           /\ Snapshot(d) \in DB
           /\ Finalise(d) \in DB
           /\ Reset(d) \in DB
<1>1. \A a \in Addr : WarmAddress(d, a) \in DB
  BY DEF WarmAddress, DB
<1>2. \A a \in Addr, s \in Slot : WarmSlot(d, a, s) \in DB
  <2> TAKE a \in Addr, s \in Slot
  <2>1. d.accessedSlots \cup {<<a, s>>} \in SUBSET (Addr \X Slot)
    BY DEF DB
  <2> QED BY <2>1 DEF WarmSlot, DB
<1>3. \A a \in Addr : AddLog(d, a) \in DB
  <2> TAKE a \in Addr
  <2>1. Append(d.logs, a) \in Seq(Addr)
    BY DEF DB
  <2> QED BY <2>1 DEF AddLog, DB
<1>4. \A gas \in Nat : AddRefund(d, gas) \in DB /\ SubRefund(d, gas) \in DB
  <2> TAKE gas \in Nat
  <2>1. /\ d.refund + gas \in Nat
        /\ (IF gas > d.refund THEN 0 ELSE d.refund - gas) \in Nat
    BY DEF DB
  <2>2. \A r \in Nat : [d EXCEPT !.refund = r] \in DB
    BY DEF DB
  <2> QED BY <2>1, <2>2 DEF AddRefund, SubRefund
<1>5. \A a \in Addr, acc \in Account : SetAccount(d, a, acc) \in DB
  BY SetAccountType
<1>6. Snapshot(d) \in DB
  <2>1. Len(d.journal) \in Nat
    BY DEF DB
  <2>2. Append(d.snapshots, Len(d.journal)) \in Seq(Nat)
    BY <2>1 DEF DB
  <2> QED BY <2>2 DEF Snapshot, DB
<1>7. Finalise(d) \in DB
  <2> DEFINE A == [a \in Addr |-> IF HasSuicided(d, a) THEN NoAccount ELSE d.accounts[a]]
  <2> DEFINE S == [a \in Addr |-> IF HasSuicided(d, a)
                                  THEN [s \in Slot |-> Zero] ELSE d.storage[a]]
  <2>1. A \in [Addr -> Account \cup {NoAccount}]
    BY DEF DB
  <2>2. S \in [Addr -> [Slot -> Val]]
    BY StateAssumption DEF DB
  <2> DEFINE nil == << >>
  <2>3. Finalise(d) = [d EXCEPT !.accounts = A, !.storage = S, !.journal = nil,
                                !.snapshots = nil, !.createdInTx = {}]
    BY DEF Finalise
  <2>4. nil \in Seq(JournalEntry) /\ nil \in Seq(Nat)
    OBVIOUS
  <2> HIDE DEF A, S, nil
  <2> QED BY <2>1, <2>2, <2>3, <2>4 DEF DB
<1>8. Reset(d) \in DB
  BY NewType DEF Reset, DB
<1> QED BY <1>1, <1>2, <1>3, <1>4, <1>5, <1>6, <1>7, <1>8

\* What is read from a cell has the cell's type.
LEMMA ReadType ==
    ASSUME NEW d \in DB, NEW c \in Cell
    PROVE  Read(d, c) \in ValueOf(c)
<1>1. CASE c \in AccountCell
  <2>1. c.addr \in Addr /\ getOrCreate(d, c.addr) \in Account
    BY <1>1, GetOrCreateType DEF AccountCell
  <2> QED BY <1>1, <2>1 DEF AccountCell, AccountField, Read, ValueOf, Account,
                GetBalance, GetNonce, GetCode, HasSuicided
<1>2. CASE c \in CreatedCell
  <2>1. c.field = "created"
    BY <1>2 DEF CreatedCell
  <2>2. ValueOf(c) = BOOLEAN
    BY <2>1 DEF ValueOf
  <2>3. Read(d, c) = CreatedInTx(d, c.addr)
    BY <2>1 DEF Read
  <2>4. CreatedInTx(d, c.addr) \in BOOLEAN
    BY DEF CreatedInTx
  <2> QED BY <2>2, <2>3, <2>4
<1>3. CASE c \in StorageCell
  BY <1>3 DEF StorageCell, Read, ValueOf, GetStorage, DB
<1> QED BY <1>1, <1>2, <1>3 DEF Cell
-----------------------------------------------------------------------------
(***************************************************************************)
(* What the operations journal.  Logs(d, d2, e): going from d to d2        *)
(* appends e to the journal, changes no cell that e does not touch, and e  *)
(* keeps the value of the cell it records.                                 *)
(***************************************************************************)
Logs(d, d2, e) ==
    /\ d2.journal = Append(d.journal, e)
    /\ d2.snapshots = d.snapshots
    /\ \A c \in Cell : ~ Touches(e, c) => Read(d2, c) = Read(d, c)
    /\ \A c \in Cell : Records(e, c) => e.old = Read(d, c)
    /\ \A a \in Addr : Exists(d, a) => Exists(d2, a)
    /\ \A c \in AccountCell : Records(e, c) => Exists(d2, c.addr)

\* Replacing the account of e's address by one that differs from it only in the
\* field e records is logged by e.
LEMMA JournaledLogs ==
    ASSUME NEW d \in DB, NEW a \in Addr, NEW acc \in Account, NEW e,
           e.addr = a, e.kind \in AccountField,
           e.kind = "balance" => e.old = getOrCreate(d, a).balance,
           e.kind = "nonce" => e.old = getOrCreate(d, a).nonce,
           e.kind = "code" => e.old = getOrCreate(d, a).code,
           e.kind = "suicide" => e.old = getOrCreate(d, a).suicide,
           e.kind # "balance" => acc.balance = getOrCreate(d, a).balance,
           e.kind # "nonce" => acc.nonce = getOrCreate(d, a).nonce,
           e.kind # "code" => acc.code = getOrCreate(d, a).code,
           e.kind # "suicide" => acc.suicide = getOrCreate(d, a).suicide
    PROVE  Logs(d, Journaled(d, acc, e), e)
<1> DEFINE d2 == Journaled(d, acc, e)
<1>1. /\ d2.journal = Append(d.journal, e)
      /\ d2.snapshots = d.snapshots
      /\ d2.storage = d.storage
      /\ d2.createdInTx = d.createdInTx
      /\ d2.accounts = [d.accounts EXCEPT ![a] = acc]
  BY DEF Journaled, DB
<1> HIDE DEF d2
<1>2. d2.accounts[a] = acc /\ \A b \in Addr : b # a => d2.accounts[b] = d.accounts[b]
  BY <1>1 DEF DB
<1>3. acc # NoAccount
  BY NoAccountAssumption
<1>4. getOrCreate(d2, a) = acc /\ \A b \in Addr : b # a => getOrCreate(d2, b) = getOrCreate(d, b)
  BY <1>2, <1>3 DEF getOrCreate, Exists
<1>5. \A b \in Addr : Exists(d, b) => Exists(d2, b)
  BY <1>2, <1>3 DEF Exists
<1>6. \A c \in AccountCell : Records(e, c) => Exists(d2, c.addr)
  BY <1>2, <1>3 DEF Exists, Records
<1>7. ASSUME NEW c \in Cell
      PROVE  (~ Touches(e, c) => Read(d2, c) = Read(d, c)) /\ (Records(e, c) => e.old = Read(d, c))
  <2>1. CASE c \in AccountCell
    <3>1. c.addr \in Addr /\ c.field \in AccountField
      BY <2>1 DEF AccountCell
    <3>2. CASE c.addr # a
      BY <3>1, <3>2, <1>4 DEF Touches, Records, Read, AccountField,
            GetBalance, GetNonce, GetCode, HasSuicided
    <3>3. CASE c.addr = a
      BY <3>1, <3>3, <1>4 DEF Touches, Records, Read, AccountField,
            GetBalance, GetNonce, GetCode, HasSuicided
    <3> QED BY <3>2, <3>3
  <2>2. CASE c \in CreatedCell
    <3>1. c.field = "created"
      BY <2>2 DEF CreatedCell
    <3>2. Read(d2, c) = CreatedInTx(d2, c.addr) /\ Read(d, c) = CreatedInTx(d, c.addr)
      BY <3>1 DEF Read
    <3>3. CreatedInTx(d2, c.addr) = CreatedInTx(d, c.addr)
      BY <1>1 DEF CreatedInTx
    <3> QED BY <3>1, <3>2, <3>3 DEF Records, AccountField
  <2>3. CASE c \in StorageCell
    BY <2>3, <1>1 DEF StorageCell, Records, Read, AccountField, GetStorage
  <2> QED BY <2>1, <2>2, <2>3 DEF Cell
<1> QED BY <1>1, <1>5, <1>6, <1>7 DEF Logs, d2

\* Every account setter logs one entry.
LEMMA SettersLog ==
    ASSUME NEW d \in DB, NEW a \in Addr
    PROVE  /\ \A val \in Word : \E e \in JournalEntry \ JCreate : Logs(d, SetBalance(d, a, val), e)
           /\ \A nonce \in Nat : \E e \in JournalEntry \ JCreate : Logs(d, SetNonce(d, a, nonce), e)
           /\ \A code \in Code : \E e \in JournalEntry \ JCreate : Logs(d, SetCode(d, a, code), e)
           /\ \E e \in JournalEntry \ JCreate : Logs(d, Suicide(d, a), e)
<1> DEFINE acc == getOrCreate(d, a)
<1>0. acc \in Account
  BY GetOrCreateType
<1>1. \A val \in Word : \E e \in JournalEntry \ JCreate : Logs(d, SetBalance(d, a, val), e)
  <2> TAKE val \in Word
  <2> DEFINE e == [kind |-> "balance", addr |-> a, old |-> acc.balance]
  <2>1. e \in JournalEntry \ JCreate
    BY <1>0 DEF Account, JournalEntry, JBalance, JCreate
  <2> DEFINE new == [acc EXCEPT !.balance = val]
  <2>2. /\ new \in Account /\ new.nonce = acc.nonce /\ new.code = acc.code
        /\ new.suicide = acc.suicide
    BY <1>0 DEF Account
  <2>3. e.kind = "balance" /\ e.addr = a /\ e.old = acc.balance
    OBVIOUS
  <2>4. SetBalance(d, a, val) = Journaled(d, new, e)
    BY DEF SetBalance
  <2> HIDE DEF new, e
  <2>5. Logs(d, Journaled(d, new, e), e)
    BY <2>2, <2>3, JournaledLogs DEF AccountField
  <2> QED BY <2>1, <2>4, <2>5
<1>2. \A nonce \in Nat : \E e \in JournalEntry \ JCreate : Logs(d, SetNonce(d, a, nonce), e)
  <2> TAKE nonce \in Nat
  <2> DEFINE e == [kind |-> "nonce", addr |-> a, old |-> acc.nonce]
  <2>1. e \in JournalEntry \ JCreate
    BY <1>0 DEF Account, JournalEntry, JNonce, JCreate
  <2> DEFINE new == [acc EXCEPT !.nonce = nonce]
  <2>2. /\ new \in Account /\ new.balance = acc.balance /\ new.code = acc.code
        /\ new.suicide = acc.suicide
    BY <1>0 DEF Account
  <2>3. e.kind = "nonce" /\ e.addr = a /\ e.old = acc.nonce
    OBVIOUS
  <2>4. SetNonce(d, a, nonce) = Journaled(d, new, e)
    BY DEF SetNonce
  <2> HIDE DEF new, e
  <2>5. Logs(d, Journaled(d, new, e), e)
    BY <2>2, <2>3, JournaledLogs DEF AccountField
  <2> QED BY <2>1, <2>4, <2>5
<1>3. \A code \in Code : \E e \in JournalEntry \ JCreate : Logs(d, SetCode(d, a, code), e)
  <2> TAKE code \in Code
  <2> DEFINE e == [kind |-> "code", addr |-> a, old |-> acc.code]
  <2>1. e \in JournalEntry \ JCreate
    BY <1>0 DEF Account, JournalEntry, JCode, JCreate
  <2> DEFINE new == [acc EXCEPT !.code = code]
  <2>2. /\ new \in Account /\ new.balance = acc.balance /\ new.nonce = acc.nonce
        /\ new.suicide = acc.suicide
    BY <1>0 DEF Account
  <2>3. e.kind = "code" /\ e.addr = a /\ e.old = acc.code
    OBVIOUS
  <2>4. SetCode(d, a, code) = Journaled(d, new, e)
    BY DEF SetCode
  <2> HIDE DEF new, e
  <2>5. Logs(d, Journaled(d, new, e), e)
    BY <2>2, <2>3, JournaledLogs DEF AccountField
  <2> QED BY <2>1, <2>4, <2>5
<1>4. \E e \in JournalEntry \ JCreate : Logs(d, Suicide(d, a), e)
  <2> DEFINE e == [kind |-> "suicide", addr |-> a, old |-> acc.suicide]
  <2>1. e \in JournalEntry \ JCreate
    BY <1>0 DEF Account, JournalEntry, JSuicide, JCreate
  <2> DEFINE new == [acc EXCEPT !.suicide = TRUE]
  <2>2. /\ new \in Account /\ new.balance = acc.balance /\ new.nonce = acc.nonce
        /\ new.code = acc.code
    BY <1>0 DEF Account
  <2>3. e.kind = "suicide" /\ e.addr = a /\ e.old = acc.suicide
    OBVIOUS
  <2>4. Suicide(d, a) = Journaled(d, new, e)
    BY DEF Suicide
  <2> HIDE DEF new, e
  <2>5. Logs(d, Journaled(d, new, e), e)
    BY <2>2, <2>3, JournaledLogs DEF AccountField
  <2> QED BY <2>1, <2>4, <2>5
<1> QED BY <1>1, <1>2, <1>3, <1>4

\* AddBalance and SubBalance wrap, and are SetBalance of the wrapped sum.
LEMMA ArithmeticLogs ==
    ASSUME NEW d \in DB, NEW a \in Addr, NEW amount \in Word
    PROVE  /\ \E e \in JournalEntry \ JCreate : Logs(d, AddBalance(d, a, amount), e)
           /\ \E e \in JournalEntry \ JCreate : Logs(d, SubBalance(d, a, amount), e)
<1>1. GetBalance(d, a) \in Word
  BY GetOrCreateType DEF GetBalance, Account
<1>2. /\ (GetBalance(d, a) + amount) % WordMod \in Word
      /\ (GetBalance(d, a) - amount) % WordMod \in Word
  BY <1>1, StateAssumption DEF Word
<1> QED BY <1>2, SettersLog DEF AddBalance, SubBalance

\* SetStorage logs one entry.
LEMMA SetStorageLogs ==
    ASSUME NEW d \in DB, NEW a \in Addr, NEW s \in Slot, NEW value \in Val
    PROVE  \E e \in JournalEntry \ JCreate : Logs(d, SetStorage(d, a, s, value), e)
<1> DEFINE e == [kind |-> "storage", addr |-> a, slot |-> s, old |-> d.storage[a][s]]
<1> DEFINE d2 == SetStorage(d, a, s, value)
<1>1. e \in JournalEntry \ JCreate
  BY DEF JournalEntry, JStorage, JCreate, DB
<1>2. /\ d2.journal = Append(d.journal, e)
      /\ d2.snapshots = d.snapshots
      /\ d2.accounts = d.accounts
      /\ d2.createdInTx = d.createdInTx
      /\ d2.storage = [d.storage EXCEPT ![a][s] = value]
  BY DEF SetStorage, DB
<1>3. e.kind = "storage" /\ e.addr = a /\ e.slot = s /\ e.old = d.storage[a][s]
  OBVIOUS
<1> HIDE DEF e, d2
<1>4. \A b \in Addr, t \in Slot : (b # a \/ t # s) => d2.storage[b][t] = d.storage[b][t]
  BY <1>2 DEF DB
<1>5. \A b \in Addr : getOrCreate(d2, b) = getOrCreate(d, b) /\ Exists(d2, b) = Exists(d, b)
  BY <1>2 DEF getOrCreate, Exists
<1>6. ASSUME NEW c \in Cell
      PROVE  (~ Touches(e, c) => Read(d2, c) = Read(d, c)) /\ (Records(e, c) => e.old = Read(d, c))
  <2>1. CASE c \in AccountCell
    BY <2>1, <1>3, <1>5 DEF AccountCell, AccountField, Records, Read,
          GetBalance, GetNonce, GetCode, HasSuicided
  <2>2. CASE c \in CreatedCell
    <3>1. c.field = "created"
      BY <2>2 DEF CreatedCell
    <3>2. Read(d2, c) = CreatedInTx(d2, c.addr) /\ Read(d, c) = CreatedInTx(d, c.addr)
      BY <3>1 DEF Read
    <3>3. CreatedInTx(d2, c.addr) = CreatedInTx(d, c.addr)
      BY <1>2 DEF CreatedInTx
    <3> QED BY <3>1, <3>2, <3>3, <1>3 DEF Records
  <2>3. CASE c \in StorageCell
    <3>1. c.field = "storage" /\ c.addr \in Addr /\ c.slot \in Slot
      BY <2>3 DEF StorageCell
    <3>2. Read(d2, c) = d2.storage[c.addr][c.slot] /\ Read(d, c) = d.storage[c.addr][c.slot]
      BY <3>1 DEF Read, GetStorage
    <3> QED BY <3>1, <3>2, <1>3, <1>4 DEF Touches, Records
  <2> QED BY <2>1, <2>2, <2>3 DEF Cell
<1>7. \A c \in AccountCell : ~ Records(e, c)
  BY <1>3 DEF AccountCell, AccountField, Records
<1>8. Logs(d, d2, e)
  BY <1>2, <1>5, <1>6, <1>7 DEF Logs
<1> QED BY <1>1, <1>8 DEF d2

\* CreateAccount logs one creation.
LEMMA CreateLogs ==
    ASSUME NEW d \in DB, NEW a \in Addr
    PROVE  /\ [kind |-> "create", addr |-> a] \in JournalEntry
           /\ Logs(d, CreateAccount(d, a), [kind |-> "create", addr |-> a])
<1> DEFINE e == [kind |-> "create", addr |-> a]
<1> DEFINE d2 == CreateAccount(d, a)
<1> DEFINE acc == [EmptyAccount EXCEPT !.balance = GetBalance(d, a)]
<1>1. e \in JournalEntry
  BY DEF JournalEntry, JCreate
<1>2. acc \in Account
  BY GetOrCreateType, StateAssumption DEF EmptyAccount, Account, GetBalance
<1>3. /\ d2.journal = Append(d.journal, e)
      /\ d2.snapshots = d.snapshots
      /\ d2.storage = d.storage
      /\ d2.accounts = [d.accounts EXCEPT ![a] = acc]
      /\ d2.createdInTx = d.createdInTx \cup {a}
  BY DEF CreateAccount, Journaled, DB
<1>4. e.kind = "create" /\ e.addr = a
  OBVIOUS
<1> HIDE DEF e, d2, acc
<1>5. d2.accounts[a] = acc /\ \A b \in Addr : b # a => d2.accounts[b] = d.accounts[b]
  BY <1>3 DEF DB
<1>6. acc # NoAccount
  BY <1>2, NoAccountAssumption
<1>7. \A b \in Addr : Exists(d, b) => Exists(d2, b)
  BY <1>5, <1>6 DEF Exists
<1>8. \A c \in Cell : ~ Records(e, c)
  BY <1>4 DEF Records, Cell, AccountCell, CreatedCell, StorageCell, AccountField
<1>9. ASSUME NEW c \in Cell, ~ Touches(e, c)
      PROVE  Read(d2, c) = Read(d, c)
  <2>1. CASE c \in AccountCell
    <3>1. c.addr \in Addr /\ c.field \in AccountField /\ c.addr # a
      BY <2>1, <1>4, <1>9 DEF AccountCell, AccountField, Touches, Resets
    <3>2. getOrCreate(d2, c.addr) = getOrCreate(d, c.addr)
      BY <3>1, <1>5 DEF getOrCreate, Exists
    <3> QED BY <3>1, <3>2 DEF AccountField, Read, GetBalance, GetNonce, GetCode, HasSuicided
  <2>2. CASE c \in CreatedCell
    <3>1. c.field = "created" /\ c.addr # a
      BY <2>2, <1>4, <1>9 DEF CreatedCell, Touches, Resets
    <3>2. Read(d2, c) = CreatedInTx(d2, c.addr) /\ Read(d, c) = CreatedInTx(d, c.addr)
      BY <3>1 DEF Read
    <3>3. CreatedInTx(d2, c.addr) = CreatedInTx(d, c.addr)
      BY <1>3, <3>1 DEF CreatedInTx
    <3> QED BY <3>2, <3>3
  <2>3. CASE c \in StorageCell
    BY <2>3, <1>3 DEF StorageCell, Read, GetStorage
  <2> QED BY <2>1, <2>2, <2>3 DEF Cell
<1>10. \A c \in AccountCell : ~ Records(e, c)
  BY <1>8 DEF Cell
<1> QED BY <1>1, <1>3, <1>7, <1>8, <1>9, <1>10 DEF Logs, d2, e
-----------------------------------------------------------------------------
(***************************************************************************)
(* What undoing one entry does to the cells.                               *)
(***************************************************************************)
\* Replacing an account changes the account cells of its address only.
LEMMA SetAccountReads ==
    ASSUME NEW d \in DB, NEW a \in Addr, NEW acc, acc # NoAccount
    PROVE  /\ \A b \in Addr : getOrCreate(SetAccount(d, a, acc), b)
                                 = IF b = a THEN acc ELSE getOrCreate(d, b)
           /\ \A b \in Addr : Exists(SetAccount(d, a, acc), b) <=> (b = a \/ Exists(d, b))
           /\ \A c : c.field \in {"created", "storage"} =>
                        Read(SetAccount(d, a, acc), c) = Read(d, c)
<1> DEFINE d2 == SetAccount(d, a, acc)
<1>1. /\ d2.accounts = [d.accounts EXCEPT ![a] = acc]
      /\ d2.storage = d.storage
      /\ d2.createdInTx = d.createdInTx
  BY DEF SetAccount, DB
<1> HIDE DEF d2
<1>2. d2.accounts[a] = acc /\ \A b \in Addr : b # a => d2.accounts[b] = d.accounts[b]
  BY <1>1 DEF DB
<1>3. \A b \in Addr : getOrCreate(d2, b) = IF b = a THEN acc ELSE getOrCreate(d, b)
  BY <1>2 DEF getOrCreate, Exists
<1>4. \A b \in Addr : Exists(d2, b) <=> (b = a \/ Exists(d, b))
  BY <1>2 DEF Exists
<1>5. ASSUME NEW c, c.field \in {"created", "storage"}
      PROVE  Read(d2, c) = Read(d, c)
  <2>1. CASE c.field = "storage"
    BY <2>1, <1>1 DEF Read, GetStorage
  <2>2. CASE c.field = "created"
    <3>1. Read(d2, c) = CreatedInTx(d2, c.addr) /\ Read(d, c) = CreatedInTx(d, c.addr)
      BY <2>2 DEF Read
    <3>2. CreatedInTx(d2, c.addr) = CreatedInTx(d, c.addr)
      BY <1>1 DEF CreatedInTx
    <3> QED BY <3>1, <3>2
  <2> QED BY <1>5, <2>1, <2>2
<1> QED BY <1>3, <1>4, <1>5 DEF d2

\* Undoing e gives the cells e touches their old values, unless the account
\* they are in is missing, and changes no other cell.
LEMMA UndoReads ==
    ASSUME NEW d \in DB, NEW e \in JournalEntry, NEW c \in Cell,
           c \in AccountCell /\ Records(e, c) => Exists(d, c.addr)
    PROVE  /\ Read(Undo(d, e), c) = IF Touches(e, c) THEN Old(e, c) ELSE Read(d, c)
           /\ e.addr \in Addr
           /\ \A a \in Addr : Exists(d, a) /\ (e.kind = "create" => a # e.addr)
                                => Exists(Undo(d, e), a)
<1> DEFINE d2 == Undo(d, e)
<1>1. CASE e \in JBalance
  <2>1. e.kind = "balance" /\ e.addr \in Addr
    BY <1>1 DEF JBalance
  <2>2. CASE ~ Exists(d, e.addr)
    <3>1. Undo(d, e) = d
      BY <2>1, <2>2 DEF Undo
    <3>2. ~ Touches(e, c)
      BY <2>1, <2>2 DEF Touches, Records, Resets, Cell, AccountCell, CreatedCell, StorageCell,
            AccountField
    <3> QED BY <2>1, <3>1, <3>2
  <2>3. CASE Exists(d, e.addr)
    <3> DEFINE acc == [d.accounts[e.addr] EXCEPT !.balance = e.old]
    <3>1. d.accounts[e.addr] \in Account
      BY <2>1, <2>3 DEF Exists, DB
    <3>2. d2 = SetAccount(d, e.addr, acc)
      BY <2>1, <2>3 DEF Undo, SetAccount
    <3>3. acc \in Account /\ acc.balance = e.old
          /\ acc.nonce = d.accounts[e.addr].nonce /\ acc.code = d.accounts[e.addr].code /\ acc.suicide = d.accounts[e.addr].suicide
      BY <1>1, <3>1 DEF Account, JBalance
    <3> HIDE DEF acc, d2
    <3>4. acc # NoAccount /\ getOrCreate(d, e.addr) = d.accounts[e.addr]
      BY <3>3, <2>3, NoAccountAssumption DEF getOrCreate
    <3>5. ASSUME c \in AccountCell
          PROVE  Read(d2, c) = IF Touches(e, c) THEN Old(e, c) ELSE Read(d, c)
      <4>1. c.addr \in Addr /\ c.field \in AccountField
        BY <3>5 DEF AccountCell
      <4>2. getOrCreate(d2, c.addr) = IF c.addr = e.addr THEN acc ELSE getOrCreate(d, c.addr)
        BY <2>1, <3>2, <3>4, <4>1, SetAccountReads
      <4>3. CASE c.addr # e.addr
        <5>1. ~ Touches(e, c)
          BY <4>3 DEF Touches, Records, Resets
        <5>2. Read(d2, c) = Read(d, c)
          BY <4>1, <4>2, <4>3 DEF Read, AccountField, GetBalance, GetNonce, GetCode, HasSuicided
        <5> QED BY <5>1, <5>2
      <4>4. CASE c.addr = e.addr /\ c.field = "balance"
        <5>1. Touches(e, c) /\ Old(e, c) = e.old
          BY <2>1, <4>4 DEF Touches, Records, Resets, Old
        <5>2. Read(d2, c) = getOrCreate(d2, c.addr).balance
          BY <4>4 DEF Read, GetBalance
        <5> QED BY <3>3, <4>2, <4>4, <5>1, <5>2
      <4>5. CASE c.addr = e.addr /\ c.field # "balance"
        <5>1. ~ Touches(e, c)
          BY <2>1, <4>5 DEF Touches, Records, Resets
        <5>2. Read(d2, c) = Read(d, c)
          BY <3>3, <3>4, <4>1, <4>2, <4>5
             DEF Read, AccountField, GetBalance, GetNonce, GetCode, HasSuicided
        <5> QED BY <5>1, <5>2
      <4> QED BY <4>3, <4>4, <4>5
    <3>6. ASSUME c \in CreatedCell \cup StorageCell
          PROVE  Read(d2, c) = IF Touches(e, c) THEN Old(e, c) ELSE Read(d, c)
      <4>1. c.field \in {"created", "storage"} /\ ~ Touches(e, c)
        BY <3>6, <2>1 DEF CreatedCell, StorageCell, Touches, Records, Resets
      <4>2. Read(d2, c) = Read(d, c)
        BY <2>1, <3>2, <3>4, <4>1, SetAccountReads
      <4> QED BY <4>1, <4>2
    <3>7. \A a \in Addr : Exists(d, a) => Exists(d2, a)
      BY <2>1, <3>2, <3>4, SetAccountReads DEF Exists
    <3> QED BY <3>5, <3>6, <3>7, <2>1 DEF Cell, d2
  <2> QED BY <2>2, <2>3
<1>2. CASE e \in JNonce
  <2>1. e.kind = "nonce" /\ e.addr \in Addr
    BY <1>2 DEF JNonce
  <2>2. CASE ~ Exists(d, e.addr)
    <3>1. Undo(d, e) = d
      BY <2>1, <2>2 DEF Undo
    <3>2. ~ Touches(e, c)
      BY <2>1, <2>2 DEF Touches, Records, Resets, Cell, AccountCell, CreatedCell, StorageCell,
            AccountField
    <3> QED BY <2>1, <3>1, <3>2
  <2>3. CASE Exists(d, e.addr)
    <3> DEFINE acc == [d.accounts[e.addr] EXCEPT !.nonce = e.old]
    <3>1. d.accounts[e.addr] \in Account
      BY <2>1, <2>3 DEF Exists, DB
    <3>2. d2 = SetAccount(d, e.addr, acc)
      BY <2>1, <2>3 DEF Undo, SetAccount
    <3>3. acc \in Account /\ acc.nonce = e.old
          /\ acc.balance = d.accounts[e.addr].balance /\ acc.code = d.accounts[e.addr].code /\ acc.suicide = d.accounts[e.addr].suicide
      BY <1>2, <3>1 DEF Account, JNonce
    <3> HIDE DEF acc, d2
    <3>4. acc # NoAccount /\ getOrCreate(d, e.addr) = d.accounts[e.addr]
      BY <3>3, <2>3, NoAccountAssumption DEF getOrCreate
    <3>5. ASSUME c \in AccountCell
          PROVE  Read(d2, c) = IF Touches(e, c) THEN Old(e, c) ELSE Read(d, c)
      <4>1. c.addr \in Addr /\ c.field \in AccountField
        BY <3>5 DEF AccountCell
      <4>2. getOrCreate(d2, c.addr) = IF c.addr = e.addr THEN acc ELSE getOrCreate(d, c.addr)
        BY <2>1, <3>2, <3>4, <4>1, SetAccountReads
      <4>3. CASE c.addr # e.addr
        <5>1. ~ Touches(e, c)
          BY <4>3 DEF Touches, Records, Resets
        <5>2. Read(d2, c) = Read(d, c)
          BY <4>1, <4>2, <4>3 DEF Read, AccountField, GetBalance, GetNonce, GetCode, HasSuicided
        <5> QED BY <5>1, <5>2
      <4>4. CASE c.addr = e.addr /\ c.field = "nonce"
        <5>1. Touches(e, c) /\ Old(e, c) = e.old
          BY <2>1, <4>4 DEF Touches, Records, Resets, Old
        <5>2. Read(d2, c) = getOrCreate(d2, c.addr).nonce
          BY <4>4 DEF Read, GetNonce
        <5> QED BY <3>3, <4>2, <4>4, <5>1, <5>2
      <4>5. CASE c.addr = e.addr /\ c.field # "nonce"
        <5>1. ~ Touches(e, c)
          BY <2>1, <4>5 DEF Touches, Records, Resets
        <5>2. Read(d2, c) = Read(d, c)
          BY <3>3, <3>4, <4>1, <4>2, <4>5
             DEF Read, AccountField, GetBalance, GetNonce, GetCode, HasSuicided
        <5> QED BY <5>1, <5>2
      <4> QED BY <4>3, <4>4, <4>5
    <3>6. ASSUME c \in CreatedCell \cup StorageCell
          PROVE  Read(d2, c) = IF Touches(e, c) THEN Old(e, c) ELSE Read(d, c)
      <4>1. c.field \in {"created", "storage"} /\ ~ Touches(e, c)
        BY <3>6, <2>1 DEF CreatedCell, StorageCell, Touches, Records, Resets
      <4>2. Read(d2, c) = Read(d, c)
        BY <2>1, <3>2, <3>4, <4>1, SetAccountReads
      <4> QED BY <4>1, <4>2
    <3>7. \A a \in Addr : Exists(d, a) => Exists(d2, a)
      BY <2>1, <3>2, <3>4, SetAccountReads DEF Exists
    <3> QED BY <3>5, <3>6, <3>7, <2>1 DEF Cell, d2
  <2> QED BY <2>2, <2>3
<1>3. CASE e \in JCode
  <2>1. e.kind = "code" /\ e.addr \in Addr
    BY <1>3 DEF JCode
  <2>2. CASE ~ Exists(d, e.addr)
    <3>1. Undo(d, e) = d
      BY <2>1, <2>2 DEF Undo
    <3>2. ~ Touches(e, c)
      BY <2>1, <2>2 DEF Touches, Records, Resets, Cell, AccountCell, CreatedCell, StorageCell,
            AccountField
    <3> QED BY <2>1, <3>1, <3>2
  <2>3. CASE Exists(d, e.addr)
    <3> DEFINE acc == [d.accounts[e.addr] EXCEPT !.code = e.old]
    <3>1. d.accounts[e.addr] \in Account
      BY <2>1, <2>3 DEF Exists, DB
    <3>2. d2 = SetAccount(d, e.addr, acc)
      BY <2>1, <2>3 DEF Undo, SetAccount
    <3>3. acc \in Account /\ acc.code = e.old
          /\ acc.balance = d.accounts[e.addr].balance /\ acc.nonce = d.accounts[e.addr].nonce /\ acc.suicide = d.accounts[e.addr].suicide
      BY <1>3, <3>1 DEF Account, JCode
    <3> HIDE DEF acc, d2
    <3>4. acc # NoAccount /\ getOrCreate(d, e.addr) = d.accounts[e.addr]
      BY <3>3, <2>3, NoAccountAssumption DEF getOrCreate
    <3>5. ASSUME c \in AccountCell
          PROVE  Read(d2, c) = IF Touches(e, c) THEN Old(e, c) ELSE Read(d, c)
      <4>1. c.addr \in Addr /\ c.field \in AccountField
        BY <3>5 DEF AccountCell
      <4>2. getOrCreate(d2, c.addr) = IF c.addr = e.addr THEN acc ELSE getOrCreate(d, c.addr)
        BY <2>1, <3>2, <3>4, <4>1, SetAccountReads
      <4>3. CASE c.addr # e.addr
        <5>1. ~ Touches(e, c)
          BY <4>3 DEF Touches, Records, Resets
        <5>2. Read(d2, c) = Read(d, c)
          BY <4>1, <4>2, <4>3 DEF Read, AccountField, GetBalance, GetNonce, GetCode, HasSuicided
        <5> QED BY <5>1, <5>2
      <4>4. CASE c.addr = e.addr /\ c.field = "code"
        <5>1. Touches(e, c) /\ Old(e, c) = e.old
          BY <2>1, <4>4 DEF Touches, Records, Resets, Old
        <5>2. Read(d2, c) = getOrCreate(d2, c.addr).code
          BY <4>4 DEF Read, GetCode
        <5> QED BY <3>3, <4>2, <4>4, <5>1, <5>2
      <4>5. CASE c.addr = e.addr /\ c.field # "code"
        <5>1. ~ Touches(e, c)
          BY <2>1, <4>5 DEF Touches, Records, Resets
        <5>2. Read(d2, c) = Read(d, c)
          BY <3>3, <3>4, <4>1, <4>2, <4>5
             DEF Read, AccountField, GetBalance, GetNonce, GetCode, HasSuicided
        <5> QED BY <5>1, <5>2
      <4> QED BY <4>3, <4>4, <4>5
    <3>6. ASSUME c \in CreatedCell \cup StorageCell
          PROVE  Read(d2, c) = IF Touches(e, c) THEN Old(e, c) ELSE Read(d, c)
      <4>1. c.field \in {"created", "storage"} /\ ~ Touches(e, c)
        BY <3>6, <2>1 DEF CreatedCell, StorageCell, Touches, Records, Resets
      <4>2. Read(d2, c) = Read(d, c)
        BY <2>1, <3>2, <3>4, <4>1, SetAccountReads
      <4> QED BY <4>1, <4>2
    <3>7. \A a \in Addr : Exists(d, a) => Exists(d2, a)
      BY <2>1, <3>2, <3>4, SetAccountReads DEF Exists
    <3> QED BY <3>5, <3>6, <3>7, <2>1 DEF Cell, d2
  <2> QED BY <2>2, <2>3
<1>4. CASE e \in JSuicide
  <2>1. e.kind = "suicide" /\ e.addr \in Addr
    BY <1>4 DEF JSuicide
  <2>2. CASE ~ Exists(d, e.addr)
    <3>1. Undo(d, e) = d
      BY <2>1, <2>2 DEF Undo
    <3>2. ~ Touches(e, c)
      BY <2>1, <2>2 DEF Touches, Records, Resets, Cell, AccountCell, CreatedCell, StorageCell,
            AccountField
    <3> QED BY <2>1, <3>1, <3>2
  <2>3. CASE Exists(d, e.addr)
    <3> DEFINE acc == [d.accounts[e.addr] EXCEPT !.suicide = e.old]
    <3>1. d.accounts[e.addr] \in Account
      BY <2>1, <2>3 DEF Exists, DB
    <3>2. d2 = SetAccount(d, e.addr, acc)
      BY <2>1, <2>3 DEF Undo, SetAccount
    <3>3. acc \in Account /\ acc.suicide = e.old
          /\ acc.balance = d.accounts[e.addr].balance /\ acc.nonce = d.accounts[e.addr].nonce /\ acc.code = d.accounts[e.addr].code
      BY <1>4, <3>1 DEF Account, JSuicide
    <3> HIDE DEF acc, d2
    <3>4. acc # NoAccount /\ getOrCreate(d, e.addr) = d.accounts[e.addr]
      BY <3>3, <2>3, NoAccountAssumption DEF getOrCreate
    <3>5. ASSUME c \in AccountCell
          PROVE  Read(d2, c) = IF Touches(e, c) THEN Old(e, c) ELSE Read(d, c)
      <4>1. c.addr \in Addr /\ c.field \in AccountField
        BY <3>5 DEF AccountCell
      <4>2. getOrCreate(d2, c.addr) = IF c.addr = e.addr THEN acc ELSE getOrCreate(d, c.addr)
        BY <2>1, <3>2, <3>4, <4>1, SetAccountReads
      <4>3. CASE c.addr # e.addr
        <5>1. ~ Touches(e, c)
          BY <4>3 DEF Touches, Records, Resets
        <5>2. Read(d2, c) = Read(d, c)
          BY <4>1, <4>2, <4>3 DEF Read, AccountField, GetBalance, GetNonce, GetCode, HasSuicided
        <5> QED BY <5>1, <5>2
      <4>4. CASE c.addr = e.addr /\ c.field = "suicide"
        <5>1. Touches(e, c) /\ Old(e, c) = e.old
          BY <2>1, <4>4 DEF Touches, Records, Resets, Old
        <5>2. Read(d2, c) = getOrCreate(d2, c.addr).suicide
          BY <4>4 DEF Read, HasSuicided
        <5> QED BY <3>3, <4>2, <4>4, <5>1, <5>2
      <4>5. CASE c.addr = e.addr /\ c.field # "suicide"
        <5>1. ~ Touches(e, c)
          BY <2>1, <4>5 DEF Touches, Records, Resets
        <5>2. Read(d2, c) = Read(d, c)
          BY <3>3, <3>4, <4>1, <4>2, <4>5
             DEF Read, AccountField, GetBalance, GetNonce, GetCode, HasSuicided
        <5> QED BY <5>1, <5>2
      <4> QED BY <4>3, <4>4, <4>5
    <3>6. ASSUME c \in CreatedCell \cup StorageCell
          PROVE  Read(d2, c) = IF Touches(e, c) THEN Old(e, c) ELSE Read(d, c)
      <4>1. c.field \in {"created", "storage"} /\ ~ Touches(e, c)
        BY <3>6, <2>1 DEF CreatedCell, StorageCell, Touches, Records, Resets
      <4>2. Read(d2, c) = Read(d, c)
        BY <2>1, <3>2, <3>4, <4>1, SetAccountReads
      <4> QED BY <4>1, <4>2
    <3>7. \A a \in Addr : Exists(d, a) => Exists(d2, a)
      BY <2>1, <3>2, <3>4, SetAccountReads DEF Exists
    <3> QED BY <3>5, <3>6, <3>7, <2>1 DEF Cell, d2
  <2> QED BY <2>2, <2>3
<1>5. CASE e \in JStorage
  <2>1. e.kind = "storage" /\ e.addr \in Addr /\ e.slot \in Slot
    BY <1>5 DEF JStorage
  <2>2. /\ d2.accounts = d.accounts
        /\ d2.createdInTx = d.createdInTx
        /\ d2.storage = [d.storage EXCEPT ![e.addr][e.slot] = e.old]
    BY <2>1 DEF Undo, DB
  <2> HIDE DEF d2
  <2>3. \A a : getOrCreate(d2, a) = getOrCreate(d, a) /\ Exists(d2, a) = Exists(d, a)
    BY <2>2 DEF getOrCreate, Exists
  <2>4. CASE c \in AccountCell
    BY <2>1, <2>3, <2>4 DEF AccountCell, AccountField, Touches, Records, Resets, Read,
          GetBalance, GetNonce, GetCode, HasSuicided, d2
  <2>5. CASE c \in CreatedCell
    <3>1. c.field = "created"
      BY <2>5 DEF CreatedCell
    <3>2. Read(d2, c) = CreatedInTx(d2, c.addr) /\ Read(d, c) = CreatedInTx(d, c.addr)
      BY <3>1 DEF Read
    <3>3. CreatedInTx(d2, c.addr) = CreatedInTx(d, c.addr)
      BY <2>2 DEF CreatedInTx
    <3>4. ~ Touches(e, c)
      BY <3>1, <2>1 DEF Touches, Records, Resets
    <3> QED BY <2>1, <2>3, <3>2, <3>3, <3>4 DEF d2
  <2>6. CASE c \in StorageCell
    <3>1. c.field = "storage" /\ c.addr \in Addr /\ c.slot \in Slot
      BY <2>6 DEF StorageCell
    <3>2. Read(d2, c) = d2.storage[c.addr][c.slot] /\ Read(d, c) = d.storage[c.addr][c.slot]
      BY <3>1 DEF Read, GetStorage
    <3>3. d2.storage[c.addr][c.slot] = IF c.addr = e.addr /\ c.slot = e.slot
                                       THEN e.old ELSE d.storage[c.addr][c.slot]
      BY <2>1, <2>2, <3>1 DEF DB
    <3> QED BY <2>1, <2>3, <3>1, <3>2, <3>3 DEF Touches, Records, Resets, Old, d2
  <2> QED BY <2>4, <2>5, <2>6 DEF Cell
<1>6. CASE e \in JCreate
  <2>1. e.kind = "create" /\ e.addr \in Addr
    BY <1>6 DEF JCreate
  <2>2. /\ d2.accounts = [d.accounts EXCEPT ![e.addr] = NoAccount]
        /\ d2.createdInTx = d.createdInTx \ {e.addr}
        /\ d2.storage = d.storage
    BY <2>1 DEF Undo, DB
  <2> HIDE DEF d2
  <2>3. /\ d2.accounts[e.addr] = NoAccount
        /\ \A a \in Addr : a # e.addr => d2.accounts[a] = d.accounts[a]
    BY <2>1, <2>2 DEF DB
  <2>4. \A a \in Addr : getOrCreate(d2, a) = IF a = e.addr THEN EmptyAccount ELSE getOrCreate(d, a)
    BY <2>3 DEF getOrCreate, Exists
  <2>5. \A a \in Addr : Exists(d, a) /\ a # e.addr => Exists(d2, a)
    BY <2>3 DEF Exists
  <2>6. CASE c \in AccountCell
    <3>1. c.addr \in Addr /\ c.field \in AccountField
      BY <2>6 DEF AccountCell
    <3>2. Read(d2, c) = IF Touches(e, c) THEN Old(e, c) ELSE Read(d, c)
      <4>1. CASE c.addr # e.addr
        <5>1. ~ Touches(e, c)
          BY <4>1 DEF Touches, Records, Resets
        <5>2. Read(d2, c) = Read(d, c)
          BY <2>4, <3>1, <4>1 DEF AccountField, Read, GetBalance, GetNonce, GetCode, HasSuicided
        <5> QED BY <5>1, <5>2
      <4>2. CASE c.addr = e.addr
        <5>1. Touches(e, c) /\ Old(e, c) = Default(c)
          BY <2>1, <3>1, <4>2 DEF AccountField, Touches, Resets, Old
        <5>2. Read(d2, c) = Default(c)
          <6>1. getOrCreate(d2, c.addr) = EmptyAccount
            BY <2>4, <3>1, <4>2
          <6>2. CASE c.field = "balance"
            <7>1. Read(d2, c) = EmptyAccount.balance
              BY <6>1, <6>2 DEF Read, GetBalance
            <7>2. EmptyAccount.balance = 0
              BY DEF EmptyAccount
            <7>3. Default(c) = 0
              BY <6>2 DEF Default
            <7> QED BY <7>1, <7>2, <7>3
          <6>3. CASE c.field = "nonce"
            <7>1. Read(d2, c) = EmptyAccount.nonce
              BY <6>1, <6>3 DEF Read, GetNonce
            <7>2. EmptyAccount.nonce = 0
              BY DEF EmptyAccount
            <7>3. Default(c) = 0
              BY <6>3 DEF Default
            <7> QED BY <7>1, <7>2, <7>3
          <6>4. CASE c.field = "code"
            <7>1. Read(d2, c) = EmptyAccount.code
              BY <6>1, <6>4 DEF Read, GetCode
            <7>2. EmptyAccount.code = NoCode
              BY DEF EmptyAccount
            <7>3. Default(c) = NoCode
              BY <6>4 DEF Default
            <7> QED BY <7>1, <7>2, <7>3
          <6>5. CASE c.field = "suicide"
            <7>1. Read(d2, c) = EmptyAccount.suicide
              BY <6>1, <6>5 DEF Read, HasSuicided
            <7>2. EmptyAccount.suicide = FALSE
              BY DEF EmptyAccount
            <7>3. Default(c) = FALSE
              BY <6>5 DEF Default
            <7> QED BY <7>1, <7>2, <7>3
          <6> QED BY <3>1, <6>2, <6>3, <6>4, <6>5 DEF AccountField
        <5> QED BY <5>1, <5>2
      <4> QED BY <4>1, <4>2
    <3> QED BY <2>1, <2>5, <3>2 DEF d2
  <2>7. CASE c \in CreatedCell
    <3>1. c.field = "created" /\ c.addr \in Addr
      BY <2>7 DEF CreatedCell
    <3>2. Read(d2, c) = CreatedInTx(d2, c.addr) /\ Read(d, c) = CreatedInTx(d, c.addr)
      BY <3>1 DEF Read
    <3>3. CASE c.addr = e.addr
      <4>1. CreatedInTx(d2, c.addr) = FALSE
        BY <2>2, <3>3 DEF CreatedInTx
      <4>2. Touches(e, c) /\ Old(e, c) = FALSE
        BY <2>1, <3>1, <3>3 DEF Touches, Resets, Old, Default
      <4> QED BY <2>1, <2>5, <3>2, <4>1, <4>2 DEF d2
    <3>4. CASE c.addr # e.addr
      <4>1. CreatedInTx(d2, c.addr) = CreatedInTx(d, c.addr)
        BY <2>2, <3>4 DEF CreatedInTx
      <4>2. ~ Touches(e, c)
        BY <3>4 DEF Touches, Records, Resets
      <4> QED BY <2>1, <2>5, <3>2, <4>1, <4>2 DEF d2
    <3> QED BY <3>3, <3>4
  <2>8. CASE c \in StorageCell
    <3>1. c.field = "storage" /\ ~ Touches(e, c)
      BY <2>8, <2>1 DEF StorageCell, Touches, Records, Resets
    <3>2. Read(d2, c) = Read(d, c)
      BY <2>2, <3>1 DEF Read, GetStorage
    <3> QED BY <2>1, <2>5, <3>1, <3>2 DEF d2
  <2> QED BY <2>6, <2>7, <2>8 DEF Cell
<1> QED BY <1>1, <1>2, <1>3, <1>4, <1>5, <1>6 DEF JournalEntry
-----------------------------------------------------------------------------
(***************************************************************************)
(* Operations that leave the journaled fields alone.                       *)
(***************************************************************************)
\* Two databases with the same accounts, storage and created set read the same.
LEMMA SameReads ==
    ASSUME NEW d, NEW d2, d2.accounts = d.accounts, d2.storage = d.storage,
           d2.createdInTx = d.createdInTx
    PROVE  /\ \A a : getOrCreate(d2, a) = getOrCreate(d, a) /\ Exists(d2, a) = Exists(d, a)
           /\ \A c \in Cell : Read(d2, c) = Read(d, c)
<1>1. \A a : getOrCreate(d2, a) = getOrCreate(d, a) /\ Exists(d2, a) = Exists(d, a)
  BY DEF getOrCreate, Exists
<1>2. \A c \in Cell : Read(d2, c) = Read(d, c)
  <2> TAKE c \in Cell
  <2>1. CASE c.field = "created"
    <3>1. Read(d2, c) = CreatedInTx(d2, c.addr) /\ Read(d, c) = CreatedInTx(d, c.addr)
      BY <2>1 DEF Read
    <3>2. CreatedInTx(d2, c.addr) = CreatedInTx(d, c.addr)
      BY DEF CreatedInTx
    <3> QED BY <3>1, <3>2
  <2>2. CASE c.field = "storage"
    BY <2>2 DEF Read, GetStorage
  <2>3. CASE c.field \in AccountField
    BY <1>1, <2>3 DEF Read, AccountField, GetBalance, GetNonce, GetCode, HasSuicided
  <2> QED BY <2>1, <2>2, <2>3 DEF Cell, AccountCell, CreatedCell, StorageCell
<1> QED BY <1>1, <1>2

\* A change that leaves the journal, a cell and the existence of accounts alone
\* leaves what the journal says of the cell alone.
LEMMA SameRecord ==
    ASSUME NEW d, NEW d2, NEW c, d2.journal = d.journal
    PROVE  /\ Touched(d2, c) = Touched(d, c) /\ Recorded(d2, c) = Recorded(d, c)
           /\ \A n, v : Read(d2, c) = Read(d, c) /\ ReturnsTo(d, n, c, v) => ReturnsTo(d2, n, c, v)
           /\ (Exists(d, c.addr) => Exists(d2, c.addr)) /\ Faithful(d, c) => Faithful(d2, c)
<1>1. Touched(d2, c) = Touched(d, c) /\ Recorded(d2, c) = Recorded(d, c)
  BY DEF Touched, Recorded
<1>2. \A n, v : Read(d2, c) = Read(d, c) /\ ReturnsTo(d, n, c, v) => ReturnsTo(d2, n, c, v)
  BY DEF ReturnsTo, Untouched, Oldest
<1>3. (Exists(d, c.addr) => Exists(d2, c.addr)) /\ Faithful(d, c) => Faithful(d2, c)
  BY <1>1 DEF Faithful, FindsAccount, CreationFirst
<1> QED BY <1>1, <1>2, <1>3

\* The end of the journal is where the state is: a snapshot taken now can be
\* returned to.
LEMMA ReturnsHere ==
    ASSUME NEW d \in DB, NEW c
    PROVE  ReturnsTo(d, Len(d.journal), c, Read(d, c))
<1>1. Len(d.journal) \in Nat
  BY DEF DB
<1>2. (Len(d.journal) + 1) .. Len(d.journal) = {}
  BY <1>1
<1> QED BY <1>2 DEF ReturnsTo

\* A cell no entry touches has its value at every position.
LEMMA UntouchedReturns ==
    ASSUME NEW d \in DB, NEW c, NEW n \in Nat, ~ Touched(d, c)
    PROVE  ReturnsTo(d, n, c, Read(d, c))
<1>1. Len(d.journal) \in Nat
  BY DEF DB
<1>2. \A k \in (n + 1) .. Len(d.journal) : ~ Touches(d.journal[k], c)
  BY <1>1 DEF Touched
<1> QED BY <1>2 DEF ReturnsTo, Oldest

\* An empty journal is a faithful record.
LEMMA EmptyJournal ==
    ASSUME NEW d, d.journal = << >>, NEW c
    PROVE  Faithful(d, c) /\ ~ Touched(d, c)
<1>1. Len(d.journal) = 0
  OBVIOUS
<1> QED BY <1>1 DEF Faithful, FindsAccount, CreationFirst, Recorded, Touched

\* Once the journal is cut back to a position, the cell has its value back.
LEMMA Returned ==
    ASSUME NEW d \in DB, NEW c, NEW v, NEW n \in Nat, Len(d.journal) <= n, ReturnsTo(d, n, c, v)
    PROVE  Read(d, c) = v
<1>1. Len(d.journal) \in Nat
  BY DEF DB
<1>2. (n + 1) .. Len(d.journal) = {}
  BY <1>1
<1> QED BY <1>2 DEF ReturnsTo, Untouched
-----------------------------------------------------------------------------
(***************************************************************************)
(* A journaled write.                                                      *)
(***************************************************************************)
\* The journal after a journaled write.
LEMMA LoggedJournal ==
    ASSUME NEW d \in DB, NEW d2, NEW e, Logs(d, d2, e)
    PROVE  /\ Len(d.journal) \in Nat
           /\ Len(d2.journal) = Len(d.journal) + 1
           /\ d2.journal[Len(d.journal) + 1] = e
           /\ \A k \in 1 .. Len(d.journal) : d2.journal[k] = d.journal[k]
           /\ d2.snapshots = d.snapshots
<1>1. d.journal \in Seq(JournalEntry) /\ d2.journal = Append(d.journal, e) /\ d2.snapshots = d.snapshots
  BY DEF DB, Logs
<1> QED BY <1>1

\* A journaled write does not disturb the positions that can be returned to.
LEMMA LoggedReturns ==
    ASSUME NEW d \in DB, NEW d2, NEW e, Logs(d, d2, e),
           NEW n \in 0 .. Len(d.journal), NEW c \in Cell, NEW v, ReturnsTo(d, n, c, v),
           Resets(e, c) => Read(d, c) = Default(c)
    PROVE  ReturnsTo(d2, n, c, v)
<1> DEFINE m == Len(d.journal)
<1>1. /\ m \in Nat /\ Len(d2.journal) = m + 1 /\ d2.journal[m + 1] = e
      /\ \A k \in 1 .. m : d2.journal[k] = d.journal[k]
  BY LoggedJournal
<1>2. /\ ~ Touches(e, c) => Read(d2, c) = Read(d, c)
      /\ Records(e, c) => e.old = Read(d, c)
  BY DEF Logs
<1> DEFINE lo == n + 1
<1>3. lo \in 1 .. (m + 1)
  BY <1>1
<1>4. /\ (\A k \in lo .. m : ~ Touches(d.journal[k], c)) => Read(d, c) = v
      /\ \A k \in lo .. m :
            (/\ Touches(d.journal[k], c)
             /\ \A j \in lo .. (k - 1) : ~ Touches(d.journal[j], c))
                => Old(d.journal[k], c) = v
  BY DEF ReturnsTo, Untouched, Oldest
<1> HIDE DEF m, lo
<1>5. \A k \in lo .. m : d2.journal[k] = d.journal[k]
  BY <1>1, <1>3
<1>6. ASSUME \A k \in lo .. (m + 1) : ~ Touches(d2.journal[k], c)
      PROVE  Read(d2, c) = v
  <2>1. \A k \in lo .. m : ~ Touches(d.journal[k], c)
    BY <1>1, <1>3, <1>5, <1>6
  <2>2. ~ Touches(e, c)
    BY <1>1, <1>3, <1>6
  <2> QED BY <1>2, <1>4, <2>1, <2>2
<1>7. ASSUME NEW k \in lo .. (m + 1), Touches(d2.journal[k], c),
             \A j \in lo .. (k - 1) : ~ Touches(d2.journal[j], c)
      PROVE  Old(d2.journal[k], c) = v
  <2>1. CASE k <= m
    <3>1. k \in lo .. m /\ \A j \in lo .. (k - 1) : j \in lo .. m
      BY <1>1, <1>3, <2>1
    <3>2. Touches(d.journal[k], c) /\ \A j \in lo .. (k - 1) : ~ Touches(d.journal[j], c)
      BY <1>5, <1>7, <3>1
    <3> QED BY <1>4, <1>5, <3>1, <3>2
  <2>2. CASE k = m + 1
    <3>1. \A j \in lo .. m : ~ Touches(d.journal[j], c)
      BY <1>1, <1>3, <1>5, <1>7, <2>2
    <3>2. Read(d, c) = v
      BY <1>4, <3>1
    <3>3. d2.journal[k] = e /\ Touches(e, c)
      BY <1>1, <1>7, <2>2
    <3> QED BY <3>2, <3>3, <1>2 DEF Old, Touches
  <2> QED BY <1>1, <1>3, <2>1, <2>2
<1> QED BY <1>1, <1>6, <1>7 DEF ReturnsTo, Untouched, Oldest, lo

\* A journaled write leaves the journal a faithful record, unless it creates an
\* account that had entries.
LEMMA LoggedFaithful ==
    ASSUME NEW d \in DB, NEW d2, NEW e, Logs(d, d2, e), NEW c \in Cell,
           Faithful(d, c), Resets(e, c) => ~ Recorded(d, c)
    PROVE  Faithful(d2, c)
<1> DEFINE m == Len(d.journal)
<1>1. /\ m \in Nat /\ Len(d2.journal) = m + 1 /\ d2.journal[m + 1] = e
      /\ \A k \in 1 .. m : d2.journal[k] = d.journal[k]
  BY LoggedJournal
<1> HIDE DEF m
<1>2. FindsAccount(d2, c)
  <2> SUFFICES ASSUME c \in AccountCell, NEW k \in 1 .. (m + 1), Records(d2.journal[k], c)
               PROVE  Exists(d2, c.addr)
    BY <1>1 DEF FindsAccount, Recorded
  <2>1. c.addr \in Addr
    BY DEF AccountCell
  <2>2. CASE k \in 1 .. m
    <3>1. Recorded(d, c)
      BY <1>1, <2>2 DEF Recorded, m
    <3>2. Exists(d, c.addr)
      BY <3>1 DEF Faithful, FindsAccount
    <3> QED BY <2>1, <3>2 DEF Logs
  <2>3. CASE k = m + 1
    BY <1>1, <2>3 DEF Logs
  <2> QED BY <1>1, <2>2, <2>3
<1>3. CreationFirst(d2, c)
  <2> SUFFICES ASSUME NEW j \in 1 .. (m + 1), NEW k \in 1 .. (m + 1),
                      Records(d2.journal[j], c), Resets(d2.journal[k], c)
               PROVE  k <= j
    BY <1>1 DEF CreationFirst
  <2>1. CASE j = m + 1
    BY <1>1, <2>1
  <2>2. CASE j # m + 1
    <3>1. j \in 1 .. m /\ d2.journal[j] = d.journal[j]
      BY <1>1, <2>2
    <3>2. Recorded(d, c)
      BY <3>1 DEF Recorded, m
    <3>3. k # m + 1
      BY <1>1, <3>2
    <3>4. k \in 1 .. m /\ d2.journal[k] = d.journal[k]
      BY <1>1, <3>3
    <3> QED BY <3>1, <3>4 DEF Faithful, CreationFirst, m
  <2> QED BY <2>1, <2>2
<1> QED BY <1>2, <1>3 DEF Faithful

\* The entry that is logged is the one that is appended.
LEMMA EntryOf ==
    ASSUME NEW d \in DB, NEW d2, NEW e, Logs(d, d2, e), NEW f, d2.journal = Append(d.journal, f)
    PROVE  e = f
<1>1. d.journal \in Seq(JournalEntry)
  BY DEF DB
<1>2. Append(d.journal, f)[Len(d.journal) + 1] = f
  BY <1>1
<1>3. d2.journal[Len(d.journal) + 1] = e
  BY LoggedJournal
<1> QED BY <1>2, <1>3

\* Which entry each setter logs, and what it writes.
LEMMA SettersWrite ==
    ASSUME NEW d \in DB, NEW a \in Addr
    PROVE  /\ \A val \in Word :
                 /\ GetBalance(SetBalance(d, a, val), a) = val
                 /\ \E e \in JournalEntry \ JCreate :
                       Logs(d, SetBalance(d, a, val), e) /\ e.kind = "balance" /\ e.addr = a
           /\ \A nonce \in Nat :
                 \E e \in JournalEntry \ JCreate :
                    Logs(d, SetNonce(d, a, nonce), e) /\ e.kind = "nonce" /\ e.addr = a
           /\ \A code \in Code :
                 \E e \in JournalEntry \ JCreate :
                    Logs(d, SetCode(d, a, code), e) /\ e.kind = "code" /\ e.addr = a
           /\ \E e \in JournalEntry \ JCreate :
                 Logs(d, Suicide(d, a), e) /\ e.kind = "suicide" /\ e.addr = a
           /\ \A s \in Slot, value \in Val :
                 /\ GetStorage(SetStorage(d, a, s, value), a, s) = value
                 /\ \E e \in JournalEntry \ JCreate :
                       /\ Logs(d, SetStorage(d, a, s, value), e)
                       /\ e.kind = "storage" /\ e.addr = a /\ e.slot = s
<1> DEFINE acc == getOrCreate(d, a)
<1>0. acc \in Account
  BY GetOrCreateType
<1>1. ASSUME NEW val \in Word
      PROVE  /\ GetBalance(SetBalance(d, a, val), a) = val
             /\ \E e \in JournalEntry \ JCreate :
                   Logs(d, SetBalance(d, a, val), e) /\ e.kind = "balance" /\ e.addr = a
  <2> DEFINE f == [kind |-> "balance", addr |-> a, old |-> acc.balance]
  <2> DEFINE new == [acc EXCEPT !.balance = val]
  <2>1. /\ SetBalance(d, a, val).journal = Append(d.journal, f)
        /\ SetBalance(d, a, val).accounts[a] = new
    BY DEF SetBalance, Journaled, DB
  <2>2. new \in Account /\ new.balance = val
    BY <1>0 DEF Account
  <2>3. f.kind = "balance" /\ f.addr = a
    OBVIOUS
  <2>4. PICK e \in JournalEntry \ JCreate : Logs(d, SetBalance(d, a, val), e)
    BY SettersLog
  <2> HIDE DEF f, new
  <2>5. e = f
    BY <2>1, <2>4, EntryOf
  <2>6. GetBalance(SetBalance(d, a, val), a) = val
    BY <2>1, <2>2, NoAccountAssumption DEF GetBalance, getOrCreate, Exists
  <2> QED BY <2>3, <2>4, <2>5, <2>6
<1>2. ASSUME NEW nonce \in Nat
      PROVE  \E e \in JournalEntry \ JCreate :
                Logs(d, SetNonce(d, a, nonce), e) /\ e.kind = "nonce" /\ e.addr = a
  <2> DEFINE f == [kind |-> "nonce", addr |-> a, old |-> acc.nonce]
  <2>1. SetNonce(d, a, nonce).journal = Append(d.journal, f) /\ f.kind = "nonce" /\ f.addr = a
    BY DEF SetNonce, Journaled, DB
  <2>2. PICK e \in JournalEntry \ JCreate : Logs(d, SetNonce(d, a, nonce), e)
    BY SettersLog
  <2> HIDE DEF f
  <2> QED BY <2>1, <2>2, EntryOf
<1>3. ASSUME NEW code \in Code
      PROVE  \E e \in JournalEntry \ JCreate :
                Logs(d, SetCode(d, a, code), e) /\ e.kind = "code" /\ e.addr = a
  <2> DEFINE f == [kind |-> "code", addr |-> a, old |-> acc.code]
  <2>1. SetCode(d, a, code).journal = Append(d.journal, f) /\ f.kind = "code" /\ f.addr = a
    BY DEF SetCode, Journaled, DB
  <2>2. PICK e \in JournalEntry \ JCreate : Logs(d, SetCode(d, a, code), e)
    BY SettersLog
  <2> HIDE DEF f
  <2> QED BY <2>1, <2>2, EntryOf
<1>4. \E e \in JournalEntry \ JCreate : Logs(d, Suicide(d, a), e) /\ e.kind = "suicide" /\ e.addr = a
  <2> DEFINE f == [kind |-> "suicide", addr |-> a, old |-> acc.suicide]
  <2>1. Suicide(d, a).journal = Append(d.journal, f) /\ f.kind = "suicide" /\ f.addr = a
    BY DEF Suicide, Journaled, DB
  <2>2. PICK e \in JournalEntry \ JCreate : Logs(d, Suicide(d, a), e)
    BY SettersLog
  <2> HIDE DEF f
  <2> QED BY <2>1, <2>2, EntryOf
<1>5. ASSUME NEW s \in Slot, NEW value \in Val
      PROVE  /\ GetStorage(SetStorage(d, a, s, value), a, s) = value
             /\ \E e \in JournalEntry \ JCreate :
                   /\ Logs(d, SetStorage(d, a, s, value), e)
                   /\ e.kind = "storage" /\ e.addr = a /\ e.slot = s
  <2> DEFINE f == [kind |-> "storage", addr |-> a, slot |-> s, old |-> d.storage[a][s]]
  <2>1. /\ SetStorage(d, a, s, value).journal = Append(d.journal, f)
        /\ f.kind = "storage" /\ f.addr = a /\ f.slot = s
    BY DEF SetStorage, DB
  <2>2. PICK e \in JournalEntry \ JCreate : Logs(d, SetStorage(d, a, s, value), e)
    BY SetStorageLogs
  <2>3. GetStorage(SetStorage(d, a, s, value), a, s) = value
    BY DEF SetStorage, GetStorage, DB
  <2> HIDE DEF f
  <2> QED BY <2>1, <2>2, <2>3, EntryOf
<1> QED BY <1>1, <1>2, <1>3, <1>4, <1>5

\* What SetStorageDirect changes: one storage cell, and no account.
LEMMA SetStorageDirectReads ==
    ASSUME NEW d \in DB, NEW a \in Addr, NEW s \in Slot, NEW value \in Val
    PROVE  /\ SetStorageDirect(d, a, s, value) \in DB
           /\ SetStorageDirect(d, a, s, value).journal = d.journal
           /\ SetStorageDirect(d, a, s, value).snapshots = d.snapshots
           /\ \A b : Exists(SetStorageDirect(d, a, s, value), b) = Exists(d, b)
           /\ \A c \in Cell : Read(SetStorageDirect(d, a, s, value), c) =
                 IF c = [addr |-> a, field |-> "storage", slot |-> s] THEN value ELSE Read(d, c)
<1> DEFINE d2 == SetStorageDirect(d, a, s, value)
<1> DEFINE x == [addr |-> a, field |-> "storage", slot |-> s]
<1>1. d2 \in DB
  BY StorageType
<1>2. /\ d2.journal = d.journal /\ d2.snapshots = d.snapshots /\ d2.accounts = d.accounts
      /\ d2.createdInTx = d.createdInTx
      /\ d2.storage = [d.storage EXCEPT ![a][s] = value]
  BY DEF SetStorageDirect, DB
<1>3. /\ x.addr = a /\ x.slot = s /\ x.field = "storage"
      /\ \A c \in StorageCell : c.addr = a /\ c.slot = s => c = x
  BY DEF StorageCell
<1> HIDE DEF d2, x
<1>4. \A b : Exists(d2, b) = Exists(d, b) /\ getOrCreate(d2, b) = getOrCreate(d, b)
  BY <1>2 DEF Exists, getOrCreate
<1>5. ASSUME NEW c \in Cell
      PROVE  Read(d2, c) = IF c = x THEN value ELSE Read(d, c)
  <2>1. CASE c \in AccountCell
    BY <1>3, <1>4, <2>1 DEF AccountCell, Read, AccountField, GetBalance, GetNonce, GetCode, HasSuicided
  <2>2. CASE c \in CreatedCell
    <3>1. Read(d2, c) = CreatedInTx(d2, c.addr) /\ Read(d, c) = CreatedInTx(d, c.addr) /\ c # x
      BY <1>3, <2>2 DEF CreatedCell, Read
    <3>2. CreatedInTx(d2, c.addr) = CreatedInTx(d, c.addr)
      BY <1>2 DEF CreatedInTx
    <3> QED BY <3>1, <3>2
  <2>3. CASE c \in StorageCell
    <3>1. c.field = "storage" /\ c.addr \in Addr /\ c.slot \in Slot
      BY <2>3 DEF StorageCell
    <3>2. Read(d2, c) = d2.storage[c.addr][c.slot] /\ Read(d, c) = d.storage[c.addr][c.slot]
      BY <3>1 DEF Read, GetStorage
    <3>3. CASE c = x
      <4>1. d2.storage[a][s] = value
        BY <1>2 DEF DB
      <4> QED BY <1>3, <3>2, <3>3, <4>1
    <3>4. CASE c # x
      <4>1. c.addr # a \/ c.slot # s
        BY <1>3, <2>3, <3>4
      <4>2. d2.storage[c.addr][c.slot] = d.storage[c.addr][c.slot]
        BY <1>2, <3>1, <4>1 DEF DB
      <4> QED BY <3>2, <3>4, <4>2
    <3> QED BY <3>3, <3>4
  <2> QED BY <2>1, <2>2, <2>3 DEF Cell
<1> QED BY <1>1, <1>2, <1>4, <1>5 DEF d2, x
-----------------------------------------------------------------------------
(***************************************************************************)
(* One iteration of RevertToSnapshot.                                      *)
(***************************************************************************)
\* The journal and the snapshots after an iteration.
LEMMA UndoneJournal ==
    ASSUME NEW d \in DB, Len(d.journal) > 0
    PROVE  /\ UndoLast(d) \in DB /\ Len(d.journal) \in Nat
           /\ UndoLast(d).journal = SubSeq(d.journal, 1, Len(d.journal) - 1)
           /\ Len(UndoLast(d).journal) = Len(d.journal) - 1
           /\ \A k \in 1 .. (Len(d.journal) - 1) : UndoLast(d).journal[k] = d.journal[k]
           /\ UndoLast(d).snapshots = d.snapshots
           /\ UndoLast(d).accounts = Undo(d, d.journal[Len(d.journal)]).accounts
           /\ UndoLast(d).storage = Undo(d, d.journal[Len(d.journal)]).storage
           /\ UndoLast(d).createdInTx = Undo(d, d.journal[Len(d.journal)]).createdInTx
<1> DEFINE n == Len(d.journal)
<1> DEFINE e == d.journal[n]
<1> DEFINE u == Undo(d, e)
<1>1. d.journal \in Seq(JournalEntry) /\ n \in Nat
  BY DEF DB
<1>2. e \in JournalEntry
  BY <1>1
<1>3. u \in DB
  BY <1>2, UndoType
<1>4. u.journal = d.journal /\ u.snapshots = d.snapshots
  BY <1>2 DEF Undo, DB
<1>5. UndoLast(d) = [u EXCEPT !.journal = SubSeq(d.journal, 1, n - 1)]
  BY <1>4 DEF UndoLast
<1>6. UndoLast(d) \in DB
  BY UndoLastType
<1> HIDE DEF u, e
<1>7. /\ UndoLast(d).journal = SubSeq(d.journal, 1, n - 1)
      /\ UndoLast(d).snapshots = d.snapshots
      /\ UndoLast(d).accounts = u.accounts
      /\ UndoLast(d).storage = u.storage /\ UndoLast(d).createdInTx = u.createdInTx
  BY <1>3, <1>4, <1>5 DEF DB
<1>8. /\ Len(SubSeq(d.journal, 1, n - 1)) = n - 1
      /\ \A k \in 1 .. (n - 1) : SubSeq(d.journal, 1, n - 1)[k] = d.journal[k]
  BY <1>1
<1> QED BY <1>1, <1>6, <1>7, <1>8 DEF u, e

\* An iteration gives a faithfully recorded cell the value its youngest entry
\* kept, and leaves the others alone.
LEMMA UndoneReads ==
    ASSUME NEW d \in DB, Len(d.journal) > 0, NEW c \in Cell, Faithful(d, c)
    PROVE  LET e == d.journal[Len(d.journal)]
           IN  /\ Read(UndoLast(d), c) = IF Touches(e, c) THEN Old(e, c) ELSE Read(d, c)
               /\ \A a \in Addr : Exists(d, a) /\ (e.kind = "create" => a # e.addr)
                                    => Exists(UndoLast(d), a)
<1> DEFINE n == Len(d.journal)
<1> DEFINE e == d.journal[n]
<1> DEFINE u == Undo(d, e)
<1>1. d.journal \in Seq(JournalEntry) /\ n \in Nat
  BY DEF DB
<1>2. e \in JournalEntry /\ n \in 1 .. n
  BY <1>1
<1>3. ASSUME c \in AccountCell, Records(e, c)
      PROVE  Exists(d, c.addr)
  <2>1. Recorded(d, c)
    BY <1>2, <1>3 DEF Recorded
  <2> QED BY <2>1, <1>3 DEF Faithful, FindsAccount
<1>4. /\ Read(u, c) = IF Touches(e, c) THEN Old(e, c) ELSE Read(d, c)
      /\ \A a \in Addr : Exists(d, a) /\ (e.kind = "create" => a # e.addr) => Exists(u, a)
  BY <1>2, <1>3, UndoReads
<1>5. /\ UndoLast(d).accounts = u.accounts /\ UndoLast(d).storage = u.storage
      /\ UndoLast(d).createdInTx = u.createdInTx
  BY UndoneJournal
<1> HIDE DEF u, e
<1>6. Read(UndoLast(d), c) = Read(u, c) /\ \A a : Exists(UndoLast(d), a) = Exists(u, a)
  BY <1>5, SameReads
<1>7. /\ Read(UndoLast(d), c) = IF Touches(e, c) THEN Old(e, c) ELSE Read(d, c)
      /\ \A a \in Addr : Exists(d, a) /\ (e.kind = "create" => a # e.addr) => Exists(UndoLast(d), a)
  BY <1>4, <1>6
<1> QED BY <1>7 DEF e, n

\* An iteration does not disturb the older positions: the oldest entry for a
\* cell is undone last.
LEMMA UndoneReturns ==
    ASSUME NEW d \in DB, NEW n \in Nat, n < Len(d.journal), NEW c \in Cell, NEW v,
           Faithful(d, c), ReturnsTo(d, n, c, v)
    PROVE  ReturnsTo(UndoLast(d), n, c, v)
<1> DEFINE m == Len(d.journal)
<1> DEFINE e == d.journal[m]
<1> DEFINE d2 == UndoLast(d)
<1> DEFINE lo == n + 1
<1>1. m \in Nat /\ Len(d.journal) > 0
  BY DEF DB
<1>2. /\ Len(d2.journal) = m - 1
      /\ \A k \in 1 .. (m - 1) : d2.journal[k] = d.journal[k]
  BY <1>1, UndoneJournal
<1>3. Read(d2, c) = IF Touches(e, c) THEN Old(e, c) ELSE Read(d, c)
  BY <1>1, UndoneReads
<1>4. lo \in 1 .. m
  BY <1>1
<1>5. /\ (\A k \in lo .. m : ~ Touches(d.journal[k], c)) => Read(d, c) = v
      /\ \A k \in lo .. m :
            (/\ Touches(d.journal[k], c)
             /\ \A j \in lo .. (k - 1) : ~ Touches(d.journal[j], c))
                => Old(d.journal[k], c) = v
  BY DEF ReturnsTo, Untouched, Oldest
<1> HIDE DEF m, lo, d2
<1>6. \A k \in lo .. (m - 1) : d2.journal[k] = d.journal[k] /\ k \in lo .. m
  BY <1>1, <1>2, <1>4
<1>7. ASSUME \A k \in lo .. (m - 1) : ~ Touches(d2.journal[k], c)
      PROVE  Read(d2, c) = v
  <2>1. \A k \in lo .. (m - 1) : ~ Touches(d.journal[k], c)
    BY <1>6, <1>7
  <2>2. CASE Touches(e, c)
    <3>1. Old(e, c) = v
      BY <1>1, <1>4, <1>5, <2>1, <2>2
    <3> QED BY <1>3, <2>2, <3>1
  <2>3. CASE ~ Touches(e, c)
    <3>1. \A k \in lo .. m : ~ Touches(d.journal[k], c)
      BY <1>1, <1>4, <2>1, <2>3
    <3> QED BY <1>3, <1>5, <2>3, <3>1
  <2> QED BY <2>2, <2>3
<1>8. ASSUME NEW k \in lo .. (m - 1), Touches(d2.journal[k], c),
             \A j \in lo .. (k - 1) : ~ Touches(d2.journal[j], c)
      PROVE  Old(d2.journal[k], c) = v
  <2>1. \A j \in lo .. (k - 1) : j \in lo .. (m - 1)
    BY <1>1, <1>4
  <2> QED BY <1>5, <1>6, <1>8, <2>1
<1> QED BY <1>2, <1>7, <1>8 DEF ReturnsTo, Untouched, Oldest, lo, d2

\* An iteration leaves the journal a faithful record.
LEMMA UndoneFaithful ==
    ASSUME NEW d \in DB, Len(d.journal) > 0, NEW c \in Cell, Faithful(d, c)
    PROVE  Faithful(UndoLast(d), c)
<1> DEFINE m == Len(d.journal)
<1> DEFINE e == d.journal[m]
<1> DEFINE d2 == UndoLast(d)
<1>1. /\ m \in Nat /\ m \in 1 .. m /\ Len(d2.journal) = m - 1
      /\ \A k \in 1 .. (m - 1) : d2.journal[k] = d.journal[k]
  BY UndoneJournal
<1>2. \A a \in Addr : Exists(d, a) /\ (e.kind = "create" => a # e.addr) => Exists(d2, a)
  BY UndoneReads
<1> HIDE DEF m, d2
<1>3. FindsAccount(d2, c)
  <2> SUFFICES ASSUME c \in AccountCell, NEW k \in 1 .. (m - 1), Records(d2.journal[k], c)
               PROVE  Exists(d2, c.addr)
    BY <1>1 DEF FindsAccount, Recorded
  <2>1. c.addr \in Addr /\ c.field # "storage"
    BY DEF AccountCell, AccountField
  <2>2. k \in 1 .. m /\ Records(d.journal[k], c) /\ k < m
    BY <1>1
  <2>3. Recorded(d, c)
    BY <2>2 DEF Recorded, m
  <2>4. Exists(d, c.addr)
    BY <2>3 DEF Faithful, FindsAccount
  <2>5. ~ Resets(e, c)
    BY <1>1, <2>2 DEF Faithful, CreationFirst, m
  <2> QED BY <1>2, <2>1, <2>4, <2>5 DEF Resets
<1>4. CreationFirst(d2, c)
  <2> SUFFICES ASSUME NEW j \in 1 .. (m - 1), NEW k \in 1 .. (m - 1),
                      Records(d2.journal[j], c), Resets(d2.journal[k], c)
               PROVE  k <= j
    BY <1>1 DEF CreationFirst
  <2>1. j \in 1 .. m /\ k \in 1 .. m /\ Records(d.journal[j], c) /\ Resets(d.journal[k], c)
    BY <1>1
  <2> QED BY <2>1 DEF Faithful, CreationFirst, m
<1> QED BY <1>3, <1>4 DEF Faithful, d2
-----------------------------------------------------------------------------
(***************************************************************************)
(* Self-destructs.                                                         *)
(***************************************************************************)
\* The cell of the self-destruct flag.
LEMMA SuicideCell ==
    ASSUME NEW a \in Addr
    PROVE  /\ [addr |-> a, field |-> "suicide"] \in AccountCell
           /\ [addr |-> a, field |-> "suicide"] \in Cell
           /\ \A d : Read(d, [addr |-> a, field |-> "suicide"]) = HasSuicided(d, a)
           /\ \A d \in DB : HasSuicided(d, a) \in BOOLEAN
<1>1. \A d \in DB : HasSuicided(d, a) \in BOOLEAN
  BY GetOrCreateType DEF HasSuicided, Account
<1> QED BY <1>1 DEF AccountCell, AccountField, Cell, Read

\* A journaled write keeps the record of self-destructs.
LEMMA LoggedSuicides ==
    ASSUME NEW d \in DB, NEW d2 \in DB, NEW e \in JournalEntry, Logs(d, d2, e), SuicideRecorded(d),
           e \in JCreate => ~ HasSuicided(d2, e.addr)
    PROVE  SuicideRecorded(d2)
<1> DEFINE m == Len(d.journal)
<1>1. /\ m \in Nat /\ Len(d2.journal) = m + 1 /\ d2.journal[m + 1] = e
      /\ \A k \in 1 .. m : d2.journal[k] = d.journal[k]
  BY LoggedJournal
<1> HIDE DEF m
<1>2. \A a \in Addr, j \in 1 .. m : Sets(d.journal[j], a) => Sets(d2.journal[j], a)
  BY <1>1
<1>3. \A a \in Addr : (\E j \in 1 .. m : Sets(d.journal[j], a)) => \E j \in 1 .. (m + 1) : Sets(d2.journal[j], a)
  BY <1>1, <1>2
<1>4. ASSUME NEW a \in Addr, HasSuicided(d2, a)
      PROVE  \E k \in 1 .. (m + 1) : Sets(d2.journal[k], a)
  <2> DEFINE c == [addr |-> a, field |-> "suicide"]
  <2>1. /\ c \in Cell /\ Read(d, c) = HasSuicided(d, a) /\ Read(d2, c) = HasSuicided(d2, a)
        /\ HasSuicided(d, a) \in BOOLEAN /\ c.addr = a /\ c.field = "suicide"
    BY SuicideCell
  <2> HIDE DEF c
  <2>2. CASE HasSuicided(d, a)
    BY <1>3, <2>2 DEF SuicideRecorded, m
  <2>3. CASE ~ HasSuicided(d, a)
    <3>1. Touches(e, c)
      BY <1>4, <2>1, <2>3 DEF Logs
    <3>2. ~ Resets(e, c)
      <4>1. ASSUME Resets(e, c) PROVE e \in JCreate /\ e.addr = a
        BY <4>1, <2>1 DEF Resets, JournalEntry, JBalance, JNonce, JCode, JStorage, JCreate, JSuicide
      <4> QED BY <1>4, <4>1
    <3>3. Records(e, c) /\ e.old = FALSE
      BY <2>1, <2>3, <3>1, <3>2 DEF Touches, Logs
    <3>4. e \in JSuicide /\ e.addr = a
      BY <2>1, <3>3 DEF Records, JournalEntry, JBalance, JNonce, JCode, JStorage, JCreate, JSuicide
    <3>5. Sets(e, a)
      BY <3>3, <3>4 DEF Sets, JSuicide
    <3> QED BY <1>1, <3>5
  <2> QED BY <2>2, <2>3
<1>5. ASSUME NEW a \in Addr, NEW k \in 1 .. (m + 1), SetsAgain(d2.journal[k], a)
      PROVE  \E j \in 1 .. (k - 1) : Sets(d2.journal[j], a)
  <2>1. CASE k \in 1 .. m
    <3>1. PICK j \in 1 .. (k - 1) : Sets(d.journal[j], a)
      BY <1>1, <1>5, <2>1 DEF SuicideRecorded, m
    <3>2. j \in 1 .. m
      BY <1>1, <2>1
    <3> QED BY <1>2, <3>1, <3>2
  <2>2. CASE k = m + 1
    <3> DEFINE c == [addr |-> a, field |-> "suicide"]
    <3>1. /\ c \in Cell /\ Read(d, c) = HasSuicided(d, a)
          /\ c.addr = a /\ c.field = "suicide"
      BY SuicideCell
    <3> HIDE DEF c
    <3>2. e.kind = "suicide" /\ e.addr = a /\ e.old = TRUE
      BY <1>1, <1>5, <2>2 DEF SetsAgain
    <3>3. HasSuicided(d, a)
      BY <3>1, <3>2 DEF Logs, Records
    <3>4. \E j \in 1 .. m : Sets(d.journal[j], a)
      BY <3>3 DEF SuicideRecorded, m
    <3> QED BY <1>1, <1>2, <2>2, <3>4
  <2> QED BY <1>1, <2>1, <2>2
<1> QED BY <1>1, <1>4, <1>5 DEF SuicideRecorded

\* CreateAccount clears the flag.
LEMMA CreateSuicides ==
    ASSUME NEW d \in DB, NEW a \in Addr
    PROVE  ~ HasSuicided(CreateAccount(d, a), a)
<1> DEFINE acc == [EmptyAccount EXCEPT !.balance = GetBalance(d, a)]
<1>1. acc \in Account /\ acc.suicide = FALSE
  BY GetOrCreateType, StateAssumption DEF EmptyAccount, Account, GetBalance
<1>2. CreateAccount(d, a).accounts[a] = acc
  BY DEF CreateAccount, Journaled, DB
<1> HIDE DEF acc
<1> QED BY <1>1, <1>2, NoAccountAssumption DEF HasSuicided, getOrCreate, Exists

\* A change that sets no flag and leaves the journal alone keeps the record.
LEMMA SameSuicides ==
    ASSUME NEW d, NEW d2, d2.journal = d.journal, SuicideRecorded(d),
           \A a \in Addr : HasSuicided(d2, a) => HasSuicided(d, a)
    PROVE  SuicideRecorded(d2)
BY DEF SuicideRecorded

\* An iteration of RevertToSnapshot keeps the record of self-destructs.
LEMMA UndoneSuicides ==
    ASSUME NEW d \in DB, Len(d.journal) > 0, SuicideRecorded(d)
    PROVE  SuicideRecorded(UndoLast(d))
<1> DEFINE m == Len(d.journal)
<1> DEFINE e == d.journal[m]
<1> DEFINE d2 == UndoLast(d)
<1>1. /\ m \in Nat /\ m \in 1 .. m /\ d2 \in DB /\ Len(d2.journal) = m - 1
      /\ \A k \in 1 .. (m - 1) : d2.journal[k] = d.journal[k]
  BY UndoneJournal
<1>2. e \in JournalEntry
  BY DEF DB
<1>3. d2.accounts = Undo(d, e).accounts
  BY UndoneJournal
<1>4. ASSUME NEW a \in Addr, HasSuicided(d2, a)
      PROVE  (HasSuicided(d, a) /\ ~ Sets(e, a)) \/ SetsAgain(e, a)
  <2>1. HasSuicided(Undo(d, e), a)
    BY <1>3, <1>4 DEF HasSuicided, getOrCreate, Exists
  <2> HIDE DEF e, d2
  <2>2. CASE e \in JSuicide
    <3>1. e.kind = "suicide" /\ e.addr \in Addr /\ e.old \in BOOLEAN
      BY <2>2 DEF JSuicide
    <3>2. CASE ~ Exists(d, e.addr)
      <4>1. Undo(d, e) = d
        BY <3>1, <3>2 DEF Undo
      <4>2. HasSuicided(d, a)
        BY <2>1, <4>1
      <4>3. a # e.addr
        BY <3>2, <4>2 DEF HasSuicided, getOrCreate, EmptyAccount
      <4> QED BY <4>2, <4>3 DEF Sets
    <3>3. CASE Exists(d, e.addr)
      <4> DEFINE acc == [d.accounts[e.addr] EXCEPT !.suicide = e.old]
      <4>1. Undo(d, e) = SetAccount(d, e.addr, acc)
        BY <3>1, <3>3 DEF Undo, SetAccount
      <4>2. acc \in Account /\ acc.suicide = e.old
        BY ZenonT(60), <3>1, <3>3 DEF Exists, DB, Account
      <4> HIDE DEF acc
      <4>3. getOrCreate(SetAccount(d, e.addr, acc), a) = IF a = e.addr THEN acc ELSE getOrCreate(d, a)
        BY <3>1, <4>2, SetAccountReads, NoAccountAssumption
      <4>4. CASE a = e.addr
        <5>1. e.old = TRUE
          BY <2>1, <3>1, <4>1, <4>2, <4>3, <4>4 DEF HasSuicided
        <5> QED BY <2>2, <4>4, <5>1 DEF SetsAgain, JSuicide
      <4>5. CASE a # e.addr
        BY <2>1, <4>1, <4>3, <4>5 DEF HasSuicided, Sets
      <4> QED BY <4>4, <4>5
    <3> QED BY <3>2, <3>3
  <2>3. CASE e \notin JSuicide
    <3>1. e.kind # "suicide"
      BY <1>2, <2>3 DEF JournalEntry, JBalance, JNonce, JCode, JStorage, JCreate, JSuicide
    <3> DEFINE c == [addr |-> a, field |-> "suicide"]
    <3>2. /\ c \in Cell /\ Read(d, c) = HasSuicided(d, a) /\ Read(Undo(d, e), c) = HasSuicided(Undo(d, e), a)
          /\ c.addr = a /\ c.field = "suicide"
      BY SuicideCell
    <3> HIDE DEF c
    <3>3. ~ Records(e, c)
      BY <3>1, <3>2 DEF Records
    <3>4. Read(Undo(d, e), c) = IF Touches(e, c) THEN Old(e, c) ELSE Read(d, c)
      BY <1>2, <3>2, <3>3, UndoReads
    <3>5. Touches(e, c) => Old(e, c) = FALSE
      BY <3>2, <3>3 DEF Touches, Old, Default
    <3>6. HasSuicided(d, a)
      <4>1. CASE Touches(e, c)
        BY <2>1, <3>2, <3>4, <3>5, <4>1
      <4>2. CASE ~ Touches(e, c)
        BY <2>1, <3>2, <3>4, <4>2
      <4> QED BY <4>1, <4>2
    <3>7. ~ Sets(e, a)
      BY <3>1 DEF Sets
    <3> QED BY <3>6, <3>7
  <2> QED BY <2>2, <2>3
<1> HIDE DEF m, d2
<1>5. ASSUME NEW a \in Addr, HasSuicided(d2, a)
      PROVE  \E k \in 1 .. (m - 1) : Sets(d2.journal[k], a)
  <2>1. CASE SetsAgain(e, a)
    BY <1>1, <2>1 DEF SuicideRecorded, m
  <2>2. CASE HasSuicided(d, a) /\ ~ Sets(e, a)
    <3>1. PICK k \in 1 .. m : Sets(d.journal[k], a)
      BY <2>2 DEF SuicideRecorded, m
    <3>2. k \in 1 .. (m - 1)
      BY <1>1, <2>2, <3>1
    <3> QED BY <1>1, <3>1, <3>2
  <2> QED BY <1>4, <1>5, <2>1, <2>2
<1>6. ASSUME NEW a \in Addr, NEW k \in 1 .. (m - 1), SetsAgain(d2.journal[k], a)
      PROVE  \E j \in 1 .. (k - 1) : Sets(d2.journal[j], a)
  <2>1. k \in 1 .. m /\ SetsAgain(d.journal[k], a)
    BY <1>1, <1>6
  <2>2. PICK j \in 1 .. (k - 1) : Sets(d.journal[j], a)
    BY <2>1 DEF SuicideRecorded, m
  <2>3. j \in 1 .. (m - 1)
    BY <1>1, <2>1
  <2> QED BY <1>1, <2>2, <2>3
<1> QED BY <1>1, <1>5, <1>6 DEF SuicideRecorded, d2
-----------------------------------------------------------------------------
(***************************************************************************)
(* RevertToSnapshot as a whole.                                            *)
(***************************************************************************)
\* f solves the recursion of RevertToSnapshot.
IsUndone(d, n, f) == f = [k \in 0 .. n |-> IF k = n THEN d ELSE UndoLast(f[k + 1])]

\* The recursion of RevertToSnapshot has a solution.
LEMMA UndoneExists ==
    ASSUME NEW d, NEW n \in Nat
    PROVE  \E f : IsUndone(d, n, f)
<1> DEFINE Solves(f, j) ==
      f = [k \in 0 .. n |-> f[k]]
      /\ \A k \in (n - j) .. n : f[k] = IF k = n THEN d ELSE UndoLast(f[k + 1])
<1> DEFINE Bad == {j \in 0 .. n : ~ \E f : Solves(f, j)}
<1>1. ASSUME NEW j \in Bad, \A i \in Bad : j <= i
      PROVE  FALSE
  <2>1. CASE j = 0
    <3>1. Solves([k \in 0 .. n |-> d], 0)
      OBVIOUS
    <3> QED BY <2>1, <3>1
  <2>2. CASE j # 0
    <3>1. j - 1 \in 0 .. n /\ j - 1 \notin Bad
      BY <1>1, <2>2
    <3>2. PICK f : Solves(f, j - 1)
      BY <3>1
    <3> DEFINE g == [k \in 0 .. n |-> IF k = n - j THEN UndoLast(f[k + 1]) ELSE f[k]]
    <3>3. g = [k \in 0 .. n |-> g[k]]
      OBVIOUS
    <3>4. ASSUME NEW k \in (n - j) .. n
          PROVE  g[k] = IF k = n THEN d ELSE UndoLast(g[k + 1])
      <4>1. CASE k = n - j
        <5>1. k \in 0 .. n /\ k + 1 \in 0 .. n /\ k + 1 # n - j /\ k # n
          BY <2>2, <4>1
        <5> QED BY <4>1, <5>1
      <4>2. CASE k # n - j
        <5>1. k \in (n - (j - 1)) .. n /\ k \in 0 .. n
          BY <4>2
        <5>2. k # n => k + 1 \in 0 .. n /\ k + 1 # n - j
          BY <4>2
        <5>3. f[k] = IF k = n THEN d ELSE UndoLast(f[k + 1])
          BY <3>2, <5>1
        <5> QED BY <4>2, <5>1, <5>2, <5>3
      <4> QED BY <4>1, <4>2
    <3>5. Solves(g, j)
      BY <3>3, <3>4
    <3> HIDE DEF g
    <3> QED BY <3>5
  <2> QED BY <2>1, <2>2
<1>2. Bad = {}
  <2> SUFFICES ASSUME Bad # {} PROVE FALSE
    OBVIOUS
  <2>1. Bad \in SUBSET Nat
    OBVIOUS
  <2> HIDE DEF Bad
  <2>2. PICK j \in Bad : \A i \in Bad : j <= i
    BY <2>1, LeastNumber
  <2> QED BY <1>1, <2>2
<1>3. PICK f : Solves(f, n)
  BY <1>2
<1>4. \A k \in 0 .. n : f[k] = IF k = n THEN d ELSE UndoLast(f[k + 1])
  <2>1. n - n = 0
    OBVIOUS
  <2> QED BY <1>3, <2>1
<1>5. f = [k \in 0 .. n |-> f[k]]
  BY <1>3
<1>6. f = [k \in 0 .. n |-> IF k = n THEN d ELSE UndoLast(f[k + 1])]
  BY <1>4, <1>5
<1> QED BY <1>6 DEF IsUndone

\* Induction over the iterations of RevertToSnapshot: what holds of the database
\* it starts from and is kept by each iteration holds when its loop ends.
LEMMA RevertInduction ==
    ASSUME NEW d \in DB, NEW id \in 1 .. Len(d.snapshots), d.snapshots[id] <= Len(d.journal),
           NEW S \in SUBSET DB, d \in S,
           \A u \in S : Len(u.journal) > d.snapshots[id] => UndoLast(u) \in S
    PROVE  \E u \in S : /\ Len(u.journal) = d.snapshots[id]
                        /\ RevertToSnapshot(d, id) = [u EXCEPT !.snapshots = SubSeq(@, 1, id - 1)]
<1> DEFINE n == Len(d.journal)
<1> DEFINE undone[k \in 0 .. n] == IF k = n THEN d ELSE UndoLast(undone[k + 1])
<1>1. n \in Nat /\ d.snapshots[id] \in Nat /\ d.snapshots \in Seq(Nat) /\ Len(d.snapshots) \in Nat
  BY DEF DB
<1>2. RevertToSnapshot(d, id) = [undone[d.snapshots[id]] EXCEPT !.snapshots = SubSeq(@, 1, id - 1)]
  <2>1. ~ (id > Len(d.snapshots))
    BY <1>1
  <2> QED BY ZenonT(60), <2>1 DEF RevertToSnapshot
<1>3. undone = [k \in 0 .. n |-> IF k = n THEN d ELSE UndoLast(undone[k + 1])]
  <2> HIDE DEF n
  <2>0. n \in Nat
    BY <1>1
  <2>1. \E f : IsUndone(d, n, f)
    BY <2>0, UndoneExists
  <2>2. \E f : f = [k \in 0 .. n |-> IF k = n THEN d ELSE UndoLast(f[k + 1])]
    BY <2>1 DEF IsUndone
  <2> QED BY <2>2
<1> HIDE DEF undone, n
<1>4. \A k \in 0 .. n : undone[k] = IF k = n THEN d ELSE UndoLast(undone[k + 1])
  BY <1>3
<1> DEFINE Bad == {j \in 0 .. (n - d.snapshots[id]) :
                      ~ (undone[n - j] \in S /\ Len(undone[n - j].journal) = n - j)}
<1>5. ASSUME NEW j \in Bad, \A i \in Bad : j <= i
      PROVE  FALSE
  <2>1. CASE j = 0
    <3>1. undone[n] = d
      BY <1>1, <1>4
    <3> QED BY <1>1, <2>1, <3>1 DEF n
  <2>2. CASE j # 0
    <3> DEFINE u == undone[n - (j - 1)]
    <3>0. j \in 0 .. (n - d.snapshots[id])
      OBVIOUS
    <3>1. j - 1 \in 0 .. (n - d.snapshots[id]) /\ j - 1 \notin Bad
      <4> HIDE DEF Bad
      <4>1. ~ j <= j - 1
        BY <3>0
      <4>2. j - 1 \notin Bad
        BY <1>5, <4>1
      <4>3. j - 1 \in 0 .. (n - d.snapshots[id])
        BY <1>1, <2>2, <3>0
      <4> QED BY <4>2, <4>3
    <3>2. u \in S /\ Len(u.journal) = n - (j - 1)
      BY <3>1
    <3>3. undone[n - j] = UndoLast(u)
      <4>1. n - j \in 0 .. n /\ n - j # n /\ (n - j) + 1 = n - (j - 1)
        BY <1>1, <2>2
      <4> QED BY <1>4, <4>1
    <3> HIDE DEF u
    <3>4. Len(u.journal) > d.snapshots[id] /\ Len(u.journal) > 0
      BY SMTT(60), <1>1, <3>2
    <3>5. UndoLast(u) \in S
      BY <3>2, <3>4
    <3>6. Len(UndoLast(u).journal) = Len(u.journal) - 1
      BY <3>2, <3>4, UndoneJournal
    <3>7. Len(UndoLast(u).journal) = n - j
      BY <1>1, <3>2, <3>6
    <3> QED BY <1>5, <3>3, <3>5, <3>7
  <2> QED BY <2>1, <2>2
<1>6. Bad = {}
  <2> SUFFICES ASSUME Bad # {} PROVE FALSE
    OBVIOUS
  <2>1. Bad \in SUBSET Nat
    OBVIOUS
  <2> HIDE DEF Bad
  <2>2. PICK j \in Bad : \A i \in Bad : j <= i
    BY <2>1, LeastNumber
  <2> QED BY <1>5, <2>2
<1>7. n - d.snapshots[id] \in 0 .. (n - d.snapshots[id]) /\ n - (n - d.snapshots[id]) = d.snapshots[id]
  BY SMTT(60), <1>1 DEF n
<1>8. undone[d.snapshots[id]] \in S /\ Len(undone[d.snapshots[id]].journal) = d.snapshots[id]
  BY <1>6, <1>7
<1> QED BY <1>2, <1>8

\* r is d with the journal and the snapshots cut to snapshot id; every older
\* position of a faithfully recorded cell can still be returned to.
Reverted(d, id, r) ==
    /\ r \in DB
    /\ Len(r.journal) = d.snapshots[id]
    /\ \A k \in 1 .. Len(r.journal) : r.journal[k] = d.journal[k]
    /\ r.snapshots = SubSeq(d.snapshots, 1, id - 1)
    /\ \A c \in Cell : Faithful(d, c) =>
          /\ Faithful(r, c)
          /\ \A v : \A n \in 0 .. d.snapshots[id] : ReturnsTo(d, n, c, v) => ReturnsTo(r, n, c, v)

\* RevertToSnapshot cuts the journal and the snapshots, and keeps every older
\* position of a faithfully recorded cell.
LEMMA RevertReturns ==
    ASSUME NEW d \in DB, NEW id \in 1 .. Len(d.snapshots), d.snapshots[id] <= Len(d.journal),
           NEW r, r = RevertToSnapshot(d, id)
    PROVE  Reverted(d, id, r)
<1> DEFINE Keeps(u) ==
      /\ u.snapshots = d.snapshots
      /\ Len(u.journal) <= Len(d.journal)
      /\ \A k \in 1 .. Len(u.journal) : u.journal[k] = d.journal[k]
      /\ \A c \in Cell : Faithful(d, c) =>
           /\ Faithful(u, c)
           /\ \A v : \A n \in 0 .. d.snapshots[id] : ReturnsTo(d, n, c, v) => ReturnsTo(u, n, c, v)
<1> DEFINE S == {u \in DB : Keeps(u)}
<1>0. Len(d.journal) \in Nat /\ d.snapshots \in Seq(Nat) /\ d.snapshots[id] \in Nat
  BY DEF DB
<1>1. d \in S
  BY <1>0
<1>2. ASSUME NEW u \in S, Len(u.journal) > d.snapshots[id]
      PROVE  UndoLast(u) \in S
  <2>0. u \in DB /\ Keeps(u)
    OBVIOUS
  <2> HIDE DEF S
  <2>1. Len(u.journal) > 0
    BY SMTT(60), <1>0, <1>2, <2>0 DEF DB
  <2>2. /\ UndoLast(u) \in DB /\ Len(u.journal) \in Nat
        /\ Len(UndoLast(u).journal) = Len(u.journal) - 1
        /\ \A k \in 1 .. (Len(u.journal) - 1) : UndoLast(u).journal[k] = u.journal[k]
        /\ UndoLast(u).snapshots = u.snapshots
    BY <2>0, <2>1, UndoneJournal
  <2>3. \A k \in 1 .. Len(UndoLast(u).journal) : UndoLast(u).journal[k] = d.journal[k]
    BY <2>0, <2>2
  <2>4. ASSUME NEW c \in Cell, Faithful(d, c)
        PROVE  /\ Faithful(UndoLast(u), c)
               /\ \A v : \A n \in 0 .. d.snapshots[id] : ReturnsTo(d, n, c, v) => ReturnsTo(UndoLast(u), n, c, v)
    <3>1. Faithful(u, c)
      BY <2>0, <2>4
    <3>2. Faithful(UndoLast(u), c)
      BY <2>0, <2>1, <3>1, UndoneFaithful
    <3>3. ASSUME NEW n \in 0 .. d.snapshots[id], NEW v, ReturnsTo(d, n, c, v)
          PROVE  ReturnsTo(UndoLast(u), n, c, v)
      <4>1. ReturnsTo(u, n, c, v)
        BY <2>0, <2>4, <3>3
      <4>2. n \in Nat /\ n < Len(u.journal)
        BY <1>0, <1>2, <2>2
      <4> QED BY <2>0, <3>1, <4>1, <4>2, UndoneReturns
    <3> QED BY <3>2, <3>3
  <2>5. Keeps(UndoLast(u))
    BY <1>0, <2>0, <2>2, <2>3, <2>4
  <2> QED BY <2>2, <2>5 DEF S
<1>3. S \in SUBSET DB
  OBVIOUS
<1> HIDE DEF S
<1>4. PICK u \in S : Len(u.journal) = d.snapshots[id] /\ r = [u EXCEPT !.snapshots = SubSeq(@, 1, id - 1)]
  BY <1>1, <1>2, <1>3, RevertInduction
<1>5. u \in DB /\ Keeps(u)
  BY DEF S
<1>6. SubSeq(u.snapshots, 1, id - 1) \in Seq(Nat)
  BY SMTT(60), <1>0, <1>5
<1>7. /\ r \in DB /\ r.journal = u.journal /\ r.snapshots = SubSeq(u.snapshots, 1, id - 1)
      /\ r.accounts = u.accounts /\ r.storage = u.storage /\ r.createdInTx = u.createdInTx
  BY <1>4, <1>5, <1>6 DEF DB
<1>8. ASSUME NEW c \in Cell, Faithful(d, c)
      PROVE  /\ Faithful(r, c)
             /\ \A v : \A n \in 0 .. d.snapshots[id] : ReturnsTo(d, n, c, v) => ReturnsTo(r, n, c, v)
  <2>1. Read(r, c) = Read(u, c) /\ \A a : Exists(r, a) = Exists(u, a)
    BY <1>7, SameReads
  <2>2. /\ \A n, v : ReturnsTo(u, n, c, v) => ReturnsTo(r, n, c, v)
        /\ Faithful(u, c) => Faithful(r, c)
    BY <1>7, <2>1, SameRecord
  <2> QED BY <1>5, <1>8, <2>2
<1> QED BY <1>4, <1>5, <1>7, <1>8 DEF Reverted
=============================================================================
