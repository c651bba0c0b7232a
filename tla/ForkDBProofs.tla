---------------------------- MODULE ForkDBProofs ----------------------------
(***************************************************************************)
(* Proofs about the ForkDB and its adapter, for every value of their       *)
(* constants: any number of goroutines, addresses, slots and operations.   *)
(***************************************************************************)
EXTENDS ForkDB, JournalProofs

(***************************************************************************)
(* Keys and their cells.                                                   *)
(***************************************************************************)
\* A key has a cell, and the value of the key is that of the cell.
LEMMA KeyCellType ==
    ASSUME NEW k \in Key
    PROVE  /\ KeyCell(k) \in Cell
           /\ KeyCell(k).addr \in Addr
           /\ \A d \in DB : Read(d, KeyCell(k)) \in KeyValue(k)
           /\ Chain(k) \in KeyValue(k)
           /\ k \in Addr => /\ KeyCell(k).addr = k
                            /\ KeyCell(k).field = "balance"
                            /\ \A d : Read(d, KeyCell(k)) = GetBalance(d, k)
           /\ k \notin Addr => /\ KeyCell(k).addr = k[1]
                               /\ KeyCell(k).field = "storage"
                               /\ KeyCell(k).slot = k[2]
                               /\ k[1] \in Addr /\ k[2] \in Slot /\ k = <<k[1], k[2]>>
                               /\ \A d : Read(d, KeyCell(k)) = GetStorage(d, k[1], k[2])
<1>1. CASE k \in Addr
  <2>1. KeyCell(k) = [addr |-> k, field |-> "balance"]
    BY <1>1 DEF KeyCell
  <2>2. KeyCell(k) \in Cell
    BY <1>1, <2>1 DEF Cell, AccountCell, AccountField
  <2>3. /\ KeyCell(k).addr = k /\ KeyCell(k).field = "balance"
        /\ \A d : Read(d, KeyCell(k)) = GetBalance(d, k)
    BY <2>1 DEF Read
  <2>4. ValueOf(KeyCell(k)) = KeyValue(k) /\ Chain(k) \in KeyValue(k)
    BY <1>1, <2>3, ForkAssumption DEF ValueOf, KeyValue, Chain
  <2> QED BY <1>1, <2>2, <2>3, <2>4, ReadType
<1>2. CASE k \notin Addr
  <2>1. KeyCell(k) = [addr |-> k[1], field |-> "storage", slot |-> k[2]] /\ k \in Addr \X Slot
    BY <1>2 DEF KeyCell, Key, SlotKey
  <2>2. k[1] \in Addr /\ k[2] \in Slot /\ k = <<k[1], k[2]>>
    BY <2>1
  <2>3. KeyCell(k) \in Cell
    BY <2>1, <2>2 DEF Cell, StorageCell
  <2>4. /\ KeyCell(k).addr = k[1] /\ KeyCell(k).field = "storage" /\ KeyCell(k).slot = k[2]
        /\ \A d : Read(d, KeyCell(k)) = GetStorage(d, k[1], k[2])
    BY <2>1 DEF Read
  <2>5. ValueOf(KeyCell(k)) = KeyValue(k) /\ Chain(k) \in KeyValue(k)
    BY <1>2, <2>4, ForkAssumption DEF ValueOf, KeyValue, Chain
  <2> QED BY <1>2, <2>2, <2>3, <2>4, <2>5, ReadType
<1> QED BY <1>1, <1>2

\* Which keys a journal entry touches.
LEMMA EntryKeys ==
    ASSUME NEW e, NEW k \in Key, Touches(e, KeyCell(k))
    PROVE  /\ e.kind \in {"balance", "create", "storage"}
           /\ e.kind \in {"balance", "create"} => k = e.addr
           /\ e.kind = "storage" => k = <<e.addr, e.slot>>
BY KeyCellType DEF Touches, Records, Resets

\* Different keys have different cells.
LEMMA KeyCellsDiffer ==
    ASSUME NEW k \in Key, NEW j \in Key, KeyCell(k) = KeyCell(j)
    PROVE  k = j
<1>1. KeyCell(k).field = KeyCell(j).field /\ KeyCell(k).addr = KeyCell(j).addr
  OBVIOUS
<1>2. CASE k \in Addr
  BY <1>1, <1>2, KeyCellType
<1>3. CASE k \notin Addr
  <2>1. j \notin Addr /\ KeyCell(k).slot = KeyCell(j).slot
    BY <1>1, <1>3, KeyCellType
  <2> QED BY <1>1, <1>3, <2>1, KeyCellType
<1> QED BY <1>2, <1>3

\* The key of a slot.
LEMMA SlotKeys ==
    ASSUME NEW a \in Addr, NEW s \in Slot
    PROVE  /\ <<a, s>> \in Key /\ <<a, s>> \notin Addr
           /\ KeyCell(<<a, s>>) = [addr |-> a, field |-> "storage", slot |-> s]
           /\ KeyValue(<<a, s>>) = Val
<1>1. <<a, s>> \in Addr \X Slot
  OBVIOUS
<1>2. <<a, s>> \notin Addr
  BY <1>1, ForkAssumption
<1> QED BY <1>1, <1>2 DEF Key, SlotKey, KeyCell, KeyValue
-----------------------------------------------------------------------------
(***************************************************************************)
(* The lock and the key that each goroutine wants.                         *)
(***************************************************************************)
Control == LockHeldDuringRPC /\ FetchesOnce

\* The steps of Ensure* and fetch* keep the lock with the goroutine that waits
\* for the node, and nobody else fetches meanwhile.
LEMMA EnsureControl ==
    ASSUME TypeOK, Control, NEW t \in Thread, Progress(t) \/ \E k \in Key : Ensure(t, k)
    PROVE  Control'
<1>1. /\ pc \in [Thread -> {"idle", "check", "lock", "rpc", "access"}]
      /\ want \in [Thread -> Key \cup {NoKey}] /\ NoThread \notin Thread
  BY ForkAssumption DEF TypeOK
<1>2. CASE \E k \in Key : Ensure(t, k)
  BY <1>1, <1>2 DEF Control, LockHeldDuringRPC, FetchesOnce, Ensure
<1>3. CASE CheckFetched(t)
  BY <1>1, <1>3 DEF Control, LockHeldDuringRPC, FetchesOnce, CheckFetched, Finish
<1>4. CASE Fetch(t)
  BY <1>1, <1>4 DEF Control, LockHeldDuringRPC, FetchesOnce, Fetch, Finish
<1>5. CASE \E complete \in BOOLEAN : Answered(t, complete)
  BY <1>1, <1>5 DEF Control, LockHeldDuringRPC, FetchesOnce, Answered, Finish
<1>6. CASE RPCFails(t)
  BY <1>1, <1>6 DEF Control, LockHeldDuringRPC, FetchesOnce, RPCFails, Finish
<1> QED BY <1>2, <1>3, <1>4, <1>5, <1>6 DEF Progress

\* The EVM touches neither the lock nor what is fetched.
LEMMA AdapterControl ==
    ASSUME TypeOK, Control, writer' = writer, fetched' = fetched,
           Leave \/ UNCHANGED <<pc, want>>
    PROVE  Control'
<1>1. /\ pc \in [Thread -> {"idle", "check", "lock", "rpc", "access"}]
      /\ want \in [Thread -> Key \cup {NoKey}] /\ vm \in Thread
  BY ForkAssumption DEF TypeOK
<1>2. CASE Leave
  BY <1>1, <1>2 DEF Control, LockHeldDuringRPC, FetchesOnce, Leave
<1>3. CASE UNCHANGED <<pc, want>>
  BY <1>3 DEF Control, LockHeldDuringRPC, FetchesOnce
<1> QED BY <1>2, <1>3
-----------------------------------------------------------------------------
(***************************************************************************)
(* What the StateDB and its journal know of the keys.                      *)
(***************************************************************************)
Data == SnapshotsNest /\ LoadedSound /\ PendingSound

\* A step that leaves the StateDB and the history alone.
LEMMA SameData ==
    ASSUME Data, UNCHANGED <<db, fetched, ideal, blind, garbled, saved>>
    PROVE  Data'
BY DEF Data, SnapshotsNest, LoadedSound, PendingSound, Loaded, Current

\* A journaled write of one key that is fetched, or becomes blind.
LEMMA WriteData ==
    ASSUME TypeOK, Data, NEW e, Logs(db, db', e), NEW k0 \in Key,
           saved' = saved, fetched' = fetched, garbled' = garbled,
           blind \subseteq blind', k0 \in fetched \cup blind',
           \A k \in Key : k # k0 => ideal'[k] = ideal[k] /\ ~ Touches(e, KeyCell(k)),
           k0 \notin blind' => ~ Resets(e, KeyCell(k0)),
           k0 \in Loaded' => Read(db', KeyCell(k0)) = ideal'[k0]
    PROVE  Data'
<1>1. /\ db \in DB /\ db.snapshots \in Seq(Nat) /\ Len(db.snapshots) \in Nat
      /\ fetched \subseteq Key
  BY DEF TypeOK, DB
<1>2. /\ Len(db.journal) \in Nat /\ Len(db'.journal) = Len(db.journal) + 1
      /\ db'.journal[Len(db.journal) + 1] = e
      /\ \A k \in 1 .. Len(db.journal) : db'.journal[k] = db.journal[k]
      /\ db'.snapshots = db.snapshots
  BY <1>1, LoggedJournal
<1>3. \A i \in 1 .. Len(db.snapshots) : db.snapshots[i] \in 0 .. Len(db.journal)
  BY <1>1, <1>2 DEF Data, SnapshotsNest
<1>4. SnapshotsNest'
  BY <1>2, <1>3 DEF Data, SnapshotsNest
<1>5. LoadedSound'
  <2> SUFFICES ASSUME NEW k \in Loaded'
               PROVE  /\ Read(db', KeyCell(k)) = ideal'[k]
                      /\ Faithful(db', KeyCell(k))
                      /\ \A i \in 1 .. Len(db.snapshots) :
                            ReturnsTo(db', db.snapshots[i], KeyCell(k), saved[i][k])
    BY <1>2 DEF LoadedSound, Current
  <2>1. k \in Loaded /\ k \in Key /\ k \notin blind'
    BY <1>1 DEF Loaded
  <2>2. /\ Read(db, KeyCell(k)) = ideal[k] /\ Faithful(db, KeyCell(k))
        /\ \A i \in 1 .. Len(db.snapshots) :
              ReturnsTo(db, db.snapshots[i], KeyCell(k), saved[i][k])
    BY <2>1 DEF Data, LoadedSound, Current
  <2>3. KeyCell(k) \in Cell
    BY <2>1, KeyCellType
  <2>4. ~ Resets(e, KeyCell(k))
    BY <2>1 DEF Touches
  <2>5. Faithful(db', KeyCell(k))
    BY <1>1, <2>2, <2>3, <2>4, LoggedFaithful
  <2>6. ASSUME NEW i \in 1 .. Len(db.snapshots)
        PROVE  ReturnsTo(db', db.snapshots[i], KeyCell(k), saved[i][k])
    BY <1>1, <1>3, <2>2, <2>3, <2>4, LoggedReturns
  <2>7. k # k0 => Read(db', KeyCell(k)) = Read(db, KeyCell(k))
    BY <2>1, <2>3 DEF Logs
  <2> QED BY <2>1, <2>2, <2>5, <2>6, <2>7
<1>6. PendingSound'
  <2> SUFFICES ASSUME NEW k \in Key, k \notin fetched, k \notin blind'
               PROVE  /\ ideal'[k] = Chain(k)
                      /\ \A i \in 1 .. Len(saved) : saved[i][k] = Chain(k)
                      /\ ~ Touched(db', KeyCell(k))
    BY DEF PendingSound
  <2>1. k # k0 /\ k \in Key \ (fetched \cup blind)
    OBVIOUS
  <2>2. ideal[k] = Chain(k) /\ (\A i \in 1 .. Len(saved) : saved[i][k] = Chain(k)) /\ ~ Touched(db, KeyCell(k))
    BY <2>1 DEF Data, PendingSound
  <2>3. ~ Touches(e, KeyCell(k)) /\ ideal'[k] = ideal[k]
    BY <2>1
  <2>4. ~ Touched(db', KeyCell(k))
    BY <1>2, <2>2, <2>3 DEF Touched
  <2> QED BY <2>2, <2>3, <2>4
<1> QED BY <1>4, <1>5, <1>6 DEF Data

\* Installing an answer changes the cell of one key, which the journal knows
\* nothing of.
LEMMA AnsweredData ==
    ASSUME TypeOK, Control, Data, NEW t \in Thread, NEW complete \in BOOLEAN, Answered(t, complete)
    PROVE  Data' /\ db' \in DB
<1> DEFINE k0 == want[t]
<1>1. /\ db \in DB /\ db.snapshots \in Seq(Nat) /\ Len(db.snapshots) \in Nat
      /\ fetched \subseteq Key
  BY DEF TypeOK, DB
<1>2. k0 \in Key /\ k0 \notin fetched
  BY DEF Control, FetchesOnce, Answered
<1>3. /\ fetched' = fetched \cup {k0} /\ ideal' = ideal /\ blind' = blind /\ saved' = saved
      /\ garbled' = IF complete THEN garbled ELSE garbled \cup {k0}
  BY DEF Answered
<1>4. /\ db' \in DB /\ db'.journal = db.journal /\ db'.snapshots = db.snapshots
      /\ \A a \in Addr : Exists(db, a) => Exists(db', a)
      /\ \A k \in Key : k # k0 => Read(db', KeyCell(k)) = Read(db, KeyCell(k))
      /\ complete => Read(db', KeyCell(k0)) = Chain(k0)
  <2>1. CASE k0 \in Addr
    <3> DEFINE acc == IF complete THEN ChainAccount ELSE EmptyAccount
    <3>1. EmptyAccount \in Account /\ ChainAccount \in Account /\ ChainAccount.balance = ChainBalance
      <4>1. 0 \in Word /\ ChainBalance \in Word /\ NoCode \in Code
        BY StateAssumption, ForkAssumption DEF Word
      <4> QED BY <4>1 DEF Account, EmptyAccount, ChainAccount
    <3>2. acc \in Account /\ (complete => acc.balance = ChainBalance) /\ acc # NoAccount
      BY <3>1, NoAccountAssumption
    <3>3. db' = SetAccount(db, k0, acc)
      BY <2>1 DEF Answered, InstallAccount
    <3> HIDE DEF acc, k0
    <3>4. db' \in DB /\ db'.journal = db.journal /\ db'.snapshots = db.snapshots
      BY <1>1, <2>1, <3>2, <3>3, SetAccountType DEF SetAccount, DB
    <3>5. /\ \A b \in Addr : getOrCreate(db', b) = IF b = k0 THEN acc ELSE getOrCreate(db, b)
          /\ \A b \in Addr : Exists(db', b) <=> (b = k0 \/ Exists(db, b))
          /\ \A c : c.field \in {"created", "storage"} => Read(db', c) = Read(db, c)
      BY <1>1, <2>1, <3>2, <3>3, SetAccountReads
    <3>6. ASSUME NEW k \in Key, k # k0
          PROVE  Read(db', KeyCell(k)) = Read(db, KeyCell(k))
      BY <3>5, <3>6, KeyCellType DEF GetBalance
    <3>7. complete => Read(db', KeyCell(k0)) = Chain(k0)
      BY <1>2, <2>1, <3>2, <3>5, KeyCellType DEF GetBalance, Chain
    <3> QED BY <3>4, <3>5, <3>6, <3>7
  <2>2. CASE k0 \notin Addr
    <3> DEFINE value == IF complete THEN ChainValue ELSE Zero
    <3>1. value \in Val /\ (complete => value = ChainValue)
      BY StateAssumption, ForkAssumption
    <3>2. db' = SetStorageDirect(db, k0[1], k0[2], value)
      BY <2>2 DEF Answered, InstallSlot
    <3> HIDE DEF value, k0
    <3>3. k0[1] \in Addr /\ k0[2] \in Slot /\ KeyCell(k0) = [addr |-> k0[1], field |-> "storage", slot |-> k0[2]]
      BY <1>2, <2>2, KeyCellType DEF KeyCell
    <3>4. /\ db' \in DB /\ db'.journal = db.journal /\ db'.snapshots = db.snapshots
          /\ \A b : Exists(db', b) = Exists(db, b)
          /\ \A c \in Cell : Read(db', c) = IF c = KeyCell(k0) THEN value ELSE Read(db, c)
      BY <1>1, <3>1, <3>2, <3>3, SetStorageDirectReads
    <3>5. ASSUME NEW k \in Key, k # k0
          PROVE  Read(db', KeyCell(k)) = Read(db, KeyCell(k))
      BY <1>2, <3>4, <3>5, KeyCellType, KeyCellsDiffer
    <3>6. complete => Read(db', KeyCell(k0)) = Chain(k0)
      BY <1>2, <2>2, <3>1, <3>4, KeyCellType DEF Chain
    <3> QED BY <3>4, <3>5, <3>6
  <2> QED BY <2>1, <2>2
<1> HIDE DEF k0
<1>5. SnapshotsNest'
  BY <1>3, <1>4 DEF Data, SnapshotsNest
<1>6. LoadedSound'
  <2> SUFFICES ASSUME NEW k \in Loaded'
               PROVE  /\ Read(db', KeyCell(k)) = ideal[k]
                      /\ Faithful(db', KeyCell(k))
                      /\ \A i \in 1 .. Len(db.snapshots) :
                            ReturnsTo(db', db.snapshots[i], KeyCell(k), saved[i][k])
    BY <1>3, <1>4 DEF LoadedSound, Current
  <2>0. k \in Key /\ KeyCell(k) \in Cell /\ KeyCell(k).addr \in Addr
    BY <1>1, <1>2, <1>3, KeyCellType DEF Loaded
  <2>1. CASE k = k0
    <3>1. k \in Key \ (fetched \cup blind) /\ complete
      BY <1>2, <1>3, <2>1 DEF Loaded
    <3>2. /\ ideal[k] = Chain(k) /\ ~ Touched(db, KeyCell(k))
          /\ \A i \in 1 .. Len(db.snapshots) : saved[i][k] = Chain(k)
      BY <3>1 DEF Data, PendingSound, SnapshotsNest
    <3>3. Read(db', KeyCell(k)) = Chain(k) /\ ~ Touched(db', KeyCell(k))
      BY <1>4, <2>1, <3>1, <3>2, SameRecord
    <3>4. Faithful(db', KeyCell(k))
      BY <3>3 DEF Faithful, FindsAccount, CreationFirst, Recorded, Touched, Touches
    <3>5. ASSUME NEW i \in 1 .. Len(db.snapshots)
          PROVE  ReturnsTo(db', db.snapshots[i], KeyCell(k), Chain(k))
      <4>1. db.snapshots[i] \in Nat
        BY <1>1
      <4> QED BY <1>4, <3>3, <4>1, UntouchedReturns
    <3> QED BY <3>2, <3>3, <3>4, <3>5
  <2>2. CASE k # k0
    <3>1. k \in Loaded
      BY <1>3, <2>2 DEF Loaded
    <3>2. Read(db', KeyCell(k)) = Read(db, KeyCell(k))
      BY <1>4, <2>0, <2>2
    <3>3. /\ Read(db, KeyCell(k)) = ideal[k] /\ Faithful(db, KeyCell(k))
          /\ \A i \in 1 .. Len(db.snapshots) :
                ReturnsTo(db, db.snapshots[i], KeyCell(k), saved[i][k])
      BY <3>1 DEF Data, LoadedSound, Current
    <3> QED BY <1>4, <2>0, <3>2, <3>3, SameRecord
  <2> QED BY <2>1, <2>2
<1>7. PendingSound'
  <2>1. \A k : Touched(db', KeyCell(k)) = Touched(db, KeyCell(k))
    BY <1>4, SameRecord
  <2> QED BY <1>3, <2>1 DEF Data, PendingSound
<1> QED BY <1>4, <1>5, <1>6, <1>7 DEF Data

\* A snapshot saves what the keys ideally hold, which is what the StateDB holds
\* of those that are loaded.
LEMMA SnapshotData ==
    ASSUME TypeOK, Data, AdapterSnapshot
    PROVE  Data'
<1> DEFINE m == Len(db.snapshots)
<1>1. /\ db \in DB /\ Len(db.journal) \in Nat /\ db.snapshots \in Seq(Nat) /\ m \in Nat
      /\ fetched \subseteq Key /\ saved \in Seq([Key -> Word \cup Val])
      /\ ideal \in [Key -> Word \cup Val]
  BY DEF TypeOK, DB
<1>2. /\ db' = Snapshot(db) /\ saved' = Append(saved, ideal)
      /\ fetched' = fetched /\ ideal' = ideal /\ blind' = blind /\ garbled' = garbled
  BY DEF AdapterSnapshot, Direct
<1>3. /\ db'.journal = db.journal /\ db'.accounts = db.accounts /\ db'.storage = db.storage
      /\ db'.createdInTx = db.createdInTx
      /\ db'.snapshots = Append(db.snapshots, Len(db.journal))
  BY <1>1, <1>2 DEF Snapshot, DB
<1>4. /\ Len(db'.snapshots) = m + 1
      /\ db'.snapshots[m + 1] = Len(db.journal)
      /\ \A i \in 1 .. m : db'.snapshots[i] = db.snapshots[i]
  BY <1>1, <1>3
<1>5. Len(saved) = m
  BY DEF Data, SnapshotsNest
<1>6. Len(saved') = m + 1 /\ saved'[m + 1] = ideal /\ \A i \in 1 .. m : saved'[i] = saved[i]
  BY <1>1, <1>2, <1>5
<1>7. \A i \in 1 .. m : db.snapshots[i] \in Nat /\ db.snapshots[i] <= Len(db.journal)
  BY <1>1 DEF Data, SnapshotsNest
<1>8. /\ \A a : Exists(db', a) = Exists(db, a)
      /\ \A c \in Cell : Read(db', c) = Read(db, c)
  BY <1>3, SameReads
<1>9. \A i, j \in 1 .. m : i <= j => db.snapshots[i] <= db.snapshots[j]
  BY DEF Data, SnapshotsNest
<1> HIDE DEF m
<1>10. SnapshotsNest'
  <2>1. ASSUME NEW i \in 1 .. (m + 1)
        PROVE  db'.snapshots[i] \in Nat /\ db'.snapshots[i] <= Len(db.journal)
    <3>1. i = m + 1 \/ i \in 1 .. m
      BY <1>1
    <3> QED BY SMTT(60), <1>1, <1>4, <1>7, <3>1
  <2>2. ASSUME NEW i \in 1 .. (m + 1), NEW j \in 1 .. (m + 1), i <= j
        PROVE  db'.snapshots[i] <= db'.snapshots[j]
    <3>1. CASE j = m + 1
      BY <1>4, <2>1, <3>1
    <3>2. CASE j # m + 1
      <4>1. i \in 1 .. m /\ j \in 1 .. m
        BY <1>1, <2>2, <3>2
      <4> QED BY <1>4, <1>9, <2>2, <4>1
    <3> QED BY <3>1, <3>2
  <2> QED BY <1>3, <1>4, <1>6, <2>1, <2>2 DEF SnapshotsNest
<1>11. LoadedSound'
  <2> SUFFICES ASSUME NEW k \in Loaded
               PROVE  /\ Read(db', KeyCell(k)) = ideal[k]
                      /\ Faithful(db', KeyCell(k))
                      /\ \A i \in 1 .. (m + 1) : ReturnsTo(db', db'.snapshots[i], KeyCell(k), saved'[i][k])
    BY <1>2, <1>4 DEF LoadedSound, Current, Loaded
  <2>1. KeyCell(k) \in Cell
    BY <1>1, KeyCellType DEF Loaded
  <2>2. /\ Read(db, KeyCell(k)) = ideal[k] /\ Faithful(db, KeyCell(k))
        /\ \A i \in 1 .. m : ReturnsTo(db, db.snapshots[i], KeyCell(k), saved[i][k])
    BY DEF Data, LoadedSound, Current, m
  <2>3. Read(db', KeyCell(k)) = ideal[k] /\ Faithful(db', KeyCell(k))
    BY <1>3, <1>8, <2>1, <2>2, SameRecord
  <2>4. ASSUME NEW i \in 1 .. (m + 1)
        PROVE  ReturnsTo(db, db'.snapshots[i], KeyCell(k), saved'[i][k])
    <3>1. CASE i = m + 1
      BY <1>1, <1>4, <1>6, <2>2, <3>1, ReturnsHere
    <3>2. CASE i # m + 1
      <4>1. i \in 1 .. m
        BY <1>1, <3>2
      <4> QED BY <1>4, <1>6, <2>2, <4>1
    <3> QED BY <3>1, <3>2
  <2> QED BY <1>3, <1>8, <2>1, <2>3, <2>4, SameRecord
<1>12. PendingSound'
  <2>1. \A k : Touched(db', KeyCell(k)) = Touched(db, KeyCell(k))
    BY <1>3, SameRecord
  <2> SUFFICES ASSUME NEW k \in Key \ (fetched \cup blind)
               PROVE  /\ ideal[k] = Chain(k)
                      /\ \A i \in 1 .. (m + 1) : saved'[i][k] = Chain(k)
                      /\ ~ Touched(db, KeyCell(k))
    BY <1>2, <1>6, <2>1 DEF PendingSound
  <2>2. /\ ideal[k] = Chain(k) /\ ~ Touched(db, KeyCell(k))
        /\ \A i \in 1 .. m : saved[i][k] = Chain(k)
    BY <1>5 DEF Data, PendingSound
  <2>3. \A i \in 1 .. (m + 1) : i = m + 1 \/ i \in 1 .. m
    BY <1>1
  <2> QED BY <1>6, <2>2, <2>3
<1> QED BY <1>10, <1>11, <1>12 DEF Data

\* A revert gives every loaded key the value it ideally had at the snapshot, also
\* those that were loaded after it.
LEMMA RevertData ==
    ASSUME TypeOK, Data, NEW id \in DOMAIN saved, AdapterRevertToSnapshot(id)
    PROVE  Data' /\ db' \in DB
<1> DEFINE m == id - 1
<1>1. /\ db \in DB /\ Len(db.journal) \in Nat /\ db.snapshots \in Seq(Nat) /\ Len(db.snapshots) \in Nat
      /\ fetched \subseteq Key /\ saved \in Seq([Key -> Word \cup Val])
  BY DEF TypeOK, DB
<1>2. /\ db' = RevertToSnapshot(db, id) /\ ideal' = saved[id] /\ saved' = SubSeq(saved, 1, id - 1)
      /\ fetched' = fetched /\ blind' = blind /\ garbled' = garbled
  BY DEF AdapterRevertToSnapshot, Direct
<1>3. Len(saved) = Len(db.snapshots) /\ id \in 1 .. Len(db.snapshots)
  BY <1>1 DEF Data, SnapshotsNest
<1>4. db.snapshots[id] \in Nat /\ db.snapshots[id] <= Len(db.journal)
  BY <1>1, <1>3 DEF Data, SnapshotsNest
<1>5. /\ db' \in DB /\ Len(db'.journal) = db.snapshots[id]
      /\ \A k \in 1 .. Len(db'.journal) : db'.journal[k] = db.journal[k]
      /\ db'.snapshots = SubSeq(db.snapshots, 1, id - 1)
      /\ \A c \in Cell : Faithful(db, c) =>
            /\ Faithful(db', c)
            /\ \A v : \A n \in 0 .. db.snapshots[id] : ReturnsTo(db, n, c, v) => ReturnsTo(db', n, c, v)
  <2> DEFINE r == RevertToSnapshot(db, id)
  <2>1. r = RevertToSnapshot(db, id) /\ db' = r
    BY <1>2
  <2> HIDE DEF r
  <2>2. /\ r \in DB /\ Len(r.journal) = db.snapshots[id]
        /\ \A k \in 1 .. Len(r.journal) : r.journal[k] = db.journal[k]
        /\ r.snapshots = SubSeq(db.snapshots, 1, id - 1)
        /\ \A c \in Cell : Faithful(db, c) =>
              /\ Faithful(r, c)
              /\ \A v : \A n \in 0 .. db.snapshots[id] : ReturnsTo(db, n, c, v) => ReturnsTo(r, n, c, v)
    <3>1. db \in DB /\ id \in 1 .. Len(db.snapshots) /\ db.snapshots[id] <= Len(db.journal)
      BY <1>1, <1>3, <1>4
    <3>2. Reverted(db, id, r)
      BY <2>1, <3>1, RevertReturns
    <3> QED BY <3>2 DEF Reverted
  <2> QED BY <2>1, <2>2
<1>6. /\ m \in Nat /\ Len(db'.snapshots) = m /\ Len(saved') = m
      /\ \A i \in 1 .. m : /\ db'.snapshots[i] = db.snapshots[i] /\ saved'[i] = saved[i]
                           /\ i \in 1 .. Len(db.snapshots) /\ i <= id
  BY <1>1, <1>2, <1>3, <1>5
<1> HIDE DEF m
<1>7. \A i \in 1 .. Len(db.snapshots) : i <= id => db.snapshots[i] \in 0 .. db.snapshots[id]
  <2>1. \A i, j \in 1 .. Len(db.snapshots) : i <= j => db.snapshots[i] <= db.snapshots[j]
    BY DEF Data, SnapshotsNest
  <2>2. \A i \in 1 .. Len(db.snapshots) : db.snapshots[i] \in Nat
    BY <1>1
  <2> QED BY <1>3, <2>1, <2>2
<1>8. SnapshotsNest'
  <2>1. \A i, j \in 1 .. m : i <= j => db'.snapshots[i] <= db'.snapshots[j]
    BY <1>6 DEF Data, SnapshotsNest
  <2>2. \A i \in 1 .. m : db'.snapshots[i] <= Len(db'.journal)
    <3> TAKE i \in 1 .. m
    <3>1. db'.snapshots[i] = db.snapshots[i] /\ i \in 1 .. Len(db.snapshots) /\ i <= id
      BY <1>6
    <3>2. db.snapshots[i] \in 0 .. db.snapshots[id]
      BY <1>7, <3>1
    <3>3. Len(db'.journal) = db.snapshots[id]
      BY <1>5
    <3> QED BY <1>4, <3>1, <3>2, <3>3
  <2> QED BY <1>6, <2>1, <2>2 DEF SnapshotsNest
<1>9. LoadedSound'
  <2> SUFFICES ASSUME NEW k \in Loaded
               PROVE  /\ Read(db', KeyCell(k)) = saved[id][k]
                      /\ Faithful(db', KeyCell(k))
                      /\ \A i \in 1 .. m : ReturnsTo(db', db'.snapshots[i], KeyCell(k), saved'[i][k])
    BY <1>2, <1>6 DEF LoadedSound, Current, Loaded
  <2>1. KeyCell(k) \in Cell
    BY <1>1, KeyCellType DEF Loaded
  <2>2. /\ Faithful(db, KeyCell(k))
        /\ \A i \in 1 .. Len(db.snapshots) : ReturnsTo(db, db.snapshots[i], KeyCell(k), saved[i][k])
    BY DEF Data, LoadedSound
  <2>3. Faithful(db', KeyCell(k))
    BY <1>5, <2>1, <2>2
  <2>4. \A i \in 1 .. Len(db.snapshots) : i <= id =>
           ReturnsTo(db', db.snapshots[i], KeyCell(k), saved[i][k])
    BY <1>5, <1>7, <2>1, <2>2
  <2>5. ReturnsTo(db', db.snapshots[id], KeyCell(k), saved[id][k])
    BY <1>3, <2>4
  <2>6. Read(db', KeyCell(k)) = saved[id][k]
    BY <1>4, <1>5, <2>5, Returned
  <2> QED BY <1>6, <2>3, <2>4, <2>6
<1>10. PendingSound'
  <2> SUFFICES ASSUME NEW k \in Key \ (fetched \cup blind)
               PROVE  /\ saved[id][k] = Chain(k)
                      /\ \A i \in 1 .. m : saved'[i][k] = Chain(k)
                      /\ ~ Touched(db', KeyCell(k))
    BY <1>2, <1>6 DEF PendingSound
  <2>1. /\ ~ Touched(db, KeyCell(k))
        /\ \A i \in 1 .. Len(db.snapshots) : saved[i][k] = Chain(k)
    BY <1>3 DEF Data, PendingSound
  <2>2. \A j \in 1 .. Len(db'.journal) : j \in 1 .. Len(db.journal)
    BY <1>1, <1>4, <1>5
  <2>3. ~ Touched(db', KeyCell(k))
    BY <1>5, <2>1, <2>2 DEF Touched
  <2> QED BY <1>3, <1>6, <2>1, <2>3
<1> QED BY <1>5, <1>8, <1>9, <1>10 DEF Data

\* Finalise empties the keys of the accounts it deletes, and forgets the journal.
LEMMA FinaliseData ==
    ASSUME TypeOK, Data, AdapterFinalise
    PROVE  Data'
<1> DEFINE gone == {k \in Key : HasSuicided(db, IF k \in Addr THEN k ELSE k[1])}
<1>1. db \in DB /\ fetched \subseteq Key
  BY DEF TypeOK
<1>2. /\ db' = Finalise(db) /\ fetched' = fetched /\ garbled' = garbled /\ saved' = << >>
      /\ blind' = blind \cup (gone \ fetched)
      /\ ideal' = [k \in Key |-> IF k \notin gone THEN ideal[k] ELSE IF k \in Addr THEN 0 ELSE Zero]
  BY DEF AdapterFinalise, Direct
<1>3. \A k \in Key : k \in gone <=> HasSuicided(db, KeyCell(k).addr)
  <2>1. \A k \in Key : KeyCell(k).addr = IF k \in Addr THEN k ELSE k[1]
    BY KeyCellType
  <2> QED BY <2>1
<1> HIDE DEF gone
<1>4. /\ db'.journal = << >> /\ db'.snapshots = << >> /\ Len(db'.snapshots) = 0 /\ Len(saved') = 0
  BY <1>1, <1>2 DEF Finalise, DB
<1>5. ASSUME NEW k \in Key
      PROVE  Read(db', KeyCell(k)) = IF k \notin gone THEN Read(db, KeyCell(k))
                                     ELSE IF k \in Addr THEN 0 ELSE Zero
  <2> DEFINE a == KeyCell(k).addr
  <2>1. a \in Addr
    BY KeyCellType
  <2>2. /\ db'.accounts[a] = (IF HasSuicided(db, a) THEN NoAccount ELSE db.accounts[a])
        /\ db'.storage[a] = (IF HasSuicided(db, a) THEN [s \in Slot |-> Zero] ELSE db.storage[a])
    BY <1>1, <1>2, <2>1 DEF Finalise, DB
  <2>3. CASE k \in Addr
    <3>1. Read(db', KeyCell(k)) = GetBalance(db', a) /\ Read(db, KeyCell(k)) = GetBalance(db, a)
      BY <2>3, KeyCellType
    <3>2. GetBalance(db', a) = IF HasSuicided(db, a) THEN 0 ELSE GetBalance(db, a)
      BY <2>2 DEF GetBalance, getOrCreate, Exists, EmptyAccount
    <3> QED BY <1>3, <2>3, <3>1, <3>2
  <2>4. CASE k \notin Addr
    <3>1. /\ Read(db', KeyCell(k)) = GetStorage(db', a, k[2]) /\ k[2] \in Slot
          /\ Read(db, KeyCell(k)) = GetStorage(db, a, k[2])
      BY <2>4, KeyCellType
    <3>2. GetStorage(db', a, k[2]) = IF HasSuicided(db, a) THEN Zero ELSE GetStorage(db, a, k[2])
      BY <2>2, <3>1 DEF GetStorage
    <3> QED BY <1>3, <2>4, <3>1, <3>2
  <2> QED BY <2>3, <2>4
<1>6. \A c : Faithful(db', c) /\ ~ Touched(db', c)
  BY <1>4, EmptyJournal
<1>7. SnapshotsNest'
  BY <1>4 DEF SnapshotsNest
<1>8. LoadedSound'
  <2> SUFFICES ASSUME NEW k \in Loaded'
               PROVE  Read(db', KeyCell(k)) = ideal'[k]
    BY <1>4, <1>6 DEF LoadedSound, Current
  <2>1. k \in Loaded /\ k \in Key
    BY <1>1, <1>2 DEF Loaded
  <2>2. Read(db, KeyCell(k)) = ideal[k]
    BY <2>1 DEF Data, LoadedSound, Current
  <2> QED BY <1>2, <1>5, <2>1, <2>2
<1>9. PendingSound'
  <2> SUFFICES ASSUME NEW k \in Key \ (fetched' \cup blind')
               PROVE  ideal'[k] = Chain(k)
    BY <1>4, <1>6 DEF PendingSound
  <2>1. k \in Key \ (fetched \cup blind) /\ k \notin gone
    BY <1>2
  <2>2. ideal[k] = Chain(k)
    BY <2>1 DEF Data, PendingSound
  <2> QED BY <1>2, <2>1, <2>2
<1> QED BY <1>7, <1>8, <1>9 DEF Data
-----------------------------------------------------------------------------
(***************************************************************************)
(* The inductive step, one case for each action.                           *)
(***************************************************************************)
IInv == TypeOK /\ LockHeldDuringRPC /\ LoadingIsInvisible

\* The inductive invariant is the control part and the data part.
LEMMA Parts ==
    /\ IInv <=> TypeOK /\ Control /\ Data
    /\ IInv' <=> TypeOK' /\ Control' /\ Data'
BY DEF IInv, Control, Data, LoadingIsInvisible

\* Finishing Ensure* and leaving the adapter keep the types of pc and want.
LEMMA ControlType ==
    ASSUME TypeOK
    PROVE  /\ \A t \in Thread : Finish(t) =>
                 /\ pc' \in [Thread -> {"idle", "check", "lock", "rpc", "access"}]
                 /\ want' \in [Thread -> Key \cup {NoKey}]
           /\ Leave => /\ pc' \in [Thread -> {"idle", "check", "lock", "rpc", "access"}]
                       /\ want' \in [Thread -> Key \cup {NoKey}]
BY DEF TypeOK, Finish, Leave

\* The steps of Ensure* and fetch*.
LEMMA EnsureStep ==
    ASSUME IInv, NEW t \in Thread, Progress(t) \/ \E k \in Key : Ensure(t, k)
    PROVE  IInv'
<1>0. TypeOK /\ Control /\ Data
  BY Parts
<1>1. Control'
  BY <1>0, EnsureControl
<1>2. CASE \E k \in Key : Ensure(t, k)
  <2>1. TypeOK'
    BY <1>0, <1>2 DEF TypeOK, Ensure
  <2>2. Data'
    BY <1>0, <1>2, SameData DEF Ensure
  <2> QED BY <1>1, <2>1, <2>2, Parts
<1>3. CASE CheckFetched(t)
  <2>1. TypeOK'
    BY <1>0, <1>3, ControlType DEF TypeOK, CheckFetched
  <2>2. Data'
    BY <1>0, <1>3, SameData DEF CheckFetched
  <2> QED BY <1>1, <2>1, <2>2, Parts
<1>4. CASE Fetch(t)
  <2>1. TypeOK'
    BY <1>0, <1>4, ControlType DEF TypeOK, Fetch
  <2>2. Data'
    BY <1>0, <1>4, SameData DEF Fetch
  <2> QED BY <1>1, <2>1, <2>2, Parts
<1>5. CASE RPCFails(t)
  <2>1. TypeOK'
    BY <1>0, <1>5, ControlType DEF TypeOK, RPCFails
  <2>2. Data'
    BY <1>0, <1>5, SameData DEF RPCFails
  <2> QED BY <1>1, <2>1, <2>2, Parts
<1>6. CASE \E complete \in BOOLEAN : Answered(t, complete)
  <2>1. PICK complete \in BOOLEAN : Answered(t, complete)
    BY <1>6
  <2>2. Data' /\ db' \in DB
    BY <1>0, <2>1, AnsweredData
  <2>3. want[t] \in Key
    BY <1>0, <2>1 DEF Control, FetchesOnce, Answered
  <2>4. /\ pc' \in [Thread -> {"idle", "check", "lock", "rpc", "access"}]
        /\ want' \in [Thread -> Key \cup {NoKey}]
    BY <1>0, <2>1, ControlType DEF Answered
  <2>5. TypeOK'
    BY <1>0, <2>1, <2>2, <2>3, <2>4 DEF TypeOK, Answered
  <2> QED BY <1>1, <2>2, <2>5, Parts
<1> QED BY <1>2, <1>3, <1>4, <1>5, <1>6 DEF Progress

\* A write of the EVM that is journaled for key k and leaves in its cell what it
\* ideally holds keeps the invariant.
LEMMA WriteStep ==
    ASSUME IInv, NEW k \in Key, NEW d \in DB, NEW value \in KeyValue(k), Write(k, d, value),
           NEW e \in JournalEntry \ JCreate, Logs(db, d, e),
           \A j \in Key : j # k => ~ Touches(e, KeyCell(j)),
           Read(db, KeyCell(k)) = ideal[k] => Read(d, KeyCell(k)) = value
    PROVE  IInv'
<1>0. TypeOK /\ Control /\ Data
  BY Parts
<1>1. /\ Leave /\ ops < MaxOps /\ db' = d /\ ideal' = [ideal EXCEPT ![k] = value]
      /\ blind' = (IF k \in fetched THEN blind ELSE blind \cup {k})
      /\ ops' = ops + 1 /\ fetched' = fetched /\ writer' = writer /\ garbled' = garbled
      /\ saved' = saved
  BY DEF Write
<1>2. ideal \in [Key -> Word \cup Val] /\ ops \in Nat /\ MaxOps \in Nat /\ value \in Word \cup Val
  BY <1>0, ForkAssumption DEF TypeOK, KeyValue
<1>3. ideal'[k] = value /\ \A j \in Key : j # k => ideal'[j] = ideal[j]
  BY <1>1, <1>2
<1>4. e.kind # "create"
  BY DEF JournalEntry, JBalance, JNonce, JCode, JStorage, JCreate, JSuicide
<1>5. k \in Loaded' => Read(db', KeyCell(k)) = ideal'[k]
  <2> SUFFICES ASSUME k \in Loaded'
               PROVE  Read(d, KeyCell(k)) = value
    BY <1>1, <1>3
  <2>1. k \in Loaded
    BY <1>1 DEF Loaded
  <2> QED BY <1>0, <2>1 DEF Data, LoadedSound, Current
<1>6. \A c : ~ Resets(e, c)
  BY <1>4 DEF Resets
<1>7. blind \subseteq blind' /\ k \in fetched \cup blind'
  BY <1>1
<1>8. Data'
  BY <1>0, <1>1, <1>3, <1>5, <1>6, <1>7, WriteData
<1>9. Control'
  BY <1>0, <1>1, AdapterControl
<1>10. TypeOK'
  <2>1. /\ pc' \in [Thread -> {"idle", "check", "lock", "rpc", "access"}]
        /\ want' \in [Thread -> Key \cup {NoKey}]
    BY <1>0, <1>1, ControlType
  <2>2. ideal' \in [Key -> Word \cup Val] /\ \A j \in Key : ideal'[j] \in KeyValue(j)
    BY <1>0, <1>1, <1>2, <1>3 DEF TypeOK
  <2>3. ops' \in 0 .. MaxOps
    BY <1>1, <1>2
  <2> QED BY <1>0, <1>1, <2>1, <2>2, <2>3 DEF TypeOK
<1> QED BY <1>8, <1>9, <1>10, Parts

\* The setters of an account that keep its balance.
LEMMA OtherFieldStep ==
    ASSUME IInv, NEW a \in Addr, NEW d \in DB, Write(a, d, ideal[a]),
           NEW e \in JournalEntry \ JCreate, Logs(db, d, e), e.kind \in {"nonce", "code"}
    PROVE  IInv'
<1>1. a \in Key /\ ideal[a] \in KeyValue(a)
  BY DEF Key, IInv, TypeOK
<1>2. \A j \in Key : ~ Touches(e, KeyCell(j))
  BY EntryKeys
<1>3. Read(d, KeyCell(a)) = Read(db, KeyCell(a))
  BY <1>1, <1>2, KeyCellType DEF Logs
<1> QED BY <1>1, <1>2, <1>3, WriteStep

\* The setters of the balance.
LEMMA BalanceStep ==
    ASSUME IInv, NEW a \in Addr, NEW val \in Word, NEW value \in Word,
           Write(a, SetBalance(db, a, val), value),
           GetBalance(db, a) = ideal[a] => val = value
    PROVE  IInv'
<1>1. a \in Key /\ KeyValue(a) = Word /\ db \in DB
  BY DEF Key, KeyValue, IInv, TypeOK
<1>2. PICK e \in JournalEntry \ JCreate :
         Logs(db, SetBalance(db, a, val), e) /\ e.kind = "balance" /\ e.addr = a
  BY <1>1, SettersWrite
<1>3. GetBalance(SetBalance(db, a, val), a) = val /\ SetBalance(db, a, val) \in DB
  BY <1>1, SettersWrite, SettersType
<1>4. /\ Read(db, KeyCell(a)) = GetBalance(db, a)
      /\ Read(SetBalance(db, a, val), KeyCell(a)) = val
  BY <1>1, <1>3, KeyCellType
<1>5. \A j \in Key : j # a => ~ Touches(e, KeyCell(j))
  BY <1>2, EntryKeys
<1> QED BY <1>1, <1>2, <1>3, <1>4, <1>5, WriteStep

\* The setters of the adapter.
LEMMA SetterStep ==
    ASSUME IInv,
           \/ \E val \in Amounts : AdapterSetBalance(val) \/ AdapterAddBalance(val) \/ AdapterSubBalance(val)
           \/ AdapterSetNonce(1)
           \/ \E code \in Code : AdapterSetCode(code)
           \/ \E s \in Slot, value \in Val : AdapterSetStorage(s, value)
    PROVE  IInv'
<1> DEFINE a == want[vm]
<1>0. db \in DB /\ Amounts \subseteq Word /\ \A k \in Key : ideal[k] \in KeyValue(k)
  BY ForkAssumption DEF IInv, TypeOK
<1>1. a \in Addr
  BY DEF AdapterSetBalance, AdapterAddBalance, AdapterSubBalance, AdapterSetNonce,
         AdapterSetCode, AdapterSetStorage
<1>2. a \in Key /\ ideal[a] \in Word
  BY <1>0, <1>1 DEF Key, KeyValue
<1>3. CASE \E val \in Amounts : AdapterSetBalance(val)
  BY <1>0, <1>1, <1>3, BalanceStep DEF AdapterSetBalance
<1>4. CASE \E val \in Amounts : AdapterAddBalance(val)
  <2>1. PICK amount \in Word : AdapterAddBalance(amount)
    BY <1>0, <1>4
  <2>2. GetBalance(db, a) \in Word
    BY <1>0, <1>1, GetOrCreateType DEF GetBalance, Account
  <2>3. /\ (GetBalance(db, a) + amount) % WordMod \in Word
        /\ (ideal[a] + amount) % WordMod \in Word
    BY <1>2, <2>2, StateAssumption DEF Word
  <2>4. Write(a, SetBalance(db, a, (GetBalance(db, a) + amount) % WordMod), (ideal[a] + amount) % WordMod)
    BY <2>1 DEF AdapterAddBalance, AddBalance
  <2> HIDE DEF a
  <2> QED BY <1>1, <2>3, <2>4, BalanceStep
<1>5. CASE \E val \in Amounts : AdapterSubBalance(val)
  <2>1. PICK amount \in Word : AdapterSubBalance(amount)
    BY <1>0, <1>5
  <2>2. GetBalance(db, a) \in Word
    BY <1>0, <1>1, GetOrCreateType DEF GetBalance, Account
  <2>3. /\ (GetBalance(db, a) - amount) % WordMod \in Word
        /\ (ideal[a] - amount) % WordMod \in Word
    BY <1>2, <2>2, StateAssumption DEF Word
  <2>4. Write(a, SetBalance(db, a, (GetBalance(db, a) - amount) % WordMod), (ideal[a] - amount) % WordMod)
    BY <2>1 DEF AdapterSubBalance, SubBalance
  <2> HIDE DEF a
  <2> QED BY <1>1, <2>3, <2>4, BalanceStep
<1>6. CASE AdapterSetNonce(1)
  <2>1. PICK e \in JournalEntry \ JCreate : Logs(db, SetNonce(db, a, 1), e) /\ e.kind = "nonce"
    BY <1>0, <1>1, SettersWrite
  <2> QED BY <1>0, <1>1, <1>6, <2>1, SettersType, OtherFieldStep DEF AdapterSetNonce
<1>7. CASE \E code \in Code : AdapterSetCode(code)
  <2>1. PICK code \in Code : AdapterSetCode(code)
    BY <1>7
  <2>2. PICK e \in JournalEntry \ JCreate : Logs(db, SetCode(db, a, code), e) /\ e.kind = "code"
    BY <1>0, <1>1, SettersWrite
  <2> QED BY <1>0, <1>1, <2>1, <2>2, SettersType, OtherFieldStep DEF AdapterSetCode
<1>8. CASE \E s \in Slot, value \in Val : AdapterSetStorage(s, value)
  <2>1. PICK s \in Slot, value \in Val : AdapterSetStorage(s, value)
    BY <1>8
  <2> DEFINE d == SetStorage(db, a, s, value)
  <2>2. PICK e \in JournalEntry \ JCreate :
           Logs(db, d, e) /\ e.kind = "storage" /\ e.addr = a /\ e.slot = s
    BY <1>0, <1>1, SettersWrite
  <2>3. d \in DB /\ GetStorage(d, a, s) = value
    BY <1>0, <1>1, StorageType, SettersWrite
  <2>4. Write(<<a, s>>, d, value)
    BY <2>1 DEF AdapterSetStorage
  <2> HIDE DEF d, a
  <2>5. /\ <<a, s>> \in Key /\ value \in KeyValue(<<a, s>>) /\ <<a, s>> \notin Addr
        /\ \A j \in Key : j # <<a, s>> => ~ Touches(e, KeyCell(j))
    BY <1>1, <2>2, SlotKeys, EntryKeys
  <2>6. Read(d, KeyCell(<<a, s>>)) = value
    BY <1>1, <2>3, <2>5, KeyCellType
  <2> QED BY <2>2, <2>3, <2>4, <2>5, <2>6, WriteStep
<1> QED BY <1>3, <1>4, <1>5, <1>6, <1>7, <1>8

\* Creating an account makes its key blind.
LEMMA CreateStep ==
    ASSUME IInv, AdapterCreateAccount
    PROVE  IInv'
<1> DEFINE a == want[vm]
<1> DEFINE e == [kind |-> "create", addr |-> a]
<1>0. TypeOK /\ Control /\ Data
  BY Parts
<1>1. /\ Leave /\ a \in Addr /\ ops < MaxOps /\ db' = CreateAccount(db, a)
      /\ blind' = blind \cup {a} /\ ops' = ops + 1
      /\ fetched' = fetched /\ writer' = writer /\ ideal' = ideal /\ garbled' = garbled /\ saved' = saved
  BY DEF AdapterCreateAccount
<1>2. db \in DB /\ a \in Key /\ ops \in Nat /\ MaxOps \in Nat
  BY <1>0, <1>1, ForkAssumption DEF TypeOK, Key
<1>3. Logs(db, db', e) /\ db' \in DB /\ e.kind = "create" /\ e.addr = a
  BY <1>1, <1>2, CreateLogs, SettersType
<1> HIDE DEF e, a
<1>4. \A j \in Key : j # a => ~ Touches(e, KeyCell(j))
  BY <1>3, EntryKeys
<1>5. a \in blind' /\ a \notin Loaded' /\ blind \subseteq blind'
  BY <1>1 DEF Loaded
<1>6. Data'
  BY <1>0, <1>1, <1>2, <1>3, <1>4, <1>5, WriteData
<1>7. Control'
  BY <1>0, <1>1, AdapterControl
<1>8. /\ pc' \in [Thread -> {"idle", "check", "lock", "rpc", "access"}]
      /\ want' \in [Thread -> Key \cup {NoKey}]
  BY <1>0, <1>1, ControlType
<1>9. ops' \in 0 .. MaxOps
  BY <1>1, <1>2
<1>10. TypeOK'
  BY <1>0, <1>1, <1>2, <1>3, <1>8, <1>9 DEF TypeOK
<1> QED BY <1>6, <1>7, <1>10, Parts

\* The methods that ensure nothing keep the control part, and the types of what
\* they do not assign.
LEMMA DirectStep ==
    ASSUME IInv, NEW d \in DB, Direct(d), Data',
           ideal' \in [Key -> Word \cup Val], \A k \in Key : ideal'[k] \in KeyValue(k),
           blind' \subseteq Key, saved' \in Seq([Key -> Word \cup Val]),
           \A i \in 1 .. Len(saved') : \A k \in Key : saved'[i][k] \in KeyValue(k)
    PROVE  IInv'
<1>0. TypeOK /\ Control /\ Data
  BY Parts
<1>1. Control'
  BY <1>0, AdapterControl DEF Direct
<1>2. ops' \in 0 .. MaxOps
  BY <1>0, ForkAssumption DEF TypeOK, Direct
<1>3. TypeOK'
  BY <1>0, <1>2 DEF TypeOK, Direct
<1> QED BY <1>1, <1>3, Parts

\* A self-destruct touches no key, and inserts an account only where none was
\* fetched.
LEMMA SuicideStep ==
    ASSUME IInv, NEW a \in Addr, AdapterSuicide(a)
    PROVE  IInv'
<1>0. TypeOK /\ Control /\ Data
  BY Parts
<1>1. /\ Direct(Suicide(db, a)) /\ db' = Suicide(db, a) /\ ideal' = ideal /\ saved' = saved
      /\ blind' = (IF a \in fetched THEN blind ELSE blind \cup {a})
      /\ fetched' = fetched /\ garbled' = garbled
  BY DEF AdapterSuicide, Direct
<1>2. db \in DB /\ a \in Key /\ Suicide(db, a) \in DB
  BY <1>0, SettersType DEF TypeOK, Key
<1>3. PICK e \in JournalEntry \ JCreate : Logs(db, db', e) /\ e.kind = "suicide"
  BY <1>1, <1>2, SettersWrite
<1>4. \A j \in Key : ~ Touches(e, KeyCell(j))
  BY <1>3, EntryKeys
<1>5. a \in Loaded' => Read(db', KeyCell(a)) = ideal'[a]
  <2> SUFFICES ASSUME a \in Loaded'
               PROVE  Read(db', KeyCell(a)) = ideal[a]
    BY <1>1
  <2>1. a \in Loaded
    BY <1>1 DEF Loaded
  <2>2. Read(db, KeyCell(a)) = ideal[a]
    BY <1>0, <2>1 DEF Data, LoadedSound, Current
  <2> QED BY <1>2, <1>3, <1>4, <2>2, KeyCellType DEF Logs
<1>6. ~ Resets(e, KeyCell(a)) /\ blind \subseteq blind' /\ a \in fetched \cup blind'
  BY <1>1, <1>2, <1>4 DEF Touches
<1>7. Data'
  BY <1>0, <1>1, <1>2, <1>3, <1>4, <1>5, <1>6, WriteData
<1> QED BY <1>0, <1>1, <1>2, <1>7, DirectStep DEF TypeOK

\* Snapshot, RevertToSnapshot and Finalise.
LEMMA SnapshotStep ==
    ASSUME IInv,
           AdapterSnapshot \/ (\E id \in DOMAIN saved : AdapterRevertToSnapshot(id)) \/ AdapterFinalise
    PROVE  IInv'
<1>0. TypeOK /\ Control /\ Data
  BY Parts
<1>1. /\ db \in DB /\ saved \in Seq([Key -> Word \cup Val]) /\ ideal \in [Key -> Word \cup Val]
      /\ \A k \in Key : ideal[k] \in KeyValue(k)
      /\ \A i \in 1 .. Len(saved) : \A k \in Key : saved[i][k] \in KeyValue(k)
      /\ blind \subseteq Key
  BY <1>0 DEF TypeOK
<1>2. CASE AdapterSnapshot
  <2>1. Direct(Snapshot(db)) /\ saved' = Append(saved, ideal) /\ ideal' = ideal /\ blind' = blind
    BY <1>2 DEF AdapterSnapshot
  <2>2. Data' /\ Snapshot(db) \in DB
    BY <1>0, <1>1, <1>2, SnapshotData, OtherOpsType
  <2>3. saved' \in Seq([Key -> Word \cup Val])
    BY <1>1, <2>1
  <2>4. ASSUME NEW i \in 1 .. Len(saved'), NEW k \in Key
        PROVE  saved'[i][k] \in KeyValue(k)
    <3>1. i = Len(saved) + 1 \/ i \in 1 .. Len(saved)
      BY <1>1, <2>1
    <3>2. CASE i = Len(saved) + 1
      <4>1. saved'[i] = ideal
        BY <1>1, <2>1, <3>2
      <4> QED BY <1>1, <4>1
    <3>3. CASE i \in 1 .. Len(saved)
      <4>1. saved'[i] = saved[i]
        BY <1>1, <2>1, <3>3
      <4> QED BY <1>1, <3>3, <4>1
    <3> QED BY <3>1, <3>2, <3>3
  <2> QED BY <1>1, <2>1, <2>2, <2>3, <2>4, DirectStep
<1>3. CASE \E id \in DOMAIN saved : AdapterRevertToSnapshot(id)
  <2>1. PICK id \in DOMAIN saved : AdapterRevertToSnapshot(id)
    BY <1>3
  <2>2. /\ Direct(RevertToSnapshot(db, id)) /\ db' = RevertToSnapshot(db, id)
        /\ ideal' = saved[id] /\ saved' = SubSeq(saved, 1, id - 1) /\ blind' = blind
    BY <2>1 DEF AdapterRevertToSnapshot, Direct
  <2>3. Data' /\ db' \in DB
    BY <1>0, <2>1, RevertData
  <2>4. id \in 1 .. Len(saved) /\ Len(saved) \in Nat
    BY <1>1
  <2>5. /\ saved' \in Seq([Key -> Word \cup Val])
        /\ \A i \in 1 .. Len(saved') : i \in 1 .. Len(saved) /\ saved'[i] = saved[i]
    BY <1>1, <2>2, <2>4
  <2>6. ideal' \in [Key -> Word \cup Val]
    BY <1>1, <2>2, <2>4
  <2>7. \A i \in 1 .. Len(saved') : \A k \in Key : saved'[i][k] \in KeyValue(k)
    BY <1>1, <2>5
  <2> QED BY <1>1, <2>2, <2>3, <2>4, <2>5, <2>6, <2>7, DirectStep
<1>4. CASE AdapterFinalise
  <2> DEFINE gone == {k \in Key : HasSuicided(db, IF k \in Addr THEN k ELSE k[1])}
  <2>1. /\ Direct(Finalise(db)) /\ saved' = << >> /\ blind' = blind \cup (gone \ fetched)
        /\ ideal' = [k \in Key |-> IF k \notin gone THEN ideal[k] ELSE IF k \in Addr THEN 0 ELSE Zero]
    BY <1>4 DEF AdapterFinalise
  <2>2. Data' /\ Finalise(db) \in DB
    BY <1>0, <1>1, <1>4, FinaliseData, OtherOpsType
  <2>3. blind' \subseteq Key
    BY <1>1, <2>1
  <2> HIDE DEF gone
  <2>4. 0 \in Word /\ Zero \in Val
    BY StateAssumption DEF Word
  <2>5. \A k \in Key : ideal'[k] \in KeyValue(k) /\ ideal'[k] \in Word \cup Val
    BY <1>1, <2>1, <2>4 DEF KeyValue
  <2>6. ideal' \in [Key -> Word \cup Val]
    BY <2>1, <2>5
  <2>7. saved' \in Seq([Key -> Word \cup Val]) /\ Len(saved') = 0
    BY <2>1
  <2> QED BY <2>1, <2>2, <2>3, <2>5, <2>6, <2>7, DirectStep
<1> QED BY <1>2, <1>3, <1>4

\* The inductive invariant holds initially.
LEMMA InitSound ==
    ASSUME Init
    PROVE  IInv
<1>1. db \in DB /\ db.journal = << >> /\ db.snapshots = << >> /\ Len(db.snapshots) = 0 /\ Len(saved) = 0
  BY NewType DEF Init, New
<1>2. ideal = [k \in Key |-> Chain(k)] /\ \A k \in Key : Chain(k) \in KeyValue(k) /\ Chain(k) \in Word \cup Val
  BY KeyCellType DEF Init, KeyValue
<1>3. TypeOK
  BY <1>1, <1>2, ForkAssumption DEF Init, TypeOK
<1>4. Control
  BY ForkAssumption DEF Init, Control, LockHeldDuringRPC, FetchesOnce
<1>5. \A c : ~ Touched(db, c)
  BY <1>1, EmptyJournal
<1>6. Data
  BY <1>1, <1>2, <1>5 DEF Init, Data, SnapshotsNest, LoadedSound, PendingSound, Loaded
<1> QED BY <1>3, <1>4, <1>6, Parts

\* Every step keeps the inductive invariant.
LEMMA NextSound ==
    ASSUME IInv, [Next]_vars
    PROVE  IInv'
<1>1. CASE UNCHANGED vars
  BY <1>1 DEF vars, IInv, TypeOK, LockHeldDuringRPC, LoadingIsInvisible, SnapshotsNest,
              FetchesOnce, LoadedSound, PendingSound, Loaded, Current
<1>2. CASE AdapterRead
  <2>0. TypeOK /\ Control /\ Data
    BY Parts
  <2>1. Control'
    BY <1>2, <2>0, AdapterControl DEF AdapterRead
  <2>2. Data'
    BY <1>2, <2>0, SameData DEF AdapterRead
  <2>3. TypeOK'
    BY <1>2, <2>0, ControlType DEF TypeOK, AdapterRead
  <2> QED BY <2>1, <2>2, <2>3, Parts
<1> QED BY <1>1, <1>2, EnsureStep, SetterStep, CreateStep, SuicideStep, SnapshotStep DEF Next
-----------------------------------------------------------------------------
(***************************************************************************)
(* Theorems.                                                               *)
(***************************************************************************)
\* Every behaviour of the ForkDB satisfies the inductive invariant.
LEMMA Invariance == Spec => []IInv
<1>1. Init => IInv
  BY InitSound
<1>2. IInv /\ [Next]_vars => IInv'
  BY NextSound
<1> QED BY <1>1, <1>2, PTL DEF Spec

\* The ForkDB, its StateDB and the goroutines' places keep their types.
THEOREM ForkTypeCorrect == Spec => []TypeOK
<1>1. IInv => TypeOK
  BY DEF IInv
<1> QED BY <1>1, Invariance, PTL

\* The write lock is held exactly by the goroutine that waits for the node, for
\* any number of goroutines.
THEOREM LockIsHeldDuringRPC == Spec => []LockHeldDuringRPC
<1>1. IInv => LockHeldDuringRPC
  BY DEF IInv
<1> QED BY <1>1, Invariance, PTL

\* Loading a key late cannot be told from having loaded it in advance: its value,
\* and its value at every live snapshot, are those of a state that was loaded in
\* advance.
THEOREM LateLoadIsInvisible == Spec => []LoadingIsInvisible
<1>1. IInv => LoadingIsInvisible
  BY DEF IInv
<1> QED BY <1>1, Invariance, PTL

\* What was fetched is what the node has with the EVM's writes and reverts on
\* top, whatever the goroutines and the node do.
THEOREM FetchedKeysAreIdeal == Spec => []FetchedIsIdeal
<1>1. IInv => FetchedIsIdeal
  BY DEF IInv, LoadingIsInvisible, LoadedSound, FetchedIsIdeal
<1> QED BY <1>1, Invariance, PTL
=============================================================================
