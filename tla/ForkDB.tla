------------------------------- MODULE ForkDB -------------------------------
(***************************************************************************)
(* fastvm's ForkDB (forkdb/forkdb.go) and the adapter through which the    *)
(* EVM uses it (evm/forkdb_adapter.go): accounts and slots are loaded from *)
(* a node by RPC when they are first needed, and remembered as fetched.    *)
(*                                                                         *)
(* Goroutines call EnsureAccount and EnsureSlot concurrently.  One of      *)
(* them, vm, runs the EVM: before each access to the StateDB the adapter   *)
(* ensures a key, and ignores the error when that fails; SetStorage        *)
(* ensures the account and not the slot.  The RPC happens while the write  *)
(* lock is held; it may fail or time out, and the parts of an answer that  *)
(* cannot be decoded are read as zero.  vm touches the StateDB without the *)
(* lock: that this may happen while another goroutine installs an answer   *)
(* is a data race, of which the model has the two orders and not the       *)
(* corruption.                                                             *)
(*                                                                         *)
(* A key is an address or a pair of an address and a slot.  Of an account  *)
(* only the balance is looked at.  History variables: ideal is what each   *)
(* key would hold if the whole state of the node had been loaded           *)
(* beforehand, and saved what it was at each live snapshot; blind is the   *)
(* set of keys that were written, created or destroyed while they were not *)
(* fetched, or created at all, of which the journal does not keep what was *)
(* there; garbled those whose answer could not be decoded.                 *)
(***************************************************************************)
EXTENDS Cells

CONSTANTS
    Thread, vm,        \* goroutines; vm runs the EVM
    NoThread, NoKey,
    ChainBalance,      \* the balance of every account at the node
    ChainValue,        \* the value of every slot at the node
    Amounts,           \* the amounts and balances that the EVM writes
    MaxOps             \* bound: operations of the EVM that write

ASSUME ForkAssumption ==
    /\ vm \in Thread
    /\ NoThread \notin Thread
    /\ NoKey \notin Addr \cup (Addr \X Slot)
    /\ Addr \cap (Addr \X Slot) = {}
    /\ ChainBalance \in Word
    /\ ChainValue \in Val
    /\ Amounts \subseteq Word
    /\ MaxOps \in Nat

VARIABLES
    db,        \* inner, the StateDB
    fetched,   \* fetchedAccounts and fetchedSlots
    writer,    \* the goroutine that holds mu for writing
    pc,        \* where each goroutine is in Ensure*/fetch*
    want,      \* the key that each goroutine ensures
    ops,       \* number of writes so far
    ideal, blind, garbled, saved    \* history

vars == <<db, fetched, writer, pc, want, ops, ideal, blind, garbled, saved>>

SlotKey == Addr \X Slot

Key == Addr \cup SlotKey

\* What the node has.
Chain(k) == IF k \in Addr THEN ChainBalance ELSE ChainValue

Init ==
    /\ db = New
    /\ fetched = {}
    /\ writer = NoThread
    /\ pc = [t \in Thread |-> "idle"]
    /\ want = [t \in Thread |-> NoKey]
    /\ ops = 0
    /\ ideal = [k \in Key |-> Chain(k)]
    /\ blind = {}
    /\ garbled = {}
    /\ saved = << >>
-----------------------------------------------------------------------------
ChainAccount == [EmptyAccount EXCEPT !.balance = ChainBalance]

\* fetchAccount and fetchSlot: decode the answer and install it.
InstallAccount(a, complete) ==
    SetAccount(db, a, IF complete THEN ChainAccount ELSE EmptyAccount)

InstallSlot(a, s, complete) ==
    SetStorageDirect(db, a, s, IF complete THEN ChainValue ELSE Zero)

\* Ensure* returns, with or without an error; vm goes on to the StateDB.
Finish(t) ==
    /\ pc' = [pc EXCEPT ![t] = IF t = vm THEN "access" ELSE "idle"]
    /\ want' = IF t = vm THEN want ELSE [want EXCEPT ![t] = NoKey]

\* vm is through with the StateDB.
Leave ==
    /\ pc[vm] = "access"
    /\ pc' = [pc EXCEPT ![vm] = "idle"]
    /\ want' = [want EXCEPT ![vm] = NoKey]

\* A goroutine calls EnsureAccount or EnsureSlot, vm from a method of the adapter.
Ensure(t, k) ==
    /\ pc[t] = "idle"
    /\ want' = [want EXCEPT ![t] = k]
    /\ pc' = [pc EXCEPT ![t] = "check"]
    /\ UNCHANGED <<db, fetched, writer, ops, ideal, blind, garbled, saved>>

\* Look the key up under the read lock.
CheckFetched(t) ==
    /\ pc[t] = "check"
    /\ writer = NoThread
    /\ IF want[t] \in fetched THEN Finish(t)
       ELSE pc' = [pc EXCEPT ![t] = "lock"] /\ UNCHANGED want
    /\ UNCHANGED <<db, fetched, writer, ops, ideal, blind, garbled, saved>>

\* Fault: the key is not looked up again under the write lock.
FetchUnchecked(t) ==
    /\ pc[t] = "lock"
    /\ writer = NoThread
    /\ writer' = t
    /\ pc' = [pc EXCEPT ![t] = "rpc"]
    /\ UNCHANGED <<db, fetched, want, ops, ideal, blind, garbled, saved>>

\* fetchAccount, fetchSlot up to the RPC: lock, look again, send.
Fetch(t) ==
    /\ pc[t] = "lock"
    /\ writer = NoThread
    /\ IF want[t] \in fetched THEN Finish(t) /\ UNCHANGED writer
       ELSE writer' = t /\ pc' = [pc EXCEPT ![t] = "rpc"] /\ UNCHANGED want
    /\ UNCHANGED <<db, fetched, ops, ideal, blind, garbled, saved>>

\* The node answers: install, remember, unlock.
Answered(t, complete) ==
    /\ pc[t] = "rpc"
    /\ db' = IF want[t] \in Addr THEN InstallAccount(want[t], complete)
             ELSE InstallSlot(want[t][1], want[t][2], complete)
    /\ fetched' = fetched \cup {want[t]}
    /\ garbled' = IF complete THEN garbled ELSE garbled \cup {want[t]}
    /\ writer' = NoThread
    /\ Finish(t)
    /\ UNCHANGED <<ops, ideal, blind, saved>>

\* Fault: an error path without the deferred unlock.
RPCFailsLocked(t) ==
    /\ pc[t] = "rpc"
    /\ Finish(t)
    /\ UNCHANGED <<db, fetched, writer, ops, ideal, blind, garbled, saved>>

\* The RPC fails or times out: unlock and return the error.
RPCFails(t) ==
    /\ pc[t] = "rpc"
    /\ writer' = NoThread
    /\ Finish(t)
    /\ UNCHANGED <<db, fetched, ops, ideal, blind, garbled, saved>>

\* The EVM has ensured and accesses the StateDB: it only reads ...
AdapterRead ==
    /\ Leave
    /\ UNCHANGED <<db, fetched, writer, ops, ideal, blind, garbled, saved>>

\* ... or it writes d, after which key k should hold value.
Write(k, d, value) ==
    /\ Leave
    /\ ops < MaxOps
    /\ db' = d
    /\ ideal' = [ideal EXCEPT ![k] = value]
    /\ blind' = IF k \in fetched THEN blind ELSE blind \cup {k}
    /\ ops' = ops + 1
    /\ UNCHANGED <<fetched, writer, garbled, saved>>

\* The setters of an account ensure the account.
AdapterSetBalance(val) ==
    want[vm] \in Addr /\ Write(want[vm], SetBalance(db, want[vm], val), val)

AdapterAddBalance(amount) ==
    /\ want[vm] \in Addr
    /\ Write(want[vm], AddBalance(db, want[vm], amount), (ideal[want[vm]] + amount) % WordMod)

AdapterSubBalance(amount) ==
    /\ want[vm] \in Addr
    /\ Write(want[vm], SubBalance(db, want[vm], amount), (ideal[want[vm]] - amount) % WordMod)

AdapterSetNonce(nonce) ==
    want[vm] \in Addr /\ Write(want[vm], SetNonce(db, want[vm], nonce), ideal[want[vm]])

AdapterSetCode(code) ==
    want[vm] \in Addr /\ Write(want[vm], SetCode(db, want[vm], code), ideal[want[vm]])

\* SetStorage ensures the account of the slot, not the slot.
AdapterSetStorage(s, value) ==
    /\ want[vm] \in Addr
    /\ Write(<<want[vm], s>>, SetStorage(db, want[vm], s, value), value)

\* The other methods ensure nothing.  Those for the access lists, the logs and the
\* refund counter only pass the call on and touch no key: see StateDB.tla.
Direct(d) ==
    /\ pc[vm] = "idle"
    /\ ops < MaxOps
    /\ db' = d
    /\ ops' = ops + 1
    /\ UNCHANGED <<fetched, writer, pc, want, garbled>>

\* Undoing a creation deletes the account.
AdapterCreateAccount ==
    /\ Leave
    /\ want[vm] \in Addr
    /\ ops < MaxOps
    /\ db' = CreateAccount(db, want[vm])
    /\ blind' = blind \cup {want[vm]}
    /\ ops' = ops + 1
    /\ UNCHANGED <<fetched, writer, ideal, garbled, saved>>

\* An account that was not fetched is inserted, empty.
AdapterSuicide(a) ==
    /\ Direct(Suicide(db, a))
    /\ blind' = IF a \in fetched THEN blind ELSE blind \cup {a}
    /\ UNCHANGED <<ideal, saved>>

AdapterSnapshot ==
    /\ Direct(Snapshot(db))
    /\ saved' = Append(saved, ideal)
    /\ UNCHANGED <<ideal, blind>>

AdapterRevertToSnapshot(id) ==
    /\ Direct(RevertToSnapshot(db, id))
    /\ ideal' = saved[id]
    /\ saved' = SubSeq(saved, 1, id - 1)
    /\ UNCHANGED blind

\* Slots of a deleted account that were never fetched can still be.
AdapterFinalise ==
    LET gone == {k \in Key : HasSuicided(db, IF k \in Addr THEN k ELSE k[1])}
    IN  /\ Direct(Finalise(db))
        /\ ideal' = [k \in Key |-> IF k \notin gone THEN ideal[k]
                                   ELSE IF k \in Addr THEN 0 ELSE Zero]
        /\ blind' = blind \cup (gone \ fetched)
        /\ saved' = << >>
-----------------------------------------------------------------------------
\* What a goroutine that is inside Ensure* does next.
Progress(t) ==
    \/ CheckFetched(t)
    \/ Fetch(t)
    \/ \E complete \in BOOLEAN : Answered(t, complete)
    \/ RPCFails(t)

Next ==
    \/ \E t \in Thread : Progress(t) \/ \E k \in Key : Ensure(t, k)
    \/ AdapterRead
    \/ \E val \in Amounts : AdapterSetBalance(val) \/ AdapterAddBalance(val) \/ AdapterSubBalance(val)
    \/ AdapterSetNonce(1)
    \/ \E code \in Code : AdapterSetCode(code)
    \/ \E s \in Slot, value \in Val : AdapterSetStorage(s, value)
    \/ AdapterCreateAccount
    \/ \E a \in Addr : AdapterSuicide(a)
    \/ AdapterSnapshot
    \/ \E id \in DOMAIN saved : AdapterRevertToSnapshot(id)
    \/ AdapterFinalise

\* The HTTP client has a timeout, so an RPC ends; sync.RWMutex hands the lock to
\* a waiting goroutine after a bounded wait, which is strong fairness.
Fairness == \A t \in Thread : SF_vars(Progress(t))

Spec == Init /\ [][Next]_vars /\ Fairness
-----------------------------------------------------------------------------
(***************************************************************************)
(* Properties.                                                             *)
(***************************************************************************)
KeyValue(k) == IF k \in Addr THEN Word ELSE Val

\* Type invariant.
TypeOK ==
    /\ db \in DB
    /\ fetched \subseteq Key
    /\ writer \in Thread \cup {NoThread}
    /\ pc \in [Thread -> {"idle", "check", "lock", "rpc", "access"}]
    /\ want \in [Thread -> Key \cup {NoKey}]
    /\ ops \in 0 .. MaxOps
    /\ ideal \in [Key -> Word \cup Val]
    /\ \A k \in Key : ideal[k] \in KeyValue(k)
    /\ blind \subseteq Key
    /\ garbled \subseteq Key
    /\ saved \in Seq([Key -> Word \cup Val])
    /\ \A i \in 1 .. Len(saved) : \A k \in Key : saved[i][k] \in KeyValue(k)

\* The cell of the StateDB that a key is about.
KeyCell(k) ==
    IF k \in Addr THEN [addr |-> k, field |-> "balance"]
    ELSE [addr |-> k[1], field |-> "storage", slot |-> k[2]]

Current(k) == Read(db, KeyCell(k))

\* The keys of which FetchedIsIdeal speaks.
Loaded == fetched \ (blind \cup garbled)

\* What was fetched is what the node has with the EVM's writes on top: a key is
\* installed once, and never over a write made after it was fetched, however
\* many goroutines ask for it at the same time and however RPCs fail; and a revert
\* gives back what was fetched after its snapshot.
FetchedIsIdeal == \A k \in Loaded : Current(k) = ideal[k]

\* Fetching a slot leaves alone what SetStorage wrote to it before: a slot that
\* has a write in the journal reads after its fetch as it did before.
WritesReadBack ==
    [][\A k \in SlotKey : k \in fetched' \ fetched /\ Recorded(db, KeyCell(k))
          => Read(db', KeyCell(k)) = Current(k)]_vars

\* The write lock is held exactly by the goroutine that is waiting for the node:
\* no path through fetchAccount and fetchSlot leaves it locked or unlocks early.
LockHeldDuringRPC == \A t \in Thread : pc[t] = "rpc" <=> writer = t

\* Every call of EnsureAccount and EnsureSlot returns.
EnsureReturns == \A t \in Thread : pc[t] = "check" ~> pc[t] \in {"idle", "access"}
-----------------------------------------------------------------------------
(***************************************************************************)
(* The inductive strengthening of FetchedIsIdeal.                          *)
(***************************************************************************)
\* The snapshots of the StateDB are positions of its journal, in order.
SnapshotsNest ==
    /\ Len(saved) = Len(db.snapshots)
    /\ \A i, j \in 1 .. Len(db.snapshots) : i <= j => db.snapshots[i] <= db.snapshots[j]
    /\ \A i \in 1 .. Len(db.snapshots) : db.snapshots[i] <= Len(db.journal)

\* A goroutine waits for the node only for a key that nobody has fetched: the
\* write lock keeps everyone else from fetching it in the meantime.
FetchesOnce ==
    \A t \in Thread :
        /\ pc[t] # "idle" => want[t] \in Key
        /\ pc[t] = "rpc" => want[t] \notin fetched

\* Of a key that is loaded, the StateDB has the ideal value and its journal can
\* return to the ideal value of every live snapshot.
LoadedSound ==
    \A k \in Loaded :
        /\ Current(k) = ideal[k]
        /\ Faithful(db, KeyCell(k))
        /\ \A i \in 1 .. Len(db.snapshots) : ReturnsTo(db, db.snapshots[i], KeyCell(k), saved[i][k])

\* A key that was neither fetched nor written is as the node has it, now and in
\* every live snapshot, and the journal knows nothing of it.
PendingSound ==
    \A k \in Key \ (fetched \cup blind) :
        /\ ideal[k] = Chain(k)
        /\ \A i \in 1 .. Len(saved) : saved[i][k] = Chain(k)
        /\ ~ Touched(db, KeyCell(k))

\* The inductive invariant from which FetchedIsIdeal is proved: loading a key
\* late cannot be told from having loaded it before the first transaction.
LoadingIsInvisible == SnapshotsNest /\ FetchesOnce /\ LoadedSound /\ PendingSound
=============================================================================
