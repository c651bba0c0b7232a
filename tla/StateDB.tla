------------------------------ MODULE StateDB -------------------------------
(***************************************************************************)
(* The StateDB component of fastvm (state/state.go): one action for every  *)
(* exported operation that changes state.  RevertToSnapshot is the loop it *)
(* is in the code, one journal entry a step; no other operation runs while *)
(* the loop does, because the StateDB has a single caller.                 *)
(*                                                                         *)
(* The history variables saved and tainted are not in the code.  saved[i]  *)
(* is what every cell of the state read as when snapshot i was taken.      *)
(* tainted is the set of cells for which the journal is not a faithful     *)
(* record of the current transaction: the account cells of an address that *)
(* CreateAccount replaced although they held something, and the cells that *)
(* forkdb's bulk writes overwrote after a journaled write.  A bulk write   *)
(* to a cell the journal knows nothing of only makes visible what the      *)
(* chain held all along, so it also enters the saved views.                *)
(***************************************************************************)
EXTENDS Cells

CONSTANTS
    MaxNonce,       \* bound: nonces written by SetNonce and SetAccount
    MaxJournal,     \* bound: length of the journal
    MaxSnapshots,   \* bound: live snapshots
    MaxLogs,        \* bound: logs
    MaxRefund       \* bound: refund counter

ASSUME BoundAssumption ==
    /\ MaxNonce \in Nat
    /\ MaxJournal \in Nat
    /\ MaxSnapshots \in Nat
    /\ MaxLogs \in Nat
    /\ MaxRefund \in Nat

\* Unseen marks a cell of which nothing is promised: it is no value of a cell.
ASSUME UnseenAssumption ==
    Unseen \notin Nat /\ Unseen \notin Code /\ Unseen \notin BOOLEAN /\ Unseen \notin Val

VARIABLES
    db,        \* the fields of the StateDB struct
    target,    \* 0, or the snapshot that RevertToSnapshot is returning to
    saved,     \* history: the view of the state at each live snapshot
    tainted    \* history: cells the journal does not faithfully record

vars == <<db, target, saved, tainted>>
-----------------------------------------------------------------------------
Init ==
    /\ db = New
    /\ target = 0
    /\ saved = << >>
    /\ tainted = {}
-----------------------------------------------------------------------------
(***************************************************************************)
(* The operations.                                                         *)
(***************************************************************************)
Idle == target = 0

Room == Len(db.journal) < MaxJournal

\* An operation that journals what it overwrites.
Write(d) ==
    /\ db' = d
    /\ UNCHANGED <<target, saved, tainted>>

CallSetBalance(a, val) == Idle /\ Room /\ Write(SetBalance(db, a, val))

CallAddBalance(a, amount) == Idle /\ Room /\ Write(AddBalance(db, a, amount))

CallSubBalance(a, amount) == Idle /\ Room /\ Write(SubBalance(db, a, amount))

CallSetNonce(a, nonce) == Idle /\ Room /\ Write(SetNonce(db, a, nonce))

CallSetCode(a, code) == Idle /\ Room /\ Write(SetCode(db, a, code))

CallSuicide(a) == Idle /\ Room /\ Write(Suicide(db, a))

CallSetStorage(a, s, value) == Idle /\ Room /\ Write(SetStorage(db, a, s, value))

\* The account cells of a that undoing this creation will not give back.
Clobbered(a) ==
    {c \in AccountCell \cup CreatedCell :
        /\ c.addr = a
        /\ Read(db, c) # Default(c) \/ Recorded(db, c)}

CallCreateAccount(a) ==
    /\ Idle
    /\ Room
    /\ db' = CreateAccount(db, a)
    /\ tainted' = tainted \cup Clobbered(a)
    /\ UNCHANGED <<target, saved>>

\* Operations that journal nothing: cells is what they overwrite.
WriteDirect(d, cells) ==
    LET clean == {c \in cells : ~ Touched(db, c)}
    IN  /\ Idle
        /\ db' = d
        /\ saved' = [i \in DOMAIN saved |->
                        [c \in Cell |-> IF c \in clean THEN Read(d, c) ELSE saved[i][c]]]
        /\ tainted' = tainted \cup (cells \ clean)
        /\ UNCHANGED target

CallSetAccount(a, acc) ==
    WriteDirect(SetAccount(db, a, acc), [addr : {a}, field : AccountField])

CallSetStorageDirect(a, s, value) ==
    WriteDirect(SetStorageDirect(db, a, s, value),
                {[addr |-> a, field |-> "storage", slot |-> s]})

CallWarmAddress(a) == Idle /\ Write(WarmAddress(db, a))

CallWarmSlot(a, s) == Idle /\ Write(WarmSlot(db, a, s))

CallAddLog(a) == Idle /\ Len(db.logs) < MaxLogs /\ Write(AddLog(db, a))

CallAddRefund(gas) == Idle /\ db.refund + gas <= MaxRefund /\ Write(AddRefund(db, gas))

CallSubRefund(gas) == Idle /\ Write(SubRefund(db, gas))

CallSnapshot ==
    /\ Idle
    /\ Len(db.snapshots) < MaxSnapshots
    /\ db' = Snapshot(db)
    /\ saved' = [i \in 1 .. (Len(db.snapshots) + 1) |->
                    IF i <= Len(db.snapshots) THEN saved[i] ELSE View(db)]
    /\ UNCHANGED <<target, tainted>>

\* RevertToSnapshot(id) enters its loop; with an id that is not live it
\* returns at once and says nothing.
RevertEnter(id) ==
    /\ Idle
    /\ target' = IF id > Len(db.snapshots) THEN 0 ELSE id
    /\ UNCHANGED <<db, saved, tainted>>

RevertLoop ==
    /\ ~ Idle
    /\ Len(db.journal) > db.snapshots[target]
    /\ db' = UndoLast(db)
    /\ UNCHANGED <<target, saved, tainted>>

RevertExit ==
    /\ ~ Idle
    /\ Len(db.journal) <= db.snapshots[target]
    /\ db' = [db EXCEPT !.snapshots = SubSeq(@, 1, target - 1)]
    /\ saved' = [i \in 1 .. (target - 1) |-> saved[i]]
    /\ target' = 0
    /\ UNCHANGED tainted

\* Both ends of a transaction forget the journal, and so the history.
Forget(d) ==
    /\ Idle
    /\ db' = d
    /\ saved' = << >>
    /\ tainted' = {}
    /\ UNCHANGED target

CallFinalise == Forget(Finalise(db))

CallReset == Forget(Reset(db))
-----------------------------------------------------------------------------
\* The accounts forkdb may load: nothing on the chain is marked suicided.
Fetched == [balance : Word, nonce : 0 .. MaxNonce, code : Code, suicide : {FALSE}]

AccountOp(a) ==
    \/ \E val \in Word : CallSetBalance(a, val)
    \/ \E amount \in Word : CallAddBalance(a, amount) \/ CallSubBalance(a, amount)
    \/ \E nonce \in 0 .. MaxNonce : CallSetNonce(a, nonce)
    \/ \E code \in Code : CallSetCode(a, code)
    \/ CallSuicide(a)
    \/ CallCreateAccount(a)
    \/ \E acc \in Fetched : CallSetAccount(a, acc)

StorageOp(a) ==
    \E s \in Slot, value \in Val : CallSetStorage(a, s, value) \/ CallSetStorageDirect(a, s, value)

UnjournaledOp(a) ==
    \/ CallWarmAddress(a)
    \/ \E s \in Slot : CallWarmSlot(a, s)
    \/ CallAddLog(a)
    \/ \E gas \in 1 .. MaxRefund : CallAddRefund(gas) \/ CallSubRefund(gas)

Revert ==
    \/ \E id \in 1 .. (MaxSnapshots + 1) : RevertEnter(id)
    \/ RevertLoop
    \/ RevertExit

Next ==
    \/ \E a \in Addr : AccountOp(a) \/ StorageOp(a) \/ UnjournaledOp(a)
    \/ CallSnapshot
    \/ Revert
    \/ CallFinalise
    \/ CallReset

Spec == Init /\ [][Next]_vars
-----------------------------------------------------------------------------
(***************************************************************************)
(* Properties.                                                             *)
(***************************************************************************)
\* Type invariant: every field has the shape of the Go struct's field, and the
\* history variables are aligned with the snapshots.
TypeOK ==
    /\ db \in DB
    /\ target \in Nat
    /\ DOMAIN saved = 1 .. Len(db.snapshots)
    /\ \A i \in DOMAIN saved : \A c \in Cell : saved[i][c] \in ValueOf(c)
    /\ tainted \in SUBSET Cell

\* Snapshots still in force: while RevertToSnapshot runs, the ones up to its
\* target; the younger ones are about to be dropped.
Live(i) == i \in 1 .. Len(db.snapshots) /\ (target # 0 => i <= target)

\* Snapshots nest: they are journal positions in the order they were taken, and
\* no live one lies beyond the end of the journal, however far reverts cut it.
SnapshotsNest ==
    /\ target <= Len(db.snapshots)
    /\ \A i, j \in 1 .. Len(db.snapshots) : i <= j => db.snapshots[i] <= db.snapshots[j]
    /\ \A i \in 1 .. Len(db.snapshots) : Live(i) => db.snapshots[i] <= Len(db.journal)

\* RevertToSnapshot restores the state: when its loop ends, every cell that the
\* journal faithfully recorded reads as it did when the snapshot was taken,
\* through any nesting of snapshots, reverts, creations and lazily loaded state.
RevertRestores ==
    target # 0 /\ Len(db.journal) <= db.snapshots[target] =>
        \A c \in Cell \ tainted : Read(db, c) = saved[target][c]

\* An account that held money when the snapshot was taken is still there when
\* RevertToSnapshot ends, whether or not CreateAccount replaced it in between:
\* the creation kept its balance, and undoing it should give the account back.
RevertKeepsAccounts ==
    target # 0 /\ Len(db.journal) <= db.snapshots[target] =>
        \A a \in Addr :
            saved[target][[addr |-> a, field |-> "balance"]] # 0 => Exists(db, a)

\* A pending self-destruct is always undoable: the journal holds the entry that
\* set the flag, so the flag cannot outlive a revert or reach a later transaction.
SuicideIsUndoable ==
    \A a \in Addr :
        HasSuicided(db, a) => \E k \in 1 .. Len(db.journal) : Sets(db.journal[k], a)

\* The cells that the journal records, of a view of the state.
Shown(view) == [c \in Cell |-> IF c \in tainted THEN Unseen ELSE view[c]]

\* The refinement mapping: a running RevertToSnapshot has already returned.
Now == Shown(IF Idle THEN View(db) ELSE saved[target])

Copies == [i \in 1 .. (IF Idle THEN Len(db.snapshots) ELSE target) |-> Shown(saved[i])]

Stack ==
    INSTANCE Versions WITH Lost <- Unseen, now <- Now, versions <- Copies, restoring <- ~ Idle

\* The journal implements a stack of copies of the whole state: to its callers a
\* RevertToSnapshot is one step back to the copy that Snapshot made, however many
\* entries it undoes one by one, and no other operation disturbs a copy.
KeepsVersions == Stack!Spec
-----------------------------------------------------------------------------
(***************************************************************************)
(* The inductive strengthening of RevertRestores.                          *)
(***************************************************************************)
\* Every live snapshot can be returned to, for the cells the journal records.
Restorable ==
    \A i \in 1 .. Len(db.snapshots) : Live(i) =>
        \A c \in Cell \ tainted : ReturnsTo(db, db.snapshots[i], c, saved[i][c])

\* The inductive invariant from which RevertRestores is proved.
JournalSound ==
    /\ SnapshotsNest
    /\ Restorable
    /\ \A c \in Cell \ tainted : Faithful(db, c)
=============================================================================
