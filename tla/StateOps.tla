------------------------------ MODULE StateOps ------------------------------
(***************************************************************************)
(* The operations of fastvm's in-memory StateDB (state/state.go) as pure   *)
(* operators over a record that holds the struct's fields.  StateDB.tla    *)
(* turns them into the actions of a component; the modules of the EVM      *)
(* apply them inside their own actions.                                    *)
(*                                                                         *)
(* Data is abstracted: addresses, slots, storage words and codes are       *)
(* members of small sets (a code stands for the pair Code, CodeHash, which *)
(* the struct always assigns together), a log is the address that emitted  *)
(* it.  Balances keep the wrap-around of uint256 arithmetic (WordMod).     *)
(***************************************************************************)
EXTENDS Integers, Sequences

CONSTANTS
    Addr, Slot,
    Val, Zero,         \* storage words; Zero is the zero hash, "no entry"
    Code, NoCode,      \* codes; NoCode is the empty code
    NoAccount,         \* accounts[a] when the map has no entry for a
    Unseen,            \* origStorage[a][s] when the map has no entry for s
    WordMod            \* 2^256 in the code

ASSUME StateAssumption ==
    /\ Zero \in Val
    /\ NoCode \in Code
    /\ WordMod \in Nat \ {0}
    /\ Unseen \notin Val

Word == 0 .. (WordMod - 1)

Account == [balance : Word, nonce : Nat, code : Code, suicide : BOOLEAN]

ASSUME NoAccountAssumption == NoAccount \notin Account

\* The zero value of the Go struct Account.
EmptyAccount == [balance |-> 0, nonce |-> 0, code |-> NoCode, suicide |-> FALSE]

\* journalEntry: one record type for each kind, with the old value it keeps.
JBalance == [kind : {"balance"}, addr : Addr, old : Word]
JNonce   == [kind : {"nonce"}, addr : Addr, old : Nat]
JCode    == [kind : {"code"}, addr : Addr, old : Code]
JStorage == [kind : {"storage"}, addr : Addr, slot : Slot, old : Val]
JCreate  == [kind : {"create"}, addr : Addr]
JSuicide == [kind : {"suicide"}, addr : Addr, old : BOOLEAN]

JournalEntry == JBalance \cup JNonce \cup JCode \cup JStorage \cup JCreate \cup JSuicide

DB == [accounts : [Addr -> Account \cup {NoAccount}],
       storage : [Addr -> [Slot -> Val]],
       origStorage : [Addr -> [Slot -> Val \cup {Unseen}]],
       accessedAddrs : SUBSET Addr,
       accessedSlots : SUBSET (Addr \X Slot),
       journal : Seq(JournalEntry),
       snapshots : Seq(Nat),
       logs : Seq(Addr),
       refund : Nat,
       createdInTx : SUBSET Addr]

New ==
    [accounts |-> [a \in Addr |-> NoAccount],
     storage |-> [a \in Addr |-> [s \in Slot |-> Zero]],
     origStorage |-> [a \in Addr |-> [s \in Slot |-> Unseen]],
     accessedAddrs |-> {},
     accessedSlots |-> {},
     journal |-> << >>,
     snapshots |-> << >>,
     logs |-> << >>,
     refund |-> 0,
     createdInTx |-> {}]

\* Reset clears every field except createdInTx.
Reset(d) == [New EXCEPT !.createdInTx = d.createdInTx]
-----------------------------------------------------------------------------
(***************************************************************************)
(* Accounts.  getOrCreate inserts an empty account without a journal       *)
(* entry; every setter below goes through it.                              *)
(***************************************************************************)
Exists(d, a) == d.accounts[a] # NoAccount

getOrCreate(d, a) == IF Exists(d, a) THEN d.accounts[a] ELSE EmptyAccount

Empty(d, a) ==
    LET acc == getOrCreate(d, a)
    IN  acc.balance = 0 /\ acc.nonce = 0 /\ acc.code = NoCode

GetBalance(d, a) == getOrCreate(d, a).balance

GetNonce(d, a) == getOrCreate(d, a).nonce

GetCode(d, a) == getOrCreate(d, a).code

HasSuicided(d, a) == getOrCreate(d, a).suicide

CreatedInTx(d, a) == a \in d.createdInTx

\* Install account acc at the address of entry e and append e to the journal.
Journaled(d, acc, e) ==
    [d EXCEPT !.accounts[e.addr] = acc, !.journal = Append(@, e)]

\* Fault: journals the new balance instead of the old one.
SetBalanceJournalsNew(d, a, val) ==
    Journaled(d, [getOrCreate(d, a) EXCEPT !.balance = val],
              [kind |-> "balance", addr |-> a, old |-> val])

SetBalance(d, a, val) ==
    LET acc == getOrCreate(d, a)
    IN  Journaled(d, [acc EXCEPT !.balance = val],
                  [kind |-> "balance", addr |-> a, old |-> acc.balance])

\* Fault: the sum does not wrap.
AddBalanceUnbounded(d, a, amount) == SetBalance(d, a, GetBalance(d, a) + amount)

AddBalance(d, a, amount) == SetBalance(d, a, (GetBalance(d, a) + amount) % WordMod)

SubBalance(d, a, amount) == SetBalance(d, a, (GetBalance(d, a) - amount) % WordMod)

SetNonce(d, a, nonce) ==
    LET acc == getOrCreate(d, a)
    IN  Journaled(d, [acc EXCEPT !.nonce = nonce],
                  [kind |-> "nonce", addr |-> a, old |-> acc.nonce])

SetCode(d, a, code) ==
    LET acc == getOrCreate(d, a)
    IN  Journaled(d, [acc EXCEPT !.code = code],
                  [kind |-> "code", addr |-> a, old |-> acc.code])

Suicide(d, a) ==
    LET acc == getOrCreate(d, a)
    IN  Journaled(d, [acc EXCEPT !.suicide = TRUE],
                  [kind |-> "suicide", addr |-> a, old |-> acc.suicide])

\* Fault: the creation is not journaled.
CreateAccountUnjournaled(d, a) ==
    [d EXCEPT !.accounts[a] = [EmptyAccount EXCEPT !.balance = GetBalance(d, a)],
              !.createdInTx = @ \cup {a}]

\* A new account keeps the balance of the one it replaces; the journal entry
\* records neither the old account nor whether there was one.
CreateAccount(d, a) ==
    [Journaled(d, [EmptyAccount EXCEPT !.balance = GetBalance(d, a)],
               [kind |-> "create", addr |-> a])
        EXCEPT !.createdInTx = @ \cup {a}]

\* The bulk write of forkdb: no journal entry.
SetAccount(d, a, acc) == [d EXCEPT !.accounts[a] = acc]
-----------------------------------------------------------------------------
(***************************************************************************)
(* Storage.  origStorage keeps the value a slot had before its first write.*)
(***************************************************************************)
GetStorage(d, a, s) == d.storage[a][s]

GetCommittedStorage(d, a, s) ==
    IF d.origStorage[a][s] = Unseen THEN Zero ELSE d.origStorage[a][s]

\* Fault: journals the committed value instead of the current one.
SetStorageJournalsCommitted(d, a, s, value) ==
    [d EXCEPT !.storage[a][s] = value,
              !.origStorage[a][s] = IF @ = Unseen THEN d.storage[a][s] ELSE @,
              !.journal = Append(@, [kind |-> "storage", addr |-> a, slot |-> s,
                                     old |-> GetCommittedStorage(d, a, s)])]

SetStorage(d, a, s, value) ==
    LET old == d.storage[a][s]
    IN  [d EXCEPT !.storage[a][s] = value,
                  !.origStorage[a][s] = IF @ = Unseen THEN old ELSE @,
                  !.journal = Append(@, [kind |-> "storage", addr |-> a,
                                         slot |-> s, old |-> old])]

SetStorageDirect(d, a, s, value) ==
    [d EXCEPT !.storage[a][s] = value,
              !.origStorage[a][s] = IF @ = Unseen THEN value ELSE @]
-----------------------------------------------------------------------------
(***************************************************************************)
(* Access lists, logs and the refund counter: none of them is journaled.   *)
(***************************************************************************)
AddressWarm(d, a) == a \in d.accessedAddrs

WarmAddress(d, a) == [d EXCEPT !.accessedAddrs = @ \cup {a}]

SlotWarm(d, a, s) == <<a, s>> \in d.accessedSlots

WarmSlot(d, a, s) == [d EXCEPT !.accessedSlots = @ \cup {<<a, s>>}]

AddLog(d, a) == [d EXCEPT !.logs = Append(@, a)]

AddRefund(d, gas) == [d EXCEPT !.refund = @ + gas]

\* Fault: no check for underflow.
SubRefundUnchecked(d, gas) == [d EXCEPT !.refund = @ - gas]

SubRefund(d, gas) == [d EXCEPT !.refund = IF gas > @ THEN 0 ELSE @ - gas]
-----------------------------------------------------------------------------
(***************************************************************************)
(* Snapshots.  Snapshot ids are positions in snapshots (from 0 in the      *)
(* code, from 1 here); a snapshot is the length of the journal.            *)
(***************************************************************************)
Snapshot(d) == [d EXCEPT !.snapshots = Append(@, Len(d.journal))]

\* What RevertToSnapshot does for one journal entry.  The account entries are
\* skipped when the map has no account for the address any more.
Undo(d, e) ==
    CASE e.kind = "storage" -> [d EXCEPT !.storage[e.addr][e.slot] = e.old]
      [] e.kind = "create"  -> [d EXCEPT !.accounts[e.addr] = NoAccount,
                                         !.createdInTx = @ \ {e.addr}]
      [] e.kind = "balance" /\ Exists(d, e.addr) ->
            [d EXCEPT !.accounts[e.addr].balance = e.old]
      [] e.kind = "nonce" /\ Exists(d, e.addr) ->
            [d EXCEPT !.accounts[e.addr].nonce = e.old]
      [] e.kind = "code" /\ Exists(d, e.addr) ->
            [d EXCEPT !.accounts[e.addr].code = e.old]
      [] e.kind = "suicide" /\ Exists(d, e.addr) ->
            [d EXCEPT !.accounts[e.addr].suicide = e.old]
      [] OTHER -> d

\* One iteration of RevertToSnapshot's loop: undo the youngest entry, drop it.
UndoLast(d) ==
    LET n == Len(d.journal)
    IN  [Undo(d, d.journal[n]) EXCEPT !.journal = SubSeq(@, 1, n - 1)]

\* Fault: drops one snapshot too many.
RevertDropsParent(d, id) ==
    LET n == Len(d.journal)
        undone[k \in 0 .. n] == IF k = n THEN d ELSE UndoLast(undone[k + 1])
    IN  IF id > Len(d.snapshots) THEN d
        ELSE [undone[d.snapshots[id]] EXCEPT !.snapshots = SubSeq(@, 1, id - 2)]

\* RevertToSnapshot as a whole: undo the journal from its end down to the
\* snapshot and drop the snapshot with the younger ones; an id that is not live
\* changes nothing.
RevertToSnapshot(d, id) ==
    LET n == Len(d.journal)
        undone[k \in 0 .. n] == IF k = n THEN d ELSE UndoLast(undone[k + 1])
    IN  IF id > Len(d.snapshots) THEN d
        ELSE [undone[d.snapshots[id]] EXCEPT !.snapshots = SubSeq(@, 1, id - 1)]

\* Fault: keeps the accounts that self-destructed.
FinaliseKeepsSuicided(d) ==
    [d EXCEPT !.journal = << >>, !.snapshots = << >>, !.createdInTx = {}]

\* Delete the accounts that self-destructed, with their storage, and forget
\* the journal.  Refund, logs, access lists and origStorage stay as they are.
Finalise(d) ==
    [d EXCEPT !.accounts = [a \in Addr |-> IF HasSuicided(d, a) THEN NoAccount ELSE @[a]],
              !.storage  = [a \in Addr |-> IF HasSuicided(d, a)
                                           THEN [s \in Slot |-> Zero] ELSE @[a]],
              !.journal = << >>,
              !.snapshots = << >>,
              !.createdInTx = {}]
=============================================================================
