------------------------------- MODULE Cells --------------------------------
(***************************************************************************)
(* How the journal of the StateDB (state/state.go) records the state: the  *)
(* cells of the state, which cells a journal entry keeps the old value of, *)
(* and what it means that a position of the journal can be returned to.    *)
(***************************************************************************)
EXTENDS StateOps

(***************************************************************************)
(* Cells: the places of the state that a snapshot must preserve.           *)
(***************************************************************************)
AccountField == {"balance", "nonce", "code", "suicide"}

AccountCell == [addr : Addr, field : AccountField]
CreatedCell == [addr : Addr, field : {"created"}]
StorageCell == [addr : Addr, field : {"storage"}, slot : Slot]

Cell == AccountCell \cup CreatedCell \cup StorageCell

ValueOf(c) ==
    CASE c.field = "balance" -> Word
      [] c.field = "nonce"   -> Nat
      [] c.field = "code"    -> Code
      [] c.field = "suicide" -> BOOLEAN
      [] c.field = "created" -> BOOLEAN
      [] c.field = "storage" -> Val

\* What the getters of the StateDB return for a cell.
Read(d, c) ==
    CASE c.field = "storage" -> GetStorage(d, c.addr, c.slot)
      [] c.field = "created" -> CreatedInTx(d, c.addr)
      [] c.field = "balance" -> GetBalance(d, c.addr)
      [] c.field = "nonce"   -> GetNonce(d, c.addr)
      [] c.field = "code"    -> GetCode(d, c.addr)
      [] c.field = "suicide" -> HasSuicided(d, c.addr)

View(d) == [c \in Cell |-> Read(d, c)]

\* What a cell of an account that is not in the map reads as.
Default(c) ==
    CASE c.field = "balance" -> 0
      [] c.field = "nonce"   -> 0
      [] c.field = "code"    -> NoCode
      [] c.field = "suicide" -> FALSE
      [] c.field = "created" -> FALSE
      [] c.field = "storage" -> Zero

\* Journal entry e keeps an old value of cell c by itself ...
Records(e, c) ==
    /\ e.kind = c.field
    /\ e.addr = c.addr
    /\ c.field = "storage" => e.slot = c.slot

\* ... or undoing it resets c, as undoing a creation resets the account.
Resets(e, c) == e.kind = "create" /\ e.addr = c.addr /\ c.field # "storage"

Touches(e, c) == Records(e, c) \/ Resets(e, c)

Old(e, c) == IF Resets(e, c) THEN Default(c) ELSE e.old

Recorded(d, c) == \E k \in 1 .. Len(d.journal) : Records(d.journal[k], c)

Touched(d, c) == \E k \in 1 .. Len(d.journal) : Touches(d.journal[k], c)
-----------------------------------------------------------------------------
(***************************************************************************)
(* Returning to a position n of the journal.                               *)
(***************************************************************************)
\* No entry after position n touches c.
Untouched(d, n, c) == \A k \in (n + 1) .. Len(d.journal) : ~ Touches(d.journal[k], c)

\* Entry k is the oldest one after position n that touches c.
Oldest(d, n, k, c) ==
    /\ Touches(d.journal[k], c)
    /\ \A j \in (n + 1) .. (k - 1) : ~ Touches(d.journal[j], c)

\* Undoing the entries after position n gives cell c the value v: the oldest one
\* that touches c keeps that value; if there is none, c has it.
ReturnsTo(d, n, c, v) ==
    /\ Untouched(d, n, c) => Read(d, c) = v
    /\ \A k \in (n + 1) .. Len(d.journal) : Oldest(d, n, k, c) => Old(d.journal[k], c) = v

\* The undo of an account entry is skipped when the account is missing; that is
\* harmless for c, because its account exists as long as c has such an entry.
FindsAccount(d, c) == c \in AccountCell /\ Recorded(d, c) => Exists(d, c.addr)

\* A creation that may be undone for c is the oldest entry for c.
CreationFirst(d, c) ==
    \A j, k \in 1 .. Len(d.journal) :
        Records(d.journal[j], c) /\ Resets(d.journal[k], c) => k <= j

\* The journal of d is a faithful record of cell c.
Faithful(d, c) == FindsAccount(d, c) /\ CreationFirst(d, c)

\* The snapshots are positions of the journal, in order.
Nested(d) ==
    /\ \A i, j \in 1 .. Len(d.snapshots) : i <= j => d.snapshots[i] <= d.snapshots[j]
    /\ \A i \in 1 .. Len(d.snapshots) : d.snapshots[i] <= Len(d.journal)
-----------------------------------------------------------------------------
\* Entry e is left by the creation of the account of address a.
Creates(e, a) == e.kind = "create" /\ e.addr = a

\* Whatever counts as created was created by an entry that is still in the journal.
CreationRecorded(d) ==
    \A a \in d.createdInTx : \E k \in 1 .. Len(d.journal) : Creates(d.journal[k], a)

\* The entry that Suicide leaves when it sets the flag of address a, and the one
\* it leaves when the flag was set already.
Sets(e, a) == e = [kind |-> "suicide", addr |-> a, old |-> FALSE]
SetsAgain(e, a) == e = [kind |-> "suicide", addr |-> a, old |-> TRUE]

\* Whatever is marked was marked by an entry that is still in the journal, and
\* so was whatever undoing an entry marks again.
SuicideRecorded(d) ==
    \A a \in Addr :
        /\ HasSuicided(d, a) => \E k \in 1 .. Len(d.journal) : Sets(d.journal[k], a)
        /\ \A k \in 1 .. Len(d.journal) :
              SetsAgain(d.journal[k], a) => \E j \in 1 .. (k - 1) : Sets(d.journal[j], a)
=============================================================================
