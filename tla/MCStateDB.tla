------------------------------ MODULE MCStateDB -----------------------------
(***************************************************************************)
(* TLC instances of StateDB.  Accounts and storage are journaled and       *)
(* undone independently of each other, so a behaviour takes one of two     *)
(* parts of the operations, which together are all of them: that allows    *)
(* larger bounds than the whole would.                                     *)
(***************************************************************************)
EXTENDS StateDB

CONSTANTS z, v, nc, c1

MCVal == {z, v}
MCCode == {nc, c1}
MCNoCode == {nc}

VARIABLE part    \* the part of the operations that this behaviour takes

\* Accounts: balance, creation, self-destruct, loading.
AccountNext ==
    \E a \in Addr :
        \/ \E val \in Word : CallSetBalance(a, val) \/ CallAddBalance(a, val) \/ CallSubBalance(a, val)
        \/ CallSuicide(a)
        \/ CallCreateAccount(a)
        \/ \E acc \in Fetched : acc.code = NoCode /\ CallSetAccount(a, acc)

\* Everything else: storage, with the self-destruct that deletes it, nonces and
\* codes, and the fields that are not journaled.  Bound: one write less.
StorageNext ==
    /\ Len(db.journal) < MaxJournal - 1
    /\ \E a \in Addr :
          \/ StorageOp(a)
          \/ UnjournaledOp(a)
          \/ CallSuicide(a)
          \/ \E nonce \in 0 .. MaxNonce : CallSetNonce(a, nonce)
          \/ \E code \in Code : CallSetCode(a, code)

MCInit == Init /\ part \in {"accounts", "storage"}

MCNext ==
    /\ \/ part = "accounts" /\ AccountNext
       \/ part = "storage" /\ StorageNext
       \/ CallSnapshot
       \/ Revert
       \/ CallFinalise
       \/ CallReset
    /\ UNCHANGED part

MCSpec == MCInit /\ [][MCNext]_<<vars, part>>
=============================================================================
