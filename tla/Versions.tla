------------------------------ MODULE Versions ------------------------------
(***************************************************************************)
(* What the StateDB promises to the EVM: a state of cells, and a stack of  *)
(* versions of it to go back to.  Taking a snapshot copies the whole       *)
(* state, reverting puts a copy back; there is no journal.  StateDB.tla    *)
(* implements this with undo entries.                                      *)
(*                                                                         *)
(* Two concessions are made to lazily loaded state and to creations over   *)
(* existing accounts.  A cell that is still as it was in every version may *)
(* be loaded: it changes in all of them alike.  And a cell may be lost     *)
(* until the versions are cleared: nothing is promised of it.              *)
(***************************************************************************)
EXTENDS Integers, Sequences

CONSTANTS
    Cell,     \* the places of the state
    Lost      \* stands for the value of a lost cell

VARIABLES
    now,         \* the state
    versions,    \* versions[i]: the state when the i-th snapshot was taken
    restoring    \* a revert is under way

Init == versions = << >> /\ restoring = FALSE

\* The same value in all versions and now.
Settled(c) == \A i \in DOMAIN versions : versions[i][c] = now[c]

\* Any cells are written or loaded.
Write ==
    /\ ~ restoring /\ ~ restoring'
    /\ DOMAIN versions' = DOMAIN versions
    /\ \A c \in Cell :
          /\ now[c] = Lost => now'[c] = Lost
          /\ \/ \A i \in DOMAIN versions : versions'[i][c] = versions[i][c]
             \/ /\ Settled(c) \/ now'[c] = Lost
                /\ \A i \in DOMAIN versions : versions'[i][c] = now'[c]

Snapshot ==
    /\ ~ restoring /\ ~ restoring'
    /\ versions' = Append(versions, now)
    /\ now' = now

\* The state becomes version id and the younger versions are dropped ...
Restore(id) ==
    /\ ~ restoring /\ restoring'
    /\ now' = versions[id]
    /\ versions' = SubSeq(versions, 1, id)

\* ... and so is version id, before anything else happens.
Restored ==
    /\ restoring /\ ~ restoring'
    /\ now' = now
    /\ versions' = SubSeq(versions, 1, Len(versions) - 1)

\* The end of a transaction: there is nothing to go back to.
Clear == ~ restoring /\ ~ restoring' /\ versions' = << >>

Next ==
    \/ Write
    \/ Snapshot
    \/ \E id \in DOMAIN versions : Restore(id)
    \/ Restored
    \/ Clear

Spec == Init /\ [][Next]_<<now, versions, restoring>>
=============================================================================
