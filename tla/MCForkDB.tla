------------------------------ MODULE MCForkDB ------------------------------
(***************************************************************************)
(* TLC instances of ForkDB.                                                *)
(***************************************************************************)
EXTENDS ForkDB

CONSTANTS z, v, nc

MCVal == {z, v}
MCCode == {nc}
=============================================================================
