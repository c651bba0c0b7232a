----------------------------- MODULE FrameLife ------------------------------
(***************************************************************************)
(* What the rest of fastvm relies on of a frame that interp.Run executes,  *)
(* whatever its code: gas is never gained, a frame that ends with an error *)
(* has none left, and an ended frame does not run again.  EVM.tla models   *)
(* frames at this level, with the database behind them.                    *)
(***************************************************************************)
EXTENDS Naturals

VARIABLES
    gas,    \* Frame.Gas
    err     \* "idle", "running", or how Run ended

Init == err = "idle" /\ gas = 0

Begin == err = "idle" /\ err' = "running" /\ gas' \in Nat

Burn == err = "running" /\ err' = "running" /\ gas' \in 0 .. gas

Return == err = "running" /\ err' \in {"none", "revert"} /\ gas' \in 0 .. gas

Fail == err = "running" /\ err' = "fail" /\ gas' = 0

\* A Go panic: the program ends.
Crash == err = "running" /\ err' = "panic" /\ gas' \in 0 .. gas

Leave == err \in {"none", "revert", "fail"} /\ err' = "idle" /\ gas' = 0

Next == Begin \/ Burn \/ Return \/ Fail \/ Crash \/ Leave

Spec == Init /\ [][Next]_<<gas, err>>
=============================================================================
