------------------------------- MODULE MCEVM --------------------------------
(***************************************************************************)
(* TLC instances of EVM: a sender, a contract, an address at which         *)
(* contracts are created and a precompile.                                 *)
(***************************************************************************)
EXTENDS EVM

CONSTANTS
    sender, contract, fresh, precompile,
    z, v, nc, c1,
    SenderBalance, ContractBalance, FreshBalance,
    MsgGas, MsgPrice, MsgValue, MsgTo, MsgIntrinsic,    \* of the first transaction
    NextGas, NextTo                                     \* of the ones after it

MCAddr == {sender, contract, fresh, precompile}
MCVal == {z, v}
MCCode == {nc, c1}

MCGenesis ==
    [a \in MCAddr |->
        CASE a = sender -> [EmptyAccount EXCEPT !.balance = SenderBalance]
          [] a = contract ->
                [EmptyAccount EXCEPT !.balance = ContractBalance, !.nonce = 1, !.code = c1]
          [] a = fresh /\ FreshBalance > 0 -> [EmptyAccount EXCEPT !.balance = FreshBalance]
          [] OTHER -> NoAccount]

NoAccessList == [addrs |-> {}, slots |-> {}]

\* The transactions after the first only call.
MCMessages ==
    [n \in 1 .. MaxTx |->
        [from : {sender}, to : IF n = 1 THEN MsgTo ELSE NextTo,
         gas : IF n = 1 THEN MsgGas ELSE NextGas, price : IF n = 1 THEN MsgPrice ELSE {0},
         value : IF n = 1 THEN MsgValue ELSE {0}, dataGas : {0},
         applyIntrinsicGas : IF n = 1 THEN MsgIntrinsic ELSE {FALSE},
         accessList : IF n = 1
                      THEN {NoAccessList, [addrs |-> {contract}, slots |-> {contract} \X Slot]}
                      ELSE {NoAccessList}]]

\* The transactions after the first pay a price and transfer nothing to fresh.
MCTransfers ==
    [n \in 1 .. MaxTx |->
        IF n = 1 THEN MCMessages[1]
        ELSE [from : {sender}, to : {fresh}, gas : {TxBase}, price : {1}, value : {0},
              dataGas : {0}, applyIntrinsicGas : {TRUE}, accessList : {NoAccessList}]]
=============================================================================
