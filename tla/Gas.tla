-------------------------------- MODULE Gas ---------------------------------
(***************************************************************************)
(* The gas schedule of fastvm (gas/gas.go) and the intrinsic gas of a      *)
(* transaction (evm/evm.go).  The prices are parameters: a model uses      *)
(* small numbers with the relations the real ones have, which              *)
(* GasAssumption names.                                                    *)
(***************************************************************************)
EXTENDS Integers, FiniteSets

CONSTANTS
    WarmStorageRead, ColdAccountAccess, ColdSload,
    SstoreSet, SstoreReset, SstoreNoopGas,                \* prices of SSTORE
    SstoreClear, SstoreInitRefund, SstoreCleanRefund,     \* refunds of SSTORE
    SstoreSentry,           \* SSTORE fails with this much gas or less
    LogGas, CallValue, CallStipend, NewAccount,
    SelfDestruct, SelfDestructNewAccount,
    CallGasDivisor,         \* 64: a caller keeps 1/64 of its gas
    MaxRefundQuotient,      \* 5: the refund is at most 1/5 of the gas used
    TxBase, TxCreate,       \* intrinsic gas, and what a creation adds to it
    TxAccessListAddress, TxAccessListStorage

\* Every opcode that touches the state costs something, the stipend of a call is
\* paid for by the price of sending a value, and a call keeps back at most half.
ASSUME GasAssumption ==
    /\ {WarmStorageRead, SstoreSet, SstoreReset, SstoreNoopGas, LogGas, SelfDestruct,
        MaxRefundQuotient} \subseteq Nat \ {0}
    /\ CallGasDivisor \in Nat \ {0, 1}
    /\ {ColdAccountAccess, ColdSload} \subseteq Nat \ (0 .. (WarmStorageRead - 1))
    /\ {SstoreClear, SstoreInitRefund, SstoreCleanRefund,
        SstoreSentry, CallStipend, NewAccount, SelfDestructNewAccount,
        TxBase, TxCreate, TxAccessListAddress, TxAccessListStorage} \subseteq Nat
    /\ CallValue \in Nat /\ CallStipend <= CallValue

\* The most a caller may forward.
CallGas(available) == available - available \div CallGasDivisor

\* What SSTORE costs and adds to the refund counter, for a warm slot; zero is
\* the zero word.
SstoreCost(current, original, newVal, zero) ==
    IF current = newVal THEN [cost |-> SstoreNoopGas, refund |-> 0]
    ELSE IF original = current THEN
        [cost |-> IF original = zero THEN SstoreSet ELSE SstoreReset,
         refund |-> IF original # zero /\ newVal = zero THEN SstoreClear ELSE 0]
    ELSE
        [cost |-> SstoreNoopGas,
         refund |-> (IF original # zero /\ current # zero /\ newVal = zero
                     THEN SstoreClear ELSE 0)
                  + (IF original # newVal THEN 0
                     ELSE IF original = zero THEN SstoreInitRefund ELSE SstoreCleanRefund)]

\* dataGas is the price of the message's data bytes.
intrinsicGas(dataGas, isCreate, accessList) ==
    TxBase + (IF isCreate THEN TxCreate ELSE 0) + dataGas
        + Cardinality(accessList.addrs) * TxAccessListAddress
        + Cardinality(accessList.slots) * TxAccessListStorage
=============================================================================
