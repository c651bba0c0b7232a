\* Violation: a transfer is paid the storage refund of the transaction before it.
SPECIFICATION Spec
CONSTANTS
    sender = sender
    contract = contract
    fresh = fresh
    precompile = precompile
    z = z
    v = v
    nc = nc
    c1 = c1
    Nil = Nil
    NoAccount = NoAccount
    Unseen = Unseen
    Addr <- MCAddr
    Val <- MCVal
    Code <- MCCode
    Genesis <- MCGenesis
    Messages <- MCTransfers
    Zero = z
    NoCode = nc
    SenderBalance = 4
    ContractBalance = 0
    FreshBalance = 0
    MsgGas = {4}
    MsgPrice = {0}
    MsgValue = {0}
    MsgTo = {contract}
    MsgIntrinsic = {FALSE}
    NextGas = {4}
    NextTo = {fresh}
    Slot = {s1}
    WordMod = 16
    MaxCallDepth = 3
    Precompiles = {precompile}
    Creatable = {fresh}
    Coinbase = contract
    BaseFee = 1
    Values = {0}
    Opcodes = {"SSTORE"}
    MaxTx = 2
    WarmStorageRead = 1
    ColdAccountAccess = 1
    ColdSload = 1
    SstoreSet = 1
    SstoreReset = 1
    SstoreNoopGas = 1
    SstoreClear = 1
    SstoreInitRefund = 1
    SstoreCleanRefund = 1
    SstoreSentry = 0
    LogGas = 1
    CallValue = 1
    CallStipend = 1
    NewAccount = 0
    SelfDestruct = 1
    SelfDestructNewAccount = 0
    CallGasDivisor = 2
    MaxRefundQuotient = 2
    TxBase = 2
    TxCreate = 1
    TxAccessListAddress = 0
    TxAccessListStorage = 0
PROPERTIES
    TransfersPayTheirGas
