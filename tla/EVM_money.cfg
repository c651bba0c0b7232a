\* Values, stipends, creations and self-destructs, on every path of Execute;
\* the second transaction calls what the first created.
SPECIFICATION Spec
CONSTANTS
    sender = sender
    contract = contract
    fresh = fresh
    precompile = precompile
    z = z
    v = v
    nc = nc
    c1 = c1
    Nil = Nil
    NoAccount = NoAccount
    Unseen = Unseen
    Addr <- MCAddr
    Val <- MCVal
    Code <- MCCode
    Genesis <- MCGenesis
    Messages <- MCMessages
    Zero = z
    NoCode = nc
    SenderBalance = 6
    ContractBalance = 1
    FreshBalance = 0
    MsgGas = {2, 4}
    MsgPrice = {1, 2}
    MsgValue = {0, 1}
    MsgTo = {contract, Nil}
    MsgIntrinsic = {FALSE, TRUE}
    NextGas = {2}
    NextTo = {fresh}
    Slot = {s1}
    WordMod = 16
    MaxCallDepth = 3
    Precompiles = {precompile}
    Creatable = {fresh}
    Coinbase = contract
    BaseFee = 1
    Values = {0, 1}
    Opcodes = {"CALL", "CREATE", "CREATE2", "SELFDESTRUCT", "REVERT"}
    MaxTx = 2
    WarmStorageRead = 1
    ColdAccountAccess = 1
    ColdSload = 1
    SstoreSet = 1
    SstoreReset = 1
    SstoreNoopGas = 1
    SstoreClear = 1
    SstoreInitRefund = 1
    SstoreCleanRefund = 1
    SstoreSentry = 0
    LogGas = 1
    CallValue = 1
    CallStipend = 1
    NewAccount = 0
    SelfDestruct = 1
    SelfDestructNewAccount = 0
    CallGasDivisor = 2
    MaxRefundQuotient = 2
    TxBase = 1
    TxCreate = 2
    TxAccessListAddress = 0
    TxAccessListStorage = 0
INVARIANTS
    SupplyConserved
    GasNeverMinted
PROPERTIES
    SettlementMintsNothing
    OldAccountsSurvive
    TxProgress
