\* Violation: memCopyOp expands the memory for other operands than the copy has.
SPECIFICATION Spec
CONSTANTS
    p1 = p1
    p2 = p2
    Opcodes <- MCOpcodes
    Workloads <- MCWorkloads
    Input <- MCInput
    Returns <- MCReturns
    ExtCode <- MCExtCode
    Env <- MCEnv
    Hashes <- MCHashes
    WordBytes = 2
    ByteBits = 7
    U64 = 4096
    InitCap = 4
    MemoryWord = 3
    QuadDivisor = 4
    MaxDepth = 8
    GasLimits = {7, 30, 140}
    Ptr = {p1, p2}
    Nil = Nil
    Exp0 = 10
    ExpByte = 10
    Sha3 = 6
    Sha3Word = 2
    Copy = 3
    LogData = 2
    LogTopic = 3
    WarmStorageRead = 2
    ColdAccountAccess = 8
    ColdSload = 8
    SstoreSet = 1
    SstoreReset = 1
    SstoreNoopGas = 1
    SstoreClear = 1
    SstoreInitRefund = 1
    SstoreCleanRefund = 1
    SstoreSentry = 0
    LogGas = 3
    CallValue = 6
    CallStipend = 3
    NewAccount = 5
    SelfDestruct = 1
    SelfDestructNewAccount = 0
    CallGasDivisor = 2
    MaxRefundQuotient = 2
    TxBase = 1
    TxCreate = 1
    TxAccessListAddress = 0
    TxAccessListStorage = 0
INVARIANTS
    CopiesAreExpanded
