\* Two goroutines, three operations of the EVM that write.
SPECIFICATION Spec
CONSTANTS
    z = z
    v = v
    nc = nc
    vm = vm
    NoThread = NoThread
    NoKey = NoKey
    NoAccount = NoAccount
    Unseen = Unseen
    Zero = z
    NoCode = nc
    Val <- MCVal
    Code <- MCCode
    ChainValue = v
    Thread = {vm, t1}
    Addr = {a1}
    Slot = {s1}
    WordMod = 2
    ChainBalance = 1
    Amounts = {1}
    MaxOps = 3
INVARIANTS
    TypeOK
    FetchedIsIdeal
    LockHeldDuringRPC
    LoadingIsInvisible
PROPERTIES
    EnsureReturns
