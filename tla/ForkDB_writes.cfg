\* Violation: SetStorage writes a slot that was not fetched, and its first fetch overwrites it.
SPECIFICATION Spec
CONSTANTS
    z = z
    v = v
    nc = nc
    vm = vm
    NoThread = NoThread
    NoKey = NoKey
    NoAccount = NoAccount
    Unseen = Unseen
    Zero = z
    NoCode = nc
    Val <- MCVal
    Code <- MCCode
    ChainValue = z
    Thread = {vm}
    Addr = {a1}
    Slot = {s1}
    WordMod = 2
    ChainBalance = 1
    Amounts = {1}
    MaxOps = 2
PROPERTIES
    WritesReadBack
