\* Violation: a reverted CreateAccount deletes the account that it replaced.
SPECIFICATION MCSpec
CONSTANTS
    z = z
    v = v
    nc = nc
    c1 = c1
    NoAccount = NoAccount
    Unseen = Unseen
    Zero = z
    NoCode = nc
    Val <- MCVal
    Code <- MCNoCode
    Addr = {a1}
    Slot = {}
    WordMod = 2
    MaxNonce = 0
    MaxJournal = 2
    MaxSnapshots = 1
    MaxLogs = 0
    MaxRefund = 0
INVARIANTS
    RevertKeepsAccounts
