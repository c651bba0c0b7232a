\* Three writes, two snapshots, balances modulo 2.
SPECIFICATION MCSpec
CONSTANTS
    z = z
    v = v
    nc = nc
    c1 = c1
    NoAccount = NoAccount
    Unseen = Unseen
    Zero = z
    NoCode = nc
    Val <- MCVal
    Code <- MCCode
    Addr = {a1}
    Slot = {s1}
    WordMod = 2
    MaxNonce = 0
    MaxJournal = 3
    MaxSnapshots = 2
    MaxLogs = 1
    MaxRefund = 1
INVARIANTS
    TypeOK
    RevertRestores
    JournalSound
    SuicideIsUndoable
PROPERTIES
    KeepsVersions
