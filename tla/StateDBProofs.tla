---------------------------- MODULE StateDBProofs ---------------------------
(***************************************************************************)
(* Proofs about the StateDB component, for every value of its constants.   *)
(***************************************************************************)
EXTENDS StateDB, JournalProofs

(***************************************************************************)
(* The operations keep the journal sound.                                  *)
(***************************************************************************)
\* A journaled write that appends an entry for what it changes keeps every
\* live snapshot restorable.
LEMMA WriteSound ==
    ASSUME TypeOK, JournalSound, target = 0, target' = 0, saved' = saved,
           tainted \subseteq tainted', NEW e, Logs(db, db', e),
           \A c \in (AccountCell \cup CreatedCell) \ tainted' :
               Resets(e, c) => Read(db, c) = Default(c) /\ ~ Recorded(db, c)
    PROVE  JournalSound'
<1>1. /\ db \in DB /\ db.snapshots \in Seq(Nat) /\ Len(db.snapshots) \in Nat
      /\ Len(db.journal) \in Nat
      /\ db'.snapshots = db.snapshots /\ Len(db'.journal) = Len(db.journal) + 1
  <2>1. db \in DB
    BY DEF TypeOK
  <2>2. db'.snapshots = db.snapshots /\ Len(db'.journal) = Len(db.journal) + 1
    BY <2>1, LoggedJournal
  <2> QED BY <2>1, <2>2 DEF DB
<1>2. \A i \in 1 .. Len(db.snapshots) : Live(i) /\ db.snapshots[i] \in 0 .. Len(db.journal)
  BY <1>1 DEF JournalSound, SnapshotsNest, Live
<1>3. SnapshotsNest'
  BY SMTT(60), <1>1, <1>2 DEF JournalSound, SnapshotsNest, Live
<1>4. ASSUME NEW c \in Cell \ tainted'
      PROVE  Resets(e, c) => Read(db, c) = Default(c) /\ ~ Recorded(db, c)
  BY DEF Resets, Cell, StorageCell
<1>5. Restorable'
  <2> SUFFICES ASSUME NEW i \in 1 .. Len(db.snapshots), NEW c \in Cell \ tainted'
               PROVE  ReturnsTo(db', db.snapshots[i], c, saved[i][c])
    BY <1>1 DEF Restorable
  <2>1. c \in Cell \ tainted /\ Live(i) /\ db.snapshots[i] \in 0 .. Len(db.journal)
    BY <1>2
  <2>2. ReturnsTo(db, db.snapshots[i], c, saved[i][c])
    BY <2>1 DEF JournalSound, Restorable
  <2> QED BY <1>1, <1>4, <2>1, <2>2, LoggedReturns
<1>6. ASSUME NEW c \in Cell \ tainted'
      PROVE  Faithful(db', c)
  <2>1. Faithful(db, c)
    BY DEF JournalSound
  <2> QED BY <1>1, <1>4, <2>1, LoggedFaithful
<1> QED BY <1>3, <1>5, <1>6 DEF JournalSound

\* Undoing and dropping the youngest entry keeps every live snapshot
\* restorable: the oldest entry for a cell is undone last.
LEMMA LoopSound ==
    ASSUME TypeOK, JournalSound, RevertLoop
    PROVE  JournalSound'
<1> DEFINE n == Len(db.journal)
<1>1. /\ db \in DB /\ n \in Nat /\ target \in Nat
      /\ db.snapshots \in Seq(Nat) /\ Len(db.snapshots) \in Nat
  BY DEF TypeOK, DB
<1>2. target \in 1 .. Len(db.snapshots) /\ db.snapshots[target] \in Nat /\ n > db.snapshots[target]
  BY <1>1 DEF RevertLoop, Idle, JournalSound, SnapshotsNest
<1>3. n > 0
  BY <1>1, <1>2
<1>4. db' = UndoLast(db) /\ target' = target /\ saved' = saved /\ tainted' = tainted
  BY DEF RevertLoop
<1>5. db'.snapshots = db.snapshots /\ Len(db'.journal) = n - 1
  BY <1>1, <1>3, <1>4, UndoneJournal
<1>6. \A i \in 1 .. Len(db.snapshots) : i <= target =>
         Live(i) /\ db.snapshots[i] \in Nat /\ db.snapshots[i] <= n - 1
  <2> TAKE i \in 1 .. Len(db.snapshots)
  <2> HAVE i <= target
  <2>1. db.snapshots[i] \in Nat
    BY <1>1
  <2>2. db.snapshots[i] <= db.snapshots[target]
    BY <1>2 DEF JournalSound, SnapshotsNest
  <2> QED BY SMTT(60), <1>1, <1>2, <2>1, <2>2 DEF Live
<1>7. \A i : Live(i)' <=> i \in 1 .. Len(db.snapshots) /\ i <= target
  BY <1>2, <1>4, <1>5 DEF Live
<1> HIDE DEF n
<1>8. SnapshotsNest'
  <2>1. target' <= Len(db'.snapshots)
    BY <1>2, <1>4, <1>5
  <2>2. \A i, j \in 1 .. Len(db'.snapshots) : i <= j => db'.snapshots[i] <= db'.snapshots[j]
    BY <1>5 DEF JournalSound, SnapshotsNest
  <2>3. \A i \in 1 .. Len(db'.snapshots) : Live(i)' => db'.snapshots[i] <= Len(db'.journal)
    BY <1>5, <1>6, <1>7
  <2> QED BY <2>1, <2>2, <2>3 DEF SnapshotsNest
<1>9. Restorable'
  <2> SUFFICES ASSUME NEW i \in 1 .. Len(db.snapshots), i <= target, NEW c \in Cell \ tainted
               PROVE  ReturnsTo(db', db.snapshots[i], c, saved[i][c])
    BY <1>4, <1>5, <1>7 DEF Restorable
  <2>1. Live(i) /\ db.snapshots[i] \in Nat /\ db.snapshots[i] < n
    BY <1>1, <1>6
  <2>2. ReturnsTo(db, db.snapshots[i], c, saved[i][c]) /\ Faithful(db, c)
    BY <2>1 DEF JournalSound, Restorable
  <2> QED BY <1>1, <1>4, <2>1, <2>2, UndoneReturns DEF n
<1>10. ASSUME NEW c \in Cell \ tainted
       PROVE  Faithful(db', c)
  <2>1. Faithful(db, c)
    BY DEF JournalSound
  <2> QED BY <1>1, <1>3, <1>4, <2>1, UndoneFaithful DEF n
<1> QED BY <1>4, <1>8, <1>9, <1>10 DEF JournalSound

\* An operation that touches neither the journaled fields nor the journal.
LEMMA QuietSound ==
    ASSUME TypeOK, JournalSound, target' = target, saved' = saved, tainted' = tainted,
           db'.journal = db.journal, db'.snapshots = db.snapshots,
           db'.accounts = db.accounts, db'.storage = db.storage,
           db'.createdInTx = db.createdInTx
    PROVE  JournalSound'
<1>1. /\ \A a : Exists(db', a) = Exists(db, a)
      /\ \A c \in Cell : Read(db', c) = Read(db, c)
  BY SameReads
<1>2. SnapshotsNest'
  BY DEF JournalSound, SnapshotsNest, Live
<1>3. \A i : Live(i)' = Live(i)
  BY DEF Live
<1>4. Restorable'
  <2> SUFFICES ASSUME NEW i \in 1 .. Len(db.snapshots), Live(i), NEW c \in Cell \ tainted
               PROVE  ReturnsTo(db', db.snapshots[i], c, saved[i][c])
    BY <1>3 DEF Restorable
  <2>1. ReturnsTo(db, db.snapshots[i], c, saved[i][c])
    BY DEF JournalSound, Restorable
  <2> QED BY <1>1, <2>1, SameRecord
<1>5. ASSUME NEW c \in Cell \ tainted
      PROVE  Faithful(db', c)
  <2>1. Faithful(db, c)
    BY DEF JournalSound
  <2> QED BY <1>1, <2>1, SameRecord
<1> QED BY <1>2, <1>4, <1>5 DEF JournalSound

\* A bulk write: the cells it overwrites enter the saved views if the journal
\* does not touch them, and are tainted if it does.
LEMMA DirectSound ==
    ASSUME TypeOK, JournalSound, NEW d \in DB, NEW cells \in SUBSET Cell, WriteDirect(d, cells),
           d.journal = db.journal, d.snapshots = db.snapshots,
           \A c \in Cell \ cells : Read(d, c) = Read(db, c),
           \A a \in Addr : Exists(db, a) => Exists(d, a)
    PROVE  JournalSound'
<1> DEFINE clean == {c \in cells : ~ Touched(db, c)}
<1>1. /\ target = 0 /\ target' = 0 /\ db' = d /\ tainted' = tainted \cup (cells \ clean)
      /\ saved' = [i \in DOMAIN saved |->
                      [c \in Cell |-> IF c \in clean THEN Read(d, c) ELSE saved[i][c]]]
  BY DEF WriteDirect, Idle
<1>2. DOMAIN saved = 1 .. Len(db.snapshots)
  BY DEF TypeOK
<1>3. db.snapshots \in Seq(Nat) /\ Len(db.snapshots) \in Nat
  BY DEF TypeOK, DB
<1>4. SnapshotsNest'
  BY <1>1 DEF JournalSound, SnapshotsNest, Live
<1>5. Restorable'
  <2> SUFFICES ASSUME NEW i \in 1 .. Len(db.snapshots), NEW c \in Cell \ tainted'
               PROVE  ReturnsTo(d, db.snapshots[i], c, saved'[i][c])
    BY <1>1 DEF Restorable
  <2>1. saved'[i][c] = IF c \in clean THEN Read(d, c) ELSE saved[i][c]
    BY <1>1, <1>2
  <2>2. CASE c \in clean
    <3>1. ~ Touched(d, c)
      BY <2>2, SameRecord
    <3>2. db.snapshots[i] \in Nat
      BY <1>3
    <3> QED BY <2>1, <2>2, <3>1, <3>2, UntouchedReturns
  <2>3. CASE c \notin clean
    <3>1. c \notin cells /\ c \notin tainted
      BY <1>1, <2>3
    <3>2. Read(d, c) = Read(db, c) /\ saved'[i][c] = saved[i][c]
      BY <2>1, <2>3, <3>1
    <3>3. Live(i)
      BY <1>1 DEF Live
    <3>4. ReturnsTo(db, db.snapshots[i], c, saved[i][c])
      BY <3>1, <3>3 DEF JournalSound, Restorable
    <3> QED BY <3>2, <3>4, SameRecord
  <2> QED BY <2>2, <2>3
<1>6. ASSUME NEW c \in Cell \ tainted'
      PROVE  Faithful(d, c)
  <2>1. Faithful(db, c) /\ c.addr \in Addr
    BY <1>1 DEF JournalSound, Cell, AccountCell, CreatedCell, StorageCell
  <2> QED BY <2>1, SameRecord
<1> QED BY <1>1, <1>4, <1>5, <1>6 DEF JournalSound

\* A new snapshot nests in the older ones, and no entry lies beyond it.
LEMMA SnapshotSound ==
    ASSUME TypeOK, JournalSound, CallSnapshot
    PROVE  JournalSound'
<1> DEFINE m == Len(db.snapshots)
<1>1. /\ db \in DB /\ Len(db.journal) \in Nat /\ db.snapshots \in Seq(Nat) /\ m \in Nat
  BY DEF TypeOK, DB
<1>2. target = 0 /\ target' = 0 /\ tainted' = tainted /\ db' = Snapshot(db)
  BY DEF CallSnapshot, Idle
<1>3. /\ db'.journal = db.journal /\ db'.accounts = db.accounts /\ db'.storage = db.storage
      /\ db'.createdInTx = db.createdInTx
      /\ db'.snapshots = Append(db.snapshots, Len(db.journal))
  BY <1>1, <1>2 DEF Snapshot, DB
<1>4. /\ Len(db'.snapshots) = m + 1
      /\ db'.snapshots[m + 1] = Len(db.journal)
      /\ \A i \in 1 .. m : db'.snapshots[i] = db.snapshots[i]
  BY <1>1, <1>3
<1>5. /\ \A i \in 1 .. m : saved'[i] = saved[i]
      /\ \A c \in Cell : saved'[m + 1][c] = Read(db, c)
  BY <1>1 DEF CallSnapshot, View
<1>6. \A i \in 1 .. m : db.snapshots[i] \in Nat /\ db.snapshots[i] <= Len(db.journal)
  BY <1>1, <1>2 DEF JournalSound, SnapshotsNest, Live
<1>7. /\ \A a : Exists(db', a) = Exists(db, a)
      /\ \A c \in Cell : Read(db', c) = Read(db, c)
  BY <1>3, SameReads
<1> HIDE DEF m
<1>8. SnapshotsNest'
  <2>1. target' <= Len(db'.snapshots)
    BY <1>1, <1>2, <1>4
  <2>2. ASSUME NEW i \in 1 .. (m + 1)
        PROVE  db'.snapshots[i] \in Nat /\ db'.snapshots[i] <= Len(db.journal)
    BY <1>1, <1>4, <1>6
  <2>3. ASSUME NEW i \in 1 .. (m + 1), NEW j \in 1 .. (m + 1), i <= j
        PROVE  db'.snapshots[i] <= db'.snapshots[j]
    <3>1. CASE j = m + 1
      BY <1>4, <2>2, <3>1
    <3>2. CASE j # m + 1
      <4>1. i \in 1 .. m /\ j \in 1 .. m
        BY <1>1, <2>3, <3>2
      <4> QED BY <1>4, <2>3, <4>1 DEF JournalSound, SnapshotsNest, m
    <3> QED BY <3>1, <3>2
  <2> QED BY <1>3, <1>4, <2>1, <2>2, <2>3 DEF SnapshotsNest
<1>9. Restorable'
  <2> SUFFICES ASSUME NEW i \in 1 .. (m + 1), NEW c \in Cell \ tainted
               PROVE  ReturnsTo(db, db'.snapshots[i], c, saved'[i][c])
    <3>1. \A i \in 1 .. (m + 1), c \in Cell \ tainted : ReturnsTo(db', db'.snapshots[i], c, saved'[i][c])
      BY <1>3, <1>7, SameRecord
    <3> QED BY <1>2, <1>4, <3>1 DEF Restorable
  <2>1. CASE i = m + 1
    BY <1>1, <1>4, <1>5, <2>1, ReturnsHere
  <2>2. CASE i # m + 1
    <3>1. i \in 1 .. m
      BY <1>1, <2>2
    <3>2. db'.snapshots[i] = db.snapshots[i] /\ saved'[i] = saved[i]
      BY <1>4, <1>5, <3>1
    <3>3. Live(i)
      BY <1>2, <3>1 DEF Live, m
    <3> QED BY <3>1, <3>2, <3>3 DEF JournalSound, Restorable, m
  <2> QED BY <2>1, <2>2
<1>10. ASSUME NEW c \in Cell \ tainted
       PROVE  Faithful(db', c)
  <2>1. Faithful(db, c)
    BY DEF JournalSound
  <2> QED BY <1>3, <1>7, <2>1, SameRecord
<1> QED BY <1>2, <1>8, <1>9, <1>10 DEF JournalSound

\* Entering RevertToSnapshot only takes the younger snapshots out of force.
LEMMA EnterSound ==
    ASSUME TypeOK, JournalSound, NEW id \in Nat \ {0}, RevertEnter(id)
    PROVE  JournalSound'
<1>1. target = 0 /\ db' = db /\ saved' = saved /\ tainted' = tainted
  BY DEF RevertEnter, Idle
<1>2. target' = (IF id > Len(db.snapshots) THEN 0 ELSE id) /\ Len(db.snapshots) \in Nat
  BY DEF RevertEnter, TypeOK, DB
<1>3. \A i : Live(i)' => Live(i)
  BY <1>1 DEF Live
<1>4. SnapshotsNest'
  BY <1>1, <1>2, <1>3 DEF JournalSound, SnapshotsNest
<1>5. Restorable'
  BY <1>1, <1>3 DEF JournalSound, Restorable
<1> QED BY <1>1, <1>4, <1>5 DEF JournalSound

\* Leaving RevertToSnapshot drops the target and the younger snapshots.
LEMMA ExitSound ==
    ASSUME TypeOK, JournalSound, RevertExit
    PROVE  JournalSound'
<1> DEFINE m == target - 1
<1>1. db \in DB /\ db.snapshots \in Seq(Nat) /\ Len(db.snapshots) \in Nat /\ target \in Nat
  BY DEF TypeOK, DB
<1>2. target \in 1 .. Len(db.snapshots)
  BY <1>1 DEF RevertExit, Idle, JournalSound, SnapshotsNest
<1>3. /\ db'.journal = db.journal /\ db'.accounts = db.accounts /\ db'.storage = db.storage
      /\ db'.createdInTx = db.createdInTx
      /\ db'.snapshots = SubSeq(db.snapshots, 1, m)
      /\ target' = 0 /\ tainted' = tainted
  BY <1>1 DEF RevertExit, DB
<1>4. /\ Len(db'.snapshots) = m /\ m \in Nat
      /\ \A i \in 1 .. m : /\ db'.snapshots[i] = db.snapshots[i] /\ i \in 1 .. Len(db.snapshots)
                            /\ i <= target
  BY <1>1, <1>2, <1>3
<1>5. \A i \in 1 .. m : saved'[i] = saved[i]
  BY DEF RevertExit
<1>6. /\ \A a : Exists(db', a) = Exists(db, a)
      /\ \A c \in Cell : Read(db', c) = Read(db, c)
  BY <1>3, SameReads
<1> HIDE DEF m
<1>7. \A i \in 1 .. m : Live(i)
  BY <1>4 DEF Live
<1>8. SnapshotsNest'
  <2>1. target' <= Len(db'.snapshots)
    BY <1>3, <1>4
  <2>2. \A i, j \in 1 .. m : i <= j => db'.snapshots[i] <= db'.snapshots[j]
    BY <1>4 DEF JournalSound, SnapshotsNest
  <2>3. \A i \in 1 .. m : db'.snapshots[i] <= Len(db'.journal)
    BY <1>3, <1>4, <1>7 DEF JournalSound, SnapshotsNest
  <2> QED BY <1>4, <2>1, <2>2, <2>3 DEF SnapshotsNest
<1>9. Restorable'
  <2> SUFFICES ASSUME NEW i \in 1 .. m, NEW c \in Cell \ tainted
               PROVE  ReturnsTo(db', db'.snapshots[i], c, saved'[i][c])
    BY <1>3, <1>4 DEF Restorable
  <2>1. db'.snapshots[i] = db.snapshots[i] /\ saved'[i] = saved[i] /\ Live(i)
    BY <1>4, <1>5, <1>7
  <2>2. ReturnsTo(db, db.snapshots[i], c, saved[i][c])
    BY <2>1, <1>4 DEF JournalSound, Restorable
  <2> QED BY <1>3, <1>6, <2>1, <2>2, SameRecord
<1>10. ASSUME NEW c \in Cell \ tainted
       PROVE  Faithful(db', c)
  <2>1. Faithful(db, c)
    BY DEF JournalSound
  <2> QED BY <1>3, <1>6, <2>1, SameRecord
<1> QED BY <1>3, <1>8, <1>9, <1>10 DEF JournalSound

\* A state with an empty journal and no snapshots has nothing to get wrong.
LEMMA ForgetSound ==
    ASSUME NEW d, Forget(d), d.journal = << >>, d.snapshots = << >>
    PROVE  JournalSound'
<1>1. /\ db'.journal = << >> /\ db'.snapshots = << >> /\ target' = 0
      /\ Len(db'.journal) = 0 /\ Len(db'.snapshots) = 0
  BY DEF Forget, Idle
<1>2. \A c : Faithful(db', c)
  BY <1>1, EmptyJournal
<1> QED BY <1>1, <1>2 DEF JournalSound, SnapshotsNest, Restorable
-----------------------------------------------------------------------------
(***************************************************************************)
(* Type correctness.                                                       *)
(***************************************************************************)
\* A step that replaces db by a well-typed d with the same snapshots, and keeps
\* the history variables, keeps the type invariant.
LEMMA WriteType ==
    ASSUME TypeOK, NEW d \in DB, d.snapshots = db.snapshots, Write(d)
    PROVE  TypeOK'
BY DEF TypeOK, Write

\* A bulk write keeps the type invariant.
LEMMA WriteDirectType ==
    ASSUME TypeOK, NEW d \in DB, d.snapshots = db.snapshots, NEW cells \in SUBSET Cell,
           WriteDirect(d, cells)
    PROVE  TypeOK'
<1>1. /\ db' \in DB /\ db'.snapshots = db.snapshots /\ target' \in Nat
      /\ tainted' \in SUBSET Cell /\ DOMAIN saved' = 1 .. Len(db'.snapshots)
  BY DEF TypeOK, WriteDirect
<1>2. ASSUME NEW i \in DOMAIN saved', NEW c \in Cell
      PROVE  saved'[i][c] \in ValueOf(c)
  <2> DEFINE clean == {x \in cells : ~ Touched(db, x)}
  <2>1. i \in DOMAIN saved /\ saved'[i][c] = IF c \in clean THEN Read(d, c) ELSE saved[i][c]
    BY DEF WriteDirect
  <2>2. Read(d, c) \in ValueOf(c) /\ saved[i][c] \in ValueOf(c)
    BY <2>1, ReadType DEF TypeOK
  <2> HIDE DEF clean
  <2>3. CASE c \in clean
    BY <2>1, <2>2, <2>3
  <2>4. CASE c \notin clean
    BY <2>1, <2>2, <2>4
  <2> QED BY <2>3, <2>4
<1> QED BY <1>1, <1>2 DEF TypeOK
-----------------------------------------------------------------------------
(***************************************************************************)
(* The inductive step, one case for each action.                           *)
(***************************************************************************)
IInv == TypeOK /\ JournalSound

\* An operation that logs one entry keeps the inductive invariant.
LEMMA LoggedWrite ==
    ASSUME IInv, Idle, NEW d \in DB, \E e \in JournalEntry \ JCreate : Logs(db, d, e), Write(d)
    PROVE  IInv'
<1>1. PICK e \in JournalEntry \ JCreate : Logs(db, d, e)
  OBVIOUS
<1>2. e.kind # "create"
  BY DEF JournalEntry, JBalance, JNonce, JCode, JStorage, JCreate, JSuicide
<1>3. \A c : ~ Resets(e, c)
  BY <1>2 DEF Resets
<1>4. TypeOK'
  BY <1>1, WriteType DEF IInv, Logs
<1>5. JournalSound'
  BY <1>1, <1>3, WriteSound DEF IInv, Write, Idle
<1> QED BY <1>4, <1>5 DEF IInv

\* An operation on access lists, logs or the refund keeps the inductive
\* invariant.
LEMMA QuietWrite ==
    ASSUME IInv, NEW d \in DB, Write(d),
           d.journal = db.journal, d.snapshots = db.snapshots,
           d.accounts = db.accounts, d.storage = db.storage, d.createdInTx = db.createdInTx
    PROVE  IInv'
<1>1. TypeOK'
  BY WriteType DEF IInv
<1>2. JournalSound'
  BY QuietSound DEF IInv, Write
<1> QED BY <1>1, <1>2 DEF IInv

\* The account operations keep the inductive invariant.
LEMMA AccountStep ==
    ASSUME IInv, NEW a \in Addr, AccountOp(a)
    PROVE  IInv'
<1>0. db \in DB
  BY DEF IInv, TypeOK
<1>1. CASE \E val \in Word : CallSetBalance(a, val)
  BY <1>0, <1>1, LoggedWrite, SettersType, SettersLog DEF CallSetBalance
<1>2. CASE \E amount \in Word : CallAddBalance(a, amount)
  BY <1>0, <1>2, LoggedWrite, SettersType, ArithmeticLogs DEF CallAddBalance
<1>3. CASE \E amount \in Word : CallSubBalance(a, amount)
  BY <1>0, <1>3, LoggedWrite, SettersType, ArithmeticLogs DEF CallSubBalance
<1>4. CASE \E nonce \in 0 .. MaxNonce : CallSetNonce(a, nonce)
  <2>1. PICK nonce \in Nat : CallSetNonce(a, nonce)
    BY <1>4
  <2> QED BY <1>0, <2>1, LoggedWrite, SettersType, SettersLog DEF CallSetNonce
<1>5. CASE \E code \in Code : CallSetCode(a, code)
  BY <1>0, <1>5, LoggedWrite, SettersType, SettersLog DEF CallSetCode
<1>6. CASE CallSuicide(a)
  BY <1>0, <1>6, LoggedWrite, SettersType, SettersLog DEF CallSuicide
<1>7. CASE CallCreateAccount(a)
  <2> DEFINE e == [kind |-> "create", addr |-> a]
  <2>1. e \in JournalEntry /\ Logs(db, CreateAccount(db, a), e) /\ CreateAccount(db, a) \in DB
    BY <1>0, CreateLogs, SettersType
  <2>2. /\ db' = CreateAccount(db, a) /\ target = 0 /\ target' = 0 /\ saved' = saved
        /\ tainted' = tainted \cup Clobbered(a)
    BY <1>7 DEF CallCreateAccount, Idle
  <2>3. tainted' \in SUBSET Cell
    BY <2>2 DEF IInv, TypeOK, Clobbered, Cell
  <2>4. e.kind = "create" /\ e.addr = a
    OBVIOUS
  <2> HIDE DEF e
  <2>5. \A c \in (AccountCell \cup CreatedCell) \ tainted' :
           Resets(e, c) => Read(db, c) = Default(c) /\ ~ Recorded(db, c)
    BY <2>2, <2>4 DEF Resets, Clobbered
  <2>6. TypeOK'
    BY <2>1, <2>2, <2>3 DEF IInv, TypeOK, Logs
  <2>7. JournalSound'
    BY <2>1, <2>2, <2>5, WriteSound DEF IInv
  <2> QED BY <2>6, <2>7 DEF IInv
<1>8. CASE \E acc \in Fetched : CallSetAccount(a, acc)
  <2>0. Fetched \subseteq Account
    <3>1. 0 .. MaxNonce \subseteq Nat /\ {FALSE} \subseteq BOOLEAN
      BY BoundAssumption
    <3> QED BY <3>1 DEF Fetched, Account
  <2>1. PICK acc \in Account : CallSetAccount(a, acc)
    BY <1>8, <2>0
  <2> DEFINE d == SetAccount(db, a, acc)
  <2> DEFINE cells == [addr : {a}, field : AccountField]
  <2>2. d \in DB /\ d.journal = db.journal /\ d.snapshots = db.snapshots
    BY <1>0, SetAccountType DEF SetAccount, DB
  <2>3. acc # NoAccount
    BY NoAccountAssumption
  <2>4. cells \in SUBSET Cell
    BY DEF Cell, AccountCell
  <2>5. WriteDirect(d, cells)
    BY <2>1 DEF CallSetAccount
  <2>6. \A b \in Addr : Exists(db, b) => Exists(d, b)
    BY <1>0, <2>3, SetAccountReads
  <2>7. ASSUME NEW c \in Cell \ cells
        PROVE  Read(d, c) = Read(db, c)
    <3>1. CASE c \in AccountCell
      <4>1. c.addr \in Addr /\ c.field \in AccountField /\ c.addr # a
        BY <3>1 DEF AccountCell
      <4>2. getOrCreate(d, c.addr) = getOrCreate(db, c.addr)
        BY <1>0, <2>3, <4>1, SetAccountReads
      <4> HIDE DEF d
      <4> QED BY <4>1, <4>2 DEF Read, AccountField, GetBalance, GetNonce, GetCode, HasSuicided
    <3>2. CASE c \in CreatedCell \cup StorageCell
      <4>1. c.field \in {"created", "storage"}
        BY <3>2 DEF CreatedCell, StorageCell
      <4> QED BY <1>0, <2>3, <4>1, SetAccountReads
    <3> QED BY <3>1, <3>2 DEF Cell
  <2> HIDE DEF d, cells
  <2>8. TypeOK'
    BY <2>2, <2>4, <2>5, WriteDirectType DEF IInv
  <2>9. JournalSound'
    BY <2>2, <2>4, <2>5, <2>6, <2>7, DirectSound DEF IInv
  <2> QED BY <2>8, <2>9 DEF IInv
<1> QED BY <1>1, <1>2, <1>3, <1>4, <1>5, <1>6, <1>7, <1>8 DEF AccountOp

\* The storage operations keep the inductive invariant.
LEMMA StorageStep ==
    ASSUME IInv, NEW a \in Addr, StorageOp(a)
    PROVE  IInv'
<1>0. db \in DB
  BY DEF IInv, TypeOK
<1>1. PICK s \in Slot, value \in Val : CallSetStorage(a, s, value) \/ CallSetStorageDirect(a, s, value)
  BY DEF StorageOp
<1>2. CASE CallSetStorage(a, s, value)
  BY <1>0, <1>2, LoggedWrite, StorageType, SetStorageLogs DEF CallSetStorage
<1>3. CASE CallSetStorageDirect(a, s, value)
  <2> DEFINE d == SetStorageDirect(db, a, s, value)
  <2> DEFINE x == [addr |-> a, field |-> "storage", slot |-> s]
  <2>1. d \in DB
    BY <1>0, StorageType
  <2>2. /\ d.journal = db.journal /\ d.snapshots = db.snapshots /\ d.accounts = db.accounts
        /\ d.createdInTx = db.createdInTx
        /\ d.storage = [db.storage EXCEPT ![a][s] = value]
    BY <1>0 DEF SetStorageDirect, DB
  <2>3. x \in StorageCell /\ \A c \in StorageCell : c.addr = a /\ c.slot = s => c = x
    BY DEF StorageCell
  <2>4. WriteDirect(d, {x})
    BY <1>3 DEF CallSetStorageDirect
  <2> HIDE DEF d, x
  <2>5. \A b : Exists(d, b) = Exists(db, b) /\ getOrCreate(d, b) = getOrCreate(db, b)
    BY <2>2 DEF Exists, getOrCreate
  <2>6. ASSUME NEW c \in Cell \ {x}
        PROVE  Read(d, c) = Read(db, c)
    <3>1. CASE c \in AccountCell
      BY <2>5, <3>1 DEF AccountCell, Read, AccountField, GetBalance, GetNonce, GetCode, HasSuicided
    <3>2. CASE c \in CreatedCell
      <4>1. Read(d, c) = CreatedInTx(d, c.addr) /\ Read(db, c) = CreatedInTx(db, c.addr)
        BY <3>2 DEF CreatedCell, Read
      <4>2. CreatedInTx(d, c.addr) = CreatedInTx(db, c.addr)
        BY <2>2 DEF CreatedInTx
      <4> QED BY <4>1, <4>2
    <3>3. CASE c \in StorageCell
      <4>1. c.field = "storage" /\ c.addr \in Addr /\ c.slot \in Slot
        BY <3>3 DEF StorageCell
      <4>2. c.addr # a \/ c.slot # s
        BY <2>3, <3>3
      <4>3. d.storage[c.addr][c.slot] = db.storage[c.addr][c.slot]
        BY <1>0, <2>2, <4>1, <4>2 DEF DB
      <4> QED BY <4>1, <4>3 DEF Read, GetStorage
    <3> QED BY <3>1, <3>2, <3>3 DEF Cell
  <2>7. {x} \in SUBSET Cell
    BY <2>3 DEF Cell
  <2>8. TypeOK'
    BY <2>1, <2>2, <2>4, <2>7, WriteDirectType DEF IInv
  <2>9. JournalSound'
    BY <2>1, <2>2, <2>4, <2>5, <2>6, <2>7, DirectSound DEF IInv
  <2> QED BY <2>8, <2>9 DEF IInv
<1> QED BY <1>1, <1>2, <1>3

\* The operations that are not journaled keep the inductive invariant.
LEMMA UnjournaledStep ==
    ASSUME IInv, NEW a \in Addr, UnjournaledOp(a)
    PROVE  IInv'
<1>0. db \in DB
  BY DEF IInv, TypeOK
<1> DEFINE Quiet(d) == /\ d.journal = db.journal /\ d.snapshots = db.snapshots
                       /\ d.accounts = db.accounts /\ d.storage = db.storage
                       /\ d.createdInTx = db.createdInTx
<1>1. CASE CallWarmAddress(a)
  <2>1. Quiet(WarmAddress(db, a))
    BY <1>0 DEF WarmAddress, DB
  <2>2. WarmAddress(db, a) \in DB
    BY <1>0, OtherOpsType
  <2> QED BY <1>1, <2>1, <2>2, QuietWrite DEF CallWarmAddress
<1>2. CASE \E s \in Slot : CallWarmSlot(a, s)
  <2>1. PICK s \in Slot : CallWarmSlot(a, s)
    BY <1>2
  <2>2. Quiet(WarmSlot(db, a, s))
    BY <1>0 DEF WarmSlot, DB
  <2>3. WarmSlot(db, a, s) \in DB
    BY <1>0, OtherOpsType
  <2> QED BY <2>1, <2>2, <2>3, QuietWrite DEF CallWarmSlot
<1>3. CASE CallAddLog(a)
  <2>1. Quiet(AddLog(db, a))
    BY <1>0 DEF AddLog, DB
  <2>2. AddLog(db, a) \in DB
    BY <1>0, OtherOpsType
  <2> QED BY <1>3, <2>1, <2>2, QuietWrite DEF CallAddLog
<1>4. CASE \E gas \in 1 .. MaxRefund : CallAddRefund(gas)
  <2>1. PICK gas \in Nat : CallAddRefund(gas)
    BY <1>4
  <2>2. Quiet(AddRefund(db, gas))
    BY <1>0 DEF AddRefund, DB
  <2>3. AddRefund(db, gas) \in DB
    BY <1>0, OtherOpsType
  <2> QED BY <2>1, <2>2, <2>3, QuietWrite DEF CallAddRefund
<1>5. CASE \E gas \in 1 .. MaxRefund : CallSubRefund(gas)
  <2>1. PICK gas \in Nat : CallSubRefund(gas)
    BY <1>5
  <2>2. Quiet(SubRefund(db, gas))
    BY <1>0 DEF SubRefund, DB
  <2>3. SubRefund(db, gas) \in DB
    BY <1>0, OtherOpsType
  <2> QED BY <2>1, <2>2, <2>3, QuietWrite DEF CallSubRefund
<1> QED BY <1>1, <1>2, <1>3, <1>4, <1>5 DEF UnjournaledOp

\* Snapshot keeps the inductive invariant.
LEMMA SnapshotStep ==
    ASSUME IInv, CallSnapshot
    PROVE  IInv'
<1>0. db \in DB /\ Len(db.snapshots) \in Nat
  BY DEF IInv, TypeOK, DB
<1>1. db' \in DB /\ target' \in Nat /\ tainted' \in SUBSET Cell
  BY <1>0, OtherOpsType DEF CallSnapshot, IInv, TypeOK
<1>2. Len(db'.snapshots) = Len(db.snapshots) + 1
  BY <1>0 DEF CallSnapshot, Snapshot, DB
<1>3. DOMAIN saved' = 1 .. (Len(db.snapshots) + 1)
  BY DEF CallSnapshot
<1>4. ASSUME NEW i \in DOMAIN saved', NEW c \in Cell
      PROVE  saved'[i][c] \in ValueOf(c)
  <2>1. Read(db, c) \in ValueOf(c)
    BY <1>0, ReadType
  <2>2. CASE i <= Len(db.snapshots)
    <3>1. i \in DOMAIN saved /\ saved'[i] = saved[i]
      BY <1>0, <1>3, <2>2 DEF CallSnapshot, IInv, TypeOK
    <3> QED BY <3>1 DEF IInv, TypeOK
  <2>3. CASE ~ i <= Len(db.snapshots)
    <3>1. saved'[i][c] = Read(db, c)
      BY <1>3, <2>3 DEF CallSnapshot, View
    <3> QED BY <2>1, <3>1
  <2> QED BY <2>2, <2>3
<1>5. TypeOK'
  BY <1>1, <1>2, <1>3, <1>4 DEF TypeOK
<1> QED BY <1>5, SnapshotSound DEF IInv

\* The three steps of RevertToSnapshot keep the inductive invariant.
LEMMA RevertStep ==
    ASSUME IInv, Revert
    PROVE  IInv'
<1>0. /\ db \in DB /\ db.snapshots \in Seq(Nat) /\ Len(db.snapshots) \in Nat /\ target \in Nat
      /\ db.journal \in Seq(JournalEntry) /\ Len(db.journal) \in Nat
  BY DEF IInv, TypeOK, DB
<1>1. CASE \E id \in 1 .. (MaxSnapshots + 1) : RevertEnter(id)
  <2>1. PICK id \in Nat \ {0} : RevertEnter(id)
    BY <1>1
  <2>2. TypeOK'
    BY <2>1 DEF IInv, TypeOK, RevertEnter
  <2> QED BY <2>1, <2>2, EnterSound DEF IInv
<1>2. CASE RevertLoop
  <2>1. target \in 1 .. Len(db.snapshots)
    BY <1>0, <1>2 DEF RevertLoop, Idle, IInv, JournalSound, SnapshotsNest
  <2>2. Len(db.journal) > 0
    BY <1>0, <1>2, <2>1 DEF RevertLoop
  <2>3. db' \in DB
    BY <1>0, <1>2, <2>2, UndoLastType DEF RevertLoop
  <2>4. db'.snapshots = db.snapshots
    <3>1. db.journal[Len(db.journal)] \in JournalEntry
      BY <1>0, <2>2
    <3>2. /\ Undo(db, db.journal[Len(db.journal)]) \in DB
          /\ Undo(db, db.journal[Len(db.journal)]).snapshots = db.snapshots
      BY <1>0, <3>1, UndoType DEF Undo, DB
    <3> QED BY <1>2, <3>2 DEF RevertLoop, UndoLast, DB
  <2>5. TypeOK'
    BY <1>2, <2>3, <2>4 DEF IInv, TypeOK, RevertLoop
  <2> QED BY <1>2, <2>5, LoopSound DEF IInv
<1>3. CASE RevertExit
  <2>1. target \in 1 .. Len(db.snapshots)
    BY <1>0, <1>3 DEF RevertExit, Idle, IInv, JournalSound, SnapshotsNest
  <2>2. SubSeq(db.snapshots, 1, target - 1) \in Seq(Nat)
    BY <1>0, <2>1
  <2>3. Len(SubSeq(db.snapshots, 1, target - 1)) = target - 1
    BY <1>0, <2>1
  <2>4. db' \in DB /\ db'.snapshots = SubSeq(db.snapshots, 1, target - 1)
    BY <1>0, <1>3, <2>2 DEF RevertExit, DB
  <2>5. ASSUME NEW i \in DOMAIN saved', NEW c \in Cell
        PROVE  saved'[i][c] \in ValueOf(c)
    <3>1. i \in DOMAIN saved /\ saved'[i] = saved[i]
      BY <1>0, <1>3, <2>1 DEF RevertExit, IInv, TypeOK
    <3> QED BY <3>1 DEF IInv, TypeOK
  <2>6. DOMAIN saved' = 1 .. Len(db'.snapshots) /\ target' \in Nat /\ tainted' \in SUBSET Cell
    BY <1>3, <2>3, <2>4 DEF RevertExit, IInv, TypeOK
  <2>7. TypeOK'
    BY <2>4, <2>5, <2>6 DEF TypeOK
  <2> QED BY <1>3, <2>7, ExitSound DEF IInv
<1> QED BY <1>1, <1>2, <1>3 DEF Revert

\* Finalise and Reset keep the inductive invariant.
LEMMA ForgetStep ==
    ASSUME IInv, CallFinalise \/ CallReset
    PROVE  IInv'
<1>0. db \in DB
  BY DEF IInv, TypeOK
<1>1. PICK d \in DB : Forget(d) /\ d.journal = << >> /\ d.snapshots = << >>
  <2>1. Finalise(db).journal = << >> /\ Finalise(db).snapshots = << >>
    BY <1>0 DEF Finalise, DB
  <2>2. Reset(db).journal = << >> /\ Reset(db).snapshots = << >>
    BY DEF Reset, New
  <2> QED BY <1>0, <2>1, <2>2, OtherOpsType DEF CallFinalise, CallReset
<1>2. /\ db' \in DB /\ Len(db'.snapshots) = 0 /\ target' \in Nat /\ saved' = << >>
      /\ tainted' = {}
  BY <1>1 DEF Forget, IInv, TypeOK
<1>3. TypeOK'
  BY <1>2 DEF TypeOK
<1> QED BY <1>1, <1>3, ForgetSound DEF IInv
-----------------------------------------------------------------------------
(***************************************************************************)
(* Self-destructs: SuicideRecorded(db) is kept by every operation.         *)
(***************************************************************************)
\* A journaled write other than a creation keeps the record of self-destructs.
LEMMA LoggedWriteSuicides ==
    ASSUME db \in DB, SuicideRecorded(db), NEW d \in DB,
           \E e \in JournalEntry \ JCreate : Logs(db, d, e), Write(d)
    PROVE  SuicideRecorded(db)'
<1>1. SuicideRecorded(d)
  BY LoggedSuicides
<1> QED BY <1>1 DEF Write

\* The account operations keep the record of self-destructs.
LEMMA AccountSuicides ==
    ASSUME db \in DB, SuicideRecorded(db), NEW a \in Addr, AccountOp(a)
    PROVE  SuicideRecorded(db)'
<1>1. CASE \E val \in Word : CallSetBalance(a, val)
  BY <1>1, LoggedWriteSuicides, SettersType, SettersLog DEF CallSetBalance
<1>2. CASE \E amount \in Word : CallAddBalance(a, amount)
  BY <1>2, LoggedWriteSuicides, SettersType, ArithmeticLogs DEF CallAddBalance
<1>3. CASE \E amount \in Word : CallSubBalance(a, amount)
  BY <1>3, LoggedWriteSuicides, SettersType, ArithmeticLogs DEF CallSubBalance
<1>4. CASE \E nonce \in 0 .. MaxNonce : CallSetNonce(a, nonce)
  <2>1. PICK nonce \in Nat : CallSetNonce(a, nonce)
    BY <1>4
  <2> QED BY <2>1, LoggedWriteSuicides, SettersType, SettersLog DEF CallSetNonce
<1>5. CASE \E code \in Code : CallSetCode(a, code)
  BY <1>5, LoggedWriteSuicides, SettersType, SettersLog DEF CallSetCode
<1>6. CASE CallSuicide(a)
  BY <1>6, LoggedWriteSuicides, SettersType, SettersLog DEF CallSuicide
<1>7. CASE CallCreateAccount(a)
  <2> DEFINE e == [kind |-> "create", addr |-> a]
  <2>1. /\ e \in JournalEntry /\ Logs(db, CreateAccount(db, a), e)
        /\ CreateAccount(db, a) \in DB /\ e.addr = a
    BY CreateLogs, SettersType
  <2>2. ~ HasSuicided(CreateAccount(db, a), a)
    BY CreateSuicides
  <2> HIDE DEF e
  <2>3. SuicideRecorded(CreateAccount(db, a))
    BY <2>1, <2>2, LoggedSuicides
  <2> QED BY <1>7, <2>3 DEF CallCreateAccount
<1>8. CASE \E acc \in Fetched : CallSetAccount(a, acc)
  <2>1. PICK acc \in Fetched : CallSetAccount(a, acc)
    BY <1>8
  <2>2. acc \in Account /\ acc.suicide = FALSE
    <3>1. 0 .. MaxNonce \subseteq Nat
      BY BoundAssumption
    <3> QED BY <3>1 DEF Fetched, Account
  <2>3. db' = SetAccount(db, a, acc) /\ db'.journal = db.journal
    BY <2>1 DEF CallSetAccount, WriteDirect, SetAccount, DB
  <2>4. \A b \in Addr : getOrCreate(db', b) = IF b = a THEN acc ELSE getOrCreate(db, b)
    BY <2>2, <2>3, SetAccountReads, NoAccountAssumption
  <2>5. \A b \in Addr : HasSuicided(db', b) => HasSuicided(db, b)
    BY <2>2, <2>4 DEF HasSuicided
  <2> QED BY <2>3, <2>5, SameSuicides
<1> QED BY <1>1, <1>2, <1>3, <1>4, <1>5, <1>6, <1>7, <1>8 DEF AccountOp

\* Every step keeps the record of self-destructs.
LEMMA NextSuicides == IInv /\ SuicideRecorded(db) /\ [Next]_vars => SuicideRecorded(db)'
<1> SUFFICES ASSUME IInv, SuicideRecorded(db), [Next]_vars PROVE SuicideRecorded(db)'
  OBVIOUS
<1>0. db \in DB /\ db.snapshots \in Seq(Nat) /\ Len(db.snapshots) \in Nat /\ target \in Nat
  BY DEF IInv, TypeOK, DB
<1> DEFINE Quiet == db'.journal = db.journal /\ db'.accounts = db.accounts
<1>1. ASSUME Quiet PROVE SuicideRecorded(db)'
  <2>1. \A a \in Addr : HasSuicided(db', a) => HasSuicided(db, a)
    BY <1>1 DEF HasSuicided, getOrCreate, Exists
  <2>2. SuicideRecorded(db')
    BY <1>1, <2>1, SameSuicides
  <2> QED BY <2>2
<1>2. CASE UNCHANGED vars
  BY <1>1, <1>2 DEF vars
<1>3. ASSUME NEW a \in Addr, AccountOp(a) PROVE SuicideRecorded(db)'
  BY <1>0, <1>3, AccountSuicides
<1>4. ASSUME NEW a \in Addr, StorageOp(a) PROVE SuicideRecorded(db)'
  <2>1. PICK s \in Slot, value \in Val : CallSetStorage(a, s, value) \/ CallSetStorageDirect(a, s, value)
    BY <1>4 DEF StorageOp
  <2>2. CASE CallSetStorage(a, s, value)
    BY <1>0, <2>2, LoggedWriteSuicides, StorageType, SetStorageLogs DEF CallSetStorage
  <2>3. CASE CallSetStorageDirect(a, s, value)
    <3>1. Quiet
      BY <1>0, <2>3 DEF CallSetStorageDirect, WriteDirect, SetStorageDirect, DB
    <3> QED BY <1>1, <3>1
  <2> QED BY <2>1, <2>2, <2>3
<1>5. ASSUME NEW a \in Addr, UnjournaledOp(a) PROVE SuicideRecorded(db)'
  <2>1. Quiet
    BY <1>0, <1>5 DEF UnjournaledOp, CallWarmAddress, WarmAddress, CallWarmSlot, WarmSlot,
         CallAddLog, AddLog, CallAddRefund, AddRefund, CallSubRefund, SubRefund, Write, DB
  <2> QED BY <1>1, <2>1
<1>6. CASE CallSnapshot
  <2>1. Quiet
    BY <1>0, <1>6 DEF CallSnapshot, Snapshot, DB
  <2> QED BY <1>1, <2>1
<1>7. CASE Revert
  <2>1. CASE \E id \in 1 .. (MaxSnapshots + 1) : RevertEnter(id)
    BY <1>1, <2>1 DEF RevertEnter
  <2>2. CASE RevertLoop
    <3>1. target \in 1 .. Len(db.snapshots)
      BY <1>0, <2>2 DEF RevertLoop, Idle, IInv, JournalSound, SnapshotsNest
    <3>2. Len(db.journal) > 0
      BY <1>0, <2>2, <3>1 DEF RevertLoop, DB
    <3>3. SuicideRecorded(UndoLast(db))
      BY <1>0, <3>2, UndoneSuicides
    <3> QED BY <2>2, <3>3 DEF RevertLoop
  <2>3. CASE RevertExit
    <3>1. Quiet
      BY <1>0, <2>3 DEF RevertExit, DB
    <3> QED BY <1>1, <3>1
  <2> QED BY <1>7, <2>1, <2>2, <2>3 DEF Revert
<1>8. ASSUME CallFinalise \/ CallReset PROVE SuicideRecorded(db)'
  <2>1. db'.journal = << >> /\ \A a \in Addr : ~ HasSuicided(db', a)
    <3>1. CASE CallFinalise
      <4>1. db' = Finalise(db)
        BY <3>1 DEF CallFinalise, Forget
      <4>2. /\ db'.journal = << >>
            /\ \A a \in Addr : db'.accounts[a] = IF HasSuicided(db, a) THEN NoAccount ELSE db.accounts[a]
        BY <1>0, <4>1 DEF Finalise, DB
      <4> QED BY <4>2 DEF HasSuicided, getOrCreate, Exists, EmptyAccount
    <3>2. CASE CallReset
      <4>1. db' = Reset(db)
        BY <3>2 DEF CallReset, Forget
      <4>2. db'.journal = << >> /\ \A a \in Addr : db'.accounts[a] = NoAccount
        BY <1>0, <4>1 DEF Reset, New
      <4> QED BY <4>2 DEF HasSuicided, getOrCreate, Exists, EmptyAccount
    <3> QED BY <1>8, <3>1, <3>2
  <2>2. Len(db'.journal) = 0
    BY <2>1
  <2> QED BY <2>1, <2>2 DEF SuicideRecorded
<1> QED BY <1>2, <1>3, <1>4, <1>5, <1>6, <1>7, <1>8 DEF Next
-----------------------------------------------------------------------------
(***************************************************************************)
(* The theorems.                                                           *)
(***************************************************************************)
\* The inductive invariant holds of a new StateDB.
LEMMA InitIInv == Init => IInv
<1> SUFFICES ASSUME Init PROVE IInv
  OBVIOUS
<1>1. /\ db = New /\ db.journal = << >> /\ db.snapshots = << >> /\ target = 0
      /\ Len(db.journal) = 0 /\ Len(db.snapshots) = 0 /\ saved = << >> /\ tainted = {}
  BY DEF Init, New
<1>2. TypeOK
  BY <1>1, NewType DEF TypeOK
<1>3. \A c : Faithful(db, c)
  BY <1>1, EmptyJournal
<1>4. JournalSound
  BY <1>1, <1>3 DEF JournalSound, SnapshotsNest, Restorable
<1> QED BY <1>2, <1>4 DEF IInv

\* Every operation keeps the inductive invariant.
LEMMA NextIInv == IInv /\ [Next]_vars => IInv'
<1> SUFFICES ASSUME IInv, [Next]_vars PROVE IInv'
  OBVIOUS
<1>1. CASE UNCHANGED vars
  BY <1>1, QuietSound DEF vars, IInv, TypeOK
<1>2. CASE \E a \in Addr : AccountOp(a) \/ StorageOp(a) \/ UnjournaledOp(a)
  BY <1>2, AccountStep, StorageStep, UnjournaledStep
<1>3. CASE CallSnapshot
  BY <1>3, SnapshotStep
<1>4. CASE Revert
  BY <1>4, RevertStep
<1>5. CASE CallFinalise \/ CallReset
  BY <1>5, ForgetStep
<1> QED BY <1>1, <1>2, <1>3, <1>4, <1>5 DEF Next

\* When the revert loop ends, no journal entry since the snapshot is left, so
\* Restorable says every recorded cell has its value back.
LEMMA SoundRestores == IInv => RevertRestores
<1> SUFFICES ASSUME IInv, target # 0, Len(db.journal) <= db.snapshots[target],
                    NEW c \in Cell \ tainted
             PROVE  Read(db, c) = saved[target][c]
  BY DEF RevertRestores
<1>1. /\ target \in Nat /\ Len(db.snapshots) \in Nat /\ Len(db.journal) \in Nat
      /\ db.snapshots \in Seq(Nat)
  BY DEF IInv, TypeOK, DB
<1>2. target \in 1 .. Len(db.snapshots) /\ Live(target)
  BY <1>1 DEF IInv, JournalSound, SnapshotsNest, Live
<1>3. ReturnsTo(db, db.snapshots[target], c, saved[target][c]) /\ db.snapshots[target] \in Nat
  BY <1>1, <1>2 DEF IInv, JournalSound, Restorable
<1> QED BY <1>3, Returned DEF IInv, TypeOK

\* Every operation of the StateDB keeps the types of its fields.
THEOREM TypeCorrect == Spec => []TypeOK
<1>1. IInv => TypeOK
  BY DEF IInv
<1> QED BY <1>1, InitIInv, NextIInv, PTL DEF Spec

\* The journal is always a sound record of how to return to each live snapshot.
THEOREM JournalIsSound == Spec => []JournalSound
<1>1. IInv => JournalSound
  BY DEF IInv
<1> QED BY <1>1, InitIInv, NextIInv, PTL DEF Spec

\* RevertToSnapshot restores every cell that the journal faithfully records.
THEOREM RevertIsCorrect == Spec => []RevertRestores
BY SoundRestores, InitIInv, NextIInv, PTL DEF Spec

\* A pending self-destruct can always be undone: the flag reaches neither the
\* caller of a frame that reverts nor the next transaction.
THEOREM SuicidesAreUndoable == Spec => []SuicideIsUndoable
<1>1. Init => SuicideRecorded(db)
  <2> SUFFICES ASSUME Init PROVE SuicideRecorded(db)
    OBVIOUS
  <2>1. Len(db.journal) = 0 /\ \A a \in Addr : db.accounts[a] = NoAccount
    BY DEF Init, New
  <2>2. \A a \in Addr : ~ HasSuicided(db, a)
    BY <2>1 DEF HasSuicided, getOrCreate, Exists, EmptyAccount
  <2>3. 1 .. Len(db.journal) = {}
    BY <2>1
  <2> QED BY <2>2, <2>3 DEF SuicideRecorded
<1>2. SuicideRecorded(db) => SuicideIsUndoable
  BY DEF SuicideRecorded, SuicideIsUndoable
<1> QED BY <1>1, <1>2, InitIInv, NextIInv, NextSuicides, PTL DEF Spec
-----------------------------------------------------------------------------
(***************************************************************************)
(* The journal implements a stack of copies (Versions).                    *)
(***************************************************************************)
\* The values a cell of a copy may have.
CopyValue == Nat \cup Code \cup BOOLEAN \cup Val \cup {Unseen}

\* A view with well-typed cells shows a lost cell as Lost, and no other.
LEMMA ShownValue ==
    ASSUME NEW w, \A c \in Cell : w[c] \in ValueOf(c)
    PROVE  /\ Shown(w) \in [Cell -> CopyValue]
           /\ \A c \in Cell : Shown(w)[c] = IF c \in tainted THEN Unseen ELSE w[c]
           /\ \A c \in Cell : Shown(w)[c] = Unseen <=> c \in tainted
<1>1. ASSUME NEW c \in Cell
      PROVE  Unseen \notin ValueOf(c)
  BY UnseenAssumption DEF Cell, AccountCell, AccountField, CreatedCell, StorageCell, ValueOf, Word
<1>2. \A c \in Cell : Shown(w)[c] = IF c \in tainted THEN Unseen ELSE w[c]
  BY DEF Shown
<1>3. \A c \in Cell : w[c] \in CopyValue /\ Unseen \in CopyValue
  <2> TAKE c \in Cell
  <2>1. ValueOf(c) \subseteq CopyValue
    BY DEF CopyValue, Cell, AccountCell, AccountField, CreatedCell, StorageCell, ValueOf, Word
  <2> QED BY <2>1 DEF CopyValue
<1>4. Shown(w) \in [Cell -> CopyValue]
  BY <1>3 DEF Shown
<1>5. \A c \in Cell : Shown(w)[c] = Unseen <=> c \in tainted
  BY <1>1, <1>2
<1> QED BY <1>2, <1>4, <1>5

\* What the mapping is while no revert runs ...
IdleMap ==
    /\ Len(db.snapshots) \in Nat
    /\ DOMAIN Copies = 1 .. Len(db.snapshots)
    /\ Copies = [i \in 1 .. Len(db.snapshots) |-> Shown(saved[i])]
    /\ Copies \in Seq([Cell -> CopyValue])
    /\ Len(Copies) = Len(db.snapshots)
    /\ Now \in [Cell -> CopyValue]
    /\ \A c \in Cell : Now[c] = IF c \in tainted THEN Unseen ELSE Read(db, c)
    /\ \A c \in Cell : Now[c] = Unseen <=> c \in tainted
    /\ \A i \in 1 .. Len(db.snapshots) :
          /\ Copies[i] \in [Cell -> CopyValue]
          /\ \A c \in Cell : Copies[i][c] = IF c \in tainted THEN Unseen ELSE saved[i][c]

\* ... and while RevertToSnapshot runs.
RevertMap ==
    /\ target \in 1 .. Len(db.snapshots)
    /\ Copies = [i \in 1 .. target |-> Shown(saved[i])]
    /\ Copies \in Seq([Cell -> CopyValue])
    /\ Len(Copies) = target
    /\ Now = Shown(saved[target])
    /\ \A i \in 1 .. target : \A c \in Cell : saved[i][c] \in ValueOf(c)

\* The inductive invariant gives the mapping while no revert runs.
LEMMA IdleMapping == IInv /\ Idle => IdleMap
<1> SUFFICES ASSUME IInv, Idle PROVE IdleMap
  OBVIOUS
<1>1. db \in DB /\ Len(db.snapshots) \in Nat /\ DOMAIN saved = 1 .. Len(db.snapshots)
  BY DEF IInv, TypeOK, DB
<1>2. Copies = [i \in 1 .. Len(db.snapshots) |-> Shown(saved[i])]
  BY DEF Copies
<1>3. Now = Shown(View(db))
  BY DEF Now
<1>4. \A c \in Cell : View(db)[c] = Read(db, c) /\ View(db)[c] \in ValueOf(c)
  BY <1>1, ReadType DEF View
<1>5. \A i \in 1 .. Len(db.snapshots) : \A c \in Cell : saved[i][c] \in ValueOf(c)
  BY <1>1 DEF IInv, TypeOK
<1>6. \A i \in 1 .. Len(db.snapshots) :
         /\ Shown(saved[i]) \in [Cell -> CopyValue]
         /\ \A c \in Cell : Shown(saved[i])[c] = IF c \in tainted THEN Unseen ELSE saved[i][c]
  BY <1>5, ShownValue
<1>7. /\ Now \in [Cell -> CopyValue]
      /\ \A c \in Cell : Now[c] = IF c \in tainted THEN Unseen ELSE View(db)[c]
      /\ \A c \in Cell : Now[c] = Unseen <=> c \in tainted
  BY <1>3, <1>4, ShownValue
<1>8. Copies \in Seq([Cell -> CopyValue]) /\ Len(Copies) = Len(db.snapshots)
  BY <1>1, <1>2, <1>6
<1> QED BY <1>1, <1>2, <1>4, <1>6, <1>7, <1>8 DEF IdleMap

\* The inductive invariant gives the mapping while RevertToSnapshot runs.
LEMMA RevertMapping == IInv /\ ~ Idle => RevertMap
<1> SUFFICES ASSUME IInv, ~ Idle PROVE RevertMap
  OBVIOUS
<1>1. /\ Len(db.snapshots) \in Nat /\ DOMAIN saved = 1 .. Len(db.snapshots)
      /\ target \in 1 .. Len(db.snapshots)
  BY DEF IInv, TypeOK, DB, Idle, JournalSound, SnapshotsNest
<1>2. Copies = [i \in 1 .. target |-> Shown(saved[i])] /\ Now = Shown(saved[target])
  BY DEF Copies, Now
<1>3. \A i \in 1 .. target : \A c \in Cell : saved[i][c] \in ValueOf(c)
  BY <1>1 DEF IInv, TypeOK
<1>4. \A i \in 1 .. target : Shown(saved[i]) \in [Cell -> CopyValue]
  BY <1>3, ShownValue
<1>5. Copies \in Seq([Cell -> CopyValue]) /\ Len(Copies) = target
  BY <1>1, <1>2, <1>4
<1> QED BY <1>1, <1>2, <1>3, <1>5 DEF RevertMap

\* An operation that keeps the saved views, or changes them for cells on which
\* every view agrees with the state, is a write to the abstract state.
LEMMA WriteMapping ==
    ASSUME IInv, IInv', Idle, Idle', db'.snapshots = db.snapshots, tainted \subseteq tainted',
           \A c \in Cell \ tainted' :
               \/ \A i \in 1 .. Len(db.snapshots) : saved'[i][c] = saved[i][c]
               \/ \A i \in 1 .. Len(db.snapshots) :
                     saved[i][c] = Read(db, c) /\ saved'[i][c] = Read(db', c)
    PROVE  Stack!Write
<1> DEFINE N == Len(db.snapshots)
<1>1. /\ DOMAIN Copies = 1 .. N
      /\ \A c \in Cell : Now[c] = IF c \in tainted THEN Unseen ELSE Read(db, c)
      /\ \A c \in Cell : Now[c] = Unseen <=> c \in tainted
      /\ \A i \in 1 .. N : \A c \in Cell : Copies[i][c] = IF c \in tainted THEN Unseen ELSE saved[i][c]
  BY IdleMapping DEF IdleMap
<1>0. IdleMap'
  <2>1. (IInv /\ Idle => IdleMap)'
    BY IdleMapping, PTL
  <2> QED BY <2>1
<1>2. /\ DOMAIN Copies' = 1 .. N
      /\ \A c \in Cell : Now'[c] = IF c \in tainted' THEN Unseen ELSE Read(db', c)
      /\ \A c \in Cell : Now'[c] = Unseen <=> c \in tainted'
      /\ \A i \in 1 .. N : \A c \in Cell : Copies'[i][c] = IF c \in tainted' THEN Unseen ELSE saved'[i][c]
  BY <1>0 DEF IdleMap
<1> HIDE DEF N
<1>3. ASSUME NEW c \in Cell
      PROVE  /\ Now[c] = Unseen => Now'[c] = Unseen
             /\ \/ \A i \in DOMAIN Copies : Copies'[i][c] = Copies[i][c]
                \/ /\ (\A i \in DOMAIN Copies : Copies[i][c] = Now[c]) \/ Now'[c] = Unseen
                   /\ \A i \in DOMAIN Copies : Copies'[i][c] = Now'[c]
  <2>1. CASE c \in tainted'
    BY <1>1, <1>2, <2>1
  <2>2. CASE c \notin tainted'
    <3>1. c \notin tainted
      BY <2>2
    <3> QED BY SMTT(60), <1>1, <1>2, <2>2, <3>1 DEF N
  <2> QED BY <2>1, <2>2
<1>4. DOMAIN Copies' = DOMAIN Copies
  BY <1>1, <1>2
<1> QED BY <1>3, <1>4 DEF Stack!Write, Stack!Settled

\* A bulk write is a write to the abstract state: a cell that no entry touches
\* has the same value in every copy.
LEMMA DirectMapping ==
    ASSUME IInv, IInv', NEW d, NEW cells \in SUBSET Cell, WriteDirect(d, cells),
           d.journal = db.journal, d.snapshots = db.snapshots
    PROVE  Stack!Write
<1> DEFINE clean == {c \in cells : ~ Touched(db, c)}
<1>1. /\ Idle /\ Idle' /\ db' = d /\ tainted' = tainted \cup (cells \ clean)
      /\ saved' = [i \in DOMAIN saved |->
                      [c \in Cell |-> IF c \in clean THEN Read(d, c) ELSE saved[i][c]]]
  BY DEF WriteDirect, Idle
<1>2. DOMAIN saved = 1 .. Len(db.snapshots) /\ db \in DB /\ db.snapshots \in Seq(Nat)
  BY DEF IInv, TypeOK, DB
<1>3. ASSUME NEW c \in Cell \ tainted'
      PROVE  \/ \A i \in 1 .. Len(db.snapshots) : saved'[i][c] = saved[i][c]
             \/ \A i \in 1 .. Len(db.snapshots) :
                   saved[i][c] = Read(db, c) /\ saved'[i][c] = Read(db', c)
  <2>1. \A i \in 1 .. Len(db.snapshots) :
           saved'[i][c] = IF c \in clean THEN Read(d, c) ELSE saved[i][c]
    BY <1>1, <1>2
  <2>2. CASE c \in clean
    <3>1. ASSUME NEW i \in 1 .. Len(db.snapshots)
          PROVE  saved[i][c] = Read(db, c)
      <4>1. c \notin tainted /\ Live(i) /\ db.snapshots[i] \in Nat /\ Len(db.journal) \in Nat
        BY <1>1, <1>2 DEF Live, Idle, DB
      <4>2. ReturnsTo(db, db.snapshots[i], c, saved[i][c])
        BY <4>1 DEF IInv, JournalSound, Restorable
      <4>3. \A k \in 1 .. Len(db.journal) : ~ Touches(db.journal[k], c)
        BY <2>2 DEF Touched
      <4>4. Untouched(db, db.snapshots[i], c)
        BY <4>1, <4>3 DEF Untouched
      <4> QED BY <4>2, <4>4 DEF ReturnsTo
    <3> QED BY <1>1, <2>1, <2>2, <3>1
  <2>3. CASE c \notin clean
    BY <2>1, <2>3
  <2> QED BY <2>2, <2>3
<1>4. tainted \subseteq tainted' /\ db'.snapshots = db.snapshots
  BY <1>1
<1> HIDE DEF clean
<1> QED BY <1>1, <1>3, <1>4, WriteMapping

\* Every step of the StateDB is a step of the stack of copies, or changes
\* nothing there.
LEMMA StepMapping ==
    ASSUME IInv, IInv', [Next]_vars
    PROVE  [Stack!Next]_<<Now, Copies, ~ Idle>>
<1>1. db \in DB /\ target \in Nat
  BY DEF IInv, TypeOK
<1>2. Idle => IdleMap
  BY IdleMapping
<1>3. ~ Idle => RevertMap
  BY RevertMapping
<1>4. Idle' => IdleMap'
  <2>1. (IInv /\ Idle => IdleMap)'
    BY IdleMapping, PTL
  <2> QED BY <2>1
<1>5. ~ Idle' => RevertMap'
  <2>1. (IInv /\ ~ Idle => RevertMap)'
    BY RevertMapping, PTL
  <2> QED BY <2>1
<1>6. ASSUME Idle, target' = target, saved' = saved, tainted \subseteq tainted',
             db'.snapshots = db.snapshots
      PROVE  Stack!Write
  BY <1>6, WriteMapping DEF Idle
<1>7. CASE UNCHANGED vars
  <2>1. Now' = Now /\ Copies' = Copies /\ Idle' = Idle
    BY <1>7 DEF vars, Now, Copies, Idle, Shown, View
  <2> QED BY <2>1
<1>8. ASSUME NEW a \in Addr, AccountOp(a)
      PROVE  Stack!Write
  <2>1. CASE \E acc \in Fetched : CallSetAccount(a, acc)
    <3>1. PICK acc \in Fetched : CallSetAccount(a, acc)
      BY <2>1
    <3> DEFINE cells == [addr : {a}, field : AccountField]
    <3>2. WriteDirect(SetAccount(db, a, acc), cells) /\ cells \in SUBSET Cell
      BY <3>1 DEF CallSetAccount, Cell, AccountCell
    <3>3. SetAccount(db, a, acc).journal = db.journal /\ SetAccount(db, a, acc).snapshots = db.snapshots
      BY <1>1 DEF SetAccount, DB
    <3> HIDE DEF cells
    <3> QED BY <3>2, <3>3, DirectMapping
  <2>2. CASE CallCreateAccount(a)
    <3>1. db'.snapshots = db.snapshots
      BY <1>1, <2>2, CreateLogs DEF CallCreateAccount, Logs
    <3> QED BY <1>6, <2>2, <3>1 DEF CallCreateAccount
  <2>4. ASSUME ~ (\E acc \in Fetched : CallSetAccount(a, acc)), ~ CallCreateAccount(a)
        PROVE  Idle /\ UNCHANGED <<target, saved, tainted>> /\ db'.snapshots = db.snapshots
    <3>1. \A acc, e : Journaled(db, acc, e).snapshots = db.snapshots
      BY <1>1 DEF Journaled, DB
    <3> QED BY <1>8, <2>4, <3>1 DEF AccountOp, CallSetBalance, SetBalance, CallAddBalance, AddBalance,
               CallSubBalance, SubBalance, CallSetNonce, SetNonce, CallSetCode, SetCode,
               CallSuicide, Suicide, Write
  <2> QED BY <1>6, <2>1, <2>2, <2>4
<1>9. ASSUME NEW a \in Addr, StorageOp(a)
      PROVE  Stack!Write
  <2>1. PICK s \in Slot, value \in Val : CallSetStorage(a, s, value) \/ CallSetStorageDirect(a, s, value)
    BY <1>9 DEF StorageOp
  <2>2. CASE CallSetStorage(a, s, value)
    <3>1. SetStorage(db, a, s, value).snapshots = db.snapshots
      BY <1>1 DEF SetStorage, DB
    <3> QED BY <1>6, <2>2, <3>1 DEF CallSetStorage, Write
  <2>3. CASE CallSetStorageDirect(a, s, value)
    <3> DEFINE x == [addr |-> a, field |-> "storage", slot |-> s]
    <3> DEFINE d == SetStorageDirect(db, a, s, value)
    <3>1. WriteDirect(d, {x}) /\ {x} \in SUBSET Cell
      BY <2>3 DEF CallSetStorageDirect, Cell, StorageCell
    <3>2. d.journal = db.journal /\ d.snapshots = db.snapshots
      BY <1>1 DEF SetStorageDirect, DB
    <3> HIDE DEF x, d
    <3> QED BY <3>1, <3>2, DirectMapping
  <2> QED BY <2>1, <2>2, <2>3
<1>10. ASSUME NEW a \in Addr, UnjournaledOp(a)
       PROVE  Stack!Write
  <2>1. Idle /\ UNCHANGED <<target, saved, tainted>> /\ db'.snapshots = db.snapshots
    BY <1>1, <1>10 DEF UnjournaledOp, CallWarmAddress, WarmAddress, CallWarmSlot, WarmSlot,
         CallAddLog, AddLog, CallAddRefund, AddRefund, CallSubRefund, SubRefund, Write, DB
  <2> QED BY <1>6, <2>1
<1>11. CASE CallSnapshot
  <2> DEFINE N == Len(db.snapshots)
  <2>1. Idle /\ Idle' /\ tainted' = tainted /\ db' = Snapshot(db)
    BY <1>11 DEF CallSnapshot, Idle
  <2>2. /\ N \in Nat /\ Copies \in Seq([Cell -> CopyValue]) /\ Len(Copies) = N
        /\ Now \in [Cell -> CopyValue] /\ Now' \in [Cell -> CopyValue]
        /\ Copies' \in Seq([Cell -> CopyValue]) /\ Len(Copies') = Len(db'.snapshots)
    BY <1>2, <1>4, <2>1 DEF IdleMap
  <2>3. Len(db'.snapshots) = N + 1
    BY <1>1, <2>1 DEF Snapshot, DB
  <2>4. \A c \in Cell : Read(db', c) = Read(db, c)
    <3>1. /\ db'.accounts = db.accounts /\ db'.storage = db.storage
          /\ db'.createdInTx = db.createdInTx
      BY <1>1, <2>1 DEF Snapshot, DB
    <3> QED BY <3>1, SameReads
  <2>5. /\ \A i \in 1 .. N : saved'[i] = saved[i]
        /\ saved'[N + 1] = View(db)
    BY <1>11, <2>2 DEF CallSnapshot
  <2>6. Now' = Now
    <3>1. \A c \in Cell : Now'[c] = Now[c]
      BY <1>2, <1>4, <2>1, <2>4 DEF IdleMap
    <3> QED BY <2>2, <3>1
  <2>8. \A i \in 1 .. N : Copies'[i] = Copies[i]
    <3> TAKE i \in 1 .. N
    <3>1. i \in 1 .. Len(db'.snapshots)
      BY <2>2, <2>3
    <3>2. /\ \A c \in Cell : Copies'[i][c] = IF c \in tainted THEN Unseen ELSE saved'[i][c]
          /\ \A c \in Cell : Copies[i][c] = IF c \in tainted THEN Unseen ELSE saved[i][c]
          /\ Copies[i] \in [Cell -> CopyValue] /\ Copies'[i] \in [Cell -> CopyValue]
      BY <1>2, <1>4, <2>1, <3>1 DEF IdleMap
    <3>3. \A c \in Cell : Copies'[i][c] = Copies[i][c]
      BY <2>5, <3>2
    <3> QED BY <3>2, <3>3
  <2>9. Copies'[N + 1] = Now
    <3>1. N + 1 \in 1 .. Len(db'.snapshots)
      BY <2>2, <2>3
    <3>2. /\ \A c \in Cell : Copies'[N + 1][c] = IF c \in tainted THEN Unseen ELSE saved'[N + 1][c]
          /\ \A c \in Cell : Now[c] = IF c \in tainted THEN Unseen ELSE Read(db, c)
          /\ Copies'[N + 1] \in [Cell -> CopyValue]
      BY <1>2, <1>4, <2>1, <3>1 DEF IdleMap
    <3>3. \A c \in Cell : saved'[N + 1][c] = Read(db, c)
      BY <2>5 DEF View
    <3> HIDE DEF N
    <3>4. \A c \in Cell : Copies'[N + 1][c] = Now[c]
      BY <3>2, <3>3
    <3> QED BY <2>2, <3>2, <3>4
  <2> HIDE DEF N
  <2>10. Copies' = Append(Copies, Now)
    BY <2>2, <2>3, <2>8, <2>9
  <2> QED BY <2>1, <2>6, <2>10 DEF Stack!Next, Stack!Snapshot
<1>12. CASE \E id \in 1 .. (MaxSnapshots + 1) : RevertEnter(id)
  <2>1. PICK id \in 1 .. (MaxSnapshots + 1) : RevertEnter(id)
    BY <1>12
  <2>2. Idle /\ db' = db /\ saved' = saved /\ tainted' = tainted
    BY <2>1 DEF RevertEnter
  <2>3. /\ id \in Nat \ {0} /\ Len(db.snapshots) \in Nat
        /\ target' = IF id > Len(db.snapshots) THEN 0 ELSE id
    BY <1>1, <2>1, BoundAssumption DEF RevertEnter, DB
  <2>4. CASE id > Len(db.snapshots)
    <3>1. Idle' /\ target' = target
      BY <2>2, <2>3, <2>4 DEF Idle
    <3>2. Now' = Now /\ Copies' = Copies /\ Idle' = Idle
      BY <2>2, <3>1 DEF Now, Copies, Idle, Shown, View
    <3> QED BY <3>2
  <2>5. CASE ~ id > Len(db.snapshots)
    <3>1. target' = id /\ ~ Idle' /\ id \in 1 .. Len(db.snapshots)
      BY <2>3, <2>5 DEF Idle
    <3>3. /\ Copies = [i \in 1 .. Len(db.snapshots) |-> Shown(saved[i])]
          /\ Copies \in Seq([Cell -> CopyValue]) /\ Len(Copies) = Len(db.snapshots)
      BY <1>2, <2>2 DEF IdleMap
    <3>4. Copies' = [i \in 1 .. id |-> Shown(saved[i])] /\ Now' = Shown(saved[id])
      BY <2>2, <3>1 DEF Copies, Now, Shown
    <3>5. Now' = Copies[id]
      BY <3>1, <3>3, <3>4
    <3>6. Copies' = SubSeq(Copies, 1, id)
      <4>1. /\ Len(SubSeq(Copies, 1, id)) = id /\ SubSeq(Copies, 1, id) \in Seq([Cell -> CopyValue])
            /\ \A i \in 1 .. id : SubSeq(Copies, 1, id)[i] = Copies[i]
        BY <3>1, <3>3
      <4>2. Copies' \in Seq([Cell -> CopyValue]) /\ Len(Copies') = id
        BY <1>5, <3>1 DEF RevertMap
      <4>3. \A i \in 1 .. id : Copies'[i] = Copies[i]
        BY <3>1, <3>3, <3>4
      <4> QED BY <4>1, <4>2, <4>3
    <3>7. DOMAIN Copies = 1 .. Len(db.snapshots)
      BY <1>2, <2>2 DEF IdleMap
    <3> QED BY <2>2, <3>1, <3>5, <3>6, <3>7 DEF Stack!Next, Stack!Restore
  <2> QED BY <2>4, <2>5
<1>13. CASE RevertLoop
  <2>1. ~ Idle /\ target' = target /\ saved' = saved /\ tainted' = tainted
    BY <1>13 DEF RevertLoop
  <2>2. Now' = Now /\ Copies' = Copies /\ Idle' = Idle
    BY <2>1 DEF Now, Copies, Idle, Shown
  <2> QED BY <2>2
<1>14. CASE RevertExit
  <2>1. ~ Idle /\ Idle' /\ tainted' = tainted /\ Len(db.journal) <= db.snapshots[target]
    BY <1>14 DEF RevertExit, Idle
  <2>2. /\ target \in 1 .. Len(db.snapshots) /\ Copies = [i \in 1 .. target |-> Shown(saved[i])]
        /\ Copies \in Seq([Cell -> CopyValue]) /\ Len(Copies) = target
        /\ Now = Shown(saved[target])
        /\ \A i \in 1 .. target : \A c \in Cell : saved[i][c] \in ValueOf(c)
    BY <1>3, <2>1 DEF RevertMap
  <2>3. /\ db'.accounts = db.accounts /\ db'.storage = db.storage
        /\ db'.createdInTx = db.createdInTx /\ db'.snapshots = SubSeq(db.snapshots, 1, target - 1)
        /\ db.snapshots \in Seq(Nat) /\ Len(db.snapshots) \in Nat
    BY <1>1, <1>14 DEF RevertExit, DB
  <2>4. Len(db'.snapshots) = target - 1
    BY <2>2, <2>3
  <2>5. \A c \in Cell \ tainted : Read(db', c) = saved[target][c]
    <3>1. \A c \in Cell \ tainted : Read(db, c) = saved[target][c]
      BY <2>1, SoundRestores DEF RevertRestores, Idle
    <3> QED BY <2>3, <3>1, SameReads
  <2>6. Now' = Now
    <3>1. /\ Now' \in [Cell -> CopyValue]
          /\ \A c \in Cell : Now'[c] = IF c \in tainted THEN Unseen ELSE Read(db', c)
      BY <1>4, <2>1 DEF IdleMap
    <3>2. /\ Now \in [Cell -> CopyValue]
          /\ \A c \in Cell : Now[c] = IF c \in tainted THEN Unseen ELSE saved[target][c]
      BY <2>2, ShownValue
    <3>3. \A c \in Cell : Now'[c] = Now[c]
      BY <2>5, <3>1, <3>2
    <3> QED BY <3>1, <3>2, <3>3
  <2>7. Copies' = SubSeq(Copies, 1, Len(Copies) - 1)
    <3>1. /\ Copies' \in Seq([Cell -> CopyValue]) /\ Len(Copies') = target - 1
          /\ Copies' = [i \in 1 .. Len(db'.snapshots) |-> Shown(saved[i])']
      BY <1>4, <2>1, <2>4 DEF IdleMap
    <3>2. /\ SubSeq(Copies, 1, target - 1) \in Seq([Cell -> CopyValue])
          /\ Len(SubSeq(Copies, 1, target - 1)) = target - 1
          /\ \A i \in 1 .. (target - 1) : SubSeq(Copies, 1, target - 1)[i] = Copies[i]
      BY <2>2
    <3>3. \A i \in 1 .. (target - 1) : saved'[i] = saved[i] /\ i \in 1 .. target
      BY <1>14, <2>2 DEF RevertExit
    <3>4. \A i \in 1 .. (target - 1) : Copies'[i] = Shown(saved[i])
      BY <2>1, <2>4, <3>1, <3>3 DEF Shown
    <3>5. \A i \in 1 .. (target - 1) : Copies[i] = Shown(saved[i])
      BY <2>2, <3>3
    <3>6. \A i \in 1 .. (target - 1) : Copies'[i] = SubSeq(Copies, 1, target - 1)[i]
      BY <3>2, <3>4, <3>5
    <3>7. Copies' = SubSeq(Copies, 1, target - 1)
      BY <3>1, <3>2, <3>6, SameSequence
    <3> QED BY <2>2, <3>7
  <2> QED BY <2>1, <2>6, <2>7 DEF Stack!Next, Stack!Restored
<1>15. ASSUME CallFinalise \/ CallReset
       PROVE  Stack!Clear
  <2>1. PICK d : Forget(d) /\ d.snapshots = << >>
    <3>1. Finalise(db).snapshots = << >>
      BY <1>1 DEF Finalise, DB
    <3>2. Reset(db).snapshots = << >>
      BY DEF Reset, New
    <3> QED BY <1>15, <3>1, <3>2 DEF CallFinalise, CallReset
  <2>2. Idle /\ Idle' /\ db'.snapshots = << >>
    BY <2>1 DEF Forget, Idle
  <2>3. Copies' \in Seq([Cell -> CopyValue]) /\ Len(Copies') = 0
    BY <1>4, <2>2 DEF IdleMap
  <2>4. Copies' = << >>
    BY <2>3
  <2> QED BY <2>2, <2>4 DEF Stack!Clear
<1> QED BY <1>7, <1>8, <1>9, <1>10, <1>11, <1>12, <1>13, <1>14, <1>15
        DEF Next, Revert, Stack!Next

\* Whoever uses the StateDB may think of its snapshots as copies of the whole
\* state: the journal implements the stack of versions.
THEOREM JournalKeepsVersions == Spec => KeepsVersions
<1>1. Init => Stack!Init
  <2> SUFFICES ASSUME Init PROVE Stack!Init
    OBVIOUS
  <2>1. IInv /\ Idle /\ db.snapshots = << >>
    BY InitIInv DEF Init, Idle, New
  <2>2. Copies \in Seq([Cell -> CopyValue]) /\ Len(Copies) = 0
    BY <2>1, IdleMapping DEF IdleMap
  <2>3. Copies = << >>
    BY <2>2
  <2> QED BY <2>1, <2>3 DEF Stack!Init
<1>2. IInv /\ IInv' /\ [Next]_vars => [Stack!Next]_<<Now, Copies, ~ Idle>>
  BY StepMapping
<1> QED BY <1>1, <1>2, InitIInv, NextIInv, PTL DEF Spec, KeepsVersions, Stack!Spec
=============================================================================
