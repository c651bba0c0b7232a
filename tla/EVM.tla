-------------------------------- MODULE EVM ---------------------------------
(***************************************************************************)
(* fastvm's EVM: transactions (evm/evm.go, Execute) that run frames of     *)
(* opcodes (interpreter/interpreter.go, op_call.go) over the StateDB.      *)
(*                                                                         *)
(* What a contract's code does is nondeterministic: a running frame may    *)
(* take any of the opcodes in Opcodes with any operands, or end.  Opcodes  *)
(* that only compute are one action that burns gas.  An opcode whose gas   *)
(* or stack does not suffice, a write in a static frame and an invalid     *)
(* opcode all end the frame with an error and no gas: the action Fail,     *)
(* possible at any point of any code.  Where the failing opcode has        *)
(* changed the database before, it has an action of its own.               *)
(***************************************************************************)
EXTENDS Frames, FiniteSetsExt

CONSTANTS
    Genesis,         \* the accounts before the first transaction
    Creatable,       \* the addresses that creations may compute
    Coinbase, BaseFee,
    Messages,        \* Messages[n]: the messages that the n-th Execute may be called with
    Values,          \* the values that CALL, CALLCODE, CREATE and CREATE2 send
    Opcodes,         \* the opcodes that contracts contain
    MaxTx            \* bound: transactions

Finite(S) == {T \in SUBSET S : IsFiniteSet(T)}

\* evm.Message.
Message == [from : Addr, to : Addr \cup {Nil}, gas : Nat, price : Nat, value : Word,
            dataGas : Nat, applyIntrinsicGas : BOOLEAN,
            accessList : [addrs : Finite(Addr), slots : Finite(Addr \X Slot)]]

ASSUME EVMAssumption ==
    /\ IsFiniteSet(Addr)              \* an address is 20 bytes
    /\ Genesis \in [Addr -> Account \cup {NoAccount}]
    /\ \A a \in Addr : Genesis[a] # NoAccount => ~ Genesis[a].suicide
    /\ Creatable \subseteq Addr \ Precompiles
    /\ Coinbase \in Addr
    /\ BaseFee \in Nat
    /\ Values \subseteq Word
    /\ MaxTx \in Nat /\ DOMAIN Messages = 1 .. MaxTx
    /\ \A n \in 1 .. MaxTx : Messages[n] \subseteq Message

VARIABLE txs     \* number of transactions so far

vars == <<db, frames, pool, tx, tracer, tainted, txs>>

Init ==
    /\ db = [New EXCEPT !.accounts = Genesis]
    /\ frames = << >>
    /\ pool = [d \in Depths |-> 0]
    /\ tx = NoTx
    /\ tracer = NewTracer
    /\ tainted = {}
    /\ txs = 0
-----------------------------------------------------------------------------
(***************************************************************************)
(* Execute up to its outermost call.                                       *)
(***************************************************************************)
Upfront(msg) == msg.gas * msg.price

\* The sender pays for all of its gas, and the precompiles and the access list
\* become warm.
Begin(msg) ==
    LET paid == SubBalance(db, msg.from, Upfront(msg))
    IN  [SetNonce(paid, msg.from, GetNonce(paid, msg.from) + 1) EXCEPT
            !.accessedAddrs = @ \cup Precompiles \cup msg.accessList.addrs,
            !.accessedSlots = @ \cup msg.accessList.slots]

IntrinsicGas(msg) ==
    IF msg.applyIntrinsicGas
    THEN intrinsicGas(msg.dataGas, msg.to = Nil, msg.accessList) ELSE 0

\* keccak256 does not collide: the address that a creation computes from the
\* creator's nonce never has a contract; a CREATE2 may compute it again.
NewAddress(op) ==
    {c \in Creatable : op = "CREATE2" \/ (GetNonce(db, c) = 0 /\ GetCode(db, c) = NoCode)}

\* Neither the upfront payment nor the intrinsic gas can be paid: Execute
\* returns before anything runs, in the second case after undoing the payment,
\* but not the nonce.
Reject(msg) ==
    /\ tx = NoTx
    /\ \/ GetBalance(db, msg.from) < Upfront(msg) /\ UNCHANGED db
       \/ /\ GetBalance(db, msg.from) >= Upfront(msg)
          /\ msg.gas < IntrinsicGas(msg)
          /\ db' = AddBalance(Begin(msg), msg.from, Upfront(msg))
    /\ txs' = txs + 1
    /\ UNCHANGED <<frames, pool, tx, tracer, tainted>>

Start(msg) ==
    /\ tx = NoTx
    /\ GetBalance(db, msg.from) >= Upfront(msg)
    /\ msg.gas >= IntrinsicGas(msg)
    /\ msg.to = Nil => NewAddress("CREATE") # {}    \* bound: Creatable is finite
    /\ db' = Begin(msg)
    /\ tx' = [phase |-> "running", msg |-> msg, err |-> "none", gasLeft |-> 0,
              before |-> db.accounts]
    /\ txs' = txs + 1
    /\ tainted' = {}
    /\ UNCHANGED <<frames, pool, tracer>>

\* The outermost call or creation.
Enter ==
    LET msg == tx.msg
        gas == msg.gas - IntrinsicGas(msg)
    IN  /\ tx.phase = "running" /\ frames = << >>
        /\ \/ /\ msg.to = Nil
              /\ \E c \in NewAddress("CREATE"), initCode \in Code :
                    create(db, frames, msg.from, c, msg.value, gas, initCode)
           \/ /\ msg.to # Nil
              /\ execCall(db, frames, msg.from, msg.to, msg.value, gas, Nil)
              /\ UNCHANGED tainted
        /\ UNCHANGED txs
-----------------------------------------------------------------------------
(***************************************************************************)
(* Opcodes.  They run in the top frame.                                    *)
(***************************************************************************)
Running == frames # << >> /\ Top.err = "running"

Has(op) == op \in Opcodes /\ Running /\ Top.code # NoCode

\* The top frame pays cost and changes the database to d.
Charge(cost, d) ==
    /\ Top.gas >= cost
    /\ frames' = WithTop(frames, [Top EXCEPT !.gas = @ - cost])
    /\ db' = d
    /\ UNCHANGED <<pool, tx, tracer, tainted, txs>>

\* interp.Run returns with err: the frame is still there, Return follows.
Halt(err, cost, d) ==
    /\ Top.gas >= cost
    /\ frames' = WithTop(frames, [Top EXCEPT !.gas = @ - cost, !.err = err])
    /\ db' = d
    /\ UNCHANGED <<pool, tx, tracer, tainted, txs>>

AccessCost(a) == IF AddressWarm(db, a) THEN WarmStorageRead ELSE ColdAccountAccess

\* Arithmetic, memory, jumps, environment: gas is all they change.
OpCompute == Has("COMPUTE") /\ Charge(1, db)

\* BALANCE, EXTCODESIZE, EXTCODECOPY, EXTCODEHASH (chargeExtAccess).
OpBalance(a) == Has("BALANCE") /\ Charge(AccessCost(a), WarmAddress(db, a))

OpSload(s) ==
    /\ Has("SLOAD")
    /\ Charge(IF SlotWarm(db, Top.contract, s) THEN WarmStorageRead ELSE ColdSload,
              WarmSlot(db, Top.contract, s))

OpSstore(s, newVal) ==
    LET c     == Top.contract
        price == SstoreCost(GetStorage(db, c, s), GetCommittedStorage(db, c, s), newVal, Zero)
        cold  == IF SlotWarm(db, c, s) THEN 0 ELSE ColdSload
    IN  /\ Has("SSTORE") /\ ~ Top.static
        /\ Top.gas > SstoreSentry
        /\ Charge(cold + price.cost,
                  SetStorage(AddRefund(WarmSlot(db, c, s), price.refund), c, s, newVal))

\* SSTORE warms a cold slot before it finds that the gas does not suffice; no
\* revert undoes that.
SstoreFails(s, newVal) ==
    LET c     == Top.contract
        price == SstoreCost(GetStorage(db, c, s), GetCommittedStorage(db, c, s), newVal, Zero)
    IN  /\ Has("SSTORE") /\ ~ Top.static
        /\ Top.gas > SstoreSentry
        /\ ~ SlotWarm(db, c, s)
        /\ Top.gas >= ColdSload /\ Top.gas < ColdSload + price.cost
        /\ Halt("fail", 0, WarmSlot(db, c, s))

OpLog == Has("LOG") /\ ~ Top.static /\ Charge(LogGas, AddLog(db, Top.contract))

\* Fault: SELFDESTRUCT as before EIP-6780.
OpSelfDestructAlways(ben) ==
    LET c   == Top.contract
        bal == GetBalance(db, c)
    IN  /\ Has("SELFDESTRUCT") /\ ~ Top.static
        /\ Halt("none", SelfDestruct,
                Suicide(SubBalance(AddBalance(db, ben, bal), c, bal), c))

\* The balance moves even when the contract is not destroyed; the beneficiary
\* does not become warm.
OpSelfDestruct(ben) ==
    LET c     == Top.contract
        bal   == GetBalance(db, c)
        moved == IF bal = 0 THEN db ELSE SubBalance(AddBalance(db, ben, bal), c, bal)
    IN  /\ Has("SELFDESTRUCT") /\ ~ Top.static
        /\ Halt("none",
                SelfDestruct + (IF AddressWarm(db, ben) THEN 0 ELSE ColdAccountAccess)
                    + (IF Exists(db, ben) THEN 0 ELSE SelfDestructNewAccount),
                IF CreatedInTx(moved, c) THEN Suicide(moved, c) ELSE moved)

\* STOP, RETURN, the end of the code.
OpReturn == Running /\ Halt("none", 0, db)

OpRevert == Has("REVERT") /\ Halt("revert", 0, db)

Fail == Running /\ Top.code # NoCode /\ Halt("fail", 0, db)
-----------------------------------------------------------------------------
CallOpcode(ct) ==
    CASE ct = "call" -> "CALL"
      [] ct = "callcode" -> "CALLCODE"
      [] ct = "delegatecall" -> "DELEGATECALL"
      [] ct = "staticcall" -> "STATICCALL"

CallCost(a, value) ==
    AccessCost(a)
        + (IF value > 0 THEN CallValue ELSE 0)
        + (IF value > 0 /\ a \notin Precompiles /\ ~ Exists(db, a) THEN NewAccount ELSE 0)

\* Fault: the forwarded gas is not taken from the caller.
OpCallKeepsGas(ct, a, value, fwd) ==
    LET f == [Top EXCEPT !.gas = @ - CallCost(a, value)]
    IN  /\ Has(CallOpcode(ct))
        /\ ct \in {"delegatecall", "staticcall"} => value = 0
        /\ Top.gas >= CallCost(a, value)
        /\ fwd <= CallGas(f.gas)
        /\ Call(ct, WarmAddress(db, a), WithTop(frames, f), f, a, value, fwd, fwd)
        /\ UNCHANGED <<tainted, txs>>

\* CALL, CALLCODE, DELEGATECALL, STATICCALL (Interpreter.execCall): the caller
\* pays, forwards gas and takes back at most what it forwarded.  fwd is the
\* operand gasArg, cut to CallGas.
OpCall(ct, a, value, fwd) ==
    LET cost    == CallCost(a, value)
        stipend == IF value > 0 THEN CallStipend ELSE 0
        f       == [Top EXCEPT !.gas = @ - cost - fwd]
    IN  /\ Has(CallOpcode(ct))
        /\ ct \in {"delegatecall", "staticcall"} => value = 0
        /\ Top.depth < MaxCallDepth
        /\ Top.gas >= cost
        /\ fwd <= CallGas(Top.gas - cost)
        /\ Call(ct, WarmAddress(db, a), WithTop(frames, f), f, a, value, fwd + stipend, fwd)
        /\ UNCHANGED <<tainted, txs>>

\* A call warms its address before it finds that it cannot pay for the value.
CallFails(ct, a, value) ==
    /\ Has(CallOpcode(ct))
    /\ ct \in {"call", "callcode"}
    /\ ~ AddressWarm(db, a)
    /\ Top.gas >= AccessCost(a) /\ Top.gas < CallCost(a, value)
    /\ Halt("fail", 0, WarmAddress(db, a))

\* CREATE, CREATE2 (Interpreter.execCreate): the creator keeps 1/64 of its gas
\* and the creation is given what the creator kept.  There is no charge for the
\* opcode itself; 1 stands for the operands that were pushed for it.
OpCreate(op, c, value, initCode) ==
    LET kept == (Top.gas - 1) - CallGas(Top.gas - 1)
        f    == [Top EXCEPT !.gas = kept]
    IN  /\ Has(op) /\ ~ Top.static
        /\ Top.depth < MaxCallDepth
        /\ Top.gas >= 1
        /\ c \in NewAddress(op)
        /\ Create(db, WithTop(frames, f), f, c, value, kept, initCode)
        /\ UNCHANGED txs

EndFrame ==
    /\ frames # << >>
    /\ \E code \in IF Top.kind = "create" /\ Top.err = "none" THEN Code ELSE {NoCode} :
          Return(code)
    /\ UNCHANGED txs
-----------------------------------------------------------------------------
(***************************************************************************)
(* The rest of Execute: pay back the gas left and the storage refund,      *)
(* finalise, pay the coinbase.                                             *)
(***************************************************************************)
GasUsed == tx.msg.gas - tx.gasLeft

Bonus ==
    IF tx.err = "fail" THEN 0
    ELSE Min({db.refund, GasUsed \div MaxRefundQuotient}) * tx.msg.price

\* Fault: the tip is paid for all of the gas that was bought.
FeeOnLimit == IF tx.msg.price > BaseFee THEN tx.msg.gas * (tx.msg.price - BaseFee) ELSE 0

Fee == IF tx.msg.price > BaseFee THEN GasUsed * (tx.msg.price - BaseFee) ELSE 0

\* Fault: the transaction is paid for but never closed.
SettleStaysOpen ==
    /\ tx.phase = "settling"
    /\ db' = Finalise(AddBalance(db, tx.msg.from, tx.gasLeft * tx.msg.price))
    /\ UNCHANGED <<frames, pool, tx, tracer, tainted, txs>>

Settle ==
    LET from   == tx.msg.from
        repaid == AddBalance(db, from, tx.gasLeft * tx.msg.price)
        done   == Finalise(IF Bonus = 0 THEN repaid ELSE AddBalance(repaid, from, Bonus))
    IN  /\ tx.phase = "settling"
        /\ db' = IF Fee = 0 THEN done ELSE AddBalance(done, Coinbase, Fee)
        /\ tx' = NoTx
        /\ UNCHANGED <<frames, pool, tracer, tainted, txs>>
-----------------------------------------------------------------------------
Opcode ==
    \/ OpCompute
    \/ OpLog
    \/ \E a \in Addr : OpBalance(a) \/ OpSelfDestruct(a)
    \/ \E s \in Slot : OpSload(s) \/ \E newVal \in Val : OpSstore(s, newVal) \/ SstoreFails(s, newVal)
    \/ \E ct \in CallKind, a \in Addr, value \in Values :
          \/ CallFails(ct, a, value)
          \/ Running /\ \E fwd \in 0 .. Top.gas : OpCall(ct, a, value, fwd)
    \/ \E op \in {"CREATE", "CREATE2"}, c \in Creatable, value \in Values, initCode \in Code :
          OpCreate(op, c, value, initCode)
    \/ OpReturn
    \/ OpRevert
    \/ Fail

\* The steps of a transaction that has begun.
Step == Enter \/ Opcode \/ EndFrame \/ Settle

\* All transactions are done.
Done == tx = NoTx /\ txs = MaxTx /\ UNCHANGED vars

Next ==
    \/ txs < MaxTx /\ \E msg \in Messages[txs + 1] : Reject(msg) \/ Start(msg)
    \/ Step
    \/ Done

\* Execute is sequential code: it goes on as long as it can.
Spec == Init /\ [][Next]_vars /\ WF_vars(Step)
-----------------------------------------------------------------------------
(***************************************************************************)
(* Properties.                                                             *)
(***************************************************************************)
TxState ==
    {NoTx} \cup [phase : {"running", "settling"}, msg : Message, err : {"none", "revert", "fail"},
                gasLeft : Nat, before : [Addr -> Account \cup {NoAccount}]]

TraceNode == [type : CallKind, from : Addr, to : Addr, err : {"running", "none", "revert", "fail"}]

\* Type invariant.  It includes that no frame's Depth reaches MaxCallDepth,
\* whatever the pool returns: the depth checks of op_call.go are never taken.
TypeOK ==
    /\ db \in DB
    /\ frames \in Seq(Frame)
    /\ pool \in [Depths -> Nat]
    /\ tx \in TxState
    /\ tracer \in [root : TraceNode \cup {Nil}, open : Seq(TraceNode)]
    /\ tainted \subseteq Creatable
    /\ txs \in 0 .. MaxTx

Supply(accounts) ==
    MapThenSumSet(LAMBDA a : IF accounts[a] = NoAccount THEN 0 ELSE accounts[a].balance, Addr)

\* Money is conserved while frames run: whatever calls, creations, transfers,
\* self-destructs and reverts a transaction nests, all that is missing from the
\* accounts is the gas that Execute took from the sender.
SupplyConserved ==
    tx # NoTx /\ tainted = {} => Supply(db.accounts) = Supply(tx.before) - Upfront(tx.msg)

\* Nor does a whole transaction create money: what is paid back, the tip and what
\* Finalise deletes never leave more in the accounts than there was before.  This
\* is said of transactions without storage refunds: Execute pays the coinbase its
\* tip on gas that it has refunded to the sender.
SettlementMintsNothing ==
    [][tx # NoTx /\ tx' = NoTx /\ tainted = {} /\ db.refund = 0
          => Supply(db'.accounts) <= Supply(tx.before)]_vars

\* The sum of a sequence of numbers.
Total(s) ==
    LET sum[n \in 0 .. Len(s)] == IF n = 0 THEN 0 ELSE sum[n - 1] + s[n]
    IN  sum[Len(s)]

\* Gas is never minted: stipends, the 1/64 that a creator keeps and gas that
\* comes back from a call never give all active frames together more than the
\* transaction bought, nor Execute more to pay back.
GasNeverMinted ==
    tx # NoTx =>
        tx.gasLeft + Total([i \in DOMAIN frames |-> frames[i].gas])
            <= tx.msg.gas - IntrinsicGas(tx.msg)

\* What the frames and the getters can see of an address.
AddressView(d, a) == <<getOrCreate(d, a), d.storage[a], CreatedInTx(d, a)>>

Unchanged(d, e, addrs) == \A a \in addrs : AddressView(d, a) = AddressView(e, a)

\* The frame ended with an error.  A STATICCALL that ends with REVERT is left
\* out here: it has nothing to undo unless StaticCallWritesNothing fails.
Failed(f) == f.err = "fail" \/ (f.err = "revert" /\ f.kind # "staticcall")

\* A call or creation that fails leaves no trace in the accounts and their
\* storage, whatever succeeded or failed inside it, except at addresses that a
\* creation replaced and for a STATICCALL that ends with REVERT.
FailedFrameRestores ==
    [][frames # << >> /\ Len(frames') < Len(frames) /\ Failed(Top)
          => Unchanged(db', Top.pre, Addr \ tainted)]_vars

\* Every active frame can still be reverted: the snapshots of the frames are
\* live and in the order of the frames, although calls that ran no frame and
\* calls that succeeded left snapshots of their own behind.
SnapshotsMatchFrames ==
    \A i \in DOMAIN frames :
        /\ frames[i].snap <= Len(db.snapshots)
        /\ \A j \in 1 .. (i - 1) : frames[j].snap < frames[i].snap

Traced(f) == f.kind \in {"call", "callcode", "delegatecall"}

\* The trace of the active frames fs, outermost first.
CallPath(fs) ==
    LET path[n \in 0 .. Len(fs)] ==
          IF n = 0 THEN << >>
          ELSE IF Traced(fs[n]) THEN Append(path[n - 1], Node(fs[n].kind, fs[n].caller, fs[n].contract))
          ELSE path[n - 1]
    IN  path[Len(fs)]

\* The tracer keeps up with the frames: its current path is the active frames
\* that CALL, CALLCODE and DELEGATECALL run, in their order and each with its own
\* addresses, although frames of STATICCALLs and creations lie between them and
\* frames end in every way.  A call that is not nested in another is the root,
\* which is closed when that call ends, and no sooner.
TraceFollowsFrames ==
    /\ tracer.open = CallPath(frames)
    /\ tracer.open # << >> => tracer.root = Head(tracer.open)
    /\ tracer.root # Nil => (tracer.root.err = "running" <=> tracer.open # << >>)

\* EIP-6780: a transaction deletes no account that held anything before it,
\* however SELFDESTRUCTs, creations and reverts follow each other, unless a
\* creation replaced it.
OldAccountsSurvive ==
    [][tx # NoTx /\ tx' = NoTx =>
          \A a \in Addr \ tainted : tx.before[a] \notin {NoAccount, EmptyAccount} => Exists(db', a)]_vars

FrameFuel(f) == 4 * f.gas + (IF f.err = "running" THEN 3 ELSE 2)

\* What is left to do of a transaction: the gas that its frames can still burn,
\* and for every frame that it has to end.
Fuel ==
    CASE tx = NoTx -> 0
      [] tx # NoTx /\ tx.phase = "running" /\ frames = << >> ->
            4 * (tx.msg.gas - IntrinsicGas(tx.msg)) + 4
      [] OTHER ->
            4 * tx.gasLeft + (IF tx.phase = "settling" THEN 1 ELSE 0)
              + Total([i \in DOMAIN frames |-> FrameFuel(frames[i])])

\* Every transaction ends: no step of it, in any nesting of calls that give gas
\* back, stipends and creations that cost nothing themselves, leaves as much to do
\* as there was before.
TxProgress == [][tx # NoTx => Fuel' < Fuel]_vars
-----------------------------------------------------------------------------
(***************************************************************************)
(* What the repository says of the EVM and the code does not do.           *)
(***************************************************************************)
\* A static call changes nothing: whatever runs inside it, the accounts and the
\* storage are as before when it ends.
StaticCallWritesNothing ==
    [][frames # << >> /\ Len(frames') < Len(frames) /\ Top.kind = "staticcall"
          => Unchanged(db', Top.pre, Addr \ tainted)]_vars

\* A precompile answers CALL and STATICCALL itself: no frame runs at its address.
PrecompilesAnswer ==
    \A i \in DOMAIN frames :
        frames[i].kind \in {"call", "staticcall"} => frames[i].contract \notin Precompiles

\* The accounts before the transaction, for the getters.
Before == [db EXCEPT !.accounts = tx.before]

\* A transfer to somebody else, for which no code runs.
IsTransfer(msg) ==
    /\ msg.to \notin Precompiles \cup {Nil, msg.from}
    /\ GetCode(Before, msg.to) = NoCode

\* Refunds are for the storage that a transaction itself gives back: a transfer
\* that succeeds, which touches no storage, pays for all of the gas it used.
TransfersPayTheirGas ==
    [][tx # NoTx /\ tx' = NoTx =>
          LET from == tx.msg.from
          IN  tx.err = "none" /\ from # Coinbase /\ IsTransfer(tx.msg) =>
                  GetBalance(db', from) =
                      GetBalance(Before, from) - tx.msg.value - GasUsed * tx.msg.price]_vars
=============================================================================
