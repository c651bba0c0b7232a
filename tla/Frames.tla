------------------------------- MODULE Frames -------------------------------
(***************************************************************************)
(* The call machinery of fastvm's EVM (evm/evm.go: execCall, create, Call, *)
(* Create, newFrame; interpreter/pool.go): how a message becomes a frame   *)
(* that runs, and how the end of a frame reaches the frame that called it. *)
(* EVM.tla adds the opcodes that lead here and the transactions around     *)
(* them.                                                                   *)
(*                                                                         *)
(* The Go call stack of nested interp.Run calls is the sequence frames.    *)
(* Code is abstracted to "empty or not": what a contract does is chosen    *)
(* opcode by opcode.  Input and return data carry no state.  The tracer    *)
(* (tracer/tracer.go) is told of frames as they begin and end.             *)
(***************************************************************************)
EXTENDS Cells, Gas

CONSTANTS
    MaxCallDepth,    \* 1024 in the code
    Precompiles,     \* the addresses 0x01 to 0x09
    Nil              \* no address (msg.To of a creation), no cap, no depth given

ASSUME FramesAssumption ==
    /\ MaxCallDepth \in Nat \ {0}
    /\ Precompiles \subseteq Addr
    /\ Nil \notin Addr \cup Nat

VARIABLES
    db,        \* the StateDB
    frames,    \* the active frames, outermost first
    pool,      \* pool[d]: released frames whose Depth is still d
    tx,        \* the running transaction
    tracer,    \* the CallTracer
    tainted    \* history: addresses that a creation of this transaction replaced

CallKind == {"call", "callcode", "delegatecall", "staticcall"}

(***************************************************************************)
(* A frame.  snap is its snapshot, cap the most gas a calling opcode takes *)
(* back from it (forwardGas - stipend in op_call.go; Nil for a creation    *)
(* and for the outermost call), err how its interp.Run ended ("none" is    *)
(* success, "fail" every error but ErrRevert).  pre is history: the        *)
(* database when the call or creation began.                               *)
(***************************************************************************)
Frame == [kind : CallKind \cup {"create"}, contract : Addr, caller : Addr,
          code : Code, gas : Nat, cap : Nat \cup {Nil}, static : BOOLEAN,
          depth : 0 .. (MaxCallDepth - 1), snap : Nat \ {0},
          err : {"running", "none", "revert", "fail"}, pre : DB]

Top == frames[Len(frames)]

Callers(fs) == SubSeq(fs, 1, Len(fs) - 1)

WithTop(fs, f) == Append(Callers(fs), f)

\* The transaction: from, gas limit and price of the message, where Execute
\* is, how its outermost call ended, and (history) the database before it.
NoTx == [phase |-> "idle"]

\* Gas left over, as the caller takes it back.
Capped(gasLeft, cap) == IF cap # Nil /\ gasLeft > cap THEN cap ELSE gasLeft
-----------------------------------------------------------------------------
(***************************************************************************)
(* The frame pool.  Reset does not clear Depth, so a frame that is not     *)
(* given one keeps what its last user left.  A frame with Depth 0 is like  *)
(* a new one, and sync.Pool may always return a new one: only the others   *)
(* are counted.                                                            *)
(***************************************************************************)
Depths == 1 .. (MaxCallDepth - 1)

StaleDepths == {0} \cup {d \in Depths : pool[d] > 0}

AcquireFrame(d) ==
    IF d = 0 THEN pool ELSE [pool EXCEPT ![d] = @ - 1]

ReleaseFrame(d) ==
    IF d = 0 THEN pool ELSE [pool EXCEPT ![d] = @ + 1]

(***************************************************************************)
(* The call tracer.  open is the path from the root of the call tree to    *)
(* its current node, root the first node of the last path (Nil: none yet). *)
(* The closed children of a node are left out: nothing reads them but      *)
(* String.                                                                 *)
(***************************************************************************)
Node(ct, from, to) == [type |-> ct, from |-> from, to |-> to, err |-> "running"]

NewTracer == [root |-> Nil, open |-> << >>]

OnEnter(ct, from, to) ==
    LET n == Node(ct, from, to)
    IN  [root |-> IF tracer.open = << >> THEN n ELSE tracer.root,
         open |-> Append(tracer.open, n)]

\* The node that is closed is the current one, whoever opened it.
OnExit(err) ==
    LET depth == Len(tracer.open)
    IN  IF depth = 0 THEN tracer
        ELSE [root |-> IF depth = 1 THEN [tracer.root EXCEPT !.err = err] ELSE tracer.root,
              open |-> SubSeq(tracer.open, 1, depth - 1)]

\* Fault: every frame is reported at its end, also a STATICCALL's or a creation's.
TracedAtExitAll(kind) == TRUE

\* The frames whose end is reported: those whose beginning was.
TracedAtExit(kind) == kind \in {"call", "callcode", "delegatecall"}
-----------------------------------------------------------------------------
\* A frame of kind k over the frames fs; depth Nil: the one the pooled frame has.
newFrame(fs, k, code, contract, caller, gas, cap, snap, pre, depth) ==
    \E stale \in StaleDepths :
        /\ pool' = AcquireFrame(stale)
        /\ frames' = Append(fs,
              [kind |-> k, contract |-> contract, caller |-> caller, code |-> code,
               gas |-> gas, cap |-> cap, static |-> k = "staticcall",
               depth |-> IF depth = Nil THEN stale ELSE depth,
               snap |-> snap, err |-> "running", pre |-> pre])
        /\ UNCHANGED tx

\* A call or creation over the frames fs has ended: its caller takes back what
\* gas is left, or Execute its result.
Deliver(fs, err, gasLeft) ==
    IF fs = << >>
    THEN /\ frames' = fs
         /\ tx' = [tx EXCEPT !.phase = "settling", !.err = err, !.gasLeft = gasLeft]
    ELSE /\ frames' = [fs EXCEPT ![Len(fs)].gas = @ + gasLeft]
         /\ UNCHANGED tx

\* ... without having run a frame.
Answer(d, fs, err, gasLeft) ==
    /\ db' = d
    /\ Deliver(fs, err, gasLeft)
    /\ UNCHANGED <<pool, tracer>>
-----------------------------------------------------------------------------
\* Fault: credits the receiver before reading the balance it debits.
TransferStale(d, from, to, value) ==
    LET credited == AddBalance(d, to, value)
    IN  SetBalance(credited, from, GetBalance(d, from) - value)

Transfer(d, from, to, value) ==
    IF value = 0 THEN d ELSE AddBalance(SubBalance(d, from, value), to, value)

\* EVM.execCall, for a CALL and for the outermost call.  A precompile takes no
\* snapshot, moves no value and never reports an error.
execCall(d, fs, caller, contract, value, gas, cap) ==
    LET snap  == Len(d.snapshots) + 1
        begun == WarmAddress(WarmAddress(Snapshot(d), caller), contract)
        moved == Transfer(begun, caller, contract, value)
    IN  \/ /\ contract \in Precompiles
           /\ \E left \in 0 .. gas : Answer(d, fs, "none", Capped(left, cap))
        \/ /\ contract \notin Precompiles
           /\ GetBalance(begun, caller) < value
           /\ Answer(RevertToSnapshot(begun, snap), fs, "fail", 0)
        \/ /\ contract \notin Precompiles
           /\ GetBalance(begun, caller) >= value
           /\ IF GetCode(moved, contract) = NoCode
              THEN Answer(moved, fs, "none", Capped(gas, cap))
              ELSE /\ db' = moved
                   /\ tracer' = OnEnter("call", caller, contract)
                   /\ newFrame(fs, "call", GetCode(moved, contract), contract, caller,
                               gas, cap, snap, d, Nil)

\* EVM.Call for CALLCODE and DELEGATECALL: the code of addr runs in the caller's
\* own account, and no value moves.
execCodeOf(ct, d, fs, f, addr, value, gas, cap) ==
    LET snap   == Len(d.snapshots) + 1
        code   == GetCode(d, addr)
        caller == IF ct = "delegatecall" THEN f.caller ELSE f.contract
    IN  IF ct = "callcode" /\ GetBalance(d, f.contract) < value
        THEN Answer(Snapshot(d), fs, "fail", Capped(gas, cap))
        ELSE IF code = NoCode
        THEN Answer(Snapshot(d), fs, "none", Capped(gas, cap))
        ELSE /\ db' = Snapshot(d)
             /\ tracer' = OnEnter(ct, caller, f.contract)
             /\ newFrame(fs, ct, code, f.contract, caller, gas, cap, snap, d, f.depth + 1)

\* EVM.Call for STATICCALL: a frame runs even when there is no code.
execStatic(d, fs, f, addr, gas, cap) ==
    /\ db' = Snapshot(d)
    /\ newFrame(fs, "staticcall", GetCode(d, addr), addr, f.contract,
                gas, cap, Len(d.snapshots) + 1, d, f.depth + 1)
    /\ UNCHANGED tracer

\* Fault: the depth check is off by one.
CallTooDeep(ct, d, fs, f, addr, value, gas, cap) ==
    IF f.depth + 1 > MaxCallDepth
    THEN Answer(d, fs, "fail", Capped(gas, cap))
    ELSE CASE ct = "call" -> execCall(d, fs, f.contract, addr, value, gas, cap)
           [] ct = "staticcall" -> execStatic(d, fs, f, addr, gas, cap)
           [] OTHER -> execCodeOf(ct, d, fs, f, addr, value, gas, cap)

\* EVM.Call: f is the calling frame, already charged, and the top of fs.
Call(ct, d, fs, f, addr, value, gas, cap) ==
    IF f.depth + 1 >= MaxCallDepth
    THEN Answer(d, fs, "fail", Capped(gas, cap))
    ELSE CASE ct = "call" -> execCall(d, fs, f.contract, addr, value, gas, cap)
           [] ct = "staticcall" -> execStatic(d, fs, f, addr, gas, cap)
           [] OTHER -> execCodeOf(ct, d, fs, f, addr, value, gas, cap)
-----------------------------------------------------------------------------
\* Nothing of address a has to be given back when its creation by from is undone.
Fresh(d, from, a) ==
    /\ a # from
    /\ Empty(d, a)
    /\ \A k \in 1 .. Len(d.journal) : d.journal[k].addr # a

\* EVM.create, at the address contract.  Nothing checks that it is unused.
create(d, fs, from, contract, value, gas, initCode) ==
    LET snap  == Len(d.snapshots) + 1
        made  == SetNonce(
                    CreateAccount(SetNonce(Snapshot(d), from, GetNonce(d, from) + 1),
                                  contract),
                    contract, 1)
        begun == WarmAddress(made, contract)
    IN  /\ tainted' = IF Fresh(d, from, contract) THEN tainted ELSE tainted \cup {contract}
        /\ IF GetBalance(begun, from) < value
           THEN Answer(RevertToSnapshot(begun, snap), fs, "fail", 0)
           ELSE /\ db' = Transfer(begun, from, contract, value)
                /\ newFrame(fs, "create", initCode, contract, from, gas, Nil, snap, d, Nil)
                /\ UNCHANGED tracer

\* EVM.Create: a creation refused for its depth gives no gas back.
Create(d, fs, f, contract, value, gas, initCode) ==
    IF f.depth + 1 >= MaxCallDepth
    THEN Answer(d, fs, "fail", 0) /\ UNCHANGED tainted
    ELSE create(d, fs, f.contract, contract, value, gas, initCode)
-----------------------------------------------------------------------------
(***************************************************************************)
(* What the callers of interp.Run do when it has returned.                 *)
(***************************************************************************)
\* Fault: REVERT does not undo the frame of a CALLCODE or DELEGATECALL either.
MustRevertOnlyCalls(f) ==
    f.err = "fail" \/ (f.err = "revert" /\ f.kind \in {"call", "create"})

\* STATICCALL leaves the state of a frame that ends with REVERT as it is.
MustRevert(f) == f.err = "fail" \/ (f.err = "revert" /\ f.kind # "staticcall")

\* A failing frame has no gas left, and a failing creation gives none back.
GasLeft(f) ==
    IF f.err = "fail" \/ (f.kind = "create" /\ f.err # "none") THEN 0
    ELSE Capped(f.gas, f.cap)

\* code is the return data, which a creation that succeeds installs.
Return(code) ==
    LET f == Top
    IN  /\ f.err # "running"
        /\ db' = IF MustRevert(f) THEN RevertToSnapshot(db, f.snap)
                 ELSE IF f.kind = "create" THEN SetCode(db, f.contract, code)
                 ELSE db
        /\ pool' = ReleaseFrame(f.depth)
        /\ tracer' = IF TracedAtExit(f.kind) THEN OnExit(f.err) ELSE tracer
        /\ Deliver(Callers(frames), f.err, GasLeft(f))
        /\ UNCHANGED tainted
=============================================================================
