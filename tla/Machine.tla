------------------------------ MODULE Machine -------------------------------
(***************************************************************************)
(* The interpreter of fastvm running the code of one frame after another   *)
(* (interpreter/interpreter.go, frame.go, pool.go, op_memory.go, op_env.go,*)
(* stack/stack.go): program counter, operand stack, memory, gas and the    *)
(* cache of jump destinations.                                             *)
(*                                                                         *)
(* Where EVM.tla lets a contract do anything, here the code decides.  The  *)
(* state behind the frame is the environment: what BALANCE and the like    *)
(* push is a constant, whether an address is warm is a choice, and the     *)
(* handler of a CALL answers anything.  SLOAD, SSTORE, SELFDESTRUCT, the   *)
(* other calls and the creations are EVM.tla's.                            *)
(*                                                                         *)
(* stack.Back and Go's slices check nothing of the EVM's: an index outside *)
(* the Go array is a run-time panic, which nothing recovers from.          *)
(***************************************************************************)
EXTENDS Memory, Gas

CONSTANTS
    Opcodes,        \* the opcodes in the order of their numbers
    MaxDepth,       \* 1024: the size of the operand stack
    Workloads,      \* the sequences of code slices that are run
    GasLimits,      \* the gas frames start with
    Input,          \* the call data
    Returns,        \* what the handler of a CALL may return
    ExtCode,        \* the code of other accounts
    Env(_),         \* what an opcode reads of block, transaction and state
    Hashes,         \* external: what keccak256 may return
    Ptr,            \* addresses of code in the Go heap
    Nil,
    Exp0, ExpByte, Sha3, Sha3Word, Copy, LogData, LogTopic    \* gas

EnvOps == {"ADDRESS", "ORIGIN", "CALLER", "CALLVALUE", "GASPRICE", "COINBASE", "TIMESTAMP",
           "NUMBER", "DIFFICULTY", "GASLIMIT", "CHAINID", "SELFBALANCE", "BASEFEE"}
ExtOps == {"BALANCE", "EXTCODESIZE", "EXTCODEHASH"}

\* A slice of bytes: its length is an int.
GoBytes == {s \in Seq(Byte) : Len(s) < U64}

\* Code, and where it is in the heap.
Slice == [at : Ptr, code : GoBytes]

ASSUME MachineAssumption ==
    /\ MaxDepth \in Nat \ {0}
    /\ WordBytes >= 2       \* PUSH2 pushes a word
    /\ Workloads \subseteq Seq(Slice)
    /\ GasLimits \subseteq 0 .. (U64 - 1)
    /\ {Input, ExtCode} \cup Returns \subseteq GoBytes
    /\ Hashes \subseteq Word
    /\ \A o \in EnvOps \cup ExtOps : Env(o) \in Word
    /\ {Exp0, ExpByte, Sha3, Sha3Word, Copy, LogData, LogTopic} \subseteq Nat

VARIABLES
    f,         \* the frame that runs or has run, or Idle
    pooled,    \* the memory of the released frame, or Nil
    cache,     \* Interpreter.jumpdestCache
    heap,      \* heap[p]: the codes that have been at address p
    work,      \* the code slices that are still to be run
    hist       \* history: see NoHistory

vars == <<f, pooled, cache, heap, work, hist>>

Idle == [err |-> "idle", gas |-> 0]

(***************************************************************************)
(* History of the running frame: the bytes it wrote to its memory, the gas *)
(* it paid for memory, whether its memory was used before, whether a copy  *)
(* wrote outside the memory, and whether the garbage collector gave the    *)
(* address of other code of the same length to the frame's.                *)
(***************************************************************************)
NoHistory == [written |-> << >>, paid |-> 0, reused |-> FALSE, wild |-> FALSE, moved |-> FALSE]

Init ==
    /\ f = Idle
    /\ pooled = Nil
    /\ cache = << >>
    /\ heap = [p \in Ptr |-> {}]
    /\ work \in Workloads
    /\ hist = NoHistory
-----------------------------------------------------------------------------
(***************************************************************************)
(* Code.                                                                   *)
(***************************************************************************)
Decode(b) == IF b < Len(Opcodes) THEN Opcodes[b + 1] ELSE "INVALID"

\* PUSH1 to PUSHn for words of n bytes.
PushSize(op) ==
    CASE op = "PUSH1" -> 1
      [] op = "PUSH2" -> 2
      [] OTHER -> 0

\* Fault: the operands of PUSH are not skipped.
buildJumpdestsInData(code) == {i \in 0 .. (Len(code) - 1) : Decode(code[i + 1]) = "JUMPDEST"}

\* The loop of buildJumpdests over the first bytes of the code: i is where it goes
\* on, dests the set bits.
Scan(code) ==
    LET scan[n \in 0 .. Len(code)] ==
            IF n = 0 THEN [i |-> 0, dests |-> {}]
            ELSE LET s == scan[n - 1]
                     o == Decode(code[n])
                 IN  IF s.i # n - 1 THEN s
                     ELSE [i |-> n + PushSize(o),
                           dests |-> IF o = "JUMPDEST" THEN s.dests \cup {n - 1} ELSE s.dests]
    IN  scan

buildJumpdests(code) == Scan(code)[Len(code)].dests

codeID(slice) == IF slice.code = << >> THEN <<Nil, 0>> ELSE <<slice.at, Len(slice.code)>>
-----------------------------------------------------------------------------
(***************************************************************************)
(* A frame begins (AcquireFrame, newFrame, the first lines of Run) and is  *)
(* released.  The frame from the pool is a new one or one that was         *)
(* released.  Code that is not at its address any more may have been       *)
(* collected and its address given to other code.                          *)
(***************************************************************************)
Enter(slice, gas, mem) ==
    LET key       == codeID(slice)
        code      == slice.code
        jumpdests == IF key \in DOMAIN cache THEN cache[key] ELSE buildJumpdests(code)
    IN  /\ f = Idle
        /\ f' = [code |-> code, pc |-> 0, gas |-> gas, stack |-> << >>, mem |-> mem,
                 ret |-> << >>, jumpdests |-> jumpdests, err |-> "running"]
        /\ cache' = [k \in DOMAIN cache \cup {key} |-> IF k = key THEN jumpdests ELSE cache[k]]
        /\ heap' = [heap EXCEPT ![slice.at] = @ \cup {code}]
        /\ pooled' = Nil
        /\ work' = Tail(work)
        /\ hist' = [NoHistory EXCEPT !.reused = pooled # Nil /\ mem = ResetMemory(pooled),
                                     !.moved = \E c \in heap[slice.at] : Len(c) = Len(code) /\ c # code]

Acquire ==
    /\ work # << >>
    /\ \E gas \in GasLimits :
          \/ Enter(Head(work), gas, NewMemory)
          \/ pooled # Nil /\ Enter(Head(work), gas, ResetMemory(pooled))

\* The pool forgets the stack, the return data and the jump destinations, and
\* keeps the memory.
Release ==
    /\ f.err \in {"none", "revert", "fail"}
    /\ pooled' = f.mem
    /\ f' = Idle
    /\ hist' = NoHistory
    /\ UNCHANGED <<cache, heap, work>>
-----------------------------------------------------------------------------
(***************************************************************************)
(* One opcode.                                                             *)
(***************************************************************************)
Running == f.err = "running"

op == Decode(f.code[f.pc + 1])

At(ops) == Running /\ f.pc < Len(f.code) /\ op \in ops

Depth == Len(f.stack)

Back(n) == f.stack[Depth - n]

Uint64(w) == w % U64

\* The stack without its n topmost elements.
Below(n) == SubSeq(f.stack, 1, Depth - n)

\* The outcomes of an opcode.
Goes(pc, gas, stack, mem) ==
    /\ f' = [f EXCEPT !.pc = pc, !.gas = gas, !.stack = stack, !.mem = mem]
    /\ UNCHANGED <<pooled, cache, heap, work>>

Ends(err, gas, mem) ==
    /\ f' = [f EXCEPT !.err = err, !.gas = gas, !.mem = mem]
    /\ UNCHANGED <<pooled, cache, heap, work>>

\* Fault: an error leaves the gas to the caller.
FailsKeepingGas(mem) == Ends("fail", f.gas, mem)

Fails(mem) == Ends("fail", 0, mem)

\* An opcode that touches no memory.
Computes(gas, stack) == Goes(f.pc + 1, gas, stack, f.mem) /\ UNCHANGED hist
-----------------------------------------------------------------------------
SizeOps == {"CALLDATASIZE", "CODESIZE", "RETURNDATASIZE", "MSIZE", "PC", "GAS"}
PushOps == {"PUSH1", "PUSH2"}
DupOps == {"DUP1", "DUP2"}
SwapOps == {"SWAP1", "SWAP2"}
LoadOps == {"CALLDATALOAD", "BLOCKHASH"}
CopyOps == {"CALLDATACOPY", "CODECOPY", "RETURNDATACOPY"}
LogOps == {"LOG0", "LOG1"}
MemOps == {"MLOAD", "MSTORE", "MSTORE8"}

\* Fault: only dynamic gas is charged.
PriceNothing == 0

\* The prices that Run charges before anything else.
Price ==
    CASE op \in EnvOps \cup SizeOps \cup {"POP"} -> 2
      [] op \in {"MUL", "DIV", "SDIV", "MOD", "SMOD", "SIGNEXTEND"} -> 5
      [] op \in {"ADDMOD", "MULMOD", "JUMP"} -> 8
      [] op = "JUMPI" -> 10
      [] op = "JUMPDEST" -> 1
      [] op = "BLOCKHASH" -> 20
      [] op = "EXP" -> Exp0 + ExpByte * Cardinality({i \in 0 .. (WordBytes - 1) : Back(1) >= ByteMod ^ i})
      [] op \in ExtOps \cup CopyOps \cup LogOps \cup
                {"EXTCODECOPY", "SHA3", "CALL", "RETURN", "REVERT", "STOP", "INVALID"} -> 0
      [] OTHER -> 3

\* Elements that are read with Back before the opcode is charged for ...
Peeked ==
    CASE op \in CopyOps -> 3
      [] op \in LogOps \cup {"EXP", "SHA3", "RETURN", "REVERT"} -> 2
      [] op \in ExtOps \cup {"EXTCODECOPY"} -> 1
      [] OTHER -> 0

\* ... elements that are popped, which is checked ...
Popped ==
    CASE op \in {"POP", "JUMP"} \cup Binary -> 1
      [] op \in {"JUMPI"} \cup Ternary -> 2
      [] op = "CALL" -> 7
      [] OTHER -> 0

\* ... and elements that are read with Back then.
ReadBack ==
    CASE op \in Unary \cup LoadOps \cup MemOps -> 1
      [] op \in Binary -> 2
      [] op \in Ternary -> 3
      [] OTHER -> 0

OutOfGas ==
    /\ Running /\ f.pc < Len(f.code)
    /\ Depth >= Peeked /\ f.gas < Price
    /\ Fails(f.mem) /\ UNCHANGED hist

Underflow ==
    /\ Running /\ f.pc < Len(f.code)
    /\ Depth >= Peeked /\ f.gas >= Price /\ Depth < Popped
    /\ Fails(f.mem) /\ UNCHANGED hist

\* stack.Back with an index below the stack.
Panic ==
    /\ Running /\ f.pc < Len(f.code)
    /\ \/ Depth < Peeked
       \/ Depth >= Peeked /\ f.gas >= Price /\ Depth >= Popped /\ Depth < ReadBack
    /\ Ends("panic", f.gas, f.mem) /\ UNCHANGED hist

\* The opcode is one of ops, its operands are there and its price is paid.
Paid(ops) ==
    /\ At(ops)
    /\ Depth >= Peeked /\ f.gas >= Price
    /\ Depth >= Popped /\ Depth >= ReadBack

left == f.gas - Price
-----------------------------------------------------------------------------
(***************************************************************************)
(* Opcodes of the stack and of the program counter.                        *)
(***************************************************************************)
OpUnary == Paid(Unary) /\ Computes(left, Append(Below(1), ofUnary(op, Back(0))))

OpBinary == Paid(Binary) /\ Computes(left, Append(Below(2), ofBinary(op, Back(0), Back(1))))

OpTernary ==
    Paid(Ternary) /\ Computes(left, Append(Below(3), ofTernary(op, Back(0), Back(1), Back(2))))

\* CALLDATALOAD pads with zeros; BLOCKHASH knows no block.
Loaded(off) ==
    SetBytes([i \in 1 .. WordBytes |-> IF off + i <= Len(Input) THEN Input[off + i] ELSE 0])

OpLoad ==
    /\ Paid(LoadOps)
    /\ Computes(left, Append(Below(1), IF op = "BLOCKHASH" THEN 0 ELSE Loaded(Uint64(Back(0)))))

Pushed ==
    CASE op = "PC" -> f.pc
      [] op = "GAS" -> left
      [] op = "MSIZE" -> f.mem.len
      [] op = "CODESIZE" -> Len(f.code)
      [] op = "CALLDATASIZE" -> Len(Input)
      [] op = "RETURNDATASIZE" -> Len(f.ret)
      [] op \in PushOps ->
            SetBytes(SubSeq(f.code, f.pc + 2, Min({f.pc + 1 + PushSize(op), Len(f.code)})))
      [] OTHER -> Env(op)

\* Fault: the size of the stack is not checked.
OpPushUnchecked ==
    /\ Paid(EnvOps \cup SizeOps \cup PushOps)
    /\ Goes(f.pc + 1 + PushSize(op), left, Append(f.stack, Pushed), f.mem)
    /\ UNCHANGED hist

OpPush ==
    /\ Paid(EnvOps \cup SizeOps \cup PushOps)
    /\ \/ /\ Depth < MaxDepth
          /\ Goes(f.pc + 1 + PushSize(op), left, Append(f.stack, Pushed), f.mem)
       \/ Depth = MaxDepth /\ Fails(f.mem)
    /\ UNCHANGED hist

OpPop == Paid({"POP"}) /\ Computes(left, Below(1))

OpJumpdest == Paid({"JUMPDEST"}) /\ Computes(left, f.stack)

Nth == IF op \in {"DUP1", "SWAP1"} THEN 1 ELSE 2

OpDup ==
    /\ Paid(DupOps)
    /\ \/ Depth >= Nth /\ Depth < MaxDepth /\ Computes(left, Append(f.stack, Back(Nth - 1)))
       \/ (Depth < Nth \/ Depth = MaxDepth) /\ Fails(f.mem) /\ UNCHANGED hist

OpSwap ==
    /\ Paid(SwapOps)
    /\ \/ /\ Depth >= Nth + 1
          /\ Computes(left, [f.stack EXCEPT ![Depth] = Back(Nth), ![Depth - Nth] = Back(0)])
       \/ Depth < Nth + 1 /\ Fails(f.mem) /\ UNCHANGED hist

OpJump ==
    LET dest  == Uint64(Back(0))
        taken == ~ (op = "JUMPI" /\ Back(1) = 0)
        pops  == IF op = "JUMP" THEN 1 ELSE 2
    IN  /\ Paid({"JUMP", "JUMPI"})
        /\ \/ taken /\ dest \in f.jumpdests /\ Goes(dest, left, Below(pops), f.mem)
           \/ taken /\ dest \notin f.jumpdests /\ Fails(f.mem)
           \/ ~ taken /\ Goes(f.pc + 1, left, Below(pops), f.mem)
        /\ UNCHANGED hist
-----------------------------------------------------------------------------
(***************************************************************************)
(* Opcodes of the memory.                                                  *)
(***************************************************************************)
\* History: bytes were written at offset, cost was paid, the memory is now m.
Note(m, offset, bytes, cost) ==
    LET range == offset .. (offset + Len(bytes) - 1)
        new   == range \cap (0 .. (m.len - 1))
    IN  hist' = [hist EXCEPT
            !.written = [i \in DOMAIN @ \cup new |-> IF i \in new THEN bytes[i - offset + 1] ELSE @[i]],
            !.paid = @ + cost,
            !.wild = @ \/ new # range]

OpMemory ==
    LET off   == Uint64(Back(0))
        size  == IF op = "MSTORE8" THEN 1 ELSE WordBytes
        m     == Expand(f.mem, off, size)
        cost  == ExpansionCost(f.mem, off, size)
        bytes == IF op = "MSTORE8" THEN <<Back(1) % ByteMod>> ELSE Bytes32(Back(1))
    IN  /\ Paid(MemOps)
        /\ \/ ExpandFails(f.mem, off, size, left) /\ Fails(f.mem) /\ UNCHANGED hist
           \/ /\ ~ ExpandFails(f.mem, off, size, left)
              /\ \/ /\ op = "MLOAD" /\ InSlice(m, off, size)
                    /\ Goes(f.pc + 1, left - cost, Append(Below(1), SetBytes(Get(m, off, size))), m)
                    /\ Note(m, off, << >>, cost)
                 \/ /\ op # "MLOAD" /\ Depth < 2
                    /\ Fails(m) /\ UNCHANGED hist
                 \/ /\ op # "MLOAD" /\ Depth >= 2 /\ InSlice(m, off, size)
                    /\ Goes(f.pc + 1, left - cost, Below(2), Set(m, off, bytes))
                    /\ Note(m, off, bytes, cost)
                 \* the size was rounded up beyond 2^64, or is no int
                 \/ /\ ~ InSlice(m, off, size) /\ (op = "MLOAD" \/ Depth >= 2)
                    /\ Ends("panic", left - cost, m) /\ UNCHANGED hist

\* Charges for the expansion twice, and goes on when the second time fails.
OpSha3 ==
    LET off    == Uint64(Back(0))
        size   == Uint64(Back(1))
        cost   == ExpansionCost(f.mem, off, size)
        dyn    == (Sha3 + cost + WordsFor(size) * Sha3Word) % U64
        again  == f.gas - dyn
        failed == ExpandFails(f.mem, off, size, again)
        m      == IF failed THEN f.mem ELSE Expand(f.mem, off, size)
        rest   == IF failed THEN again ELSE again - cost
    IN  /\ Paid({"SHA3"})
        /\ \/ f.gas < dyn /\ Fails(f.mem) /\ UNCHANGED hist
           \/ /\ f.gas >= dyn
              /\ size = 0 \/ InSlice(m, off, size)
              /\ \E hash \in Hashes : Goes(f.pc + 1, rest, Append(Below(2), hash), m)
              /\ Note(m, off, << >>, IF failed THEN cost ELSE 2 * cost)
           \/ /\ f.gas >= dyn
              /\ size > 0 /\ ~ InSlice(m, off, size)
              /\ Ends("panic", rest, m) /\ UNCHANGED hist

Source ==
    CASE op = "CALLDATACOPY" -> Input
      [] op = "CODECOPY" -> f.code
      [] op = "EXTCODECOPY" -> ExtCode
      [] op = "RETURNDATACOPY" -> f.ret

Copied(off, size) ==
    [i \in 1 .. size |-> IF off + i <= Len(Source) THEN Source[off + i] ELSE 0]

\* The copying opcodes pop destination, offset and size in this order; the
\* operands begin at Back(n), m and gas are what memCopyOp left.
Copies(n, gas, m, cost) ==
    LET dest == Uint64(Back(n))
        off  == Uint64(Back(n + 1))
        size == Uint64(Back(n + 2))
    IN  IF Depth < n + 3 \/ (op = "RETURNDATACOPY" /\ off + size > Len(f.ret))
        THEN Fails(m) /\ UNCHANGED hist
        ELSE IF size = 0
        THEN Goes(f.pc + 1, gas, Below(n + 3), m) /\ Note(m, dest, << >>, cost)
        ELSE IF InSlice(m, dest, size)
        THEN /\ Goes(f.pc + 1, gas, Below(n + 3), Set(m, dest, Copied(off, size)))
             /\ Note(m, dest, Copied(off, size), cost)
        ELSE Ends("panic", gas, m) /\ UNCHANGED hist

copyCost(size) == WordsFor(size) * Copy

\* memCopyOp expands the memory and charges for a copy of the top of the stack
\* many bytes to the element below the next: not the operands of the copy.
memCopyOp(n, gas) ==
    LET dest == Uint64(Back(2))
        size == Uint64(Back(0))
        m    == Expand(f.mem, dest, size)
        cost == ExpansionCost(f.mem, dest, size)
    IN  IF ExpandFails(f.mem, dest, size, gas) THEN Fails(f.mem) /\ UNCHANGED hist
        ELSE IF gas - cost < copyCost(size) THEN Fails(m) /\ UNCHANGED hist
        ELSE Copies(n, gas - cost - copyCost(size), m, cost)

OpCopy == Paid(CopyOps) /\ memCopyOp(0, f.gas)

\* chargeExtAccess, for an address that is warm or not.
AccessCosts == {WarmStorageRead, ColdAccountAccess}

OpExt ==
    /\ Paid(ExtOps)
    /\ \E cost \in AccessCosts :
          \/ f.gas < cost /\ Fails(f.mem) /\ UNCHANGED hist
          \/ f.gas >= cost /\ Computes(f.gas - cost, Append(Below(1), Env(op)))

OpExtCodeCopy ==
    /\ Paid({"EXTCODECOPY"})
    /\ \E cost \in AccessCosts :
          \/ f.gas < cost /\ Fails(f.mem) /\ UNCHANGED hist
          \/ f.gas >= cost /\ Depth < 3 /\ Ends("panic", f.gas - cost, f.mem) /\ UNCHANGED hist
          \/ f.gas >= cost /\ Depth >= 3 /\ memCopyOp(1, f.gas - cost)

\* logOp and opLog, in a frame that is not static.
OpLogs ==
    LET off    == Uint64(Back(0))
        size   == Uint64(Back(1))
        topics == IF op = "LOG1" THEN 1 ELSE 0
        m      == Expand(f.mem, off, size)
        cost   == ExpansionCost(f.mem, off, size)
        dyn    == (LogGas + LogData * size + topics * LogTopic) % U64
    IN  /\ Paid(LogOps)
        /\ \/ ExpandFails(f.mem, off, size, f.gas) /\ Fails(f.mem) /\ UNCHANGED hist
           \/ /\ ~ ExpandFails(f.mem, off, size, f.gas)
              /\ f.gas - cost < dyn \/ Depth < 2 + topics
              /\ Fails(m) /\ UNCHANGED hist
           \/ /\ ~ ExpandFails(f.mem, off, size, f.gas)
              /\ f.gas - cost >= dyn /\ Depth >= 2 + topics
              /\ \/ /\ size = 0 \/ InSlice(m, off, size)
                    /\ Goes(f.pc + 1, f.gas - cost - dyn, Below(2 + topics), m)
                    /\ Note(m, off, << >>, cost)
                 \/ /\ size > 0 /\ ~ InSlice(m, off, size)
                    /\ Ends("panic", f.gas - cost - dyn, m) /\ UNCHANGED hist
-----------------------------------------------------------------------------
(***************************************************************************)
(* CALL.  What runs behind it is the handler's: it returns one of Returns  *)
(* and gives back all or none of the gas it was given.                     *)
(***************************************************************************)
\* The memory and the gas that the two expansions for input and output leave.
CallMemory ==
    LET inOff   == Uint64(Back(3))
        inSize  == Uint64(Back(4))
        outOff  == Uint64(Back(5))
        outSize == Uint64(Back(6))
        m1      == Expand(f.mem, inOff, inSize)
        cost1   == ExpansionCost(f.mem, inOff, inSize)
        cost2   == ExpansionCost(m1, outOff, outSize)
    IN  IF ExpandFails(f.mem, inOff, inSize, f.gas) THEN [ok |-> FALSE, mem |-> f.mem]
        ELSE IF ExpandFails(m1, outOff, outSize, f.gas - cost1) THEN [ok |-> FALSE, mem |-> m1]
        ELSE [ok |-> TRUE, mem |-> Expand(m1, outOff, outSize), cost |-> cost1 + cost2]

\* The handler returns ret, with back of the fwd gas it was given.
CallReturns(m, cost, gas, ret, ok) ==
    LET outOff  == Uint64(Back(5))
        outSize == Uint64(Back(6))
        bytes   == SubSeq(ret, 1, Min({outSize, Len(ret)}))
    IN  IF bytes # << >> /\ ~ InSlice(m, outOff, outSize)
        THEN Ends("panic", gas, m) /\ UNCHANGED hist
        ELSE /\ f' = [f EXCEPT !.pc = @ + 1, !.gas = gas, !.stack = Append(Below(7), Bool(ok)),
                               !.mem = Set(m, outOff, bytes), !.ret = ret]
             /\ Note(m, outOff, bytes, cost)
             /\ UNCHANGED <<pooled, cache, heap, work>>

OpCall ==
    LET value   == Uint64(Back(2))
        inOff   == Uint64(Back(3))
        inSize  == Uint64(Back(4))
        m       == CallMemory
    IN  /\ Paid({"CALL"})
        /\ \/ ~ m.ok /\ Fails(m.mem) /\ UNCHANGED hist
           \/ /\ m.ok
              /\ \E access \in AccessCosts, new \in {0, NewAccount} :
                    LET rest == f.gas - m.cost - access - (IF value > 0 THEN CallValue + new ELSE 0)
                        fwd  == Min({Back(0), CallGas(rest)})
                    IN  IF rest < 0 THEN Fails(m.mem) /\ UNCHANGED hist
                        ELSE IF inSize > 0 /\ ~ InSlice(m.mem, inOff, inSize)
                        THEN Ends("panic", rest - fwd, m.mem) /\ UNCHANGED hist
                        ELSE \E ret \in Returns, back \in {0, fwd}, ok \in BOOLEAN :
                                CallReturns(m.mem, m.cost, rest - fwd + back, ret, ok)
-----------------------------------------------------------------------------
(***************************************************************************)
(* The end of a frame.                                                     *)
(***************************************************************************)
OpStop ==
    /\ Running
    /\ f.pc >= Len(f.code) \/ At({"STOP"})
    /\ Ends("none", f.gas, f.mem) /\ UNCHANGED hist

OpReturn ==
    LET off  == Uint64(Back(0))
        size == Uint64(Back(1))
        m    == Expand(f.mem, off, size)
        gas  == f.gas - ExpansionCost(f.mem, off, size)
        err  == IF op = "RETURN" THEN "none" ELSE "revert"
    IN  /\ Paid({"RETURN", "REVERT"})
        /\ \/ ExpandFails(f.mem, off, size, f.gas) /\ Fails(f.mem)
           \/ /\ ~ ExpandFails(f.mem, off, size, f.gas)
              /\ Ends(IF size = 0 \/ InSlice(m, off, size) THEN err ELSE "panic", gas, m)
        /\ UNCHANGED hist

OpInvalid == At({"INVALID"}) /\ Fails(f.mem) /\ UNCHANGED hist

Step ==
    \/ OutOfGas \/ Underflow \/ Panic
    \/ OpUnary \/ OpBinary \/ OpTernary \/ OpLoad
    \/ OpPush \/ OpPop \/ OpJumpdest \/ OpDup \/ OpSwap \/ OpJump
    \/ OpMemory \/ OpSha3 \/ OpCopy \/ OpExt \/ OpExtCodeCopy \/ OpLogs
    \/ OpCall
    \/ OpStop \/ OpReturn \/ OpInvalid

\* All frames are done, or the program has crashed.
Done ==
    /\ f.err = "panic" \/ (f = Idle /\ work = << >>)
    /\ UNCHANGED vars

Next == Acquire \/ Release \/ Step \/ Done

\* Run is a sequential loop: it goes on as long as it can.
Spec == Init /\ [][Next]_vars /\ WF_vars(Step)
-----------------------------------------------------------------------------
(***************************************************************************)
(* Properties.                                                             *)
(***************************************************************************)
\* Type invariant.  It includes that the stack never exceeds its array and that
\* gas stays a uint64.
Frame ==
    [code : GoBytes, pc : Nat, gas : 0 .. (U64 - 1), stack : Seq(Word), mem : MemoryType,
     ret : GoBytes, jumpdests : SUBSET Nat, err : {"running", "none", "revert", "fail", "panic"}]

TypeOK ==
    /\ f \in Frame \cup {Idle}
    /\ f # Idle =>
          /\ Depth <= MaxDepth
          /\ f.mem.len <= Len(f.mem.data)
          /\ f.jumpdests \subseteq 0 .. (Len(f.code) - 1)
    /\ pooled \in MemoryType \cup {Nil}
    /\ cache \in [DOMAIN cache -> SUBSET Nat]
    /\ heap \in [Ptr -> SUBSET GoBytes]
    /\ work \in Seq(Slice)
    /\ hist \in [written : [DOMAIN hist.written -> Byte], paid : Nat, reused : BOOLEAN,
                 wild : BOOLEAN, moved : BOOLEAN]
    /\ DOMAIN hist.written \subseteq Nat

\* The opcodes of op_arithmetic.go compute what the EVM means by them, from the
\* operands in the order in which code pushes them.
ComputesReference ==
    [][\A arity \in 1 .. 3 :
          At(CASE arity = 1 -> Unary [] arity = 2 -> Binary [] arity = 3 -> Ternary)
                /\ f'.err = "running" =>
             /\ Len(f'.stack) = Depth - arity + 1
             /\ Reference(op, Back(0), IF arity > 1 THEN Back(1) ELSE 0,
                          IF arity > 2 THEN Back(2) ELSE 0, f'.stack[Depth - arity + 1])]_vars

\* How many of the bytes from position i on are still data of a PUSH.
DataLeft(code) ==
    LET rest[i \in 0 .. Len(code)] ==
            IF i = 0 THEN 0
            ELSE LET before == rest[i - 1]
                 IN  IF before > 0 THEN before - 1 ELSE PushSize(Decode(code[i]))
    IN  rest

\* Code is only ever executed from the beginning of an instruction: jumps, pushes
\* and jump destinations cached by an earlier frame never lead into push data,
\* unless the collector has given the address of other code to this code.
ExecutesInstructions ==
    Running /\ ~ hist.moved => f.pc >= Len(f.code) \/ DataLeft(f.code)[f.pc] = 0

\* What a frame wrote to its memory it finds there, through expansions of every
\* kind; the rest of the memory is zero, unless the memory was another frame's
\* or a copy has written outside of it.
MemoryReadsBack ==
    Running =>
        /\ \A i \in DOMAIN hist.written : i < f.mem.len /\ f.mem.data[i + 1] = hist.written[i]
        /\ ~ hist.reused /\ ~ hist.wild =>
              \A i \in (0 .. (f.mem.len - 1)) \ DOMAIN hist.written : f.mem.data[i + 1] = 0

\* Memory is paid for: whatever sequence of larger and smaller accesses a frame
\* makes, it has paid at least the price of the memory it has.
MemoryIsPaid == Running => hist.paid >= memoryGas(f.mem.len \div WordBytes)

\* Every frame ends: code that jumps in circles runs out of gas.
FrameEnds == Running ~> ~ Running

\* What EVM.tla relies on: a frame only ever loses gas, and ends with the gas it
\* has or, with an error, with none.
Life == INSTANCE FrameLife WITH gas <- f.gas, err <- f.err

LivesLikeAFrame == Life!Spec
-----------------------------------------------------------------------------
(***************************************************************************)
(* What the repository says of the interpreter and the code does not do.   *)
(***************************************************************************)
\* The copying opcodes write only to memory that was expanded for them.
CopiesAreExpanded == ~ hist.wild
=============================================================================
