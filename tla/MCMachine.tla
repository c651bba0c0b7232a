----------------------------- MODULE MCMachine ------------------------------
(***************************************************************************)
(* TLC instances of Machine: words of two bytes of seven bits, a uint64 of *)
(* 12 bits.                                                                *)
(***************************************************************************)
EXTENDS Machine

CONSTANTS p1, p2

\* Families of opcodes are cut to two members.
MCOpcodes ==
    <<"STOP", "ADD", "MUL", "SUB", "DIV", "SDIV", "MOD", "SMOD", "ADDMOD", "MULMOD", "EXP",
      "SIGNEXTEND", "LT", "GT", "SLT", "SGT", "EQ", "ISZERO", "AND", "OR", "XOR", "NOT", "BYTE",
      "SHL", "SHR", "SAR", "SHA3", "ADDRESS", "BALANCE", "ORIGIN", "CALLER", "CALLVALUE",
      "CALLDATALOAD", "CALLDATASIZE", "CALLDATACOPY", "CODESIZE", "CODECOPY", "GASPRICE",
      "EXTCODESIZE", "EXTCODECOPY", "RETURNDATASIZE", "RETURNDATACOPY", "EXTCODEHASH",
      "BLOCKHASH", "COINBASE", "TIMESTAMP", "NUMBER", "DIFFICULTY", "GASLIMIT", "CHAINID",
      "SELFBALANCE", "BASEFEE", "POP", "MLOAD", "MSTORE", "MSTORE8", "JUMP", "JUMPI", "PC",
      "MSIZE", "GAS", "JUMPDEST", "PUSH1", "PUSH2", "DUP1", "DUP2", "SWAP1", "SWAP2", "LOG0",
      "LOG1", "CALL", "RETURN", "REVERT">>

MCEnv(o) == 5
MCHashes == {0, WordMod - 1}
MCInput == <<9, 8, 7>>
MCExtCode == <<6>>
MCReturns == {<< >>, <<4, 3>>}

B(o) == (CHOOSE i \in DOMAIN MCOpcodes : MCOpcodes[i] = o) - 1
Push1(x) == <<B("PUSH1"), x>>
Push2(w) == <<B("PUSH2")>> \o Bytes32(w)

\* Arithmetic on the boundaries of bytes, words and signs.
Operands ==
    {0, 1, 2, 13, 14, 64, ByteMod - 1, ByteMod, Half - 1, Half, WordMod - 2, WordMod - 1}

Moduli == {0, 1, 13, ByteMod, WordMod - 1}

Arithmetic ==
    {Push2(a) \o <<B(o)>> : a \in Operands, o \in Unary}
    \cup {Push2(b) \o Push2(a) \o <<B(o)>> : a \in Operands, b \in Operands, o \in Binary}
    \cup {Push2(n) \o Push2(b) \o Push2(a) \o <<B(o)>> :
            a \in Moduli, b \in Moduli, n \in Moduli, o \in Ternary}

\* Every opcode on a stack of any size.
Stacks == {[i \in 1 .. n |-> B("PC")] \o <<b>> : n \in 0 .. MaxDepth, b \in 0 .. Len(MCOpcodes)}

\* Jumps over, into and back to push data and jump destinations.
JumpBytes == {B("JUMPDEST"), B("PUSH1"), B("PUSH2"), B("STOP")}

Jumps ==
    {Push1(c) \o Push1(d) \o <<B(o), x, y, w>> :
        c \in {0, 1}, d \in 4 .. 8, o \in {"JUMP", "JUMPI"},
        x \in JumpBytes, y \in JumpBytes, w \in JumpBytes}
    \cup {<<B("JUMPDEST"), B("PUSH1"), 0, B("JUMP")>>}

\* Up to three accesses to the memory, within its capacity and beyond.
Access ==
    {Push1(3) \o Push1(off) \o <<B(o)>> : off \in {0, 3, 6}, o \in {"MSTORE", "MSTORE8"}}
    \cup {Push1(off) \o <<B("MLOAD"), B("POP")>> : off \in {0, 5}}

Accesses ==
    Access \cup {x \o y : x \in Access, y \in Access}
    \cup {x \o y \o w : x \in Access, y \in Access, w \in Access}

\* Accesses at the end of the uint64 range, and beyond it.
FarAccess ==
    {Push1(3) \o Push2(off) \o <<B(o)>> :
        off \in {U64 - 3, U64 - 2, U64 - 1, U64}, o \in {"MSTORE", "MSTORE8", "MLOAD"}}

\* Opcodes with a range of the memory.
Ranges == {<<0, 0>>, <<1, 1>>, <<2, 3>>, <<0, 9>>, <<U64 - 2, 1>>, <<U64 - 1, 1>>,
           <<0, U64 - 1>>, <<1, U64 - 1>>}

OnRange ==
    {x \o Push1(7) \o Push2(r[2]) \o Push2(r[1]) \o <<B(o)>> :
        x \in {<< >>, Push1(3) \o Push1(3) \o <<B("MSTORE")>>}, r \in Ranges,
        o \in {"SHA3", "LOG0", "LOG1", "RETURN", "REVERT"}}

\* Copies, by themselves and after a CALL that returned data and wrote it.
Copying ==
    {Push1(size) \o Push1(off) \o Push1(dest) \o <<B(o)>> :
        size \in {0, 2, 5}, off \in {0, 1, 2}, dest \in {0, 1, 3, 8}, o \in CopyOps}
    \cup {Push2(w) \o Push1(0) \o Push2(v) \o <<B(o)>> :
            w \in {2, U64 - 1}, v \in {1, U64 - 1}, o \in CopyOps}

Calls ==
    {Push1(outSize) \o Push2(outOff) \o Push1(inSize) \o Push2(inOff) \o Push1(value) \o Push1(5)
        \o Push1(40) \o <<B("CALL")>> \o rest :
        outSize \in {0, 1}, outOff \in {0, 4, U64 - 2}, inOff \in {1, U64 - 2}, inSize \in {0, 1}, value \in {0, 1},
        rest \in {<< >>, Push1(1) \o Push1(1) \o Push1(0) \o <<B("RETURNDATACOPY")>>}}

ExtCopying ==
    {Push1(size) \o Push1(off) \o Push1(dest) \o Push1(addr) \o <<B("EXTCODECOPY")>> :
        size \in {0, 2}, off \in {0, 1}, dest \in {0, 3, 30}, addr \in {0, 1, 3}}

\* One frame after another: codes of the same length with different jump
\* destinations, and memory that was written before.
Successors ==
    {Push1(3) \o <<B("JUMP"), x, y>> : x \in {B("JUMPDEST"), B("PUSH1")}, y \in {B("JUMPDEST"), B("STOP")}}
    \cup {Push1(4) \o <<B("JUMP"), B("PUSH1"), B("JUMPDEST")>>,
          Push1(3) \o Push1(3) \o <<B("MSTORE")>>, Push1(0) \o <<B("MLOAD"), B("MLOAD")>>}

At1(code) == [at |-> p1, code |-> code]

MCWorkloads ==
    {<<At1(code)>> :
        code \in Arithmetic \cup Stacks \cup Jumps \cup Accesses \cup FarAccess \cup OnRange
                    \cup Copying \cup Calls \cup ExtCopying}
    \cup {<<At1(c), [at |-> p, code |-> d]>> : c \in Successors, p \in {p1, p2}, d \in Successors}
    \* code that comes back to an address that other code has had
    \cup {<<At1(c), At1(d), At1(e)>> : c \in Successors, d \in Successors, e \in Successors}
=============================================================================
