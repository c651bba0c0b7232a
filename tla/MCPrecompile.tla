---------------------------- MODULE MCPrecompile ----------------------------
(***************************************************************************)
(* TLC instance of Precompile: words of three bytes of four bits.          *)
(***************************************************************************)
EXTENDS Precompile

\* External cryptography, chosen so that both outcomes occur.
MCRecoverable(sig) == SetBytes(sig[2]) # 0
MCOnCurve(p) == p # << >> /\ p[Len(p)] % 2 = 0
MCPairsToOne(pair) == pair[1][1] = 0

\* MODEXP: small numbers, with inputs that end anywhere ...
Declares(b, e, m) == Bytes32(b) \o Bytes32(e) \o Bytes32(m)

Data == UNION {[1 .. n -> {0, 3, 13}] : n \in 0 .. 5}

SmallModexp == {Declares(b, e, m) \o d : b \in 0 .. 2, e \in {0, 1, 2, 4}, m \in 0 .. 2, d \in Data}

\* ... and lengths around the limits of int, uint64 and make.
Edges == {0, 1, MaxAlloc, MaxAlloc + 1, U64 \div 2 - Header, U64 \div 2 - 1, U64 - Header,
          U64 - 1, U64 + 1}

HugeModexp == {Declares(b, e, m) \o d : b \in Edges, e \in Edges, m \in Edges,
               d \in {<< >>, <<5>>, <<5, 6, 7, 8>>}}

CutModexp == {SubSeq(Declares(b, 1, 1), 1, n) : b \in {0, 1, U64 - 1}, n \in 0 .. (Header - 1)}

\* The others: a signature, one with a wrong v, points on and off the curve; cut
\* off anywhere.
Signature(v) == <<1, 2, 3>> \o Bytes32(v) \o <<0, 0, 6, 7, 8, 9>>
Pair(x, y) == <<x, 0, 0, 0, 0, 2, 1, 1, 1, 1, 1, 1, 1, 1, 1, 1, 1, y>>

Whole == {Signature(27), Signature(29), Padded(<< >>, 13),
          Pair(0, 4), Pair(0, 5), Pair(1, 4) \o Pair(0, 4), Pair(0, 4) \o Pair(0, 5)}

Others == {SubSeq(w, 1, Min({n, Len(w)})) : w \in Whole, n \in 0 .. (2 * PairBytes)}

MCCalls ==
    [id : {5}, input : SmallModexp \cup HugeModexp \cup CutModexp, gas : {MinModexpGas, 40, U64 - 1}]
        \cup [id : 0 .. 10, input : Others, gas : {3, 30}]
=============================================================================
