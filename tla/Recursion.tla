----------------------------- MODULE Recursion ------------------------------
(***************************************************************************)
(* Facts about numbers, sequences and recursive functions from which the   *)
(* other proofs reason by induction: a least counterexample does not exist.*)
(***************************************************************************)
EXTENDS Integers, Sequences, WellFoundedInduction, TLAPS

\* A set of natural numbers that is not empty has a least element.
LEMMA LeastNumber ==
    ASSUME NEW T \in SUBSET Nat, T # {}
    PROVE  \E n \in T : \A m \in T : n <= m
<1>. DEFINE R == OpToRel(<, Nat)
<1>1. IsWellFoundedOn(R, Nat)
  BY NatLessThanWellFounded
<1>2. \A x, y \in Nat : y < x => <<y, x>> \in R
  BY DEF OpToRel
<1>. HIDE DEF R
<1>3. PICK x \in T : \A y \in T : ~ (<<y, x>> \in R)
  BY <1>1, WFMin
<1>4. \A y \in T : ~ (y < x)
  BY <1>2, <1>3
<1>5. \A y \in T : x <= y
  BY <1>4
<1>. QED BY <1>5

\* Sequences of the same length with the same elements are equal.
LEMMA SameSequence ==
    ASSUME NEW X, NEW s \in Seq(X), NEW t \in Seq(X), Len(s) = Len(t),
           \A i \in 1 .. Len(s) : s[i] = t[i]
    PROVE  s = t
OBVIOUS
-----------------------------------------------------------------------------
(***************************************************************************)
(* Quotients and remainders.                                               *)
(***************************************************************************)
\* A product with a greater factor is greater.
LEMMA Products ==
    ASSUME NEW n \in Nat \ {0}, NEW k \in Int
    PROVE  /\ k >= 1 => n * k >= n
           /\ k <= -1 => n * k <= - n
<1>1. ASSUME k >= 1 PROVE n * k >= n
  <2>1. n * (k - 1) >= 0
    BY <1>1
  <2>2. n * k = n * (k - 1) + n
    OBVIOUS
  <2> QED BY <2>1, <2>2
<1>2. ASSUME k <= -1 PROVE n * k <= - n
  <2>1. n * (-1 - k) >= 0
    BY <1>2
  <2>2. n * k = - (n * (-1 - k)) - n
    OBVIOUS
  <2> QED BY <2>1, <2>2
<1> QED BY <1>1, <1>2

\* Division with remainder.
LEMMA DivMod ==
    ASSUME NEW a \in Int, NEW n \in Nat \ {0}
    PROVE  /\ a \div n \in Int /\ a % n \in 0 .. (n - 1)
           /\ a = n * (a \div n) + (a % n)
OBVIOUS

\* Quotient and remainder are determined.
LEMMA DivModUnique ==
    ASSUME NEW a \in Int, NEW n \in Nat \ {0}, NEW q \in Int, NEW r \in 0 .. (n - 1), a = n * q + r
    PROVE  a \div n = q /\ a % n = r
<1> DEFINE d == a \div n
<1> DEFINE m == a % n
<1>1. d \in Int /\ m \in 0 .. (n - 1) /\ a = n * d + m
  BY DivMod
<1> HIDE DEF d, m
<1>2. n * (q - d) = m - r
  <2>1. n * (q - d) = n * q - n * d
    BY <1>1
  <2> QED BY <1>1, <2>1
<1>3. m - r < n /\ m - r > - n
  BY <1>1
<1>4. q - d \in Int
  BY <1>1
<1>5. ~ (q - d >= 1) /\ ~ (q - d <= -1)
  BY <1>2, <1>3, <1>4, Products
<1>6. q = d
  BY <1>1, <1>4, <1>5
<1> QED BY <1>1, <1>6 DEF d, m

\* The quotient of what is less than a product.
LEMMA DivLess ==
    ASSUME NEW a \in Nat, NEW p \in Nat \ {0}, NEW q \in Nat, a < p * q
    PROVE  a \div p \in 0 .. (q - 1)
<1> DEFINE d == a \div p
<1>1. d \in Int /\ a % p \in 0 .. (p - 1) /\ a = p * d + (a % p)
  BY DivMod
<1> HIDE DEF d
<1>2. PICK r : r = a % p
  OBVIOUS
<1>3. ~ (d <= -1)
  <2>1. d <= -1 => p * d <= - p
    BY <1>1, Products
  <2> QED BY <1>1, <1>2, <2>1
<1>4. ~ (d - q >= 0)
  <2>1. p * d = p * q + p * (d - q)
    BY <1>1
  <2>2. d - q >= 0 => p * (d - q) >= 0
    BY <1>1
  <2> QED BY <1>1, <1>2, <2>1, <2>2
<1> QED BY <1>1, <1>3, <1>4 DEF d

\* Quotients of natural numbers.
LEMMA DivNat ==
    ASSUME NEW a \in Nat, NEW n \in Nat \ {0}
    PROVE  a \div n \in 0 .. a
<1>1. a < n * (a + 1)
  <2>1. n * (a + 1) = (a + 1) + (n - 1) * (a + 1)
    OBVIOUS
  <2>2. (n - 1) * (a + 1) >= 0
    OBVIOUS
  <2> QED BY <2>1, <2>2
<1>2. a \div n \in 0 .. ((a + 1) - 1)
  BY <1>1, DivLess
<1> QED BY <1>2
-----------------------------------------------------------------------------
(***************************************************************************)
(* Recursive functions over 0 .. N, such as the sums and paths over the    *)
(* frames.  step[<<n, x>>] is the value at n when x is the one at n - 1.   *)
(***************************************************************************)
\* Counting up from 0 reaches every number up to N.
LEMMA CountingUp ==
    ASSUME NEW N \in Nat, NEW T, 0 \in T, \A n \in 0 .. N : n \in T /\ n < N => n + 1 \in T
    PROVE  \A n \in 0 .. N : n \in T
<1> DEFINE Bad == {n \in 0 .. N : n \notin T}
<1>1. ASSUME NEW n \in Bad, \A m \in Bad : n <= m
      PROVE  FALSE
  <2>1. n \in 0 .. N /\ n \notin T /\ n # 0
    OBVIOUS
  <2>2. n - 1 \in 0 .. N /\ ~ (n <= n - 1) /\ n - 1 < N /\ (n - 1) + 1 = n
    BY <2>1
  <2>3. n - 1 \in T
    BY <1>1, <2>2
  <2> QED BY <2>1, <2>2, <2>3
<1>2. Bad \in SUBSET Nat
  OBVIOUS
<1>3. Bad = {}
  <2> HIDE DEF Bad
  <2> QED BY <1>1, <1>2, LeastNumber
<1> QED BY <1>3

Recursive(f, N, v, step) == f[0] = v /\ \A n \in 1 .. N : f[n] = step[<<n, f[n - 1]>>]

\* Such a function exists ...
LEMMA RecursionExists ==
    ASSUME NEW N \in Nat, NEW S, NEW v \in S, NEW step \in [(1 .. N) \X S -> S]
    PROVE  \E f \in [0 .. N -> S] : Recursive(f, N, v, step)
<1> DEFINE T == {n \in 0 .. N : \E f \in [0 .. N -> S] : Recursive(f, n, v, step)}
<1>1. 0 \in T
  <2> DEFINE f == [n \in 0 .. N |-> v]
  <2>1. f \in [0 .. N -> S] /\ Recursive(f, 0, v, step)
    BY DEF Recursive
  <2> HIDE DEF f
  <2> QED BY <2>1
<1>2. ASSUME NEW n \in 0 .. N, n \in T, n < N
      PROVE  n + 1 \in T
  <2>1. PICK f \in [0 .. N -> S] : Recursive(f, n, v, step)
    BY <1>2
  <2> DEFINE g == [k \in 0 .. N |-> IF k = n + 1 THEN step[<<k, f[n]>>] ELSE f[k]]
  <2>2. n + 1 \in 1 .. N /\ n + 1 \in 0 .. N /\ n + 1 # 0
    BY <1>2
  <2>3. step[<<n + 1, f[n]>>] \in S
    <3>1. <<n + 1, f[n]>> \in (1 .. N) \X S
      BY <2>2
    <3> QED BY <3>1
  <2>4. g \in [0 .. N -> S]
    BY <2>3
  <2>5. g[0] = v
    BY <2>1, <2>2 DEF Recursive
  <2>6. ASSUME NEW k \in 1 .. (n + 1)
        PROVE  g[k] = step[<<k, g[k - 1]>>]
    <3>1. k \in 0 .. N /\ k - 1 \in 0 .. N /\ k - 1 # n + 1
      BY <1>2
    <3>2. g[k - 1] = f[k - 1]
      BY <3>1
    <3>3. CASE k = n + 1
      BY <3>1, <3>2, <3>3
    <3>4. CASE k # n + 1
      <4>1. k \in 1 .. n
        BY <3>4
      <4> QED BY <2>1, <3>1, <3>2, <3>4, <4>1 DEF Recursive
    <3> QED BY <3>3, <3>4
  <2> HIDE DEF g
  <2>7. Recursive(g, n + 1, v, step)
    BY <2>5, <2>6 DEF Recursive
  <2> QED BY <2>2, <2>4, <2>7
<1> HIDE DEF T
<1>3. N \in T
  BY <1>1, <1>2, CountingUp
<1> QED BY <1>3 DEF T

\* ... and is determined by its equations.
LEMMA RecursionUnique ==
    ASSUME NEW N \in Nat, NEW v, NEW step, NEW f, NEW g,
           Recursive(f, N, v, step), Recursive(g, N, v, step)
    PROVE  \A n \in 0 .. N : f[n] = g[n]
<1> DEFINE T == {n \in 0 .. N : f[n] = g[n]}
<1>1. 0 \in T
  BY DEF Recursive
<1>2. ASSUME NEW n \in 0 .. N, n \in T, n < N
      PROVE  n + 1 \in T
  <2>1. n + 1 \in 1 .. N /\ n + 1 \in 0 .. N /\ (n + 1) - 1 = n
    BY <1>2
  <2>2. f[n + 1] = step[<<n + 1, f[n]>>] /\ g[n + 1] = step[<<n + 1, g[n]>>]
    BY <2>1 DEF Recursive
  <2> QED BY <1>2, <2>1, <2>2
<1> HIDE DEF T
<1>3. \A n \in 0 .. N : n \in T
  BY <1>1, <1>2, CountingUp
<1> QED BY <1>3 DEF T
=============================================================================
