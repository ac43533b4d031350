----------------------------- MODULE Arithmetic -----------------------------
(***************************************************************************)
(* Facts about division, products, least elements, induction and recursion *)
(* that the proofs share.                                                  *)
(***************************************************************************)
EXTENDS Integers, FiniteSetTheorems, WellFoundedInduction, TLAPS

\* Integer division, bounded on both sides.
LEMMA DivBounds ==
  ASSUME NEW p \in Nat \ {0}, NEW a \in Int
  PROVE  /\ a \div p \in Int
         /\ p * (a \div p) <= a
         /\ a < p * (a \div p) + p
  BY SMTT(30)

\* A quotient of a non-negative number is non-negative.
LEMMA DivNat ==
  ASSUME NEW p \in Nat \ {0}, NEW a \in Nat
  PROVE  a \div p \in Nat
  BY SMTT(30)

\* Quotient and remainder.
LEMMA DivMod ==
  ASSUME NEW p \in Nat \ {0}, NEW a \in Nat
  PROVE  a % p \in 0 .. p - 1 /\ a = p * (a \div p) + (a % p)
  BY SMTT(30)

\* Division undoes multiplication.
LEMMA DivOfProduct ==
  ASSUME NEW p \in Nat \ {0}, NEW i \in Int
  PROVE  (i * p) \div p = i /\ (i * p) % p = 0
  BY SMTT(30)

\* A product is ordered as its factors are and distributes over sums.
LEMMA ProductOrder ==
  ASSUME NEW p \in Nat \ {0}, NEW a \in Int, NEW b \in Int
  PROVE  /\ p * a \in Int
         /\ p * a < p * b <=> a < b
         /\ p * (a + b) = p * a + p * b
         /\ p * (a - b) = p * a - p * b
  BY SMTT(30)

\* The quotient of p * a and less than another p is a.
LEMMA QuotientUnique ==
  ASSUME NEW p \in Nat \ {0}, NEW a \in Int, NEW r \in 0 .. p - 1
  PROVE  (p * a + r) \div p = a
<1>1. p * a + r \in Int
  BY ProductOrder
<1> DEFINE q == (p * a + r) \div p
<1>2. q \in Int /\ p * q <= p * a + r /\ p * a + r < p * q + p
  BY <1>1, DivBounds
<1> HIDE DEF q
<1>3. p * q < p * (a + 1) /\ p * a < p * (q + 1)
  BY <1>2, ProductOrder
<1>4. q < a + 1 /\ a < q + 1
  BY <1>2, <1>3, ProductOrder
<1> QED
  BY <1>2, <1>4 DEF q

\* A product is a natural number and grows with its factor, by d at least.
LEMMA Products ==
  ASSUME NEW d \in Nat \ {0}, NEW i \in Nat, NEW j \in Nat
  PROVE  /\ i * d \in Nat /\ d * i = i * d /\ i <= i * d
         /\ i < j <=> i * d < j * d
         /\ (i + j) * d = i * d + j * d
         /\ (i + 1) * d = i * d + d
  BY SMTT(30)

\* The numbers with quotient i are the d numbers from i * d on.
LEMMA QuotientIs ==
  ASSUME NEW d \in Nat \ {0}, NEW i \in Nat, NEW v \in Nat
  PROVE  v \div d = i <=> i * d <= v /\ v < i * d + d
<1> DEFINE q == v \div d
<1>1. q \in Nat /\ d * q <= v /\ v < d * q + d
  BY DivBounds, DivNat
<1> HIDE DEF q
<1>2. /\ d * q = q * d
      /\ q + 1 \in Nat /\ (q + 1) * d = q * d + d
      /\ i + 1 \in Nat /\ (i + 1) * d = i * d + d
  BY <1>1, Products
<1>3. ASSUME i * d <= v, v < i * d + d  PROVE q = i
  <2>1. i * d < (q + 1) * d /\ q * d < (i + 1) * d
    <3>1. i * d \in Nat /\ q * d \in Nat
      BY <1>1, Products
    <3> QED
      BY <1>1, <1>2, <1>3, <3>1
  <2>2. i < q + 1 /\ q < i + 1
    BY <1>1, <1>2, <2>1, Products
  <2> QED
    BY <1>1, <2>2
<1> QED
  BY <1>1, <1>2, <1>3 DEF q

\* A set of natural numbers has a least element.
LEMMA LeastNat ==
  ASSUME NEW T \in SUBSET Nat, T # {}
  PROVE  \E x \in T : \A y \in T : x <= y
<1> DEFINE U == {0 .. x - 1 : x \in T}
<1>1. U \subseteq FiniteSubsetsOf(Nat) /\ U # {}
  <2>1. \A x \in T : 0 .. x - 1 \in SUBSET Nat /\ IsFiniteSet(0 .. x - 1)
    BY FS_Interval
  <2> QED
    BY <2>1 DEF FiniteSubsetsOf
<1>2. PICK m \in U : \A u \in U : ~ (<<u, m>> \in StrictSubsetOrdering(Nat))
  BY <1>1, FS_StrictSubsetOrderingWellFounded, WFMin
<1>3. PICK x \in T : m = 0 .. x - 1
  BY <1>2
<1>4. ASSUME NEW y \in T, y < x  PROVE FALSE
  <2>1. 0 .. y - 1 \subseteq m /\ y \in m /\ y \notin 0 .. y - 1
    BY <1>3, <1>4
  <2>2. <<0 .. y - 1, m>> \in StrictSubsetOrdering(Nat)
    BY <1>1, <2>1 DEF StrictSubsetOrdering, FiniteSubsetsOf
  <2> QED
    BY <1>2, <2>2
<1> QED
  BY <1>4

\* A set that holds 0 and with each number the next holds all up to N.
LEMMA Induction ==
  ASSUME NEW N \in Nat, NEW T, 0 \in T, \A k \in 0 .. N - 1 : k \in T => k + 1 \in T
  PROVE  \A k \in 0 .. N : k \in T
<1> DEFINE Bad == {k \in 0 .. N : k \notin T}
<1> SUFFICES ASSUME Bad # {}  PROVE FALSE
  OBVIOUS
<1>1. PICK n \in Bad : \A j \in Bad : n <= j
  <2>1. Bad \in SUBSET Nat
    OBVIOUS
  <2> HIDE DEF Bad
  <2> QED
    BY <2>1, LeastNat
<1>2. n \in 0 .. N /\ n \notin T /\ n # 0
  OBVIOUS
<1>3. n - 1 \in 0 .. N - 1 /\ n - 1 \in 0 .. N /\ ~ (n <= n - 1) /\ (n - 1) + 1 = n
  BY <1>2
<1>4. n - 1 \in T
  BY <1>1, <1>3
<1> QED
  BY <1>2, <1>3, <1>4

\* g is N steps from base, each by a function of its own on S.
Iterates(g, S, base, N, step) ==
  g \in [0 .. N -> S] /\ g[0] = base /\ \A k \in 1 .. N : g[k] = step[k][g[k - 1]]

\* Recursion: the steps define a function.
LEMMA Recursion ==
  ASSUME NEW S, NEW base \in S, NEW N \in Nat, NEW step \in [1 .. N -> [S -> S]]
  PROVE  \E g : Iterates(g, S, base, N, step)
<1> DEFINE G(g, n) == /\ g \in [0 .. n -> S] /\ g[0] = base
                      /\ \A k \in 1 .. n : g[k] = step[k][g[k - 1]]
           T == {n \in 0 .. N : \E g : G(g, n)}
<1>1. 0 \in T
  <2> DEFINE h == [k \in 0 .. 0 |-> base]
  <2>1. G(h, 0) /\ 0 \in 0 .. N
    OBVIOUS
  <2> HIDE DEF G, h
  <2> QED
    BY <2>1
<1>2. ASSUME NEW n \in 0 .. N - 1, n \in T  PROVE n + 1 \in T
  <2>1. PICK g : G(g, n)
    BY <1>2
  <2> DEFINE h == [k \in 0 .. n + 1 |-> IF k = n + 1 THEN step[n + 1][g[n]] ELSE g[k]]
  <2>2. n \in 0 .. n /\ n + 1 \in 1 .. N /\ g[n] \in S
    BY <2>1
  <2>3. step[n + 1][g[n]] \in S
    BY <2>2
  <2>4. h \in [0 .. n + 1 -> S] /\ h[0] = base
    BY <2>1, <2>3
  <2>5. ASSUME NEW k \in 1 .. n + 1  PROVE h[k] = step[k][h[k - 1]]
    <3>1. CASE k = n + 1
      BY <3>1
    <3>2. CASE k # n + 1
      <4>1. k \in 1 .. n /\ k \in 0 .. n + 1 /\ k - 1 \in 0 .. n + 1 /\ k - 1 # n + 1
        BY <3>2
      <4>2. h[k] = g[k] /\ h[k - 1] = g[k - 1] /\ g[k] = step[k][g[k - 1]]
        BY <2>1, <3>2, <4>1
      <4> QED
        BY <4>2
    <3> QED
      BY <3>1, <3>2
  <2> HIDE DEF h
  <2>6. G(h, n + 1)
    BY <2>4, <2>5
  <2> QED
    BY <2>6
<1>3. N \in T
  <2> HIDE DEF T
  <2>1. \A k \in 0 .. N : k \in T
    BY <1>1, <1>2, Induction
  <2> QED
    BY <2>1
<1> QED
  BY <1>3 DEF Iterates
=============================================================================
