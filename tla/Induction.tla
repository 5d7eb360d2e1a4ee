----------------------------- MODULE Induction -----------------------------
(***************************************************************************)
(* Induction and recursion over data, stated for sets and functions, so    *)
(* that the provers can use them: that a set of numbers has a smallest     *)
(* element, and that a function whose value at each point depends on its   *)
(* values at points of smaller rank exists.                                *)
(***************************************************************************)
EXTENDS Integers, WellFoundedInduction, TLAPS

\* A set of natural numbers has a smallest element: that a loop or a recursive function
\* does what it should is proved by looking at the first number for which it does not.
LEMMA LeastNumber ==
    ASSUME NEW S \in SUBSET Nat, S # {}
    PROVE  \E n \in S : \A m \in S : n <= m
<1> DEFINE R == {ss \in Nat \X Nat : ss[1] < ss[2]}
<1>1. OpToRel(<, Nat) = R
  BY DEF OpToRel
<1>2. IsWellFoundedOn(R, Nat)
  BY <1>1, NatLessThanWellFounded, Zenon
<1>3. PICK n \in S : \A m \in S : ~(<<m, n>> \in R)
  <2> HIDE DEF R
  <2> QED
    BY <1>2, WFMin
<1>4. \A m \in S : m < n => <<m, n>> \in R
  OBVIOUS
<1>5. ASSUME NEW m \in S
      PROVE  n <= m
  <2>1. m \in Nat /\ n \in Nat
    OBVIOUS
  <2>2. ~(m < n)
    BY <1>3, <1>4, Zenon
  <2> QED
    BY <2>1, <2>2
<1> QED
  BY <1>5

\* Induction over the natural numbers, for the set of those for which something holds.
LEMMA AllNumbers ==
    ASSUME NEW S, 0 \in S, \A n \in Nat : n \in S => n + 1 \in S
    PROVE  Nat \subseteq S
<1> SUFFICES ASSUME Nat \ S # {}
             PROVE  FALSE
  OBVIOUS
<1>1. PICK n \in Nat \ S : \A m \in Nat \ S : n <= m
  BY LeastNumber
<1>2. n # 0 /\ n - 1 \in Nat /\ n - 1 \in S
  BY <1>1
<1> QED
  BY <1>1, <1>2

\* The same for the numbers up to a bound.
LEMMA AllUpTo ==
    ASSUME NEW S, NEW a \in Int, NEW b \in Int, a \in S,
           \A n \in a..(b - 1) : n \in S => n + 1 \in S
    PROVE  a..b \subseteq S
<1> DEFINE T == {n \in Nat : a + n <= b => a + n \in S}
<1>1. 0 \in T
  OBVIOUS
<1>2. \A n \in Nat : n \in T => n + 1 \in T
  OBVIOUS
<1>3. Nat \subseteq T
  BY <1>1, <1>2, AllNumbers
<1>4. ASSUME NEW n \in a..b
      PROVE  n \in S
  <2>1. n - a \in T
    BY <1>3
  <2> QED
    BY <2>1
<1> QED
  BY <1>4

\* The same for a set whose elements have ranks: something holds for all of them if it
\* holds for each for which it holds below.
LEMMA ByRank ==
    ASSUME NEW S, NEW rank \in [S -> Nat], NEW T,
           \A s \in S : (\A t \in S : rank[t] < rank[s] => t \in T) => s \in T
    PROVE  S \subseteq T
<1> DEFINE Bad == {rank[s] : s \in S \ T}
<1> SUFFICES ASSUME Bad # {}
             PROVE  FALSE
  OBVIOUS
<1>1. Bad \in SUBSET Nat
  OBVIOUS
<1>2. PICK r \in Bad : \A q \in Bad : r <= q
  <2> HIDE DEF Bad
  <2> QED
    BY <1>1, LeastNumber
<1>3. PICK s \in S \ T : rank[s] = r
  OBVIOUS
<1>4. ASSUME NEW t \in S, rank[t] < rank[s], t \notin T
      PROVE  FALSE
  <2>1. rank[t] \in Bad /\ rank[t] \in Nat /\ r \in Nat
    BY <1>3, <1>4
  <2> HIDE DEF Bad
  <2> QED
    BY <1>2, <1>3, <1>4, <2>1
<1> HIDE DEF Bad
<1> QED
  BY <1>3, <1>4

\* The value of D at s and f is in V, and depends on f only at places of smaller rank.
DependsBelow(S, V, rank, D) ==
    /\ rank \in [S -> Nat]
    /\ V # {}
    /\ \A s \in S : \A g \in [S -> V] : D[s][g] \in V
    /\ \A s \in S : \A g, h \in [S -> V] :
          (\A t \in S : rank[t] < rank[s] => g[t] = h[t]) => D[s][g] = D[s][h]

Satisfies(f, S, V, D) == f \in [S -> V] /\ \A s \in S : f[s] = D[s][f]

\* Such a D defines a function. (A recursive definition f[s \in S] == ... chooses one that
\* satisfies its equation, if there is one.)
LEMMA Recursion ==
    ASSUME NEW S, NEW V, NEW rank, NEW D, DependsBelow(S, V, rank, D)
    PROVE  \E f : Satisfies(f, S, V, D)
<1> rank \in [S -> Nat] /\ V # {}
  BY DEF DependsBelow
<1> \A s \in S : \A g \in [S -> V] : D[s][g] \in V
  BY DEF DependsBelow
<1> \A s \in S : \A g, h \in [S -> V] :
      (\A t \in S : rank[t] < rank[s] => g[t] = h[t]) => D[s][g] = D[s][h]
  BY DEF DependsBelow
<1> DEFINE Good(n, g) == \A s \in S : rank[s] < n => g[s] = D[s][g]
<1>1. ASSUME NEW m \in Nat, NEW n \in Nat, m <= n,
             NEW g \in [S -> V], NEW h \in [S -> V], Good(m, g), Good(n, h)
      PROVE  \A s \in S : rank[s] < m => g[s] = h[s]
  <2> DEFINE Bad == {rank[s] : s \in {t \in S : rank[t] < m /\ g[t] # h[t]}}
  <2> SUFFICES ASSUME Bad # {}
               PROVE  FALSE
    OBVIOUS
  <2>1. Bad \in SUBSET Nat
    OBVIOUS
  <2>2. PICK r \in Bad : \A q \in Bad : r <= q
    <3> HIDE DEF Bad
    <3> QED
      BY <2>1, LeastNumber
  <2>3. PICK s \in S : rank[s] = r /\ rank[s] < m /\ g[s] # h[s]
    OBVIOUS
  <2>4. \A t \in S : rank[t] < rank[s] => g[t] = h[t]
    <3> SUFFICES ASSUME NEW t \in S, rank[t] < rank[s], g[t] # h[t]
                 PROVE  FALSE
      OBVIOUS
    <3>1. rank[t] \in Nat /\ rank[s] \in Nat /\ rank[t] < m
      BY <2>3
    <3>2. rank[t] \in Bad
      BY <3>1
    <3> HIDE DEF Bad
    <3>3. r <= rank[t]
      BY <3>2, <2>2
    <3> QED
      BY <3>1, <3>3, <2>3
  <2>5. g[s] = D[s][g] /\ h[s] = D[s][h]
    BY <1>1, <2>3
  <2> QED
    BY <2>3, <2>4, <2>5
<1>2. \A n \in Nat : \E g \in [S -> V] : Good(n, g)
  <2> DEFINE T == {n \in Nat : \E g \in [S -> V] : Good(n, g)}
  <2>1. 0 \in T
    <3>1. PICK v : v \in V
      OBVIOUS
    <3>2. [s \in S |-> v] \in [S -> V]
      BY <3>1
    <3>3. Good(0, [s \in S |-> v])
      OBVIOUS
    <3> HIDE DEF Good
    <3> QED
      BY <3>2, <3>3
  <2>2. ASSUME NEW n \in Nat, n \in T
        PROVE  n + 1 \in T
    <3>1. PICK g \in [S -> V] : Good(n, g)
      BY <2>2
    <3> DEFINE h == [s \in S |-> IF rank[s] = n THEN D[s][g] ELSE g[s]]
    <3>2. h \in [S -> V]
      OBVIOUS
    <3>3. ASSUME NEW s \in S, rank[s] < n + 1
          PROVE  h[s] = D[s][h]
      <4>1. rank[s] \in Nat /\ rank[s] <= n
        BY <3>3
      <4>2. \A t \in S : rank[t] < rank[s] => g[t] = h[t]
        <5> SUFFICES ASSUME NEW t \in S, rank[t] < rank[s]
                     PROVE  g[t] = h[t]
          OBVIOUS
        <5>1. rank[t] \in Nat
          OBVIOUS
        <5>2. rank[t] # n
          <6> HIDE DEF h, Good, T
          <6> QED
            BY <4>1, <5>1
        <5> QED
          BY <5>2
      <4>3. D[s][g] = D[s][h]
        <5> HIDE DEF h
        <5> QED
          BY <3>2, <4>2
      <4>4. CASE rank[s] = n
        BY <4>3, <4>4
      <4>5. CASE rank[s] < n
        BY <3>1, <4>3, <4>5
      <4> HIDE DEF h
      <4>6. rank[s] = n \/ rank[s] < n
        BY ONLY <4>1, n \in Nat
      <4> QED
        BY <4>4, <4>5, <4>6
    <3>4. Good(n + 1, h)
      <4> HIDE DEF h
      <4> QED
        BY <3>3
    <3> HIDE DEF Good, h
    <3> QED
      BY <3>2, <3>4
  <2>3. Nat \subseteq T
    <3> HIDE DEF T
    <3> QED
      BY <2>1, <2>2, AllNumbers
  <2> HIDE DEF Good
  <2> QED
    BY <2>3
<1> DEFINE G(n) == CHOOSE g \in [S -> V] : Good(n, g)
           f == [s \in S |-> G(rank[s] + 1)[s]]
<1>3. \A n \in Nat : G(n) \in [S -> V] /\ Good(n, G(n))
  <2> HIDE DEF Good
  <2> QED
    BY <1>2
<1>4. f \in [S -> V]
  <2> HIDE DEF G
  <2> QED
    BY <1>3
<1>5. ASSUME NEW s \in S
      PROVE  f[s] = D[s][f]
  <2> DEFINE g == G(rank[s] + 1)
  <2>1. rank[s] \in Nat /\ g \in [S -> V] /\ Good(rank[s] + 1, g)
    <3> HIDE DEF Good, G
    <3> QED
      BY <1>3
  <2>2. f[s] = g[s] /\ g[s] = D[s][g]
    <3> HIDE DEF G
    <3> QED
      BY <2>1
  <2>3. ASSUME NEW t \in S, rank[t] < rank[s]
        PROVE  g[t] = f[t]
    <3>1. rank[t] \in Nat /\ rank[t] + 1 \in Nat /\ rank[s] + 1 \in Nat /\ rank[t] + 1 <= rank[s] + 1
      BY <2>1, <2>3
    <3>2. G(rank[t] + 1) \in [S -> V] /\ Good(rank[t] + 1, G(rank[t] + 1))
      <4> HIDE DEF Good, G
      <4> QED
        BY <1>3, <3>1
    <3>3. G(rank[t] + 1)[t] = g[t]
      <4> HIDE DEF Good, G, g
      <4>1. \A q \in S : rank[q] < rank[t] + 1 => G(rank[t] + 1)[q] = g[q]
        BY <1>1, <2>1, <3>1, <3>2
      <4> QED
        BY <4>1, <3>1
    <3> HIDE DEF G, g
    <3> QED
      BY <3>3 DEF f
  <2>4. D[s][g] = D[s][f]
    <3> HIDE DEF g, f
    <3> QED
      BY <1>4, <2>1, <2>3
  <2> QED
    BY <2>2, <2>4
<1> HIDE DEF f
<1>6. Satisfies(f, S, V, D)
  BY <1>4, <1>5 DEF Satisfies
<1> QED
  BY <1>6

\* The case of a loop: each value is made from the one before.
Iterates(f, n, V, base, step) ==
    /\ f \in [0..n -> V]
    /\ f[0] = base
    /\ \A k \in 1..n : f[k] = step[k][f[k - 1]]

LEMMA Iteration ==
    ASSUME NEW n \in Nat, NEW V, NEW base \in V, NEW step \in [1..n -> [V -> V]]
    PROVE  \E f : Iterates(f, n, V, base, step)
<1> DEFINE S == 0..n
           E(f, k) == IF k = 0 THEN base ELSE step[k][f[k - 1]]
           rank == [k \in S |-> k]
           D == [k \in S |-> [f \in [S -> V] |-> E(f, k)]]
<1>1. rank \in [S -> Nat] /\ \A k \in S : rank[k] = k
  OBVIOUS
<1>2. \A k \in S : k # 0 => k - 1 \in S /\ rank[k - 1] < rank[k] /\ k \in 1..n
  OBVIOUS
<1>3. \A k \in S : \A f \in [S -> V] : E(f, k) \in V
  <2> SUFFICES ASSUME NEW k \in S, NEW f \in [S -> V], k # 0
               PROVE  step[k][f[k - 1]] \in V
    OBVIOUS
  <2>1. f[k - 1] \in V /\ k \in 1..n
    <3> HIDE DEF S
    <3> QED
      BY <1>2
  <2> QED
    BY <2>1
<1>4. \A k \in S : \A f \in [S -> V] : D[k][f] = E(f, k) /\ D[k][f] \in V
  <2> HIDE DEF S, E
  <2> QED
    BY <1>3
<1>5. \A k \in S : \A f, g \in [S -> V] :
        (\A j \in S : rank[j] < rank[k] => f[j] = g[j]) => E(f, k) = E(g, k)
  <2> HIDE DEF S, rank
  <2> QED
    BY <1>2
<1>6. \A k \in S : \A f, g \in [S -> V] :
        (\A j \in S : rank[j] < rank[k] => f[j] = g[j]) => D[k][f] = D[k][g]
  <2> HIDE DEF S, rank, E, D
  <2> QED
    BY <1>4, <1>5
<1>7. \E f : Satisfies(f, S, V, D)
  <2> HIDE DEF S, rank, D
  <2>1. DependsBelow(S, V, rank, D)
    BY <1>1, <1>4, <1>6 DEF DependsBelow
  <2> QED
    BY ONLY <2>1, Recursion, Zenon
<1>8. PICK f : f \in [S -> V] /\ \A k \in S : f[k] = E(f, k)
  <2> HIDE DEF S, D, E
  <2> QED
    BY <1>4, <1>7 DEF Satisfies
<1>9. f[0] = base
  BY <1>8
<1>10. \A k \in 1..n : f[k] = step[k][f[k - 1]]
  BY <1>8
<1>11. Iterates(f, n, V, base, step)
  BY <1>8, <1>9, <1>10 DEF Iterates
<1> QED
  BY <1>11

\* The same from the end on: each value is made from the next one.
Backwards(f, n, V, base, step) ==
    /\ f \in [1..(n + 1) -> V]
    /\ f[n + 1] = base
    /\ \A k \in 1..n : f[k] = step[k][f[k + 1]]

LEMMA BackwardIteration ==
    ASSUME NEW n \in Nat, NEW V, NEW base \in V, NEW step \in [1..n -> [V -> V]]
    PROVE  \E f : Backwards(f, n, V, base, step)
<1> DEFINE turned == [j \in 1..n |-> step[(n + 1) - j]]
<1>1. turned \in [1..n -> [V -> V]]
  <2>1. \A j \in 1..n : (n + 1) - j \in 1..n
    OBVIOUS
  <2> QED
    BY <2>1
<1>2. PICK g : Iterates(g, n, V, base, turned)
  <2> HIDE DEF turned
  <2> QED
    BY <1>1, Iteration
<1> DEFINE f == [k \in 1..(n + 1) |-> g[(n + 1) - k]]
<1>3. f \in [1..(n + 1) -> V]
  <2>1. g \in [0..n -> V]
    BY <1>2 DEF Iterates
  <2>2. \A k \in 1..(n + 1) : (n + 1) - k \in 0..n
    OBVIOUS
  <2>3. \A k \in 1..(n + 1) : g[(n + 1) - k] \in V
    BY <2>1, <2>2
  <2> QED
    BY <2>3
<1>4. f[n + 1] = base
  <2>1. g[0] = base
    BY <1>2 DEF Iterates
  <2> QED
    BY <2>1
<1>5. ASSUME NEW k \in 1..n
      PROVE  f[k] = step[k][f[k + 1]]
  <2> DEFINE j == (n + 1) - k
  <2>1. j \in 1..n /\ (n + 1) - j = k /\ (n + 1) - (k + 1) = j - 1 /\ k + 1 \in 1..(n + 1)
    OBVIOUS
  <2>2. g[j] = turned[j][g[j - 1]]
    <3> HIDE DEF turned, j
    <3> QED
      BY <1>2, <2>1 DEF Iterates
  <2>3. turned[j] = step[k]
    <3> HIDE DEF j
    <3> QED
      BY <2>1
  <2>4. f[k] = g[j] /\ f[k + 1] = g[j - 1]
    BY <2>1
  <2> HIDE DEF f, j, turned
  <2> QED
    BY <2>2, <2>3, <2>4
<1> HIDE DEF f
<1>6. Backwards(f, n, V, base, step)
  BY <1>3, <1>4, <1>5 DEF Backwards
<1> QED
  BY <1>6

\* A set that holds the end, and each number the next one of which it holds.
LEMMA AllDownTo ==
    ASSUME NEW n \in Nat, NEW S, n + 1 \in S, \A k \in 1..n : k + 1 \in S => k \in S
    PROVE  1..(n + 1) \subseteq S
<1> DEFINE T == {j \in Nat : j <= n => (n + 1) - j \in S}
<1>1. 0 \in T
  OBVIOUS
<1>2. ASSUME NEW j \in Nat, j \in T
      PROVE  j + 1 \in T
  <2> SUFFICES ASSUME j + 1 <= n
               PROVE  (n + 1) - (j + 1) \in S
    OBVIOUS
  <2>1. (n + 1) - j \in S
    BY <1>2
  <2>2. (n + 1) - (j + 1) \in 1..n /\ ((n + 1) - (j + 1)) + 1 = (n + 1) - j
    OBVIOUS
  <2> QED
    BY <2>1, <2>2
<1>3. Nat \subseteq T
  <2> HIDE DEF T
  <2> QED
    BY <1>1, <1>2, AllNumbers
<1>4. ASSUME NEW k \in 1..(n + 1)
      PROVE  k \in S
  <2>1. (n + 1) - k \in Nat /\ (n + 1) - k <= n /\ (n + 1) - ((n + 1) - k) = k
    OBVIOUS
  <2>2. (n + 1) - k \in T
    BY <1>3, <2>1
  <2> DEFINE j == (n + 1) - k
  <2>3. j <= n => (n + 1) - j \in S
    BY <2>2
  <2> QED
    BY <2>1, <2>3
<1> QED
  BY <1>4

=============================================================================
