---------------------------- MODULE OptionsProofs ----------------------------
(***************************************************************************)
(* Proofs about GetoptLong and Options for command lines of any length:    *)
(* what permute_args does with two blocks of any size, where the words     *)
(* stand while getopt_long looks at them, that it hands out what they say  *)
(* one after the other, and what main makes of that. Startup's theorems    *)
(* about the whole of nihtest's start rest on them (StartupProofs).        *)
(***************************************************************************)
EXTENDS Options, Induction, SequenceTheorems, FiniteSetTheorems, TLAPS

-----------------------------------------------------------------------------
(* Multiples, and Euclid's algorithm *)

LEMMA Multiples ==
    ASSUME NEW n \in Nat \ {0}, NEW a \in Int, NEW b \in Int, NEW m \in Int, a - b = n * m,
           a - b < n, b - a < n
    PROVE  a = b
<1>1. CASE m >= 1
  <2>1. n * m >= n
    BY <1>1
  <2>. QED
    BY <2>1
<1>2. CASE m <= -1
  <2>1. n * m <= -n
    BY <1>2
  <2>. QED
    BY <2>1
<1>3. CASE m = 0
  BY <1>3
<1>. QED
  BY <1>1, <1>2, <1>3

LEMMA Division ==
    ASSUME NEW a \in Int, NEW n \in Nat \ {0}
    PROVE  \E d \in Int, r \in 0..(n - 1) : d = a \div n /\ r = a % n /\ a = n * d + r
<1>1. a \div n \in Int
  OBVIOUS
<1>2. a % n \in 0..(n - 1)
  OBVIOUS
<1>3. a = n * (a \div n) + (a % n)
  OBVIOUS
<1>. QED
  BY <1>1, <1>2, <1>3

Divided(a, n, d, r) == r \in 0..(n - 1) /\ a = n * d + r

LEMMA DividedIs ==
    ASSUME NEW a \in Int, NEW n \in Nat \ {0}
    PROVE  \E d, r \in Int : Divided(a, n, d, r)
<1>1. PICK d \in Int, r \in 0..(n - 1) : a = n * d + r
  BY Division
<1>2. Divided(a, n, d, r) /\ r \in Int
  BY <1>1 DEF Divided
<1>. QED
  BY <1>2

LEMMA Remainder ==
    ASSUME NEW a \in Int, NEW n \in Nat \ {0}
    PROVE  a % n \in 0..(n - 1) /\ \E m \in Int : a % n = a - n * m
<1>1. PICK d \in Int, r \in 0..(n - 1) : d = a \div n /\ r = a % n /\ a = n * d + r
  BY Division
<1>2. r = a - n * d
  <2>1. n * d \in Int
    OBVIOUS
  <2>. QED
    BY <1>1, <2>1
<1>. QED
  BY <1>1, <1>2

LEMMA GcdRecurs ==
    ASSUME NEW a \in Nat, NEW b \in Nat \ {0}
    PROVE  Gcd(a, b) = IF a % b = 0 THEN b ELSE Gcd(b, a % b)
<1>. DEFINE V == Nat \ {0}
            S == Nat \X V
            E(f, s) == IF s[1] % s[2] = 0 THEN s[2] ELSE f[<<s[2], s[1] % s[2]>>]
            rank == [s \in S |-> s[2]]
            D == [s \in S |-> [f \in [S -> V] |-> E(f, s)]]
<1>1. rank \in [S -> Nat] /\ \A s \in S : rank[s] = s[2]
  OBVIOUS
<1>2. ASSUME NEW s \in S, s[1] % s[2] # 0
      PROVE  <<s[2], s[1] % s[2]>> \in S /\ rank[<<s[2], s[1] % s[2]>>] < rank[s]
  <2>1. s[1] \in Nat /\ s[2] \in V
    OBVIOUS
  <2>2. s[1] % s[2] \in 0..(s[2] - 1)
    BY <2>1
  <2>. QED
    BY <1>2, <2>1, <2>2
<1>3. \A s \in S : \A f \in [S -> V] : D[s][f] = E(f, s) /\ E(f, s) \in V
  <2>1. \A s \in S : \A f \in [S -> V] : E(f, s) \in V
    <3>. SUFFICES ASSUME NEW s \in S, NEW f \in [S -> V]
                  PROVE  E(f, s) \in V
      OBVIOUS
    <3>1. CASE s[1] % s[2] # 0
      <4>1. <<s[2], s[1] % s[2]>> \in S
        BY <1>2, <3>1
      <4>2. f[<<s[2], s[1] % s[2]>>] \in V
        <5>. HIDE DEF S, V
        <5>. QED
          BY <4>1
      <4>. QED
        BY <3>1, <4>2
    <3>2. CASE s[1] % s[2] = 0
      BY <3>2
    <3>. QED
      BY <3>1, <3>2
  <2>. HIDE DEF S, E
  <2>. QED
    BY <2>1
<1>4. \A s \in S : \A f, g \in [S -> V] :
        (\A t \in S : rank[t] < rank[s] => f[t] = g[t]) => D[s][f] = D[s][g]
  <2>. SUFFICES ASSUME NEW s \in S, NEW f \in [S -> V], NEW g \in [S -> V],
                       \A t \in S : rank[t] < rank[s] => f[t] = g[t]
                PROVE  E(f, s) = E(g, s)
    <3>. HIDE DEF S, E, V, D, rank
    <3>. QED
      BY <1>3
  <2>1. CASE s[1] % s[2] # 0
    <3>1. f[<<s[2], s[1] % s[2]>>] = g[<<s[2], s[1] % s[2]>>]
      <4>. HIDE DEF S, rank
      <4>. QED
        BY <1>2, <2>1
    <3>. QED
      BY <2>1, <3>1
  <2>2. CASE s[1] % s[2] = 0
    BY <2>2
  <2>. QED
    BY <2>1, <2>2
<1>5. PICK f \in [S -> V] : \A s \in S : f[s] = D[s][f]
  <2>. V # {}
    OBVIOUS
  <2>. HIDE DEF S, D, rank, E, V
  <2>1. DependsBelow(S, V, rank, D)
    BY <1>1, <1>3, <1>4 DEF DependsBelow
  <2>2. \E solution : Satisfies(solution, S, V, D)
    BY ONLY <2>1, Recursion, Zenon
  <2>. QED
    BY <2>2 DEF Satisfies
<1>6. f = [s \in S |-> E(f, s)]
  <2>. HIDE DEF S, E, V
  <2>. QED
    BY <1>5, <1>3
<1>. DEFINE G == CHOOSE g : g = [s \in S |-> E(g, s)]
<1>7. G = [s \in S |-> E(G, s)]
  <2>. HIDE DEF S, E
  <2>. QED
    BY <1>6
<1>8. \A s \in S : Gcd(s[1], s[2]) = G[s]
  BY DEF Gcd
<1>9. G[<<a, b>>] = E(G, <<a, b>>)
  BY <1>7
<1>10. a % b # 0 => G[<<b, a % b>>] = Gcd(b, a % b)
  <2>1. a % b # 0 => <<b, a % b>> \in S
    BY <1>2
  <2>. QED
    BY <1>8, <2>1
<1>. QED
  BY <1>8, <1>9, <1>10

IsGcd(g, a, b) ==
    /\ g \in Nat \ {0}
    /\ \E m \in Nat : a = g * m
    /\ \E m \in Nat : b = g * m
    /\ \E x, y \in Int : x * a + y * b = g

LEMMA GcdStep ==
    ASSUME NEW a \in Nat, NEW b \in Nat \ {0}, NEW g, IsGcd(g, b, a % b)
    PROVE  IsGcd(g, a, b)
<1>. DEFINE q == a \div b
            r == a % b
<1>1. q \in Nat /\ r \in Nat /\ a = b * q + r
  <2>1. a \div b \in Int /\ a % b \in 0..(b - 1) /\ a = b * (a \div b) + (a % b)
    OBVIOUS
  <2>2. a \div b >= 0
    OBVIOUS
  <2>. QED
    BY <2>1, <2>2
<1>. HIDE DEF q
<1>2. PICK m \in Nat : b = g * m
  BY DEF IsGcd
<1>3. PICK k \in Nat : r = g * k
  BY DEF IsGcd
<1>4. PICK x \in Int, y \in Int : x * b + y * r = g
  BY DEF IsGcd
<1>5. g \in Nat \ {0}
  BY DEF IsGcd
<1>. HIDE DEF r
<1>6. a = g * (m * q + k) /\ m * q + k \in Nat
  <2>1. b * q = g * (m * q)
    BY <1>1, <1>2, <1>5
  <2>2. m * q \in Nat
    BY <1>1
  <2>3. g * (m * q + k) = g * (m * q) + g * k
    BY <1>5, <2>2
  <2>. QED
    BY <1>1, <1>3, <2>1, <2>2, <2>3
<1>7. y * a + (x - y * q) * b = g
  <2>1. y * a = y * (b * q) + y * r
    BY <1>1
  <2>2. y * (b * q) = (y * q) * b /\ y * q \in Int
    BY <1>1
  <2>3. (x - y * q) * b = x * b - (y * q) * b
    BY <2>2
  <2>. QED
    BY <1>4, <2>1, <2>2, <2>3, <1>1
<1>8. y \in Int /\ x - y * q \in Int
  BY <1>1
<1>. QED
  BY <1>2, <1>5, <1>6, <1>7, <1>8 DEF IsGcd

\* gcd returns the greatest common divisor, which is a sum of multiples of both.
LEMMA GcdIs ==
    ASSUME NEW a \in Nat, NEW b \in Nat \ {0}
    PROVE  IsGcd(Gcd(a, b), a, b)
<1>. DEFINE S == Nat \ {0}
            rank == [n \in S |-> n]
            T == {n \in S : \A m \in Nat : IsGcd(Gcd(m, n), m, n)}
<1>1. ASSUME NEW n \in S, \A k \in S : rank[k] < rank[n] => k \in T
      PROVE  n \in T
  <2>. SUFFICES ASSUME NEW m \in Nat
                PROVE  IsGcd(Gcd(m, n), m, n)
    OBVIOUS
  <2>1. m % n \in 0..(n - 1)
    OBVIOUS
  <2>2. CASE m % n = 0
    <3>1. Gcd(m, n) = n
      BY <2>2, GcdRecurs
    <3>2. m = n * (m \div n) /\ m \div n \in Nat
      <4>1. m \div n \in Int /\ m \div n >= 0 /\ m = n * (m \div n) + (m % n)
        OBVIOUS
      <4>. QED
        BY <2>2, <4>1
    <3>3. n = n * 1 /\ 0 * m + 1 * n = n
      OBVIOUS
    <3>4. (\E k \in Nat : m = n * k) /\ (\E k \in Nat : n = n * k)
      BY <3>2, <3>3
    <3>5. \E x, y \in Int : x * m + y * n = n
      BY <3>3
    <3>. QED
      BY <3>1, <3>4, <3>5 DEF IsGcd
  <2>3. CASE m % n # 0
    <3>1. m % n \in S /\ m % n < n
      BY <2>1, <2>3
    <3>2. rank[m % n] < rank[n]
      BY <3>1
    <3>3. m % n \in T
      <4>. HIDE DEF rank, S, T
      <4>. QED
        BY <1>1, <3>1, <3>2
    <3>4. IsGcd(Gcd(n, m % n), n, m % n)
      BY <3>3
    <3>5. Gcd(m, n) = Gcd(n, m % n)
      BY <2>3, GcdRecurs
    <3>6. IsGcd(Gcd(m, n), n, m % n)
      BY <3>4, <3>5, Zenon
    <3>. QED
      BY <3>6, GcdStep
  <2>. QED
    BY <2>2, <2>3
<1>2. rank \in [S -> Nat]
  OBVIOUS
<1>3. S \subseteq T
  <2>. HIDE DEF S, T, rank
  <2>. QED
    BY <1>1, <1>2, ByRank
<1>. QED
  BY <1>3

-----------------------------------------------------------------------------
(* The cycles permute_args walks along, in two blocks of p and o words *)

\* g is a divisor of both, and a sum of multiples of p and of p + o.
Periods(p, o, g, a, b, u, v) ==
    /\ {p, o, g, a, b} \subseteq Nat \ {0}
    /\ {u, v} \subseteq Int
    /\ p = g * a /\ o = g * b
    /\ u * p + v * (p + o) = g

LEMMA PeriodsExist ==
    ASSUME NEW p \in Nat \ {0}, NEW o \in Nat \ {0}
    PROVE  \E a, b, u, v \in Int : Periods(p, o, Gcd(p, o), a, b, u, v)
<1>. DEFINE g == Gcd(p, o)
<1>0. IsGcd(g, p, o)
  BY GcdIs
<1>. HIDE DEF g
<1>1. PICK a \in Nat : p = g * a
  BY <1>0 DEF IsGcd
<1>2. PICK b \in Nat : o = g * b
  BY <1>0 DEF IsGcd
<1>3. PICK x \in Int, y \in Int : x * p + y * o = g
  BY <1>0 DEF IsGcd
<1>4. g \in Nat \ {0}
  BY <1>0 DEF IsGcd
<1>5. a # 0 /\ b # 0
  BY <1>1, <1>2, <1>4
<1>6. (x - y) * p + y * (p + o) = g /\ x - y \in Int
  <2>1. (x - y) * p = x * p - y * p /\ y * (p + o) = y * p + y * o
    OBVIOUS
  <2>2. x * p \in Int /\ y * p \in Int /\ y * o \in Int
    OBVIOUS
  <2>. QED
    BY <1>3, <2>1, <2>2
<1>7. Periods(p, o, g, a, b, x - y, y)
  BY <1>1, <1>2, <1>4, <1>5, <1>6 DEF Periods
<1>8. Periods(p, o, Gcd(p, o), a, b, x - y, y)
  BY <1>7 DEF g
<1>. QED
  BY <1>6, <1>8

LEMMA LengthOfCycles ==
    ASSUME NEW p, NEW o, NEW g, NEW a, NEW b, NEW u, NEW v, Periods(p, o, g, a, b, u, v)
    PROVE  p + o = g * (a + b) /\ (p + o) \div g = a + b /\ g <= o
<1>1. p \in Nat \ {0} /\ o \in Nat \ {0} /\ g \in Nat \ {0} /\ a \in Nat \ {0} /\ b \in Nat \ {0}
  BY DEF Periods
<1>2. p = g * a /\ o = g * b
  BY DEF Periods
<1>3. p + o = g * (a + b)
  BY <1>1, <1>2
<1>4. g * b >= g
  <2>1. b = 1 + (b - 1) /\ b - 1 \in Nat
    BY <1>1
  <2>2. g * (b - 1) \in Nat /\ g * b = g + g * (b - 1)
    BY <1>1, <2>1
  <2>. QED
    BY <1>1, <2>2
<1>5. ASSUME NEW n \in Nat, n = g * (a + b)
      PROVE  n \div g = a + b
  <2>1. PICK d \in Int, r \in 0..(g - 1) : d = n \div g /\ n = g * d + r
    BY <1>1, Division
  <2>2. r - 0 = g * (a + b - d)
    BY <1>1, <1>5, <2>1
  <2>3. r = 0
    <3>1. r \in Nat /\ r < g /\ a + b - d \in Int
      BY <1>1, <2>1
    <3>. QED
      BY <1>1, <2>2, <3>1, Multiples
  <2>4. g * d - g * (a + b) = g * (d - (a + b))
    BY <1>1, <2>1
  <2>5. d = a + b
    BY <1>1, <1>5, <2>1, <2>3, <2>4
  <2>. QED
    BY <2>1, <2>5
<1>. QED
  BY <1>1, <1>2, <1>3, <1>4, <1>5

\* Where the i-th step of cycle q is, counted from the beginning of the first block.
At(p, o, q, i) == (p + q - i * p) % (p + o)

Turns(p, o, q, i, m) == At(p, o, q, i) = p + q - i * p - (p + o) * m

LEMMA AtIs ==
    ASSUME NEW p \in Nat \ {0}, NEW o \in Nat \ {0}, NEW q \in Int, NEW i \in Int
    PROVE  /\ At(p, o, q, i) \in 0..(p + o - 1)
           /\ \E m \in Int : Turns(p, o, q, i, m)
<1>1. p + o \in Nat \ {0} /\ p + q - i * p \in Int
  OBVIOUS
<1>. DEFINE c == p + q - i * p
<1>. DEFINE n == p + o
<1>2. n \in Nat \ {0} /\ c \in Int
  BY <1>1
<1>3. At(p, o, q, i) = c % n
  BY DEF At
<1>. HIDE DEF c, n
<1>4. c % n \in 0..(n - 1) /\ \E m \in Int : c % n = c - n * m
  BY <1>2, Remainder
<1>5. At(p, o, q, i) \in 0..(n - 1) /\ \E m \in Int : At(p, o, q, i) = c - n * m
  BY <1>3, <1>4, Zenon
<1>6. At(p, o, q, i) \in 0..(p + o - 1)
  BY <1>5 DEF n
<1>7. PICK m \in Int : At(p, o, q, i) = c - n * m
  BY <1>5
<1>8. Turns(p, o, q, i, m)
  BY <1>7 DEF Turns, c, n
<1>. QED
  BY <1>6, <1>8

\* What is left between 0 and p + o is determined by its remainder.
LEMMA AtOnly ==
    ASSUME NEW p \in Nat \ {0}, NEW o \in Nat \ {0}, NEW q \in Int, NEW i \in Int,
           NEW r \in 0..(p + o - 1), NEW m \in Int, p + q - i * p = r + (p + o) * m
    PROVE  At(p, o, q, i) = r
<1>1. PICK k \in Int : Turns(p, o, q, i, k)
  BY AtIs
<1>. DEFINE n == p + o
            t == At(p, o, q, i)
<1>2. n \in Nat \ {0} /\ t \in 0..(n - 1) /\ r \in 0..(n - 1)
  <2>1. At(p, o, q, i) \in 0..(p + o - 1)
    BY AtIs
  <2>. QED
    BY <2>1
<1>3. t = r + n * m - n * k
  <2>1. i * p \in Int
    OBVIOUS
  <2>. QED
    BY <1>1, <2>1 DEF Turns
<1>. HIDE DEF n, t
<1>4. t - r = n * (m - k)
  BY <1>2, <1>3
<1>5. t = r
  BY <1>2, <1>4, Multiples
<1>. QED
  BY <1>5 DEF t

\* Each cycle begins in the second block, goes on as pos does, and ends where it began.
LEMMA AtSteps ==
    ASSUME NEW p, NEW o, NEW g, NEW a, NEW b, NEW u, NEW v, Periods(p, o, g, a, b, u, v),
           NEW q \in 0..(g - 1)
    PROVE  /\ At(p, o, q, 0) = p + q
           /\ At(p, o, q, a + b) = p + q
           /\ \A i \in Int : At(p, o, q, i + 1) = IF At(p, o, q, i) >= p
                                                  THEN At(p, o, q, i) - p
                                                  ELSE At(p, o, q, i) + o
<1>1. p \in Nat \ {0} /\ o \in Nat \ {0} /\ g \in Nat \ {0} /\ a \in Nat \ {0} /\ b \in Nat \ {0}
  BY DEF Periods
<1>2. g <= o /\ p + o = g * (a + b) /\ p = g * a
  BY LengthOfCycles DEF Periods
<1>3. q \in Int /\ p + q \in 0..(p + o - 1)
  BY <1>1, <1>2
<1>4. At(p, o, q, 0) = p + q
  <2>1. p + q - 0 * p = p + q + (p + o) * 0
    BY <1>1, <1>3
  <2>. QED
    BY <1>1, <1>3, <2>1, AtOnly
<1>5. At(p, o, q, a + b) = p + q
  <2>1. (a + b) * p = (p + o) * a
    <3>1. (a + b) * (g * a) = (g * (a + b)) * a
      BY <1>1
    <3>. QED
      BY <1>2, <3>1
  <2>2. (p + o) * (-a) = -((p + o) * a)
    BY <1>1
  <2>3. p + q - (a + b) * p = p + q + (p + o) * (-a)
    BY <1>1, <1>3, <2>1, <2>2
  <2>4. a + b \in Int /\ -a \in Int
    BY <1>1
  <2>. QED
    BY <1>1, <1>3, <2>3, <2>4, AtOnly
<1>6. ASSUME NEW i \in Int
      PROVE  At(p, o, q, i + 1) = IF At(p, o, q, i) >= p THEN At(p, o, q, i) - p
                                                         ELSE At(p, o, q, i) + o
  <2>. DEFINE t == At(p, o, q, i)
  <2>1. t \in 0..(p + o - 1)
    BY <1>1, <1>3, AtIs
  <2>2. PICK m \in Int : Turns(p, o, q, i, m)
    BY <1>1, <1>3, AtIs
  <2>7. t = p + q - i * p - (p + o) * m
    BY <2>2 DEF Turns
  <2>. HIDE DEF t
  <2>3. (i + 1) * p = i * p + p /\ i * p \in Int /\ (p + o) * m \in Int
    BY <1>1
  <2>4. p + q - (i + 1) * p = t - p + (p + o) * m
    BY <1>1, <1>3, <2>1, <2>3, <2>7
  <2>5. CASE t >= p
    <3>1. t - p \in 0..(p + o - 1)
      BY <1>1, <2>1, <2>5
    <3>3. i + 1 \in Int
      OBVIOUS
    <3>2. At(p, o, q, i + 1) = t - p
      BY <3>3, <1>1, <1>3, <2>4, <3>1, AtOnly
    <3>. QED
      BY <2>5, <3>2 DEF t
  <2>6. CASE ~(t >= p)
    <3>1. t + o \in 0..(p + o - 1)
      BY <1>1, <2>1, <2>6
    <3>2. (p + o) * (m - 1) = (p + o) * m - (p + o)
      BY <1>1
    <3>3. p + q - (i + 1) * p = (t + o) + (p + o) * (m - 1)
      BY <1>1, <2>1, <2>3, <2>4, <3>2
    <3>4. m - 1 \in Int /\ i + 1 \in Int
      OBVIOUS
    <3>5. At(p, o, q, i + 1) = t + o
      BY <1>1, <1>3, <3>1, <3>3, <3>4, AtOnly
    <3>. QED
      BY <2>6, <3>5 DEF t
  <2>. QED
    BY <2>5, <2>6
<1>. QED
  BY <1>4, <1>5, <1>6

\* No word is met twice, in one cycle or in two.
LEMMA AtDiffers ==
    ASSUME NEW p, NEW o, NEW g, NEW a, NEW b, NEW u, NEW v, Periods(p, o, g, a, b, u, v),
           NEW q \in 0..(g - 1), NEW r \in 0..(g - 1),
           NEW i \in 0..(a + b - 1), NEW j \in 0..(a + b - 1), At(p, o, q, i) = At(p, o, r, j)
    PROVE  q = r /\ i = j
<1>1. p \in Nat \ {0} /\ o \in Nat \ {0} /\ g \in Nat \ {0} /\ a \in Nat \ {0} /\ b \in Nat \ {0}
      /\ u \in Int /\ v \in Int
  BY DEF Periods
<1>2. p + o = g * (a + b) /\ p = g * a /\ u * p + v * (p + o) = g
  BY LengthOfCycles DEF Periods
<1>3. q \in Int /\ r \in Int /\ i \in Int /\ j \in Int
  BY <1>1
<1>4. PICK m \in Int : Turns(p, o, q, i, m)
  BY <1>1, <1>3, AtIs
<1>5. PICK k \in Int : Turns(p, o, r, j, k)
  BY <1>1, <1>3, AtIs
<1>. DEFINE e == i - j
            f == m - k
<1>7. e \in Int /\ f \in Int
  BY <1>3
<1>6. q - r = e * p + (p + o) * f
  <2>1. e * p = i * p - j * p /\ (p + o) * f = (p + o) * m - (p + o) * k
    BY <1>1, <1>3
  <2>2. i * p \in Int /\ j * p \in Int /\ (p + o) * m \in Int /\ (p + o) * k \in Int
    BY <1>1, <1>3
  <2>3. p + q - i * p - (p + o) * m = p + r - j * p - (p + o) * k
    BY <1>4, <1>5 DEF Turns
  <2>. HIDE DEF e, f
  <2>. QED
    BY <1>1, <1>3, <1>7, <2>1, <2>2, <2>3
<1>. HIDE DEF e, f
<1>8. q - r = g * (e * a + (a + b) * f)
  <2>1. e * (g * a) = g * (e * a) /\ (g * (a + b)) * f = g * ((a + b) * f)
    BY <1>1, <1>7
  <2>2. g * (e * a + (a + b) * f) = g * (e * a) + g * ((a + b) * f)
    BY <1>1, <1>7
  <2>. QED
    BY <1>2, <1>6, <2>1, <2>2
<1>9. q = r
  <2>1. e * a + (a + b) * f \in Int
    BY <1>1, <1>7
  <2>. QED
    BY <1>1, <1>3, <1>8, <2>1, Multiples
<1>10. e * p = (p + o) * (-f)
  <2>1. (p + o) * (-f) = -((p + o) * f) /\ (p + o) * f \in Int /\ e * p \in Int
    BY <1>1, <1>7
  <2>. QED
    BY <1>3, <1>6, <1>9, <2>1
<1>. DEFINE s == v * e - u * f
<1>11. g * e = (p + o) * s
  <2>1. g * e = u * (e * p) + v * ((p + o) * e)
    <3>1. (u * p + v * (p + o)) * e = u * (e * p) + v * ((p + o) * e)
      BY <1>1, <1>7
    <3>. QED
      BY <1>1, <1>2, <1>7, <3>1
  <2>2. u * ((p + o) * (-f)) + v * ((p + o) * e) = (p + o) * s
    BY <1>1, <1>7
  <2>. QED
    BY <1>10, <2>1, <2>2
<1>12. s \in Int
  BY <1>1, <1>7
<1>. HIDE DEF s
<1>13. g * e - 0 = g * ((a + b) * s)
  <2>1. (g * (a + b)) * s = g * ((a + b) * s) /\ g * e \in Int
    BY <1>1, <1>7, <1>12
  <2>. QED
    BY <1>2, <1>11, <2>1
<1>14. e = (a + b) * s
  <2>. DEFINE w == e - (a + b) * s
  <2>1. w \in Int /\ (a + b) * s \in Int
    BY <1>1, <1>7, <1>12
  <2>2. g * w = g * e - g * ((a + b) * s)
    BY <1>1, <1>7, <2>1
  <2>3. g * w = 0
    <3>1. g * e \in Int /\ g * ((a + b) * s) \in Int
      BY <1>1, <1>7, <2>1
    <3>. QED
      BY <1>13, <2>2, <3>1
  <2>. HIDE DEF w
  <2>4. w = 0
    BY <1>1, <2>1, <2>3
  <2>. QED
    BY <1>7, <2>1, <2>4 DEF w
<1>15. i - j = (a + b) * s /\ i - j < a + b /\ j - i < a + b
  BY <1>1, <1>14 DEF e
<1>16. i = j
  <2>1. a + b \in Nat \ {0}
    BY <1>1
  <2>. QED
    BY <1>3, <1>12, <1>15, <2>1, Multiples
<1>. QED
  BY <1>9, <1>16

\* Every word is met.
LEMMA AtMeets ==
    ASSUME NEW p, NEW o, NEW g, NEW a, NEW b, NEW u, NEW v, Periods(p, o, g, a, b, u, v),
           NEW r \in 0..(p + o - 1)
    PROVE  \E q \in 0..(g - 1), i \in 0..(a + b - 1) : At(p, o, q, i) = r
<1>1. p \in Nat \ {0} /\ o \in Nat \ {0} /\ g \in Nat \ {0} /\ a \in Nat \ {0} /\ b \in Nat \ {0}
      /\ u \in Int /\ v \in Int
  BY DEF Periods
<1>2. p + o = g * (a + b) /\ p = g * a /\ u * p + v * (p + o) = g
  BY LengthOfCycles DEF Periods
<1>3. PICK t \in Int, q \in Int : Divided(r, g, t, q)
  <2>1. r \in Int
    BY <1>1
  <2>. QED
    BY <1>1, <2>1, DividedIs
<1>. DEFINE c == 1 - t * u
<1>4. c \in Int /\ a + b \in Nat \ {0}
  BY <1>1
<1>. HIDE DEF c
<1>5. PICK s \in Int, i \in Int : Divided(c, a + b, s, i)
  BY <1>4, DividedIs
<1>6. i = 1 - t * u - (a + b) * s
  <2>1. (a + b) * s \in Int /\ t * u \in Int
    BY <1>1
  <2>2. i \in Int
    BY <1>1
  <2>. QED
    BY <1>5, <2>1, <2>2 DEF c, Divided
<1>7. i * p = p - t * (u * p) - ((a + b) * p) * s
  <2>. DEFINE k == a + b
  <2>1. k \in Int /\ p \in Int
    BY <1>1
  <2>. HIDE DEF k
  <2>2. (1 - t * u - k * s) * p = p - t * (u * p) - (k * p) * s
    BY <1>1, <2>1
  <2>3. i = 1 - t * u - k * s
    BY <1>6 DEF k
  <2>. QED
    BY <2>2, <2>3 DEF k
<1>8. (a + b) * p = (p + o) * a
  <2>1. (a + b) * (g * a) = (g * (a + b)) * a
    BY <1>1
  <2>. QED
    BY <1>2, <2>1
<1>9. t * (u * p) = t * g - (p + o) * (t * v)
  <2>1. u * p = g - v * (p + o)
    BY <1>1, <1>2
  <2>2. t * (g - v * (p + o)) = t * g - (p + o) * (t * v)
    BY <1>1
  <2>. QED
    BY <2>1, <2>2
<1>. DEFINE m == a * s - t * v
<1>10. m \in Int /\ (p + o) * m = ((p + o) * a) * s - (p + o) * (t * v)
  BY <1>1
<1>. HIDE DEF m
<1>11. p + q - i * p = r + (p + o) * m
  <2>1. g * t = t * g /\ t * g \in Int /\ (p + o) * (t * v) \in Int /\ ((p + o) * a) * s \in Int
    BY <1>1
  <2>2. i * p = p - (t * g - (p + o) * (t * v)) - ((p + o) * a) * s
    BY <1>7, <1>8, <1>9
  <2>3. q \in Int /\ r \in Int
    BY <1>1
  <2>4. p + q - i * p = q + t * g - (p + o) * (t * v) + ((p + o) * a) * s
    BY <1>1, <2>1, <2>2, <2>3
  <2>. QED
    BY <1>3, <1>10, <2>1, <2>3, <2>4 DEF Divided
<1>12. At(p, o, q, i) = r
  <2>1. q \in Int /\ i \in Int
    BY <1>1
  <2>. QED
    BY ONLY <1>1, <1>10, <1>11, <2>1, r \in 0..(p + o - 1), AtOnly
<1>13. q \in 0..(g - 1)
  BY <1>3 DEF Divided
<1>14. i \in 0..(a + b - 1)
  BY <1>1, <1>4, <1>5 DEF Divided
<1>. QED
  BY <1>12, <1>13, <1>14

-----------------------------------------------------------------------------
(* permute_args *)

\* Two blocks, neither empty, and room for both.
Blocks(n, start, end, behind) ==
    /\ n \in Nat /\ start \in Int /\ end \in Int /\ behind \in Int
    /\ 1 <= start /\ start < end /\ end < behind /\ behind <= n + 1

CycleLen(start, end, behind) == (end - start + (behind - end)) \div Gcd(end - start, behind - end)
Carried(n, X) == [args : [1..n -> X], pos : 1..n]

\* The body of the inner loop, in its k-th execution.
Round(start, end, behind, k, before) ==
    LET cstart == end + (k - 1) \div CycleLen(start, end, behind)
        last == IF (k - 1) % CycleLen(start, end, behind) = 0 THEN cstart ELSE before.pos
        pos == IF last >= end THEN last - (end - start) ELSE last + (behind - end)
        a == before.args
    IN [args |-> [a EXCEPT ![pos] = a[cstart], ![cstart] = a[pos]], pos |-> pos]

\* The blocks, and the numbers of Periods for their lengths.
Walk(n, start, end, behind, g, a, b, u, v) ==
    /\ Blocks(n, start, end, behind)
    /\ g = Gcd(end - start, behind - end)
    /\ Periods(end - start, behind - end, g, a, b, u, v)

LEMMA WalkExists ==
    ASSUME NEW n, NEW start, NEW end, NEW behind, Blocks(n, start, end, behind)
    PROVE  \E g, a, b, u, v \in Int : Walk(n, start, end, behind, g, a, b, u, v)
<1>. DEFINE p == end - start
            o == behind - end
            g == Gcd(p, o)
<1>1. p \in Nat \ {0} /\ o \in Nat \ {0}
  BY DEF Blocks
<1>2. PICK a \in Int, b \in Int, u \in Int, v \in Int : Periods(p, o, g, a, b, u, v)
  <2>. HIDE DEF p, o
  <2>. QED
    BY <1>1, PeriodsExist
<1>3. g \in Int
  <2>. HIDE DEF g, p, o
  <2>. QED
    BY <1>2 DEF Periods
<1>4. Walk(n, start, end, behind, g, a, b, u, v)
  BY <1>2 DEF Walk
<1>. HIDE DEF g
<1>. QED
  BY <1>3, <1>4

\* The k-th execution of the inner loop is that for the i-th step of cycle q.
RoundAt(start, end, behind, k, g, l, q, i) ==
    /\ q \in 0..(g - 1) /\ i \in 0..(l - 1)
    /\ k = l * q + i + 1
    /\ (k - 1) \div CycleLen(start, end, behind) = q
    /\ (k - 1) % CycleLen(start, end, behind) = i

LEMMA WalkIs ==
    ASSUME NEW n, NEW start, NEW end, NEW behind, NEW g, NEW a, NEW b, NEW u, NEW v,
           Walk(n, start, end, behind, g, a, b, u, v)
    PROVE  /\ g \in Nat \ {0} /\ a \in Nat \ {0} /\ b \in Nat \ {0}
           /\ g <= behind - end /\ behind - start = g * (a + b)
           /\ CycleLen(start, end, behind) = a + b
<1>. DEFINE p == end - start
            o == behind - end
<1>1. Periods(p, o, g, a, b, u, v) /\ g = Gcd(p, o) /\ Blocks(n, start, end, behind)
  BY DEF Walk
<1>2. CycleLen(start, end, behind) = (p + o) \div g
  BY <1>1 DEF CycleLen
<1>3. p + o = behind - start
  BY <1>1 DEF Blocks
<1>4. p + o = g * (a + b) /\ (p + o) \div g = a + b /\ g <= o
  <2>. HIDE DEF p, o
  <2>. QED
    BY <1>1, LengthOfCycles
<1>5. g \in Nat \ {0} /\ a \in Nat \ {0} /\ b \in Nat \ {0}
  <2>. HIDE DEF p, o
  <2>. QED
    BY <1>1 DEF Periods
<1>. QED
  BY <1>2, <1>3, <1>4, <1>5

LEMMA RoundOf ==
    ASSUME NEW n, NEW start, NEW end, NEW behind, NEW g, NEW a, NEW b, NEW u, NEW v,
           Walk(n, start, end, behind, g, a, b, u, v),
           NEW k \in 1..(behind - start)
    PROVE  \E q, i \in Int : RoundAt(start, end, behind, k, g, a + b, q, i)
<1>. DEFINE c == k - 1
            l == a + b
<1>1. /\ g \in Nat \ {0} /\ a \in Nat \ {0} /\ b \in Nat \ {0}
      /\ behind - start = g * l /\ CycleLen(start, end, behind) = l
  BY WalkIs
<1>2. behind - start \in Int
  BY DEF Walk, Blocks
<1>3. l \in Nat \ {0} /\ c \in Nat /\ c < behind - start /\ k = c + 1 /\ k \in Int
  BY <1>1, <1>2
<1>. HIDE DEF c, l
<1>4. PICK q \in Int, i \in 0..(l - 1) : q = c \div l /\ i = c % l /\ c = l * q + i
  BY <1>3, Division
<1>5. q \in 0..(g - 1)
  <2>1. c < g * l /\ l * q \in Int /\ i \in Int /\ 0 <= i /\ i < l
    BY <1>1, <1>3, <1>4
  <2>2. ~(q <= -1)
    <3>. SUFFICES ASSUME q <= -1
                  PROVE  FALSE
      OBVIOUS
    <3>1. l * q <= -l
      BY <1>3
    <3>. QED
      BY <1>3, <1>4, <2>1, <3>1
  <2>3. ~(q >= g)
    <3>. SUFFICES ASSUME q >= g
                  PROVE  FALSE
      OBVIOUS
    <3>1. l * q >= l * g /\ l * g = g * l
      BY <1>1, <1>3
    <3>2. l * g \in Int
      BY <1>1, <1>3
    <3>. QED
      BY <1>3, <1>4, <2>1, <3>1, <3>2
  <2>. QED
    BY <1>1, <2>2, <2>3
<1>6. k = l * q + i + 1
  <2>1. l * q \in Int /\ i \in Int
    BY <1>3
  <2>. QED
    BY <1>3, <1>4, <2>1
<1>7. (k - 1) \div CycleLen(start, end, behind) = q /\ (k - 1) % CycleLen(start, end, behind) = i
  BY <1>1, <1>4 DEF c
<1>8. RoundAt(start, end, behind, k, g, l, q, i) /\ i \in Int
  BY <1>3, <1>4, <1>5, <1>6, <1>7 DEF RoundAt
<1>. QED
  BY <1>8 DEF l

LEMMA RoundType ==
    ASSUME NEW n, NEW start, NEW end, NEW behind, Blocks(n, start, end, behind), NEW X,
           NEW k \in 1..(behind - start), NEW before \in Carried(n, X)
    PROVE  Round(start, end, behind, k, before) \in Carried(n, X)
<1>1. PICK g \in Int, a \in Int, b \in Int, u \in Int, v \in Int :
         Walk(n, start, end, behind, g, a, b, u, v)
  BY WalkExists
<1>2. PICK q \in Int, i \in Int : RoundAt(start, end, behind, k, g, a + b, q, i)
  BY <1>1, RoundOf
<1>3. g \in Nat \ {0} /\ g <= behind - end
  BY <1>1, WalkIs
<1>. DEFINE cstart == end + (k - 1) \div CycleLen(start, end, behind)
            last == IF (k - 1) % CycleLen(start, end, behind) = 0 THEN cstart ELSE before.pos
            pos == IF last >= end THEN last - (end - start) ELSE last + (behind - end)
            c == before.args
            d == [c EXCEPT ![pos] = c[cstart], ![cstart] = c[pos]]
<1>5. cstart \in 1..n
  <2>1. cstart = end + q /\ q \in 0..(g - 1)
    BY <1>2 DEF RoundAt
  <2>2. end + q \in 1..n
    BY <1>3, <2>1 DEF Blocks
  <2>. QED
    BY <2>1, <2>2
<1>6. before.pos \in 1..n /\ c \in [1..n -> X]
  BY DEF Carried
<1>7. last \in 1..n
  <2>. HIDE DEF cstart
  <2>. QED
    BY <1>5, <1>6
<1>8. pos \in 1..n
  <2>. HIDE DEF last
  <2>. QED
    BY <1>7 DEF Blocks
<1>9. d \in [1..n -> X]
  <2>. HIDE DEF pos, cstart, c
  <2>. QED
    BY <1>5, <1>6, <1>8
<1>10. Round(start, end, behind, k, before) = [args |-> d, pos |-> pos]
  BY DEF Round
<1>. HIDE DEF d, pos
<1>. QED
  BY <1>8, <1>9, <1>10 DEF Carried

Rounds(A, X, args, start, end, behind) ==
    /\ A \in [0..(behind - start) -> Carried(Len(args), X)]
    /\ Permuted(args, start, end, behind) = A[behind - start].args
    /\ A[0] = [args |-> args, pos |-> end]
    /\ \A k \in 1..(behind - start) : A[k] = Round(start, end, behind, k, A[k - 1])

LEMMA PermutedIs ==
    ASSUME NEW X, NEW args \in Seq(X), NEW start, NEW end, NEW behind,
           Blocks(Len(args), start, end, behind)
    PROVE  \E A : Rounds(A, X, args, start, end, behind)
<1>. DEFINE m == behind - start
            V == Carried(Len(args), X)
            base == [args |-> args, pos |-> end]
            R(k, c) == Round(start, end, behind, k, c)
            E(f, k) == IF k = 0 THEN base ELSE R(k, f[k - 1])
            step == [k \in 1..m |-> [c \in V |-> R(k, c)]]
<1>1. m \in Nat /\ base \in V
  BY DEF Blocks, Carried
<1>2. \A k \in 1..m : \A c \in V : R(k, c) \in V
  BY RoundType
<1>3. step \in [1..m -> [V -> V]] /\ \A k \in 1..m : \A c \in V : step[k][c] = R(k, c)
  <2>. HIDE DEF m, V, R
  <2>. QED
    BY <1>2
<1>4. PICK f : Iterates(f, m, V, base, step)
  <2>. HIDE DEF m, V, base, step
  <2>. QED
    BY <1>1, <1>3, Iteration
<1>5. f \in [0..m -> V] /\ f[0] = base /\ \A k \in 1..m : f[k] = R(k, f[k - 1])
  <2>. HIDE DEF m, V, base, step, R
  <2>1. f \in [0..m -> V] /\ f[0] = base /\ \A k \in 1..m : f[k] = step[k][f[k - 1]]
    BY <1>4 DEF Iterates
  <2>2. \A k \in 1..m : f[k - 1] \in V
    BY <1>1, <2>1
  <2>. QED
    BY <1>3, <2>1, <2>2
<1>6. f = [k \in 0..m |-> E(f, k)]
  <2>. HIDE DEF m, V, base, R
  <2>. QED
    BY <1>1, <1>5
<1>. DEFINE F == CHOOSE h : h = [k \in 0..m |-> E(h, k)]
<1>7. F = [k \in 0..m |-> E(F, k)]
  <2>. HIDE DEF m, E
  <2>. QED
    BY <1>6
<1>8. Permuted(args, start, end, behind) = F[m].args
  <2>. DEFINE N == (end - start) + (behind - end)
              H == CHOOSE h : h = [k \in 0..N |-> E(h, k)]
  <2>1. N = m
    BY DEF Blocks
  <2>2. Permuted(args, start, end, behind) = H[N].args
    BY DEF Permuted, Round, CycleLen
  <2>3. H = F
    <3>. HIDE DEF N, m, E
    <3>. QED
      BY <2>1
  <2>. HIDE DEF H, F, N
  <2>. QED
    BY <2>1, <2>2, <2>3
<1>. HIDE DEF F
<1>9. F[0] = base /\ \A k \in 1..m : F[k] = R(k, F[k - 1])
  <2>. HIDE DEF m, base, R
  <2>. QED
    BY <1>1, <1>7
<1>10. \A k \in 0..m : F[k] \in V
  <2>. DEFINE T == {k \in 0..m : F[k] \in V}
  <2>1. 0 \in T
    <3>. HIDE DEF m, V, base, R
    <3>. QED
      BY <1>1, <1>9
  <2>2. \A k \in 0..(m - 1) : k \in T => k + 1 \in T
    <3>. SUFFICES ASSUME NEW k \in 0..(m - 1), k \in T
                  PROVE  k + 1 \in T
      OBVIOUS
    <3>. HIDE DEF m, V, R
    <3>1. k + 1 \in 1..m /\ (k + 1) - 1 = k /\ k + 1 \in 0..m
      BY <1>1
    <3>2. F[k + 1] = R(k + 1, F[k])
      BY <1>9, <3>1
    <3>3. F[k + 1] \in V
      BY <1>2, <3>1, <3>2
    <3>. QED
      BY <3>1, <3>3
  <2>3. 0..m \subseteq T
    <3>1. 0 \in Int /\ m \in Int
      BY <1>1
    <3>. HIDE DEF T, m
    <3>. QED
      BY <2>1, <2>2, <3>1, AllUpTo
  <2>. QED
    BY <2>3
<1>11. F \in [0..m -> V]
  <2>. HIDE DEF m, V, E
  <2>. QED
    BY <1>7, <1>10
<1>12. Rounds(F, X, args, start, end, behind)
  BY <1>8, <1>9, <1>11 DEF Rounds
<1>. QED
  BY <1>12

\* The place of the i-th step of cycle q in argv.
Spot(start, end, behind, q, i) == start + At(end - start, behind - end, q, i)

LEMMA SpotIs ==
    ASSUME NEW n, NEW start, NEW end, NEW behind, NEW g, NEW a, NEW b, NEW u, NEW v,
           Walk(n, start, end, behind, g, a, b, u, v), NEW q \in 0..(g - 1)
    PROVE  /\ Spot(start, end, behind, q, 0) = end + q
           /\ Spot(start, end, behind, q, a + b) = end + q
           /\ \A i \in Int : Spot(start, end, behind, q, i) \in start..(behind - 1)
           /\ \A i \in Int :
                 Spot(start, end, behind, q, i + 1) =
                    IF Spot(start, end, behind, q, i) >= end
                    THEN Spot(start, end, behind, q, i) - (end - start)
                    ELSE Spot(start, end, behind, q, i) + (behind - end)
<1>. DEFINE p == end - start
            o == behind - end
<1>1. Periods(p, o, g, a, b, u, v)
  BY DEF Walk
<1>2. /\ start \in Int /\ end \in Int /\ behind \in Int
      /\ p \in Nat \ {0} /\ o \in Nat \ {0} /\ end = start + p /\ behind = start + p + o
  BY DEF Walk, Blocks
<1>3. \A i : Spot(start, end, behind, q, i) = start + At(p, o, q, i)
  BY DEF Spot
<1>. HIDE DEF p, o
<1>4. q \in Int
  OBVIOUS
<1>5. \A i \in Int : At(p, o, q, i) \in 0..(p + o - 1)
  BY <1>2, <1>4, AtIs
<1>6. At(p, o, q, 0) = p + q /\ At(p, o, q, a + b) = p + q
  BY <1>1, AtSteps
<1>7. \A i \in Int : At(p, o, q, i + 1) = IF At(p, o, q, i) >= p THEN At(p, o, q, i) - p
                                                                ELSE At(p, o, q, i) + o
  BY <1>1, AtSteps
<1>8. start + (p + q) = end + q
  BY <1>2, <1>4
<1>9. \A i \in Int : Spot(start, end, behind, q, i) \in start..(behind - 1)
  BY <1>2, <1>3, <1>5
<1>10. p = end - start /\ o = behind - end
  BY <1>2
<1>11. ASSUME NEW i \in Int
       PROVE  Spot(start, end, behind, q, i + 1) =
                    IF Spot(start, end, behind, q, i) >= end
                    THEN Spot(start, end, behind, q, i) - (end - start)
                    ELSE Spot(start, end, behind, q, i) + (behind - end)
  <2>. DEFINE t == At(p, o, q, i)
              w == At(p, o, q, i + 1)
  <2>1. t \in 0..(p + o - 1) /\ w = IF t >= p THEN t - p ELSE t + o
    BY <1>5, <1>7
  <2>2. Spot(start, end, behind, q, i) = start + t /\ Spot(start, end, behind, q, i + 1) = start + w
    BY <1>3
  <2>. HIDE DEF t, w
  <2>3. CASE t >= p
    <3>1. start + t >= end /\ start + w = start + t - (end - start)
      BY <1>2, <1>10, <2>1, <2>3
    <3>. QED
      BY <1>2, <2>1, <2>2, <3>1
  <2>4. CASE ~(t >= p)
    <3>1. ~(start + t >= end) /\ start + w = start + t + (behind - end)
      BY <1>2, <1>10, <2>1, <2>4
    <3>. QED
      BY <2>2, <3>1
  <2>. QED
    BY <2>3, <2>4
<1>. QED
  BY <1>3, <1>6, <1>8, <1>9, <1>11

LEMMA SpotsDiffer ==
    ASSUME NEW n, NEW start, NEW end, NEW behind, NEW g, NEW a, NEW b, NEW u, NEW v,
           Walk(n, start, end, behind, g, a, b, u, v),
           NEW l, l = a + b, NEW q \in 0..(g - 1), NEW r \in 0..(g - 1),
           NEW i \in 0..(l - 1), NEW j \in 0..(l - 1),
           Spot(start, end, behind, q, i) = Spot(start, end, behind, r, j)
    PROVE  q = r /\ i = j
<1>. DEFINE p == end - start
            o == behind - end
<1>1. Periods(p, o, g, a, b, u, v)
  BY DEF Walk
<1>2. start \in Int /\ p \in Nat \ {0} /\ o \in Nat \ {0} /\ a + b \in Int
  <2>1. start \in Int /\ p \in Nat \ {0} /\ o \in Nat \ {0}
    BY DEF Walk, Blocks
  <2>2. a + b \in Int
    BY <1>1 DEF Periods
  <2>. QED
    BY <2>1, <2>2
<1>3. start + At(p, o, q, i) = start + At(p, o, r, j)
  BY DEF Spot
<1>. HIDE DEF p, o
<1>4. q \in Int /\ r \in Int /\ i \in Int /\ j \in Int
  BY <1>2
<1>5. At(p, o, q, i) \in 0..(p + o - 1) /\ At(p, o, r, j) \in 0..(p + o - 1)
  BY <1>2, <1>4, AtIs
<1>6. At(p, o, q, i) = At(p, o, r, j)
  BY <1>2, <1>3, <1>5
<1>7. i \in 0..(a + b - 1) /\ j \in 0..(a + b - 1)
  <2>1. a \in Int /\ b \in Int
    BY <1>1 DEF Periods
  <2>. QED
    BY ONLY <2>1, l = a + b, i \in 0..(l - 1), j \in 0..(l - 1)
<1>. QED
  BY <1>1, <1>6, <1>7, AtDiffers

LEMMA SpotsMeet ==
    ASSUME NEW n, NEW start, NEW end, NEW behind, NEW g, NEW a, NEW b, NEW u, NEW v,
           Walk(n, start, end, behind, g, a, b, u, v), NEW l, l = a + b,
           NEW t \in start..(behind - 1)
    PROVE  \E q \in 0..(g - 1), i \in 0..(l - 1) : Spot(start, end, behind, q, i) = t
<1>. DEFINE p == end - start
            o == behind - end
<1>1. Periods(p, o, g, a, b, u, v)
  BY DEF Walk
<1>2. start \in Int /\ t \in Int /\ t - start \in 0..(p + o - 1)
  BY DEF Walk, Blocks
<1>3. \A q, i : Spot(start, end, behind, q, i) = start + At(p, o, q, i)
  BY DEF Spot
<1>. HIDE DEF p, o
<1>4. PICK q \in 0..(g - 1), i \in 0..(a + b - 1) : At(p, o, q, i) = t - start
  BY <1>1, <1>2, AtMeets
<1>5. Spot(start, end, behind, q, i) = t
  BY <1>2, <1>3, <1>4
<1>6. i \in 0..(l - 1)
  BY <1>1 DEF Periods
<1>. QED
  BY <1>5, <1>6

\* A round exchanges the word the cycle began with and that of its next step.
LEMMA RoundSwaps ==
    ASSUME NEW n, NEW start, NEW end, NEW behind, NEW g, NEW a, NEW b, NEW u, NEW v,
           Walk(n, start, end, behind, g, a, b, u, v), NEW X, NEW before \in Carried(n, X),
           NEW k, NEW q \in Int, NEW i \in Int, RoundAt(start, end, behind, k, g, a + b, q, i),
           i # 0 => before.pos = Spot(start, end, behind, q, i),
           NEW after, after = Round(start, end, behind, k, before)
    PROVE  /\ after.pos = Spot(start, end, behind, q, i + 1)
           /\ after.args[Spot(start, end, behind, q, i + 1)]
                 = before.args[Spot(start, end, behind, q, 0)]
           /\ after.args[Spot(start, end, behind, q, 0)]
                 = before.args[Spot(start, end, behind, q, i + 1)]
           /\ \A t \in 1..n :
                 t # Spot(start, end, behind, q, 0) /\ t # Spot(start, end, behind, q, i + 1)
                 => after.args[t] = before.args[t]
<1>. DEFINE first == Spot(start, end, behind, q, 0)
            here == Spot(start, end, behind, q, i)
            next == Spot(start, end, behind, q, i + 1)
<1>1. q \in 0..(g - 1)
  BY DEF RoundAt
<1>2. /\ first = end + q
      /\ next = IF here >= end THEN here - (end - start) ELSE here + (behind - end)
  BY <1>1, SpotIs
<1>3. first \in 1..n /\ next \in 1..n
  <2>1. first \in start..(behind - 1) /\ next \in start..(behind - 1)
    BY <1>1, SpotIs
  <2>. HIDE DEF first, next
  <2>. QED
    BY <2>1 DEF Walk, Blocks
<1>4. after = [args |-> [before.args EXCEPT ![next] = before.args[first], ![first] = before.args[next]],
               pos |-> next]
  <2>1. (k - 1) \div CycleLen(start, end, behind) = q /\ (k - 1) % CycleLen(start, end, behind) = i
    BY DEF RoundAt
  <2>. DEFINE last == IF i = 0 THEN end + q ELSE before.pos
  <2>2. last = here
    BY <1>2
  <2>3. after = LET pos == IF last >= end THEN last - (end - start) ELSE last + (behind - end)
                IN [args |-> [before.args EXCEPT ![pos] = before.args[end + q],
                                                 ![end + q] = before.args[pos]],
                    pos |-> pos]
    <3>. HIDE DEF Spot, CycleLen
    <3>. QED
      BY <2>1 DEF Round
  <2>. HIDE DEF last, here, next, first
  <2>. QED
    BY <1>2, <2>2, <2>3
<1>5. before.args \in [1..n -> X]
  BY DEF Carried
<1>. HIDE DEF first, here, next
<1>6. /\ after.pos = next
      /\ after.args[next] = before.args[first]
      /\ after.args[first] = before.args[next]
      /\ \A t \in 1..n : t # first /\ t # next => after.args[t] = before.args[t]
  <2>. DEFINE c == before.args
              d == [c EXCEPT ![next] = c[first], ![first] = c[next]]
  <2>1. after = [args |-> d, pos |-> next]
    BY <1>4
  <2>2. c \in [1..n -> X]
    BY <1>5
  <2>. HIDE DEF c
  <2>3. d[first] = c[next]
    BY <1>3, <2>2
  <2>4. d[next] = c[first]
    BY <1>3, <2>2
  <2>5. \A t \in 1..n : t # first /\ t # next => d[t] = c[t]
    BY <1>3, <2>2
  <2>. HIDE DEF d
  <2>. QED
    BY <2>1, <2>3, <2>4, <2>5 DEF c
<1>. QED
  BY <1>6 DEF first, next

\* When all cycles before q0 are done, and i0 steps of that one: the step whose word is now
\* where the i-th step of cycle q is.
Source(q, i, q0, i0) ==
    IF q < q0 THEN i - 1
    ELSE IF q > q0 THEN i
    ELSE IF i = 0 THEN i0
    ELSE IF i <= i0 THEN i - 1
    ELSE i

WalkedTo(args, now, start, end, behind, g, l, q0, i0) ==
    /\ \A t \in 1..Len(args) : t < start \/ t >= behind => now.args[t] = args[t]
    /\ i0 # 0 => now.pos = Spot(start, end, behind, q0, i0)
    /\ \A q \in 0..(g - 1), i \in 0..(l - 1) :
          now.args[Spot(start, end, behind, q, i)]
             = args[Spot(start, end, behind, q, Source(q, i, q0, i0))]

LEMMA WalksOn ==
    ASSUME NEW X, NEW args \in Seq(X), NEW start, NEW end, NEW behind,
           NEW g, NEW a, NEW b, NEW u, NEW v, Walk(Len(args), start, end, behind, g, a, b, u, v),
           NEW before \in Carried(Len(args), X),
           NEW k, NEW q \in Int, NEW i \in Int, RoundAt(start, end, behind, k, g, a + b, q, i),
           WalkedTo(args, before, start, end, behind, g, a + b, q, i),
           NEW after, after = Round(start, end, behind, k, before)
    PROVE  WalkedTo(args, after, start, end, behind, g, a + b,
                    IF i + 1 = a + b THEN q + 1 ELSE q, IF i + 1 = a + b THEN 0 ELSE i + 1)
<1>. DEFINE At_(r, j) == Spot(start, end, behind, r, j)
            l == a + b
            n == Len(args)
<1>1. q \in 0..(g - 1) /\ i \in 0..(l - 1)
  BY DEF RoundAt
<1>2. l \in Nat \ {0} /\ g \in Nat \ {0}
  BY WalkIs
<1>3. /\ \A r \in 0..(g - 1) : At_(r, l) = At_(r, 0)
      /\ \A r \in 0..(g - 1), j \in Int : At_(r, j) \in start..(behind - 1)
      /\ \A r \in 0..(g - 1), j \in Int : At_(r, j + 1) = IF At_(r, j) >= end
                                                          THEN At_(r, j) - (end - start)
                                                          ELSE At_(r, j) + (behind - end)
  <2>. SUFFICES ASSUME NEW r \in 0..(g - 1)
                PROVE  /\ At_(r, l) = At_(r, 0)
                       /\ \A j \in Int : At_(r, j) \in start..(behind - 1)
                       /\ \A j \in Int : At_(r, j + 1) = IF At_(r, j) >= end
                                                       THEN At_(r, j) - (end - start)
                                                       ELSE At_(r, j) + (behind - end)
    <3>. HIDE DEF At_, l
    <3>. QED
      OBVIOUS
  <2>1. At_(r, 0) = end + r /\ At_(r, l) = end + r
    BY SpotIs
  <2>2. \A j \in Int : At_(r, j) \in start..(behind - 1)
    BY SpotIs
  <2>3. \A j \in Int : At_(r, j + 1) = IF At_(r, j) >= end
                                       THEN At_(r, j) - (end - start)
                                       ELSE At_(r, j) + (behind - end)
    BY SpotIs
  <2>. QED
    BY <2>1, <2>2, <2>3
<1>4. n \in Nat /\ start \in Int /\ end \in Int /\ behind \in Int
      /\ 1 <= start /\ start < end /\ end < behind /\ behind <= n + 1
  BY DEF Walk, Blocks
<1>5. \A r, s \in 0..(g - 1), j, m \in 0..(l - 1) : At_(r, j) = At_(s, m) => r = s /\ j = m
  <2>. SUFFICES ASSUME NEW r \in 0..(g - 1), NEW s \in 0..(g - 1),
                       NEW j \in 0..(l - 1), NEW m \in 0..(l - 1), At_(r, j) = At_(s, m)
                PROVE  r = s /\ j = m
    <3>. HIDE DEF At_, l
    <3>. QED
      OBVIOUS
  <2>1. l = a + b
    OBVIOUS
  <2>. HIDE DEF l
  <2>. QED
    BY <2>1, SpotsDiffer
<1>6. /\ after.pos = At_(q, i + 1)
      /\ after.args[At_(q, i + 1)] = before.args[At_(q, 0)]
      /\ after.args[At_(q, 0)] = before.args[At_(q, i + 1)]
      /\ \A t \in 1..n : t # At_(q, 0) /\ t # At_(q, i + 1) => after.args[t] = before.args[t]
  <2>1. i # 0 => before.pos = At_(q, i)
    BY DEF WalkedTo
  <2>. QED
    BY <2>1, RoundSwaps
<1>7. /\ \A t \in 1..n : t < start \/ t >= behind => before.args[t] = args[t]
      /\ \A r \in 0..(g - 1), j \in 0..(l - 1) :
            before.args[At_(r, j)] = args[At_(r, Source(r, j, q, i))]
  BY DEF WalkedTo
<1>. HIDE DEF At_, l, n
<1>8. \A t \in 1..n : t < start \/ t >= behind => after.args[t] = args[t]
  <2>1. At_(q, 0) \in start..(behind - 1) /\ At_(q, i + 1) \in start..(behind - 1)
    BY <1>1, <1>3
  <2>. QED
    BY <1>4, <1>6, <1>7, <2>1
<1>9. CASE i + 1 = l
  <2>1. \A t \in 1..n : after.args[t] = before.args[t]
    BY <1>1, <1>3, <1>6, <1>9
  <2>2. At_(q, -1) = At_(q, l - 1)
    <3>1. At_(q, 0) = IF At_(q, -1) >= end THEN At_(q, -1) - (end - start) ELSE At_(q, -1) + (behind - end)
      <4>1. -1 \in Int /\ -1 + 1 = 0
        OBVIOUS
      <4>. QED
        BY <1>1, <1>3, <4>1
    <3>2. At_(q, l) = IF At_(q, l - 1) >= end THEN At_(q, l - 1) - (end - start)
                                              ELSE At_(q, l - 1) + (behind - end)
      <4>1. l - 1 \in Int /\ (l - 1) + 1 = l
        BY <1>2
      <4>. QED
        BY <1>1, <1>3, <4>1
    <3>3. At_(q, -1) \in start..(behind - 1) /\ At_(q, l - 1) \in start..(behind - 1)
      <4>1. -1 \in Int /\ l - 1 \in Int
        BY <1>2
      <4>. QED
        BY <1>1, <1>3, <4>1
    <3>4. At_(q, 0) = At_(q, l)
      BY <1>1, <1>3
    <3>. DEFINE x == At_(q, -1)
                y == At_(q, l - 1)
    <3>5. x \in start..(behind - 1) /\ y \in start..(behind - 1)
          /\ (IF x >= end THEN x - (end - start) ELSE x + (behind - end))
             = (IF y >= end THEN y - (end - start) ELSE y + (behind - end))
      BY <3>1, <3>2, <3>3, <3>4
    <3>. HIDE DEF x, y
    <3>6. x = y
      BY <1>4, <3>5
    <3>. QED
      BY <3>6 DEF x, y
  <2>3. ASSUME NEW r \in 0..(g - 1), NEW j \in 0..(l - 1)
        PROVE  after.args[At_(r, j)] = args[At_(r, Source(r, j, q + 1, 0))]
    <3>1. r \in Int /\ j \in Int /\ 0 <= j /\ j <= l - 1
      BY <1>2
    <3>2. after.args[At_(r, j)] = args[At_(r, Source(r, j, q, i))]
      <4>1. At_(r, j) \in 1..n
        <5>1. At_(r, j) \in start..(behind - 1)
          BY <1>3, <3>1
        <5>. QED
          BY <1>4, <5>1
      <4>. QED
        BY <1>7, <2>1, <4>1
    <3>3. q \in Int /\ i = l - 1
      BY <1>2, <1>9
    <3>4. CASE r # q
      <4>1. Source(r, j, q + 1, 0) = Source(r, j, q, i)
        BY <3>1, <3>3, <3>4 DEF Source
      <4>. QED
        BY <3>2, <4>1
    <3>5. CASE r = q /\ j # 0
      <4>1. Source(r, j, q + 1, 0) = Source(r, j, q, i)
        BY <3>1, <3>3, <3>5 DEF Source
      <4>. QED
        BY <3>2, <4>1
    <3>6. CASE r = q /\ j = 0
      <4>1. Source(r, j, q + 1, 0) = -1 /\ Source(r, j, q, i) = l - 1
        BY <3>1, <3>3, <3>6 DEF Source
      <4>. QED
        BY <2>2, <3>2, <3>6, <4>1
    <3>. QED
      BY <3>4, <3>5, <3>6
  <2>4. WalkedTo(args, after, start, end, behind, g, l, q + 1, 0)
    BY <1>8, <2>3 DEF WalkedTo, At_, n
  <2>. QED
    BY <1>9, <2>4 DEF l
<1>10. CASE i + 1 # l
  <2>1. i + 1 \in 0..(l - 1) /\ i \in Int /\ q \in Int /\ i >= 0 /\ 0 \in 0..(l - 1)
    BY <1>1, <1>2, <1>10
  <2>2. ASSUME NEW r \in 0..(g - 1), NEW j \in 0..(l - 1)
        PROVE  after.args[At_(r, j)] = args[At_(r, Source(r, j, q, i + 1))]
    <3>1. r \in Int /\ j \in Int /\ 0 <= j /\ j <= l - 1
      BY <1>2
    <3>2. CASE r = q /\ j = 0
      <4>1. Source(r, j, q, i + 1) = i + 1
        BY <2>1, <3>2 DEF Source
      <4>2. after.args[At_(r, j)] = before.args[At_(q, i + 1)]
        BY <1>6, <3>2
      <4>3. before.args[At_(q, i + 1)] = args[At_(q, Source(q, i + 1, q, i))]
        BY <1>1, <1>7, <2>1
      <4>4. Source(q, i + 1, q, i) = i + 1
        BY <2>1 DEF Source
      <4>. QED
        BY <3>2, <4>1, <4>2, <4>3, <4>4
    <3>3. CASE r = q /\ j = i + 1
      <4>1. Source(r, j, q, i + 1) = i
        BY <2>1, <3>3 DEF Source
      <4>2. after.args[At_(r, j)] = before.args[At_(q, 0)]
        BY <1>6, <3>3
      <4>3. before.args[At_(q, 0)] = args[At_(q, Source(q, 0, q, i))]
        BY <1>1, <1>7, <2>1
      <4>4. Source(q, 0, q, i) = i
        BY <2>1 DEF Source
      <4>. QED
        BY <3>3, <4>1, <4>2, <4>3, <4>4
    <3>4. CASE ~(r = q /\ j = 0) /\ ~(r = q /\ j = i + 1)
      <4>1. At_(r, j) # At_(q, 0) /\ At_(r, j) # At_(q, i + 1)
        BY <1>1, <1>5, <2>1, <3>4
      <4>2. At_(r, j) \in 1..n
        <5>1. At_(r, j) \in start..(behind - 1)
          BY <1>3, <3>1
        <5>. QED
          BY <1>4, <5>1
      <4>3. after.args[At_(r, j)] = args[At_(r, Source(r, j, q, i))]
        BY <1>6, <1>7, <4>1, <4>2
      <4>4. Source(r, j, q, i + 1) = Source(r, j, q, i)
        BY <2>1, <3>1, <3>4 DEF Source
      <4>. QED
        BY <4>3, <4>4
    <3>. QED
      BY <3>2, <3>3, <3>4
  <2>3. WalkedTo(args, after, start, end, behind, g, l, q, i + 1)
    BY <1>6, <1>8, <2>2 DEF WalkedTo, At_, n
  <2>. QED
    BY <1>10, <2>3 DEF l
<1>. QED
  BY <1>9, <1>10

\* permute_args exchanges two neighbouring blocks of argv, whatever their lengths, keeps the
\* order in each of them, and leaves the other words where they are.
THEOREM PermutedExchanges ==
    ASSUME NEW X, NEW args \in Seq(X), NEW start, NEW end, NEW behind,
           Blocks(Len(args), start, end, behind)
    PROVE  /\ Permuted(args, start, end, behind) \in Seq(X)
           /\ Len(Permuted(args, start, end, behind)) = Len(args)
           /\ \A t \in 1..Len(args) :
                 Permuted(args, start, end, behind)[t] =
                    IF t < start \/ t >= behind THEN args[t]
                    ELSE IF t < start + (behind - end) THEN args[t + (end - start)]
                    ELSE args[t - (behind - end)]
<1>. DEFINE n == Len(args)
            N == behind - start
<1>0. n \in Nat /\ start \in Int /\ end \in Int /\ behind \in Int
      /\ 1 <= start /\ start < end /\ end < behind /\ behind <= n + 1 /\ N \in Nat
  BY DEF Blocks
<1>1. PICK g \in Int, a \in Int, b \in Int, u \in Int, v \in Int :
         Walk(n, start, end, behind, g, a, b, u, v)
  BY WalkExists
<1>. DEFINE l == a + b
<1>2. g \in Nat \ {0} /\ l \in Nat \ {0} /\ N = g * l
  BY <1>1, WalkIs
<1>a. PICK A : Rounds(A, X, args, start, end, behind)
  BY PermutedIs
<1>3. /\ A \in [0..N -> Carried(n, X)]
      /\ Permuted(args, start, end, behind) = A[N].args
      /\ A[0] = [args |-> args, pos |-> end]
      /\ \A k \in 1..N : A[k] = Round(start, end, behind, k, A[k - 1])
  BY <1>a DEF Rounds
<1>. DEFINE To(k, q, i) == WalkedTo(args, A[k], start, end, behind, g, l, q, i)
            T == {k \in 0..N : \E q \in 0..g, i \in 0..(l - 1) : k = l * q + i /\ To(k, q, i)}
<1>4. 0 \in T
  <2>1. ASSUME NEW q \in 0..(g - 1), NEW i \in 0..(l - 1)
        PROVE  Source(q, i, 0, 0) = i
    BY <1>2, <2>1 DEF Source
  <2>2. To(0, 0, 0)
    <3>. HIDE DEF l
    <3>. QED
      BY <1>3, <2>1 DEF WalkedTo
  <2>3. 0 \in 0..g /\ 0 \in 0..(l - 1) /\ 0 = l * 0 + 0 /\ 0 \in 0..N
    BY <1>0, <1>2
  <2>. HIDE DEF To, l, N
  <2>. QED
    BY <2>2, <2>3
<1>5. ASSUME NEW j \in 0..(N - 1), j \in T
      PROVE  j + 1 \in T
  <2>1. PICK q \in 0..g, i \in 0..(l - 1) : j = l * q + i /\ To(j, q, i)
    <3>. HIDE DEF To, l, N
    <3>. QED
      BY <1>5
  <2>. DEFINE k == j + 1
  <2>2. k \in 1..N /\ k - 1 = j /\ j \in 0..N /\ k \in 0..N
    BY <1>0
  <2>3. PICK r \in Int, m \in Int : RoundAt(start, end, behind, k, g, l, r, m)
    <3>. HIDE DEF k
    <3>1. k \in 1..(behind - start)
      BY <2>2
    <3>. QED
      BY <1>1, <3>1, RoundOf
  <2>4. r = q /\ m = i
    <3>. HIDE DEF l, k
    <3>1. k = l * r + m + 1 /\ r \in 0..(g - 1) /\ m \in 0..(l - 1)
      BY <2>3 DEF RoundAt
    <3>2. q \in Int /\ i \in Int /\ r \in Int /\ m \in Int /\ 0 <= i /\ i < l /\ 0 <= m /\ m < l
      BY <1>2, <3>1
    <3>3. l * r \in Int /\ l * q \in Int /\ l * (q - r) = l * q - l * r
      BY <1>2, <3>2
    <3>4. l * r + m = l * q + i
      <4>1. j \in Int /\ k = j + 1
        BY <2>2 DEF k
      <4>. DEFINE x == l * r
                  y == l * q
      <4>2. x \in Int /\ y \in Int /\ k = x + m + 1
        BY <3>1, <3>3
      <4>3. j = y + i
        BY <2>1
      <4>. HIDE DEF x, y
      <4>4. x + m = y + i
        BY <3>2, <4>1, <4>2, <4>3
      <4>. QED
        BY <4>4 DEF x, y
    <3>5. m - i = l * (q - r)
      BY <3>2, <3>3, <3>4
    <3>6. m = i
      <4>1. q - r \in Int /\ m - i < l /\ i - m < l
        BY <1>2, <3>2
      <4>. QED
        BY <1>2, <3>2, <3>5, <4>1, Multiples
    <3>7. l * (q - r) = 0 /\ q - r \in Int
      BY <3>2, <3>5, <3>6
    <3>8. q - r = 0
      BY <1>2, <3>7
    <3>. QED
      BY <3>2, <3>6, <3>8
  <2>5. To(k, IF i + 1 = l THEN q + 1 ELSE q, IF i + 1 = l THEN 0 ELSE i + 1)
    <3>1. A[k] = Round(start, end, behind, k, A[k - 1]) /\ A[k - 1] = A[j] /\ A[j] \in Carried(n, X)
      <4>. HIDE DEF k, N, n
      <4>. QED
        BY <1>3, <2>2
    <3>2. RoundAt(start, end, behind, k, g, l, q, i) /\ WalkedTo(args, A[j], start, end, behind, g, l, q, i)
      BY <2>1, <2>3, <2>4
    <3>3. q \in Int /\ i \in Int
      BY <1>2
    <3>. HIDE DEF k
    <3>. QED
      BY <1>1, <3>1, <3>2, <3>3, WalksOn
  <2>6. q \in 0..(g - 1)
    BY <2>3, <2>4 DEF RoundAt
  <2>. HIDE DEF To
  <2>7. CASE i + 1 = l
    <3>1. To(k, q + 1, 0)
      BY <2>5, <2>7
    <3>2. q + 1 \in 0..g /\ 0 \in 0..(l - 1) /\ q \in Int
      BY <1>2, <2>6
    <3>3. k = l * (q + 1) + 0
      <4>. HIDE DEF l
      <4>1. l * (q + 1) = l * q + l /\ l * q \in Int /\ j \in Int /\ i \in Int
        BY <1>2, <2>2, <3>2
      <4>. QED
        BY <1>2, <2>1, <2>7, <4>1
    <3>. HIDE DEF k, l, N
    <3>4. k \in T
      BY <2>2, <3>1, <3>2, <3>3
    <3>. QED
      BY <3>4 DEF k
  <2>8. CASE i + 1 # l
    <3>1. To(k, q, i + 1)
      BY <2>5, <2>8
    <3>2. i + 1 \in 0..(l - 1) /\ q \in Int /\ i \in Int
      BY <1>2, <2>8
    <3>3. k = l * q + (i + 1)
      <4>. HIDE DEF l
      <4>1. l * q \in Int /\ j \in Int
        BY <1>2, <2>2, <3>2
      <4>. QED
        BY <2>1, <3>2, <4>1
    <3>. HIDE DEF k, l, N
    <3>4. k \in T
      BY <2>2, <3>1, <3>2, <3>3
    <3>. QED
      BY <3>4 DEF k
  <2>. QED
    BY <2>7, <2>8
<1>6. N \in T
  <2>1. 0 \in Int /\ N \in Int /\ N \in 0..N
    BY <1>0
  <2>. HIDE DEF T, N
  <2>2. 0..N \subseteq T
    BY <1>4, <1>5, <2>1, AllUpTo
  <2>. QED
    BY <2>1, <2>2
<1>7. To(N, g, 0)
  <2>1. PICK q \in 0..g, i \in 0..(l - 1) : N = l * q + i /\ To(N, q, i)
    <3>. HIDE DEF To, l, N
    <3>. QED
      BY <1>6
  <2>2. i = 0 /\ q = g
    <3>. HIDE DEF l, N, To
    <3>1. q \in Int /\ i \in Int /\ 0 <= i /\ i < l
      BY <1>2
    <3>2. l * (g - q) = g * l - l * q /\ l * q \in Int /\ g * l \in Int
      BY <1>2, <3>1
    <3>3. i - 0 = l * (g - q)
      BY <1>2, <2>1, <3>1, <3>2
    <3>4. i = 0
      BY <1>2, <3>1, <3>3, Multiples
    <3>5. l * (g - q) = 0 /\ g - q \in Int
      BY <1>2, <3>1, <3>3, <3>4
    <3>. QED
      BY <1>2, <3>1, <3>4, <3>5
  <2>. HIDE DEF To, l, N
  <2>. QED
    BY <2>1, <2>2
<1>. DEFINE R == A[N].args
<1>8. R \in [1..n -> X] /\ Permuted(args, start, end, behind) = R
  <2>. HIDE DEF N, n
  <2>1. A[N] \in Carried(n, X)
    BY <1>0, <1>3
  <2>. QED
    BY <1>3, <2>1 DEF Carried
<1>9. ASSUME NEW t \in 1..n
      PROVE  R[t] = IF t < start \/ t >= behind THEN args[t]
                    ELSE IF t < start + (behind - end) THEN args[t + (end - start)]
                    ELSE args[t - (behind - end)]
  <2>1. CASE t < start \/ t >= behind
    BY <1>7, <2>1 DEF WalkedTo
  <2>2. CASE ~(t < start \/ t >= behind)
    <3>1. t \in start..(behind - 1)
      BY <1>0, <2>2
    <3>2. PICK q \in 0..(g - 1), i \in 0..(l - 1) : Spot(start, end, behind, q, i) = t
      <4>1. l = a + b
        OBVIOUS
      <4>. HIDE DEF l
      <4>. QED
        BY <1>1, <3>1, <4>1, SpotsMeet
    <3>3. q \in Int /\ q < g /\ i \in Int
      BY <1>2
    <3>4. R[t] = args[Spot(start, end, behind, q, i - 1)]
      <4>1. R[Spot(start, end, behind, q, i)] = args[Spot(start, end, behind, q, Source(q, i, g, 0))]
        <5>. HIDE DEF l, N
        <5>. QED
          BY <1>7 DEF WalkedTo
      <4>2. Source(q, i, g, 0) = i - 1
        BY <3>3 DEF Source
      <4>. QED
        BY <3>2, <4>1, <4>2
    <3>. DEFINE s == Spot(start, end, behind, q, i - 1)
    <3>5. s \in start..(behind - 1) /\ t = IF s >= end THEN s - (end - start) ELSE s + (behind - end)
      <4>1. i - 1 \in Int /\ (i - 1) + 1 = i
        BY <3>3
      <4>2. s \in start..(behind - 1)
        BY <1>1, <4>1, SpotIs
      <4>3. Spot(start, end, behind, q, (i - 1) + 1) = IF s >= end THEN s - (end - start) ELSE s + (behind - end)
        <5>1. \A j \in Int : Spot(start, end, behind, q, j + 1) =
                 IF Spot(start, end, behind, q, j) >= end
                 THEN Spot(start, end, behind, q, j) - (end - start)
                 ELSE Spot(start, end, behind, q, j) + (behind - end)
          BY <1>1, SpotIs
        <5>. QED
          BY <4>1, <5>1
      <4>. QED
        BY <3>2, <4>1, <4>2, <4>3
    <3>. HIDE DEF s
    <3>6. s = IF t < start + (behind - end) THEN t + (end - start) ELSE t - (behind - end)
      BY <1>0, <3>1, <3>5
    <3>7. R[t] = args[s]
      BY <3>4 DEF s
    <3>. HIDE DEF R
    <3>. QED
      BY <2>2, <3>6, <3>7
  <2>. QED
    BY <2>1, <2>2
<1>. HIDE DEF R
<1>10. R \in Seq(X) /\ Len(R) = n
  BY <1>0, <1>8
<1>. QED
  BY <1>8, <1>9, <1>10

-----------------------------------------------------------------------------
(* Sequences made of pieces *)

Pieces(h, ss, X) ==
    /\ h \in [0..Len(ss) -> Seq(X)]
    /\ h[0] = <<>>
    /\ \A k \in 1..Len(ss) : h[k] = h[k - 1] \o ss[k]

LEMMA FlattenIs ==
    ASSUME NEW X, NEW ss \in Seq(Seq(X))
    PROVE  \E h : Pieces(h, ss, X) /\ FlattenSeq(ss) = h[Len(ss)]
<1>. DEFINE n == Len(ss)
            V == Seq(X)
            step == [k \in 1..n |-> [c \in V |-> c \o ss[k]]]
<1>1. n \in Nat /\ <<>> \in V /\ \A k \in 1..n : ss[k] \in V
  OBVIOUS
<1>2. step \in [1..n -> [V -> V]] /\ \A k \in 1..n : \A c \in V : step[k][c] = c \o ss[k]
  <2>1. \A k \in 1..n : \A c \in V : c \o ss[k] \in V
    <3>. HIDE DEF n
    <3>. QED
      BY <1>1
  <2>. HIDE DEF n, V
  <2>. QED
    BY <2>1
<1>3. PICK h : Iterates(h, n, V, <<>>, step)
  <2>. HIDE DEF n, V, step
  <2>. QED
    BY <1>1, <1>2, Iteration
<1>4. h \in [0..n -> V] /\ h[0] = <<>> /\ \A k \in 1..n : h[k] = h[k - 1] \o ss[k]
  <2>. HIDE DEF n, V, step
  <2>1. h \in [0..n -> V] /\ h[0] = <<>> /\ \A k \in 1..n : h[k] = step[k][h[k - 1]]
    BY <1>3 DEF Iterates
  <2>2. \A k \in 1..n : h[k - 1] \in V
    BY <1>1, <2>1
  <2>. QED
    BY <1>2, <2>1, <2>2
<1>5. Pieces(h, ss, X)
  BY <1>4 DEF Pieces
<1>6. CASE n = 0
  <2>1. ss = <<>>
    BY <1>6
  <2>2. FlattenSeq(ss) = <<>>
    BY <1>6, <2>1 DEF FlattenSeq
  <2>. QED
    BY <1>4, <1>5, <1>6, <2>2
<1>7. CASE n # 0
  <2>. DEFINE E(f, i) == IF i = 1 THEN ss[i] ELSE f[i - 1] \o ss[i]
              f0 == [i \in 1..n |-> h[i]]
              F == CHOOSE f : f = [i \in 1..n |-> E(f, i)]
  <2>1. \A i \in 1..n : f0[i] = E(f0, i)
    <3>. SUFFICES ASSUME NEW i \in 1..n
                  PROVE  f0[i] = E(f0, i)
      OBVIOUS
    <3>1. h[i] = h[i - 1] \o ss[i] /\ i \in Int
      <4>. HIDE DEF n, V
      <4>. QED
        BY <1>1, <1>4
    <3>2. CASE i = 1
      <4>1. ss[1] \in Seq(X)
        BY <1>1, <3>2
      <4>2. <<>> \o ss[1] = ss[1]
        BY <4>1
      <4>3. i - 1 = 0 /\ f0[i] = h[i]
        BY <3>2
      <4>4. h[i] = <<>> \o ss[1]
        <5>. HIDE DEF n, V, f0
        <5>. QED
          BY <1>4, <3>1, <3>2, <4>3
      <4>. QED
        BY <3>2, <4>2, <4>3, <4>4
    <3>3. CASE i # 1
      <4>1. i - 1 \in 1..n
        BY <1>1, <3>3
      <4>. QED
        BY <3>1, <3>3, <4>1
    <3>. QED
      BY <3>2, <3>3
  <2>2. f0 = [i \in 1..n |-> E(f0, i)]
    <3>. HIDE DEF E, n
    <3>1. f0 = [i \in 1..n |-> f0[i]]
      OBVIOUS
    <3>. HIDE DEF f0
    <3>. QED
      BY <2>1, <3>1
  <2>3. F = [i \in 1..n |-> E(F, i)]
    <3>. HIDE DEF E, n, f0
    <3>. QED
      BY <2>2
  <2>4. FlattenSeq(ss) = F[n]
    BY <1>7 DEF FlattenSeq
  <2>. HIDE DEF F
  <2>5. \A i \in 1..n : F[i] = h[i]
    <3>. DEFINE T == {i \in 1..n : F[i] = h[i]}
    <3>1. 1 \in T
      <4>1. F[1] = ss[1] /\ 1 \in 1..n
        BY <1>1, <1>7, <2>3
      <4>2. h[1] = ss[1]
        <5>1. <<>> \o ss[1] = ss[1] /\ 1 - 1 = 0
          BY <1>1, <4>1
        <5>. HIDE DEF n, V
        <5>. QED
          BY <1>4, <4>1, <5>1
      <4>. QED
        BY <4>1, <4>2
    <3>2. \A i \in 1..(n - 1) : i \in T => i + 1 \in T
      <4>. SUFFICES ASSUME NEW i \in 1..(n - 1), i \in T
                    PROVE  i + 1 \in T
        OBVIOUS
      <4>1. i + 1 \in 1..n /\ i + 1 # 1 /\ (i + 1) - 1 = i
        BY <1>1
      <4>2. F[i + 1] = E(F, i + 1)
        <5>. HIDE DEF E, n
        <5>. QED
          BY <2>3, <4>1
      <4>3. F[i + 1] = F[i] \o ss[i + 1]
        BY <4>1, <4>2
      <4>4. h[i + 1] = h[i] \o ss[i + 1]
        BY <1>4, <4>1
      <4>. QED
        BY <4>1, <4>3, <4>4
    <3>3. 1 \in Int /\ n \in Int
      OBVIOUS
    <3>4. 1..n \subseteq T
      <4>. HIDE DEF T, n
      <4>. QED
        BY <3>1, <3>2, <3>3, AllUpTo
    <3>. QED
      BY <3>4
  <2>. QED
    BY <1>1, <1>5, <1>7, <2>4, <2>5
<1>. QED
  BY <1>6, <1>7

LEMMA FlattenAppend ==
    ASSUME NEW X, NEW ss \in Seq(Seq(X)), NEW s \in Seq(X)
    PROVE  /\ FlattenSeq(ss) \in Seq(X)
           /\ FlattenSeq(Append(ss, s)) = FlattenSeq(ss) \o s
<1>. DEFINE n == Len(ss)
            tt == Append(ss, s)
<1>1. n \in Nat /\ tt \in Seq(Seq(X)) /\ Len(tt) = n + 1 /\ tt[n + 1] = s /\ \A k \in 1..n : tt[k] = ss[k]
  OBVIOUS
<1>2. PICK h : Pieces(h, ss, X) /\ FlattenSeq(ss) = h[n]
  BY FlattenIs
<1>. HIDE DEF tt
<1>3. PICK g : Pieces(g, tt, X) /\ FlattenSeq(tt) = g[Len(tt)]
  BY <1>1, FlattenIs
<1>4. h \in [0..n -> Seq(X)] /\ h[0] = <<>> /\ \A k \in 1..n : h[k] = h[k - 1] \o ss[k]
  BY <1>2 DEF Pieces
<1>5. g[0] = <<>> /\ \A k \in 1..(n + 1) : g[k] = g[k - 1] \o tt[k]
  BY <1>1, <1>3 DEF Pieces
<1>6. 0..n \subseteq {k \in 0..n : g[k] = h[k]}
  <2>. DEFINE T == {k \in 0..n : g[k] = h[k]}
  <2>1. 0 \in T /\ 0 \in Int /\ n \in Int
    BY <1>1, <1>4, <1>5
  <2>2. \A k \in 0..(n - 1) : k \in T => k + 1 \in T
    <3>. SUFFICES ASSUME NEW k \in 0..(n - 1), k \in T
                  PROVE  k + 1 \in T
      OBVIOUS
    <3>1. k + 1 \in 1..n /\ k + 1 \in 1..(n + 1) /\ k + 1 \in 0..n /\ (k + 1) - 1 = k
      BY <1>1
    <3>. HIDE DEF n
    <3>2. g[k + 1] = g[k] \o ss[k + 1] /\ h[k + 1] = h[k] \o ss[k + 1]
      BY <1>1, <1>4, <1>5, <3>1
    <3>. QED
      BY <3>1, <3>2
  <2>. HIDE DEF T, n
  <2>3. 0..n \subseteq T
    BY <2>1, <2>2, AllUpTo
  <2>. QED
    BY <2>3 DEF T
<1>7. g[n] = h[n] /\ n \in 0..n
  BY <1>1, <1>6
<1>8. g[n + 1] = g[n] \o s
  <2>1. n + 1 \in 1..(n + 1) /\ (n + 1) - 1 = n
    BY <1>1
  <2>. HIDE DEF n
  <2>. QED
    BY <1>1, <1>5, <2>1
<1>. HIDE DEF n
<1>9. h[n] \in Seq(X)
  BY <1>4, <1>7
<1>. QED
  BY <1>1, <1>2, <1>3, <1>7, <1>8, <1>9 DEF tt

LEMMA FlattenEmpty == FlattenSeq(<<>>) = <<>>
BY DEF FlattenSeq

-----------------------------------------------------------------------------
(* The words of a command line, sorted into options and others *)

Opts(c, k) == OptionsIn(SubSeq(c, 1, k))
Others(c, k) == OthersIn(SubSeq(c, 1, k))

LEMMA SortedOneMore ==
    ASSUME NEW X, NEW c \in Seq(X), NEW k \in 1..Len(c)
    PROVE  /\ Opts(c, k - 1) \in Seq(X) /\ Others(c, k - 1) \in Seq(X)
           /\ Opts(c, k) = IF IsOption(c[k]) THEN Append(Opts(c, k - 1), c[k]) ELSE Opts(c, k - 1)
           /\ Others(c, k) = IF IsOption(c[k]) THEN Others(c, k - 1) ELSE Append(Others(c, k - 1), c[k])
<1>. DEFINE s == SubSeq(c, 1, k - 1)
            t == SubSeq(c, 1, k)
            O(j) == IF IsOption(c[j]) THEN <<c[j]>> ELSE <<>>
            N(j) == IF IsOption(c[j]) THEN <<>> ELSE <<c[j]>>
            os == [j \in 1..(k - 1) |-> O(j)]
            ns == [j \in 1..(k - 1) |-> N(j)]
<1>1. /\ s \in Seq(X) /\ Len(s) = k - 1 /\ \A j \in 1..(k - 1) : s[j] = c[j]
      /\ t \in Seq(X) /\ Len(t) = k /\ \A j \in 1..k : t[j] = c[j]
      /\ k \in Nat /\ k - 1 \in Nat /\ \A j \in 1..k : c[j] \in X
  OBVIOUS
<1>2. \A j \in 1..k : O(j) \in Seq(X) /\ N(j) \in Seq(X)
  BY <1>1
<1>. HIDE DEF s, t
<1>3. Opts(c, k - 1) = FlattenSeq(os) /\ Others(c, k - 1) = FlattenSeq(ns)
  <2>1. [j \in 1..Len(s) |-> IF IsOption(s[j]) THEN <<s[j]>> ELSE <<>>] = os
    BY <1>1
  <2>2. [j \in 1..Len(s) |-> IF IsOption(s[j]) THEN <<>> ELSE <<s[j]>>] = ns
    BY <1>1
  <2>. HIDE DEF os, ns
  <2>. QED
    BY <2>1, <2>2 DEF Opts, Others, OptionsIn, OthersIn, s
<1>4. Opts(c, k) = FlattenSeq([j \in 1..k |-> O(j)]) /\ Others(c, k) = FlattenSeq([j \in 1..k |-> N(j)])
  <2>1. [j \in 1..Len(t) |-> IF IsOption(t[j]) THEN <<t[j]>> ELSE <<>>] = [j \in 1..k |-> O(j)]
    BY <1>1
  <2>2. [j \in 1..Len(t) |-> IF IsOption(t[j]) THEN <<>> ELSE <<t[j]>>] = [j \in 1..k |-> N(j)]
    BY <1>1
  <2>. HIDE DEF O, N
  <2>. QED
    BY <2>1, <2>2 DEF Opts, Others, OptionsIn, OthersIn, t
<1>. HIDE DEF O, N
<1>5. os \in Seq(Seq(X)) /\ ns \in Seq(Seq(X))
  BY <1>1, <1>2
<1>6. [j \in 1..k |-> O(j)] = Append(os, O(k)) /\ [j \in 1..k |-> N(j)] = Append(ns, N(k))
  BY <1>1, <1>2
<1>7. O(k) \in Seq(X) /\ N(k) \in Seq(X)
  BY <1>1, <1>2
<1>. HIDE DEF os, ns
<1>8. /\ FlattenSeq(os) \in Seq(X) /\ FlattenSeq(Append(os, O(k))) = FlattenSeq(os) \o O(k)
      /\ FlattenSeq(ns) \in Seq(X) /\ FlattenSeq(Append(ns, N(k))) = FlattenSeq(ns) \o N(k)
  BY <1>5, <1>7, FlattenAppend
<1>9. CASE IsOption(c[k])
  <2>1. O(k) = <<c[k]>> /\ N(k) = <<>>
    BY <1>9 DEF O, N
  <2>2. FlattenSeq(ns) \o <<>> = FlattenSeq(ns)
    BY <1>8
  <2>3. FlattenSeq(os) \o <<c[k]>> = Append(FlattenSeq(os), c[k])
    BY <1>1, <1>8
  <2>. QED
    BY <1>3, <1>4, <1>6, <1>8, <1>9, <2>1, <2>2, <2>3
<1>10. CASE ~IsOption(c[k])
  <2>1. N(k) = <<c[k]>> /\ O(k) = <<>>
    BY <1>10 DEF O, N
  <2>2. FlattenSeq(os) \o <<>> = FlattenSeq(os)
    BY <1>8
  <2>3. FlattenSeq(ns) \o <<c[k]>> = Append(FlattenSeq(ns), c[k])
    BY <1>1, <1>8
  <2>. QED
    BY <1>3, <1>4, <1>6, <1>8, <1>10, <2>1, <2>2, <2>3
<1>. QED
  BY <1>9, <1>10

LEMMA SortedNone ==
    ASSUME NEW X, NEW c \in Seq(X)
    PROVE  Opts(c, 0) = <<>> /\ Others(c, 0) = <<>>
<1>. DEFINE s == SubSeq(c, 1, 0)
<1>1. s = <<>> /\ Len(s) = 0
  OBVIOUS
<1>. HIDE DEF s
<1>2. \A f, g : f = [j \in 1..Len(s) |-> g] => f = <<>>
  BY <1>1
<1>3. [j \in 1..Len(s) |-> IF IsOption(s[j]) THEN <<s[j]>> ELSE <<>>] = <<>>
  BY <1>1
<1>4. [j \in 1..Len(s) |-> IF IsOption(s[j]) THEN <<>> ELSE <<s[j]>>] = <<>>
  BY <1>1
<1>. QED
  BY <1>3, <1>4, FlattenEmpty DEF Opts, Others, OptionsIn, OthersIn, s

\* Each word is one or the other.
LEMMA SortedTypes ==
    ASSUME NEW X, NEW c \in Seq(X), NEW k \in 0..Len(c)
    PROVE  /\ Opts(c, k) \in Seq(X) /\ Others(c, k) \in Seq(X)
           /\ Len(Opts(c, k)) + Len(Others(c, k)) = k
<1>. DEFINE n == Len(c)
            T == {j \in 0..n : /\ Opts(c, j) \in Seq(X) /\ Others(c, j) \in Seq(X)
                               /\ Len(Opts(c, j)) + Len(Others(c, j)) = j}
<1>1. n \in Nat /\ 0 \in Int /\ n \in Int
  OBVIOUS
<1>2. 0 \in T
  <2>1. Opts(c, 0) = <<>> /\ Others(c, 0) = <<>>
    BY SortedNone
  <2>2. <<>> \in Seq(X) /\ Len(<<>>) = 0 /\ 0 \in 0..n
    BY <1>1
  <2>3. Opts(c, 0) \in Seq(X) /\ Others(c, 0) \in Seq(X) /\ Len(Opts(c, 0)) + Len(Others(c, 0)) = 0
    <3>1. Len(Opts(c, 0)) = 0 /\ Len(Others(c, 0)) = 0
      BY <2>1, <2>2, Zenon
    <3>2. Len(Opts(c, 0)) + Len(Others(c, 0)) = 0
      BY <3>1
    <3>. QED
      BY <2>1, <2>2, <3>2
  <2>. HIDE DEF n
  <2>. QED
    BY <2>2, <2>3
<1>3. \A j \in 0..(n - 1) : j \in T => j + 1 \in T
  <2>. SUFFICES ASSUME NEW j \in 0..(n - 1), j \in T
                PROVE  j + 1 \in T
    OBVIOUS
  <2>1. j + 1 \in 1..n /\ (j + 1) - 1 = j /\ j + 1 \in 0..n /\ c[j + 1] \in X /\ j \in Nat
    BY <1>1
  <2>. DEFINE o == Opts(c, j)
              m == Others(c, j)
              w == c[j + 1]
  <2>2. o \in Seq(X) /\ m \in Seq(X) /\ Len(o) + Len(m) = j
    OBVIOUS
  <2>3. /\ Opts(c, j + 1) = IF IsOption(w) THEN Append(o, w) ELSE o
        /\ Others(c, j + 1) = IF IsOption(w) THEN m ELSE Append(m, w)
    <3>. HIDE DEF n
    <3>1. \A i \in 1..Len(c) : 
             /\ Opts(c, i) = IF IsOption(c[i]) THEN Append(Opts(c, i - 1), c[i]) ELSE Opts(c, i - 1)
             /\ Others(c, i) = IF IsOption(c[i]) THEN Others(c, i - 1) ELSE Append(Others(c, i - 1), c[i])
      BY SortedOneMore
    <3>2. j + 1 \in 1..Len(c)
      BY <2>1 DEF n
    <3>. QED
      BY <2>1, <3>1, <3>2
  <2>. HIDE DEF o, m
  <2>4. w \in X
    BY <2>1
  <2>. HIDE DEF w
  <2>5. /\ Opts(c, j + 1) \in Seq(X) /\ Others(c, j + 1) \in Seq(X)
        /\ Len(Opts(c, j + 1)) + Len(Others(c, j + 1)) = j + 1
    <3>0. /\ Append(o, w) \in Seq(X) /\ Len(Append(o, w)) = Len(o) + 1 /\ Len(o) \in Nat
          /\ Append(m, w) \in Seq(X) /\ Len(Append(m, w)) = Len(m) + 1 /\ Len(m) \in Nat
      BY <2>2, <2>4
    <3>1. CASE IsOption(w)
      <4>1. Opts(c, j + 1) = Append(o, w) /\ Others(c, j + 1) = m
        BY <2>3, <3>1
      <4>2. Len(Append(o, w)) + Len(m) = j + 1
        <5>. DEFINE x == Len(o)
                    y == Len(m)
                    z == Len(Append(o, w))
        <5>1. x + y = j /\ z = x + 1 /\ x \in Nat /\ y \in Nat /\ j \in Nat
          BY <2>1, <2>2, <3>0
        <5>. HIDE DEF x, y, z
        <5>2. z + y = j + 1
          BY ONLY <5>1
        <5>. QED
          BY <5>2 DEF y, z
      <4>. QED
        BY <2>2, <3>0, <4>1, <4>2
    <3>2. CASE ~IsOption(w)
      <4>1. Opts(c, j + 1) = o /\ Others(c, j + 1) = Append(m, w)
        BY <2>3, <3>2
      <4>2. Len(o) + Len(Append(m, w)) = j + 1
        <5>. DEFINE x == Len(o)
                    y == Len(m)
                    z == Len(Append(m, w))
        <5>1. x + y = j /\ z = y + 1 /\ x \in Nat /\ y \in Nat /\ j \in Nat
          BY <2>1, <2>2, <3>0
        <5>. HIDE DEF x, y, z
        <5>2. x + z = j + 1
          BY ONLY <5>1
        <5>. QED
          BY <5>2 DEF x, z
      <4>. QED
        BY <2>2, <3>0, <4>1, <4>2
    <3>. QED
      BY <3>1, <3>2
  <2>. QED
    BY <2>1, <2>5
<1>4. 0..n \subseteq T
  <2>. HIDE DEF T, n
  <2>. QED
    BY <1>1, <1>2, <1>3, AllUpTo
<1>. QED
  BY <1>4

-----------------------------------------------------------------------------
(* argv while it is looked at: options, the words skipped from a place on, options *)

Laid(v, os, ns, st) ==
    /\ st \in 1..(Len(os) + 1)
    /\ \A t \in 1..(Len(os) + Len(ns)) :
          v[t] = IF t < st THEN os[t]
                 ELSE IF t < st + Len(ns) THEN ns[t - st + 1]
                 ELSE os[t - Len(ns)]

LEMMA LaidOption ==
    ASSUME NEW X, NEW os \in Seq(X), NEW ns \in Seq(X), NEW w \in X, NEW v, NEW st,
           Laid(v, os, ns, st), v[Len(os) + Len(ns) + 1] = w
    PROVE  Laid(v, Append(os, w), ns, st)
<1>. DEFINE o == Len(os)
            m == Len(ns)
            qs == Append(os, w)
<1>1. /\ o \in Nat /\ m \in Nat /\ Len(qs) = o + 1 /\ qs[o + 1] = w
      /\ \A t \in 1..o : qs[t] = os[t]
  OBVIOUS
<1>2. st \in 1..(o + 1) /\ v[o + m + 1] = w
      /\ \A t \in 1..(o + m) : v[t] = IF t < st THEN os[t] ELSE IF t < st + m THEN ns[t - st + 1] ELSE os[t - m]
  BY DEF Laid
<1>. HIDE DEF o, m, qs
<1>3. ASSUME NEW t \in 1..(o + 1 + m)
      PROVE  v[t] = IF t < st THEN qs[t] ELSE IF t < st + m THEN ns[t - st + 1] ELSE qs[t - m]
  <2>1. CASE t = o + m + 1
    <3>1. ~(t < st) /\ ~(t < st + m) /\ t - m = o + 1
      BY <1>1, <1>2, <2>1
    <3>. QED
      BY <1>1, <1>2, <2>1, <3>1
  <2>2. CASE t # o + m + 1
    <3>1. t \in 1..(o + m)
      BY <1>1, <2>2
    <3>2. t < st => t \in 1..o
      BY <1>1, <1>2, <3>1
    <3>3. ~(t < st) /\ ~(t < st + m) => t - m \in 1..o
      BY <1>1, <1>2, <3>1
    <3>. QED
      BY <1>1, <1>2, <3>1, <3>2, <3>3
  <2>. QED
    BY <2>1, <2>2
<1>4. st \in 1..(o + 1 + 1)
  BY <1>1, <1>2
<1>. QED
  BY <1>1, <1>3, <1>4 DEF Laid, m, qs

LEMMA LaidOther ==
    ASSUME NEW X, NEW os \in Seq(X), NEW ns \in Seq(X), NEW w \in X, NEW v,
           Laid(v, os, ns, Len(os) + 1), v[Len(os) + Len(ns) + 1] = w
    PROVE  Laid(v, os, Append(ns, w), Len(os) + 1)
<1>. DEFINE o == Len(os)
            m == Len(ns)
            qs == Append(ns, w)
<1>1. /\ o \in Nat /\ m \in Nat /\ Len(qs) = m + 1 /\ qs[m + 1] = w
      /\ \A t \in 1..m : qs[t] = ns[t]
  OBVIOUS
<1>2. v[o + m + 1] = w
      /\ \A t \in 1..(o + m) : v[t] = IF t < o + 1 THEN os[t] ELSE IF t < o + 1 + m THEN ns[t - (o + 1) + 1] ELSE os[t - m]
  BY DEF Laid
<1>. HIDE DEF o, m, qs
<1>3. ASSUME NEW t \in 1..(o + (m + 1))
      PROVE  v[t] = IF t < o + 1 THEN os[t]
                    ELSE IF t < o + 1 + (m + 1) THEN qs[t - (o + 1) + 1] ELSE os[t - (m + 1)]
  <2>1. CASE t = o + m + 1
    <3>1. ~(t < o + 1) /\ t < o + 1 + (m + 1) /\ t - (o + 1) + 1 = m + 1
      BY <1>1, <2>1
    <3>. QED
      BY <1>1, <1>2, <2>1, <3>1
  <2>2. CASE t # o + m + 1
    <3>1. t \in 1..(o + m) /\ t < o + 1 + m
      BY <1>1, <2>2
    <3>2. CASE t < o + 1
      BY <1>2, <3>1, <3>2
    <3>3. CASE ~(t < o + 1)
      <4>1. t - (o + 1) + 1 \in 1..m /\ t < o + 1 + (m + 1)
        BY <1>1, <3>1, <3>3
      <4>. QED
        BY <1>1, <1>2, <3>1, <3>3, <4>1
    <3>. QED
      BY <3>2, <3>3
  <2>. QED
    BY <2>1, <2>2
<1>4. o + 1 \in 1..(o + 1)
  BY <1>1
<1>. QED
  BY <1>1, <1>3, <1>4 DEF Laid, o, qs

\* When nothing is skipped, it may begin anywhere.
LEMMA LaidNone ==
    ASSUME NEW X, NEW os \in Seq(X), NEW v, NEW st, Laid(v, os, <<>>, st), NEW s \in 1..(Len(os) + 1)
    PROVE  Laid(v, os, <<>>, s)
<1>. DEFINE o == Len(os)
<1>1. o \in Nat /\ Len(<<>>) = 0
  OBVIOUS
<1>2. st \in Int /\ s \in Int
  BY <1>1 DEF Laid
<1>3. \A t \in 1..o : v[t] = os[t]
  <2>1. \A t \in 1..(o + 0) : v[t] = IF t < st THEN os[t] ELSE IF t < st + 0 THEN <<>>[t - st + 1] ELSE os[t - 0]
    BY <1>1 DEF Laid
  <2>. HIDE DEF o
  <2>. SUFFICES ASSUME NEW t \in 1..o
                PROVE  v[t] = os[t]
    OBVIOUS
  <2>2. t \in 1..(o + 0) /\ st + 0 = st /\ t - 0 = t
    BY <1>1, <1>2
  <2>. QED
    BY <2>1, <2>2
<1>4. \A t \in 1..(o + 0) : v[t] = IF t < s THEN os[t] ELSE IF t < s + 0 THEN <<>>[t - s + 1] ELSE os[t - 0]
  <2>. HIDE DEF o
  <2>. SUFFICES ASSUME NEW t \in 1..(o + 0)
                PROVE  v[t] = IF t < s THEN os[t] ELSE IF t < s + 0 THEN <<>>[t - s + 1] ELSE os[t - 0]
    OBVIOUS
  <2>2. t \in 1..o /\ s + 0 = s /\ t - 0 = t
    BY <1>1, <1>2
  <2>. QED
    BY <1>3, <2>2
<1>. QED
  BY <1>1, <1>4 DEF Laid

\* permute_args moves what was skipped behind all options.
LEMMA LaidMoved ==
    ASSUME NEW X, NEW os \in Seq(X), NEW ns \in Seq(X), NEW v \in Seq(X), NEW st \in Int,
           Laid(v, os, ns, st), Len(ns) # 0, st # Len(os) + 1,
           Len(os) + Len(ns) <= Len(v),
           NEW behind, behind = Len(os) + Len(ns) + 1, NEW end, end = st + Len(ns)
    PROVE  /\ Permuted(v, st, end, behind) \in Seq(X)
           /\ Len(Permuted(v, st, end, behind)) = Len(v)
           /\ Laid(Permuted(v, st, end, behind), os, ns, Len(os) + 1)
           /\ \A t \in 1..Len(v) : t >= behind => Permuted(v, st, end, behind)[t] = v[t]
<1>. DEFINE o == Len(os)
            m == Len(ns)
            n == Len(v)
            P == Permuted(v, st, end, behind)
<1>1. o \in Nat /\ m \in Nat /\ n \in Nat /\ m # 0 /\ st # o + 1 /\ o + m <= n
  OBVIOUS
<1>2. behind = o + m + 1 /\ end = st + m
  OBVIOUS
<1>3. st \in 1..(o + 1)
      /\ \A t \in 1..(o + m) : v[t] = IF t < st THEN os[t] ELSE IF t < st + m THEN ns[t - st + 1] ELSE os[t - m]
  BY DEF Laid
<1>4. Blocks(n, st, end, behind)
  <2>. HIDE DEF o, m, n
  <2>. QED
    BY <1>1, <1>2, <1>3 DEF Blocks
<1>5. /\ P \in Seq(X) /\ Len(P) = n
      /\ \A t \in 1..n :
            P[t] = IF t < st \/ t >= behind THEN v[t]
                   ELSE IF t < st + (behind - end) THEN v[t + (end - st)]
                   ELSE v[t - (behind - end)]
  <2>1. v \in Seq(X) /\ Blocks(Len(v), st, end, behind)
    BY <1>4
  <2>. QED
    BY ONLY <2>1, PermutedExchanges
<1>. HIDE DEF o, m, n, P
<1>6. \A t \in 1..n : t >= behind => P[t] = v[t]
  BY <1>5
<1>7. behind - end = o + 1 - st /\ end - st = m /\ st + (behind - end) = o + 1
  <2>1. o \in Int /\ m \in Int
    BY ONLY <1>1
  <2>2. behind = o + m + 1 /\ end = st + m
    BY ONLY <1>2
  <2>3. st \in Int
    OBVIOUS
  <2>. QED
    BY ONLY <2>1, <2>2, <2>3
<1>8. ASSUME NEW t \in 1..(o + m)
      PROVE  P[t] = IF t < o + 1 THEN os[t] ELSE IF t < o + 1 + m THEN ns[t - (o + 1) + 1] ELSE os[t - m]
  <2>1. t \in 1..n /\ ~(t >= behind) /\ t < o + 1 + m /\ t \in Int
    BY <1>1, <1>2
  <2>2. CASE t < st
    <3>1. t < o + 1
      BY <1>1, <1>3, <2>1, <2>2
    <3>2. P[t] = v[t] /\ v[t] = os[t]
      BY <1>3, <1>5, <2>1, <2>2
    <3>. QED
      BY <3>1, <3>2
  <2>3. CASE t >= st /\ t < o + 1
    <3>1. t + m \in 1..(o + m) /\ ~(t + m < st) /\ ~(t + m < st + m) /\ (t + m) - m = t /\ ~(t < st)
      BY <1>1, <1>3, <2>1, <2>3
    <3>2. P[t] = v[t + m]
      BY <1>5, <1>7, <2>1, <2>3, <3>1
    <3>3. v[t + m] = os[t]
      BY <1>3, <3>1
    <3>. QED
      BY <2>3, <3>2, <3>3
  <2>4. CASE t >= o + 1
    <3>. DEFINE s == t - (o + 1 - st)
    <3>1. s \in 1..(o + m) /\ ~(s < st) /\ s < st + m /\ s - st + 1 = t - (o + 1) + 1 /\ ~(t < st) /\ ~(t < o + 1)
      BY <1>1, <1>3, <2>1, <2>4
    <3>2. P[t] = v[s]
      BY <1>5, <1>7, <2>1, <3>1
    <3>. HIDE DEF s
    <3>3. v[s] = ns[t - (o + 1) + 1]
      BY <1>3, <3>1
    <3>. QED
      BY <2>1, <3>1, <3>2, <3>3
  <2>. QED
    BY <1>1, <1>3, <2>1, <2>2, <2>3, <2>4
<1>9. o + 1 \in 1..(o + 1)
  BY <1>1
<1>10. Laid(P, os, ns, o + 1)
  BY <1>8, <1>9 DEF Laid, o, m
<1>. QED
  BY <1>5, <1>6, <1>10 DEF o, n, P

-----------------------------------------------------------------------------
(* getopt_long between its calls, and in the middle of one *)

\* A command line is a sequence of words, and those are sequences.
WordsSound(c) == c \in Seq(Range(c)) /\ \A w \in Range(c) : w \in Seq(Range(w))

\* The words are those of the command line, and from the i-th on in their places.
Words(c, v, i) ==
    /\ v \in Seq(Range(c))
    /\ Len(v) = Len(c)
    /\ \A k \in i..Len(c) : v[k] = c[k]

\* The k-th word does not end the options.
NoStop(c, e, k) == c[k] # EndMark /\ ("POSIXLY_CORRECT" \in e => IsOption(c[k]))

\* What is left of a word of options, one at least being handed out.
Rest(w, p) ==
    /\ p \in Seq(Range(w))
    /\ Len(p) \in 1..(Len(w) - 2)
    /\ \A q \in 1..Len(p) : p[q] = w[Len(w) - Len(p) + q]

\* The words before the i-th have been looked at.
Looked(c, e, i, p) ==
    /\ i \in 1..(Len(c) + 1)
    /\ \A k \in 1..(i - 1) : NoStop(c, e, k)
    /\ p # <<>> => i <= Len(c) /\ IsOption(c[i]) /\ ~IsLong(c[i]) /\ Rest(c[i], p)

\* Where those are that were skipped, and what is remembered of it.
Skipped(c, i, v, first, end, p) ==
    LET os == Opts(c, i - 1)
        ns == Others(c, i - 1)
    IN \/ first = -1 /\ end = -1 /\ Len(ns) = 0 /\ Laid(v, os, ns, Len(os) + 1)
       \/ /\ Len(ns) # 0 /\ Laid(v, os, ns, first)
          /\ \/ end = -1 /\ first = Len(os) + 1
             \/ end = first + Len(ns) /\ (p = <<>> => first # Len(os) + 1)

Scanning ==
    /\ Words(command, argv, optind)
    /\ Looked(command, environment, optind, place)
    /\ Skipped(command, optind, argv, nonopt_start, nonopt_end, place)

\* After k words there are no more options.
LooksNoFurther(c, e, k) ==
    /\ \A j \in 1..(k - 1) : NoStop(c, e, j)
    /\ \/ k # 0 /\ c[k] = EndMark
       \/ /\ k = Len(c) \/ ("POSIXLY_CORRECT" \in e /\ ~IsOption(c[k + 1]))
          /\ k # 0 => NoStop(c, e, k)

EndedAt(c, e, v, i, k) ==
    /\ k \in 0..Len(c)
    /\ Words(c, v, k + 1)
    /\ Laid(v, Opts(c, k), Others(c, k), Len(Opts(c, k)) + 1)
    /\ i = Len(Opts(c, k)) + 1
    /\ LooksNoFurther(c, e, k)

Ended ==
    /\ place = <<>> /\ nonopt_start = -1 /\ nonopt_end = -1
    /\ \E k \in 0..Len(command) : EndedAt(command, environment, argv, optind, k)

GetoptInv ==
    /\ WordsSound(command)
    /\ returned # "EOF" => Scanning
    /\ returned = "EOF" => Ended

-----------------------------------------------------------------------------
(* What is handed out *)

\* What a word of options yields: main knows no letter but those of its own string.
Yields(w) == Reading(w, Letters)
HandedOver == FlattenSeq([k \in 1..Len(OptionWords) |-> Yields(OptionWords[k])])
Demands(c, k) == FlattenSeq([j \in 1..Len(Opts(c, k)) |-> Yields(Opts(c, k)[j])])

\* How many of the demands are.
HandedOut(c, i, p) == Len(Demands(c, i - 1)) + (IF p = <<>> THEN 0 ELSE Len(c[i]) - 1 - Len(p))
Taken == IF returned = "EOF" THEN Len(HandedOver) ELSE HandedOut(command, optind, place)

Ends == {"h", "V", "?"}
Pending == returned \notin {"scanning", "EOF"}

\* The last of the demands d up to the a-th that is among values.
LastOf(d, a, values, k) ==
    /\ k \in 1..a /\ d[k] \in values
    /\ \A j \in (k + 1)..a : d[j] \notin values
NoneOf(d, a, values) == \A j \in 1..a : d[j] \notin values

Applied == IF Pending THEN Taken - 1 ELSE Taken

ResultOptions == {"q", "v"}
ResultsOf(d, a, setting) ==
    \/ NoneOf(d, a, ResultOptions) /\ setting = "unset"
    \/ \E k \in 1..a : /\ LastOf(d, a, ResultOptions, k)
                       /\ setting = IF d[k] = "q" THEN "never" ELSE "always"

SandboxOptions == {"keep-broken", "no-cleanup", "setup-only"}
SandboxOf(d, a, setting) ==
    \/ NoneOf(d, a, SandboxOptions) /\ setting = "unset"
    \/ \E k \in 1..a : /\ LastOf(d, a, SandboxOptions, k)
                       /\ setting = IF d[k] = "keep-broken" THEN "failed" ELSE "always"

\* The settings once the environment has been looked at.
WithEnvironment(setting, name, value) ==
    IF setting = "unset" /\ name \in environment THEN value ELSE setting
SettingsOf ==
    \/ /\ options # "done"
       /\ ResultsOf(HandedOver, Applied, print_results)
       /\ SandboxOf(HandedOver, Applied, keep_sandbox)
    \/ /\ options = "done"
       /\ \E setting : /\ ResultsOf(HandedOver, Applied, setting)
                       /\ print_results = WithEnvironment(setting, "VERBOSE", "always")
       /\ \E setting : /\ SandboxOf(HandedOver, Applied, setting)
                       /\ keep_sandbox = WithEnvironment(setting, "KEEP_BROKEN", "failed")

Ending ==
    \/ options = "open"
    \/ options = "done" /\ returned = "EOF" /\ optind = Len(argv)
    \/ options = "exit 0" /\ returned \in {"h", "V"}
    \/ options = "usage" /\ (returned = "?" \/ (returned = "EOF" /\ optind # Len(argv)))
    \/ options = "crash" /\ returned = "C"

MainInv ==
    /\ Taken \in 0..Len(HandedOver)
    /\ Pending => Taken # 0 /\ returned = HandedOver[Taken]
    /\ NoneOf(HandedOver, Applied, Ends)
    /\ SettingsOf
    /\ Ending

-----------------------------------------------------------------------------
(* The table of long options *)

NameAt(i) == LongOptions[i].name
NameParts ==
    {"help", "ver", "sion", "config-file", "keep", "-broken", "no-cleanup", "q", "uiet", "setup-only",
     "bose"}

LEMMA TableIs ==
    /\ DOMAIN LongOptions = 1..8 /\ Len(LongOptions) = 8
    /\ \A i \in 1..8 : /\ LongOptions[i] = Option(LongOptions[i].name, LongOptions[i].value)
                       /\ NameAt(i) \in Seq(NameParts) /\ Len(NameAt(i)) \in {1, 2}
                       /\ LongOptions[i].value \in
                             {"h", "V", "C", "keep-broken", "no-cleanup", "q", "setup-only", "v"}
    /\ \A i, j \in 1..8 :
          i = j \/ NameAt(i)[1] # NameAt(j)[1]
            \/ (Len(NameAt(i)) = 2 /\ Len(NameAt(j)) = 2 /\ NameAt(i)[2] # NameAt(j)[2])
<1>1. /\ LongOptions[1] = Option(<<"help">>, "h") /\ LongOptions[2] = Option(<<"ver", "sion">>, "V")
      /\ LongOptions[3] = Option(<<"config-file">>, "C")
      /\ LongOptions[4] = Option(<<"keep", "-broken">>, "keep-broken")
      /\ LongOptions[5] = Option(<<"no-cleanup">>, "no-cleanup")
      /\ LongOptions[6] = Option(<<"q", "uiet">>, "q")
      /\ LongOptions[7] = Option(<<"setup-only">>, "setup-only")
      /\ LongOptions[8] = Option(<<"ver", "bose">>, "v")
  BY DEF LongOptions
<1>2. DOMAIN LongOptions = 1..8 /\ Len(LongOptions) = 8
  BY DEF LongOptions
<1>3. /\ NameAt(1) = <<"help">> /\ NameAt(2) = <<"ver", "sion">> /\ NameAt(3) = <<"config-file">>
      /\ NameAt(4) = <<"keep", "-broken">> /\ NameAt(5) = <<"no-cleanup">>
      /\ NameAt(6) = <<"q", "uiet">> /\ NameAt(7) = <<"setup-only">>
      /\ NameAt(8) = <<"ver", "bose">>
  BY <1>1 DEF NameAt, Option
<1>4. ASSUME NEW i \in 1..8
      PROVE  i = 1 \/ i = 2 \/ i = 3 \/ i = 4 \/ i = 5 \/ i = 6 \/ i = 7 \/ i = 8
  OBVIOUS
<1>5. \A i \in 1..8 : NameAt(i) \in Seq(NameParts) /\ Len(NameAt(i)) \in {1, 2}
  <2>. SUFFICES ASSUME NEW i \in 1..8
                PROVE  NameAt(i) \in Seq(NameParts) /\ Len(NameAt(i)) \in {1, 2}
    OBVIOUS
  <2>1. ASSUME NEW x \in NameParts
        PROVE  <<x>> \in Seq(NameParts) /\ Len(<<x>>) = 1
    OBVIOUS
  <2>2. ASSUME NEW x \in NameParts, NEW y \in NameParts
        PROVE  <<x, y>> \in Seq(NameParts) /\ Len(<<x, y>>) = 2
    OBVIOUS
  <2>3. \A x \in {"help", "ver", "sion", "config-file", "keep", "-broken", "no-cleanup", "q", "uiet",
                    "setup-only", "bose"} : x \in NameParts
    BY DEF NameParts
  <2>4. (\E x \in NameParts : NameAt(i) = <<x>>) \/ (\E x, y \in NameParts : NameAt(i) = <<x, y>>)
    BY <1>3, <1>4, <2>3
  <2>. QED
    BY <2>1, <2>2, <2>4
<1>6. \A i \in 1..8 : /\ LongOptions[i] = Option(LongOptions[i].name, LongOptions[i].value)
                      /\ LongOptions[i].value \in
                            {"h", "V", "C", "keep-broken", "no-cleanup", "q", "setup-only", "v"}
  <2>. SUFFICES ASSUME NEW i \in 1..8
                PROVE  /\ LongOptions[i] = Option(LongOptions[i].name, LongOptions[i].value)
                       /\ LongOptions[i].value \in
                             {"h", "V", "C", "keep-broken", "no-cleanup", "q", "setup-only", "v"}
    OBVIOUS
  <2>. QED
    BY <1>1, <1>4 DEF Option
<1>7. \A i \in 1..8 : NameAt(i)[1] = IF i = 1 THEN "help" ELSE IF i = 2 \/ i = 8 THEN "ver"
         ELSE IF i = 3 THEN "config-file" ELSE IF i = 4 THEN "keep" ELSE IF i = 5 THEN "no-cleanup"
         ELSE IF i = 6 THEN "q" ELSE "setup-only"
  <2>. SUFFICES ASSUME NEW i \in 1..8
                PROVE  NameAt(i)[1] = IF i = 1 THEN "help" ELSE IF i = 2 \/ i = 8 THEN "ver"
         ELSE IF i = 3 THEN "config-file" ELSE IF i = 4 THEN "keep" ELSE IF i = 5 THEN "no-cleanup"
         ELSE IF i = 6 THEN "q" ELSE "setup-only"
    OBVIOUS
  <2>. QED
    BY <1>3, <1>4
<1>8. Len(NameAt(2)) = 2 /\ Len(NameAt(8)) = 2 /\ NameAt(2)[2] # NameAt(8)[2]
  BY <1>3
<1>9. ASSUME NEW i \in 1..8, NEW j \in 1..8, i # j, NameAt(i)[1] = NameAt(j)[1]
      PROVE  (i = 2 /\ j = 8) \/ (i = 8 /\ j = 2)
  BY <1>7, <1>9
<1>. QED
  BY <1>2, <1>5, <1>6, <1>8, <1>9

LEMMA PrefixIs ==
    ASSUME NEW X, NEW Y, NEW s \in Seq(X), NEW t \in Seq(Y), IsPrefix(s, t)
    PROVE  Len(s) <= Len(t) /\ \A q \in 1..Len(s) : s[q] = t[q]
<1>. DEFINE n == Len(s)
<1>1. n \in Nat /\ Len(t) \in Nat /\ n <= Len(t) /\ SubSeq(s, 1, n) = SubSeq(t, 1, n)
  BY DEF IsPrefix
<1>2. \A q \in 1..n : SubSeq(s, 1, n)[q] = s[q] /\ SubSeq(t, 1, n)[q] = t[q]
  BY <1>1
<1>. QED
  BY <1>1, <1>2

\* No name begins like another one as a whole.
LEMMA NamesDiffer ==
    ASSUME NEW i \in 1..8, NEW j \in 1..8, IsPrefix(NameAt(i), NameAt(j))
    PROVE  i = j
<1>0. NameAt(i) \in Seq(NameParts) /\ NameAt(j) \in Seq(NameParts) /\ Len(NameAt(i)) \in {1, 2}
  BY TableIs
<1>1. /\ Len(NameAt(i)) <= Len(NameAt(j))
      /\ \A q \in 1..Len(NameAt(i)) : NameAt(i)[q] = NameAt(j)[q]
      /\ Len(NameAt(i)) \in {1, 2}
  <2>. DEFINE s == NameAt(i)
              t == NameAt(j)
  <2>. HIDE DEF s, t
  <2>1. s \in Seq(NameParts) /\ t \in Seq(NameParts) /\ IsPrefix(s, t)
    BY <1>0 DEF s, t
  <2>2. Len(s) <= Len(t) /\ \A q \in 1..Len(s) : s[q] = t[q]
    BY <2>1, PrefixIs
  <2>. QED
    BY <1>0, <2>2 DEF s, t
<1>2. NameAt(i)[1] = NameAt(j)[1]
  BY <1>1
<1>3. Len(NameAt(i)) = 2 => NameAt(i)[2] = NameAt(j)[2]
  BY <1>1
<1>. QED
  BY <1>2, <1>3, TableIs

LEMMA OneElement ==
    ASSUME NEW S, IsFiniteSet(S)
    PROVE  /\ \A x : S = {x} => Cardinality(S) = 1 /\ (CHOOSE y \in S : TRUE) = x
           /\ \A x, y \in S : x # y => Cardinality(S) # 1 /\ Cardinality(S) > 1
           /\ S = {} => Cardinality(S) = 0
<1>1. ASSUME NEW x, S = {x}
      PROVE  Cardinality(S) = 1 /\ (CHOOSE y \in S : TRUE) = x
  BY <1>1, FS_Singleton
<1>2. ASSUME NEW x \in S, NEW y \in S, x # y
      PROVE  Cardinality(S) # 1 /\ Cardinality(S) > 1
  <2>1. Cardinality(S) # 1
    BY <1>2, FS_Singleton
  <2>2. Cardinality(S) \in Nat
    BY FS_CardinalityType
  <2>3. Cardinality({x}) = 1 /\ Cardinality({x}) <= Cardinality(S)
    BY FS_Singleton, FS_Subset
  <2>. QED
    BY <2>1, <2>2, <2>3
<1>3. S = {} => Cardinality(S) = 0
  BY FS_EmptySet
<1>. QED
  BY <1>1, <1>2, <1>3

LEMMA LeastIs ==
    ASSUME NEW S, NEW x \in Int, S = {x}
    PROVE  Min(S) = x
BY DEF Min

Meant(name) == {o \in ToSet(LongOptions) : IsPrefix(name, o.name)}
Values == {"h", "V", "C", "keep-broken", "no-cleanup", "q", "setup-only", "v", "?"}

\* The search of the table finds what a reader of the table would.
LEMMA ValueIs ==
    ASSUME NEW X, NEW name \in Seq(X)
    PROVE  /\ <<ValueOf(name)>> = IF Cardinality(Meant(name)) = 1
                                  THEN <<(CHOOSE o \in Meant(name) : TRUE).value>> ELSE <<"?">>
           /\ ValueOf(name) \in Values
<1>. DEFINE B == {i \in 1..Len(LongOptions) : IsPrefix(name, LongOptions[i].name)}
            E == {i \in B : LongOptions[i].name = name}
            O == {i \in B \ E : E = {} \/ i < Min(E)}
            M == Meant(name)
<1>1. ValueOf(name) = IF Cardinality(O) > 1 \/ B = {} THEN "?"
                      ELSE LongOptions[IF E # {} THEN Min(E) ELSE Min(O)].value
  BY DEF ValueOf
<1>2. B = {i \in 1..8 : IsPrefix(name, NameAt(i))}
  BY TableIs DEF NameAt
<1>3. M = {LongOptions[i] : i \in B}
  <2>1. ToSet(LongOptions) = {LongOptions[i] : i \in 1..8}
    BY TableIs DEF ToSet
  <2>2. \A i \in B : i \in 1..8 /\ IsPrefix(name, LongOptions[i].name)
    BY TableIs
  <2>3. \A i \in 1..8 : IsPrefix(name, LongOptions[i].name) => i \in B
    BY TableIs
  <2>. HIDE DEF B
  <2>. QED
    BY <2>1, <2>2, <2>3 DEF Meant
<1>4. IsFiniteSet(B) /\ IsFiniteSet(O) /\ IsFiniteSet(M)
  <2>1. IsFiniteSet(1..8)
    <3>1. 1 \in Int /\ 8 \in Int
      OBVIOUS
    <3>2. \A x, y \in Int : IsFiniteSet(x..y)
      BY FS_Interval
    <3>. QED
      BY <3>1, <3>2
  <2>2. B \subseteq 1..8 /\ O \subseteq B
    BY <1>2
  <2>3. IsFiniteSet(B)
    BY <2>1, <2>2, FS_Subset
  <2>4. IsFiniteSet(O)
    BY <2>2, <2>3, FS_Subset
  <2>. DEFINE f == [i \in B |-> LongOptions[i]]
  <2>6. IsFiniteSet(M)
    <3>1. f \in Surjection(B, M)
      <4>. HIDE DEF B, M
      <4>. QED
        BY <1>3 DEF Surjection
    <3>. HIDE DEF f, B, M
    <3>2. IsFiniteSet(M)
      BY <2>3, <3>1, FS_Surjection
    <3>. QED
      BY <3>2
  <2>. QED
    BY <2>3, <2>4, <2>6
<1>5. \A i, j \in B : i # j => LongOptions[i] # LongOptions[j]
  <2>. SUFFICES ASSUME NEW i \in 1..8, NEW j \in 1..8, i # j, NameAt(i) = NameAt(j)
                PROVE  FALSE
    BY <1>2 DEF NameAt
  <2>. QED
    BY TableIs
<1>6. \A e \in E : B = {e}
  <2>. SUFFICES ASSUME NEW e \in E, NEW i \in B
                PROVE  i = e
    OBVIOUS
  <2>1. NameAt(e) = name /\ e \in 1..8 /\ i \in 1..8 /\ IsPrefix(name, NameAt(i))
    BY <1>2 DEF NameAt
  <2>2. IsPrefix(NameAt(e), NameAt(i))
    BY <2>1
  <2>. QED
    BY <2>1, <2>2, NamesDiffer
<1>7. \A i \in B : LongOptions[i].value \in Values /\ i \in Int
  <2>1. \A i \in 1..8 : LongOptions[i].value \in Values
    BY TableIs DEF Values
  <2>. QED
    BY <1>2, <2>1
<1>8. CASE B = {}
  <2>1. Cardinality(M) # 1
    <3>1. M = {}
      <4>. HIDE DEF B, M
      <4>. QED
        BY <1>3, <1>8
    <3>. HIDE DEF M
    <3>2. Cardinality(M) = 0
      BY <1>4, <3>1, OneElement
    <3>. QED
      BY <3>2
  <2>. HIDE DEF B, E, O
  <2>. QED
    BY <1>1, <1>8, <2>1 DEF Values
<1>9. ASSUME NEW i, B = {i}
      PROVE  /\ ValueOf(name) = LongOptions[i].value
             /\ Cardinality(M) = 1 /\ (CHOOSE o \in M : TRUE) = LongOptions[i]
  <2>1. i \in Int
    BY <1>7, <1>9
  <2>2. ~(Cardinality(O) > 1)
    <3>1. O \subseteq {i}
      BY <1>9
    <3>2. Cardinality(O) <= Cardinality({i}) /\ Cardinality({i}) = 1 /\ Cardinality(O) \in Nat
      <4>. HIDE DEF O, B, E
      <4>. QED
        BY <1>4, <3>1, FS_Singleton, FS_Subset, FS_CardinalityType
    <3>. QED
      BY <3>2
  <2>3. (IF E # {} THEN Min(E) ELSE Min(O)) = i
    <3>1. CASE E # {}
      <4>1. E = {i}
        BY <1>9, <3>1
      <4>. HIDE DEF E
      <4>. QED
        BY <2>1, <3>1, <4>1, LeastIs
    <3>2. CASE E = {}
      <4>1. O = {i}
        BY <1>9, <3>2
      <4>. HIDE DEF E, O
      <4>. QED
        BY <2>1, <3>2, <4>1, LeastIs
    <3>. QED
      BY <3>1, <3>2
  <2>4. B # {}
    BY <1>9
  <2>5. M = {LongOptions[i]}
    <3>. HIDE DEF B, M
    <3>. QED
      BY <1>3, <1>9
  <2>. HIDE DEF B, E, O, M
  <2>6. Cardinality(M) = 1 /\ (CHOOSE o \in M : TRUE) = LongOptions[i]
    BY <1>4, <2>5, OneElement
  <2>. QED
    BY <1>1, <2>2, <2>3, <2>4, <2>6
<1>10. ASSUME NEW i \in B, B # {i}
       PROVE  Cardinality(O) > 1 /\ Cardinality(M) # 1
  <2>1. PICK j \in B : j # i
    BY <1>10
  <2>2. E = {}
    BY <1>6, <1>10
  <2>3. O = B
    BY <2>2
  <2>4. LongOptions[i] \in M /\ LongOptions[j] \in M /\ LongOptions[i] # LongOptions[j]
    <3>. HIDE DEF B, M
    <3>. QED
      BY <1>3, <1>5, <1>10, <2>1
  <2>. HIDE DEF B, E, O, M
  <2>5. Cardinality(O) > 1
    BY <1>4, <1>10, <2>1, <2>3, OneElement
  <2>6. Cardinality(M) # 1
    BY <1>4, <2>4, OneElement
  <2>. QED
    BY <2>5, <2>6
<1>. HIDE DEF B, E, O, M
<1>11. ASSUME NEW i \in B
       PROVE  /\ <<ValueOf(name)>> = IF Cardinality(M) = 1 THEN <<(CHOOSE o \in M : TRUE).value>> ELSE <<"?">>
              /\ ValueOf(name) \in Values
  <2>1. CASE B = {i}
    BY <1>7, <1>9, <2>1
  <2>2. CASE B # {i}
    BY <1>1, <1>10, <2>2 DEF Values
  <2>. QED
    BY <2>1, <2>2
<1>. QED
  BY <1>8, <1>11 DEF M

-----------------------------------------------------------------------------
(* One step of getopt_long, on words and places *)

LEMMA SortedBefore ==
    ASSUME NEW c, WordsSound(c), NEW i \in 1..(Len(c) + 1)
    PROVE  /\ Opts(c, i - 1) \in Seq(Range(c)) /\ Others(c, i - 1) \in Seq(Range(c))
           /\ Len(Opts(c, i - 1)) \in Nat /\ Len(Others(c, i - 1)) \in Nat
           /\ Len(Opts(c, i - 1)) + Len(Others(c, i - 1)) = i - 1
<1>1. c \in Seq(Range(c))
  BY DEF WordsSound
<1>2. i - 1 \in 0..Len(c)
  <2>. DEFINE n == Len(c)
  <2>1. n \in Nat
    BY <1>1
  <2>. HIDE DEF n
  <2>2. i - 1 \in 0..n
    BY <2>1 DEF n
  <2>. QED
    BY <2>2 DEF n
<1>3. /\ Opts(c, i - 1) \in Seq(Range(c)) /\ Others(c, i - 1) \in Seq(Range(c))
      /\ Len(Opts(c, i - 1)) + Len(Others(c, i - 1)) = i - 1
  BY <1>1, <1>2, SortedTypes
<1>. QED
  BY <1>3

LEMMA WordIs ==
    ASSUME NEW c, WordsSound(c), NEW i \in 1..Len(c)
    PROVE  c[i] \in Range(c) /\ c[i] \in Seq(Range(c[i])) /\ Len(c[i]) \in Nat /\ Len(c) \in Nat
<1>1. c \in Seq(Range(c)) /\ \A w \in Range(c) : w \in Seq(Range(w))
  BY DEF WordsSound
<1>2. c[i] \in Range(c) /\ Len(c) \in Nat
  BY <1>1
<1>3. c[i] \in Seq(Range(c[i]))
  BY <1>1, <1>2
<1>. QED
  BY <1>2, <1>3

\* An option is met, the end of what was skipped is noted.
LEMMA OptionMet ==
    ASSUME NEW c, WordsSound(c), NEW v, NEW i \in 1..Len(c), NEW first, NEW end, NEW p,
           Words(c, v, i), Skipped(c, i, v, first, end, p), IsOption(c[i]),
           NEW now, now = IF first # -1 /\ end = -1 THEN i ELSE end
    PROVE  /\ \A q : q # <<>> => Skipped(c, i, v, first, now, q)
           /\ Skipped(c, i + 1, v, first, now, <<>>)
<1>. DEFINE os == Opts(c, i - 1)
            ns == Others(c, i - 1)
            ps == Opts(c, i)
            o == Len(os)
            m == Len(ns)
<1>1. /\ os \in Seq(Range(c)) /\ ns \in Seq(Range(c)) /\ o \in Nat /\ m \in Nat /\ o + m = i - 1
  <2>1. i \in 1..(Len(c) + 1)
    BY WordIs
  <2>. QED
    BY <2>1, SortedBefore
<1>2. c[i] \in Range(c) /\ v[i] = c[i]
  BY WordIs DEF Words
<1>3. ps = Append(os, c[i]) /\ Others(c, i) = ns
  <2>1. c \in Seq(Range(c))
    BY DEF WordsSound
  <2>2. /\ Opts(c, i) = IF IsOption(c[i]) THEN Append(Opts(c, i - 1), c[i]) ELSE Opts(c, i - 1)
        /\ Others(c, i) = IF IsOption(c[i]) THEN Others(c, i - 1) ELSE Append(Others(c, i - 1), c[i])
    BY <2>1, SortedOneMore
  <2>. QED
    BY <2>2
<1>4. i \in Int /\ (i + 1) - 1 = i
  BY WordIs
<1>5. Len(ps) = o + 1
  BY <1>1, <1>2, <1>3
<1>. HIDE DEF os, ns, ps
<1>6. \A st : Laid(v, os, ns, st) => Laid(v, ps, ns, st)
  <2>1. v[o + m + 1] = c[i]
    <3>. HIDE DEF o, m
    <3>1. o + m + 1 = i
      BY <1>1, <1>4
    <3>. QED
      BY <1>2, <3>1
  <2>. QED
    BY <1>1, <1>2, <1>3, <2>1, LaidOption
<1>7. \A st : Laid(v, os, ns, st) => st \in 1..(o + 1)
  BY DEF Laid
<1>8. CASE first = -1 /\ end = -1 /\ m = 0 /\ Laid(v, os, ns, o + 1)
  <2>1. now = -1
    BY <1>8
  <2>2. ns = <<>> /\ ps \in Seq(Range(c))
    BY <1>1, <1>2, <1>3, <1>8
  <2>3. Laid(v, ps, <<>>, o + 1)
    BY <1>6, <1>8, <2>2
  <2>4. Len(ps) + 1 \in 1..(Len(ps) + 1)
    BY <1>1, <1>5
  <2>5. Laid(v, ps, ns, Len(ps) + 1)
    BY <2>2, <2>3, <2>4, LaidNone
  <2>. HIDE DEF m, o
  <2>. QED
    BY <1>3, <1>4, <1>8, <2>1, <2>5 DEF Skipped, os, ns, ps, m, o
<1>9. CASE /\ m # 0 /\ Laid(v, os, ns, first)
           /\ \/ end = -1 /\ first = o + 1
              \/ end = first + m /\ (p = <<>> => first # o + 1)
  <2>1. first \in 1..(o + 1) /\ Laid(v, ps, ns, first)
    BY <1>6, <1>7, <1>9
  <2>. HIDE DEF m, o
  <2>2. first # -1 /\ first # (o + 1) + 1 /\ first \in Int
    BY <1>1, <2>1
  <2>3. now = first + m
    <3>1. CASE end = -1 /\ first = o + 1
      <4>1. now = i
        BY <2>2, <3>1
      <4>. QED
        BY <1>1, <1>4, <3>1, <4>1
    <3>2. CASE end = first + m
      <4>1. end # -1
        BY <1>1, <2>1, <3>2
      <4>. QED
        BY <3>2, <4>1
    <3>. QED
      BY <1>9, <3>1, <3>2
  <2>4. \A q : q # <<>> => Skipped(c, i, v, first, now, q)
    BY <1>9, <2>3 DEF Skipped, os, ns, m, o
  <2>5. Skipped(c, i + 1, v, first, now, <<>>)
    <3>1. first # Len(ps) + 1
      BY <1>5, <2>2
    <3>. QED
      BY <1>3, <1>4, <1>9, <2>1, <2>3, <3>1 DEF Skipped, os, ns, ps, m
  <2>. QED
    BY <2>4, <2>5
<1>. QED
  BY <1>8, <1>9 DEF Skipped, os, ns, m, o

\* What was skipped is moved to the end of what was looked at.
LEMMA GatheredAtEnd ==
    ASSUME NEW c, WordsSound(c), NEW v, NEW i \in 1..(Len(c) + 1), NEW first, NEW end,
           Words(c, v, i), Skipped(c, i, v, first, end, <<>>),
           NEW moved, moved = IF end = -1 THEN v ELSE Permuted(v, first, end, i)
    PROVE  /\ Words(c, moved, i)
           /\ Laid(moved, Opts(c, i - 1), Others(c, i - 1), Len(Opts(c, i - 1)) + 1)
           /\ (IF end = -1 THEN IF first = -1 THEN i ELSE first ELSE i - (end - first))
                 = Len(Opts(c, i - 1)) + 1
           /\ first = -1 <=> Len(Others(c, i - 1)) = 0
<1>. DEFINE os == Opts(c, i - 1)
            ns == Others(c, i - 1)
            o == Len(os)
            m == Len(ns)
<1>1. os \in Seq(Range(c)) /\ ns \in Seq(Range(c)) /\ o \in Nat /\ m \in Nat /\ o + m = i - 1
  BY SortedBefore
<1>2. c \in Seq(Range(c)) /\ Len(c) \in Nat
  BY DEF WordsSound
<1>3. i \in Int /\ i = o + m + 1
  <2>1. i \in Int
    BY <1>2
  <2>. HIDE DEF o, m
  <2>. QED
    BY <1>1, <2>1
<1>4. v \in Seq(Range(c)) /\ Len(v) = Len(c) /\ \A k \in i..Len(c) : v[k] = c[k]
  BY DEF Words
<1>5. o + m <= Len(v)
  <2>. DEFINE n == Len(c)
  <2>1. n \in Nat /\ i \in 1..(n + 1) /\ Len(v) = n /\ o \in Nat /\ m \in Nat /\ i = o + m + 1
    BY <1>1, <1>2, <1>3, <1>4
  <2>. HIDE DEF n, o, m
  <2>. QED
    BY ONLY <2>1
<1>. HIDE DEF os, ns
<1>6. \A st : Laid(v, os, ns, st) => st \in 1..(o + 1)
  BY DEF Laid
<1>7. CASE first = -1 /\ end = -1 /\ m = 0 /\ Laid(v, os, ns, o + 1)
  <2>1. moved = v
    BY <1>7
  <2>2. i = o + 1
    <3>. HIDE DEF o, m
    <3>. QED
      BY <1>1, <1>3, <1>7
  <2>. QED
    BY <1>7, <2>1, <2>2 DEF os, ns
<1>8. CASE m # 0 /\ Laid(v, os, ns, first) /\ end = -1 /\ first = o + 1
  <2>1. moved = v /\ first # -1
    BY <1>1, <1>8
  <2>. QED
    BY <1>8, <2>1 DEF os, ns
<1>9. CASE m # 0 /\ Laid(v, os, ns, first) /\ end = first + m /\ first # o + 1
  <2>1. first \in Int /\ first >= 1 /\ first # -1
    BY <1>1, <1>6, <1>9
  <2>2. end # -1
    BY <1>1, <1>9, <2>1
  <2>3. moved = Permuted(v, first, end, i)
    BY <2>2
  <2>4. /\ moved \in Seq(Range(c)) /\ Len(moved) = Len(v)
        /\ Laid(moved, os, ns, o + 1)
        /\ \A t \in 1..Len(v) : t >= i => moved[t] = v[t]
    BY <1>1, <1>3, <1>4, <1>5, <1>9, <2>1, <2>3, LaidMoved
  <2>5. Words(c, moved, i)
    <3>1. ASSUME NEW k \in i..Len(c)
          PROVE  moved[k] = c[k]
      <4>. DEFINE n == Len(c)
      <4>0. n \in Nat /\ Len(v) = n /\ i \in 1..(n + 1) /\ k \in i..n
        BY <1>2, <1>4
      <4>. HIDE DEF n
      <4>1. k \in 1..Len(v) /\ k >= i
        BY ONLY <4>0
      <4>. QED
        BY <1>4, <2>4, <4>1
    <3>. QED
      BY <1>4, <2>4, <3>1 DEF Words
  <2>6. i - (end - first) = o + 1
    <3>. HIDE DEF o, m
    <3>. QED
      BY <1>1, <1>3, <1>9, <2>1
  <2>. QED
    BY <1>9, <2>1, <2>2, <2>4, <2>5, <2>6 DEF os, ns
<1>. QED
  BY <1>7, <1>8, <1>9 DEF Skipped, os, ns, o, m

\* A word that is no option is skipped.
LEMMA OtherMet ==
    ASSUME NEW c, WordsSound(c), NEW e, NEW v, NEW i \in 1..Len(c), NEW first, NEW end,
           Words(c, v, i), Skipped(c, i, v, first, end, <<>>), ~IsOption(c[i]),
           NEW moved, moved = IF end = -1 THEN v ELSE Permuted(v, first, end, i),
           NEW now, now = IF first = -1 THEN i ELSE IF end = -1 THEN first ELSE i - (end - first)
    PROVE  /\ Words(c, moved, i + 1)
           /\ Skipped(c, i + 1, moved, now, -1, <<>>)
<1>. DEFINE os == Opts(c, i - 1)
            ns == Others(c, i - 1)
            qs == Others(c, i)
            o == Len(os)
            m == Len(ns)
<1>0. i \in 1..(Len(c) + 1) /\ i \in Int /\ (i + 1) - 1 = i /\ Len(c) \in Nat
  BY WordIs
<1>1. os \in Seq(Range(c)) /\ ns \in Seq(Range(c)) /\ o \in Nat /\ m \in Nat /\ o + m = i - 1
  BY <1>0, SortedBefore
<1>2. /\ Words(c, moved, i)
      /\ Laid(moved, os, ns, o + 1)
      /\ (IF end = -1 THEN IF first = -1 THEN i ELSE first ELSE i - (end - first)) = o + 1
      /\ first = -1 <=> m = 0
  BY <1>0, GatheredAtEnd
<1>3. Opts(c, i) = os /\ qs = Append(ns, c[i])
  <2>1. c \in Seq(Range(c))
    BY DEF WordsSound
  <2>2. /\ Opts(c, i) = IF IsOption(c[i]) THEN Append(Opts(c, i - 1), c[i]) ELSE Opts(c, i - 1)
        /\ Others(c, i) = IF IsOption(c[i]) THEN Others(c, i - 1) ELSE Append(Others(c, i - 1), c[i])
    BY <2>1, SortedOneMore
  <2>. QED
    BY <2>2
<1>4. c[i] \in Range(c) /\ moved[i] = c[i]
  <2>1. i \in i..Len(c)
    BY <1>0
  <2>. QED
    BY <1>2, <2>1, WordIs DEF Words
<1>5. Len(qs) = m + 1
  BY <1>1, <1>3, <1>4
<1>. HIDE DEF os, ns, qs
<1>6. Laid(moved, os, qs, o + 1)
  <2>1. moved[o + m + 1] = c[i]
    <3>. HIDE DEF o, m
    <3>1. o + m + 1 = i
      BY <1>0, <1>1
    <3>. QED
      BY <1>4, <3>1
  <2>. QED
    BY <1>1, <1>2, <1>3, <1>4, <2>1, LaidOther
<1>7. now = o + 1
  <2>1. CASE first = -1
    <3>1. i = o + 1
      <4>. HIDE DEF o, m
      <4>. QED
        BY <1>0, <1>1, <1>2, <2>1
    <3>. QED
      BY <2>1, <3>1
  <2>2. CASE first # -1
    BY <1>2, <2>2
  <2>. QED
    BY <2>1, <2>2
<1>8. Words(c, moved, i + 1)
  <2>1. \A k \in (i + 1)..Len(c) : k \in i..Len(c)
    BY <1>0
  <2>. QED
    BY <1>2, <2>1 DEF Words
<1>9. Len(qs) # 0
  <2>. HIDE DEF m
  <2>. QED
    BY <1>1, <1>5
<1>. QED
  BY <1>0, <1>3, <1>6, <1>7, <1>8, <1>9 DEF Skipped, os, qs, o

LEMMA LookedOn ==
    ASSUME NEW c, WordsSound(c), NEW e, NEW i \in 1..Len(c), NEW p, Looked(c, e, i, p), NoStop(c, e, i)
    PROVE  Looked(c, e, i + 1, <<>>)
<1>1. Len(c) \in Nat
  BY WordIs
<1>2. i + 1 \in 1..(Len(c) + 1) /\ \A k \in 1..((i + 1) - 1) : k = i \/ k \in 1..(i - 1)
  BY <1>1
<1>. QED
  BY <1>2 DEF Looked

LEMMA MarkIsOption == IsOption(EndMark) /\ IsLong(EndMark)
BY DEF IsOption, IsLong, EndMark, Dash

-----------------------------------------------------------------------------
(* The actions of getopt_long *)

\* The invariant at the start.
LEMMA GetoptBegins ==
    ASSUME WordsSound(command), argv = command, GetoptInit
    PROVE  GetoptInv
<1>1. optind = 1 /\ place = <<>> /\ nonopt_start = -1 /\ nonopt_end = -1 /\ returned = "scanning"
  BY DEF GetoptInit
<1>2. command \in Seq(Range(command)) /\ Len(command) \in Nat
  BY DEF WordsSound
<1>3. Words(command, argv, optind)
  BY <1>2 DEF Words
<1>4. Looked(command, environment, optind, place)
  BY <1>1, <1>2 DEF Looked
<1>5. Opts(command, 1 - 1) = <<>> /\ Others(command, 1 - 1) = <<>>
  BY <1>2, SortedNone
<1>6. Laid(argv, <<>>, <<>>, Len(<<>>) + 1)
  <2>1. Len(<<>>) = 0
    OBVIOUS
  <2>. QED
    BY <2>1 DEF Laid
<1>7. Skipped(command, optind, argv, nonopt_start, nonopt_end, place)
  <2>1. Len(<<>>) = 0
    OBVIOUS
  <2>. QED
    BY <1>1, <1>5, <1>6, <2>1 DEF Skipped
<1>. QED
  BY <1>1, <1>3, <1>4, <1>7 DEF GetoptInv, Scanning

\* What all steps of getopt_long start from.
Steps == GetoptInv /\ returned = "scanning" /\ UNCHANGED command

LEMMA AtAWord ==
    ASSUME Scanning, WordsSound(command), optind <= Len(argv)
    PROVE  optind \in 1..Len(command) /\ word = command[optind] /\ Len(argv) = Len(command)
<1>1. Len(command) \in Nat
  BY DEF WordsSound
<1>2. optind \in 1..(Len(command) + 1) /\ Len(argv) = Len(command)
  BY DEF Scanning, Words, Looked
<1>3. optind \in 1..Len(command)
  <2>. DEFINE n == Len(command)
  <2>1. n \in Nat /\ optind \in 1..(n + 1) /\ optind <= n
    BY <1>1, <1>2
  <2>. HIDE DEF n
  <2>2. optind \in 1..n
    BY ONLY <2>1
  <2>. QED
    BY <2>2 DEF n
<1>4. argv[optind] = command[optind]
  <2>1. optind \in optind..Len(command)
    BY <1>1, <1>3
  <2>. QED
    BY <2>1 DEF Scanning, Words
<1>. QED
  BY <1>2, <1>3, <1>4 DEF word

LEMMA SkipKeeps == Steps /\ SkipNonOption => GetoptInv'
<1>. SUFFICES ASSUME Steps, SkipNonOption
              PROVE  GetoptInv'
  OBVIOUS
<1>1. WordsSound(command) /\ Scanning /\ returned = "scanning" /\ command' = command
  BY DEF Steps, GetoptInv
<1>2. /\ AtNonOption /\ "POSIXLY_CORRECT" \notin environment /\ environment' = environment
      /\ place' = place /\ returned' = returned /\ nonopt_end' = -1 /\ optind' = optind + 1
      /\ place = <<>> /\ optind <= Len(argv) /\ ~IsOption(word)
  BY DEF SkipNonOption, AtNonOption, AtWord
<1>3. optind \in 1..Len(command) /\ word = command[optind] /\ Len(argv) = Len(command)
  BY <1>1, <1>2, AtAWord
<1>4. argv' = IF nonopt_end = -1 THEN argv ELSE Permuted(argv, nonopt_start, nonopt_end, optind)
  BY DEF SkipNonOption, Rearranged
<1>5. nonopt_start' = IF nonopt_start = -1 THEN optind
                      ELSE IF nonopt_end = -1 THEN nonopt_start
                      ELSE optind - (nonopt_end - nonopt_start)
  BY DEF SkipNonOption, Rearranged
<1>6. /\ Words(command, argv, optind) /\ Looked(command, environment, optind, <<>>)
      /\ Skipped(command, optind, argv, nonopt_start, nonopt_end, <<>>)
  BY <1>1, <1>2 DEF Scanning
<1>7. Words(command, argv', optind + 1) /\ Skipped(command, optind + 1, argv', nonopt_start', -1, <<>>)
  BY <1>1, <1>2, <1>3, <1>4, <1>5, <1>6, OtherMet
<1>8. Looked(command, environment, optind + 1, <<>>)
  <2>1. NoStop(command, environment, optind)
    BY <1>2, <1>3, MarkIsOption DEF NoStop
  <2>. QED
    BY <1>1, <1>3, <1>6, <2>1, LookedOn
<1>9. Scanning'
  BY <1>1, <1>2, <1>7, <1>8 DEF Scanning
<1>. QED
  BY <1>1, <1>2, <1>9 DEF GetoptInv

\* All words have been looked at.
LEMMA EndKeeps == Steps /\ EndOfArguments => GetoptInv'
<1>. SUFFICES ASSUME Steps, EndOfArguments
              PROVE  GetoptInv'
  OBVIOUS
<1>1. WordsSound(command) /\ Scanning /\ returned = "scanning" /\ command' = command
  BY DEF Steps, GetoptInv
<1>2. /\ environment' = environment /\ place' = place /\ place = <<>> /\ optind > Len(argv)
      /\ returned' = "EOF" /\ nonopt_start' = -1 /\ nonopt_end' = -1
  BY DEF EndOfArguments
<1>3. /\ Words(command, argv, optind) /\ Looked(command, environment, optind, <<>>)
      /\ Skipped(command, optind, argv, nonopt_start, nonopt_end, <<>>)
  BY <1>1, <1>2 DEF Scanning
<1>. DEFINE n == Len(command)
<1>4. n \in Nat /\ optind \in 1..(n + 1) /\ Len(argv) = n
  BY <1>1, <1>3 DEF WordsSound, Words, Looked
<1>5. optind = n + 1 /\ optind - 1 = n
  <2>1. optind > n
    BY <1>2, <1>4
  <2>. HIDE DEF n
  <2>. QED
    BY <1>4, <2>1
<1>6. argv' = IF nonopt_end = -1 THEN argv ELSE Permuted(argv, nonopt_start, nonopt_end, optind)
  BY DEF EndOfArguments, Rearranged
<1>7. optind' = IF nonopt_end = -1 THEN IF nonopt_start = -1 THEN optind ELSE nonopt_start
                ELSE optind - (nonopt_end - nonopt_start)
  <2>1. optind' = IF nonopt_end = -1 /\ nonopt_start # -1 THEN nonopt_start
                  ELSE Rearranged(nonopt_end, optind).first
    BY DEF EndOfArguments
  <2>2. Rearranged(nonopt_end, optind).first
           = IF nonopt_end = -1 THEN optind ELSE optind - (nonopt_end - nonopt_start)
    BY DEF Rearranged
  <2>. QED
    BY <2>1, <2>2
<1>8. /\ Words(command, argv', optind)
      /\ Laid(argv', Opts(command, n), Others(command, n), Len(Opts(command, n)) + 1)
      /\ optind' = Len(Opts(command, n)) + 1
  <2>. HIDE DEF n
  <2>1. optind \in 1..(Len(command) + 1)
    BY <1>4 DEF n
  <2>. QED
    BY <1>1, <1>3, <1>5, <1>6, <1>7, <2>1, GatheredAtEnd
<1>9. LooksNoFurther(command, environment, n)
  <2>1. \A k \in 1..n : NoStop(command, environment, k)
    BY <1>3, <1>5 DEF Looked
  <2>2. \A k \in 1..(n - 1) : k \in 1..n
    BY <1>4
  <2>3. n # 0 => n \in 1..n
    BY <1>4
  <2>. QED
    BY <2>1, <2>2, <2>3 DEF LooksNoFurther
<1>10. EndedAt(command, environment, argv', optind', n)
  <2>1. n \in 0..Len(command) /\ Words(command, argv', n + 1)
    BY <1>4, <1>5, <1>8
  <2>. QED
    BY <1>8, <1>9, <2>1 DEF EndedAt
<1>11. Ended'
  <2>1. n \in 0..Len(command)
    BY <1>4
  <2>. HIDE DEF n
  <2>. QED
    BY <1>1, <1>2, <1>10, <2>1 DEF Ended
<1>. QED
  BY <1>1, <1>2, <1>11 DEF GetoptInv

\* "--" ends the options.
LEMMA MarkKeeps == Steps /\ EndOfOptions => GetoptInv'
<1>. SUFFICES ASSUME Steps, EndOfOptions
              PROVE  GetoptInv'
  OBVIOUS
<1>1. WordsSound(command) /\ Scanning /\ returned = "scanning" /\ command' = command
  BY DEF Steps, GetoptInv
<1>2. /\ environment' = environment /\ place' = place /\ place = <<>> /\ optind <= Len(argv)
      /\ returned' = "EOF" /\ nonopt_start' = -1 /\ nonopt_end' = -1 /\ word = EndMark
  BY DEF EndOfOptions, AtWord
<1>3. /\ Words(command, argv, optind) /\ Looked(command, environment, optind, <<>>)
      /\ Skipped(command, optind, argv, nonopt_start, nonopt_end, <<>>)
  BY <1>1, <1>2 DEF Scanning
<1>. DEFINE k == optind
<1>4. k \in 1..Len(command) /\ command[k] = EndMark /\ Len(command) \in Nat
  BY <1>1, <1>2, AtAWord, WordIs
<1>5. k + 1 \in 1..(Len(command) + 1) /\ (k + 1) - 1 = k /\ k \in 0..Len(command) /\ k # 0
      /\ \A j \in (k + 1)..Len(command) : j \in k..Len(command)
  BY <1>4
<1>. HIDE DEF k
<1>6. Skipped(command, k + 1, argv, nonopt_start, EndOfSkipped, <<>>)
  <2>1. EndOfSkipped = IF nonopt_start # -1 /\ nonopt_end = -1 THEN k ELSE nonopt_end
    BY DEF EndOfSkipped, k
  <2>2. Words(command, argv, k) /\ Skipped(command, k, argv, nonopt_start, nonopt_end, <<>>)
    BY <1>3 DEF k
  <2>3. IsOption(command[k])
    BY <1>4, MarkIsOption
  <2>. QED
    BY <1>1, <1>4, <2>1, <2>2, <2>3, OptionMet
<1>7. Words(command, argv, k + 1)
  BY <1>3, <1>5 DEF Words, k
<1>8. /\ argv' = IF EndOfSkipped = -1 THEN argv ELSE Permuted(argv, nonopt_start, EndOfSkipped, k + 1)
      /\ optind' = IF EndOfSkipped = -1 THEN k + 1 ELSE (k + 1) - (EndOfSkipped - nonopt_start)
  <2>. DEFINE x == EndOfSkipped
  <2>1. argv' = Rearranged(x, k + 1).argv /\ optind' = Rearranged(x, k + 1).first
    BY DEF EndOfOptions, k
  <2>. HIDE DEF x
  <2>2. Rearranged(x, k + 1) = IF x = -1 THEN [argv |-> argv, first |-> k + 1]
                               ELSE [argv |-> Permuted(argv, nonopt_start, x, k + 1),
                                     first |-> (k + 1) - (x - nonopt_start)]
    BY DEF Rearranged
  <2>3. x = -1 => argv' = argv /\ optind' = k + 1
    BY <2>1, <2>2
  <2>4. x # -1 => /\ argv' = Permuted(argv, nonopt_start, x, k + 1)
                  /\ optind' = (k + 1) - (x - nonopt_start)
    BY <2>1, <2>2
  <2>5. /\ argv' = IF x = -1 THEN argv ELSE Permuted(argv, nonopt_start, x, k + 1)
        /\ optind' = IF x = -1 THEN k + 1 ELSE (k + 1) - (x - nonopt_start)
    BY <2>3, <2>4
  <2>. QED
    BY <2>5 DEF x
<1>10. /\ Words(command, argv', k + 1)
       /\ Laid(argv', Opts(command, k), Others(command, k), Len(Opts(command, k)) + 1)
       /\ (IF EndOfSkipped = -1 THEN IF nonopt_start = -1 THEN k + 1 ELSE nonopt_start
           ELSE (k + 1) - (EndOfSkipped - nonopt_start)) = Len(Opts(command, k)) + 1
  <2>. DEFINE b == k + 1
  <2>1. b \in 1..(Len(command) + 1) /\ b - 1 = k
    BY <1>5
  <2>2. Words(command, argv, b) /\ Skipped(command, b, argv, nonopt_start, EndOfSkipped, <<>>)
    BY <1>6, <1>7
  <2>3. argv' = IF EndOfSkipped = -1 THEN argv ELSE Permuted(argv, nonopt_start, EndOfSkipped, b)
    BY <1>8
  <2>. HIDE DEF b
  <2>4. /\ Words(command, argv', b)
        /\ Laid(argv', Opts(command, k), Others(command, k), Len(Opts(command, k)) + 1)
        /\ (IF EndOfSkipped = -1 THEN IF nonopt_start = -1 THEN b ELSE nonopt_start
            ELSE b - (EndOfSkipped - nonopt_start)) = Len(Opts(command, k)) + 1
    BY <1>1, <2>1, <2>2, <2>3, GatheredAtEnd
  <2>. QED
    BY <2>4 DEF b
<1>11. optind' = Len(Opts(command, k)) + 1
  <2>1. EndOfSkipped = -1 => nonopt_start = -1
    <3>1. nonopt_start # -1 /\ nonopt_end = -1 => EndOfSkipped # -1
      BY <1>4 DEF EndOfSkipped, k
    <3>2. nonopt_end = -1 \/ EndOfSkipped = nonopt_end
      BY DEF EndOfSkipped
    <3>3. nonopt_start # -1 /\ nonopt_end = -1 => EndOfSkipped = k
      BY DEF EndOfSkipped, k
    <3>. QED
      BY <1>6, <3>1, <3>2, <3>3 DEF EndOfSkipped
  <2>. QED
    BY <1>8, <1>10, <2>1
<1>12. LooksNoFurther(command, environment, k)
  BY <1>3, <1>4, <1>5 DEF LooksNoFurther, Looked, k
<1>13. EndedAt(command, environment, argv', optind', k)
  BY <1>5, <1>10, <1>11, <1>12 DEF EndedAt
<1>14. Ended'
  BY <1>1, <1>2, <1>5, <1>13 DEF Ended
<1>. QED
  BY <1>1, <1>2, <1>14 DEF GetoptInv

\* A first word that is none, where POSIX is followed to the letter: no others before it.
LEMMA AllOptions ==
    ASSUME NEW c, WordsSound(c), NEW k \in 0..Len(c), \A j \in 1..k : IsOption(c[j])
    PROVE  Len(Others(c, k)) = 0
<1>. DEFINE n == Len(c)
            T == {j \in 0..k : Len(Others(c, j)) = 0}
<1>1. n \in Nat /\ k \in 0..n /\ c \in Seq(Range(c)) /\ Len(<<>>) = 0
  BY DEF WordsSound
<1>2. 0 \in T
  <2>1. Others(c, 0) = <<>>
    BY <1>1, SortedNone
  <2>2. 0 \in 0..k
    BY <1>1
  <2>. QED
    BY <1>1, <2>1, <2>2, Zenon
<1>3. \A j \in 0..(k - 1) : j \in T => j + 1 \in T
  <2>. SUFFICES ASSUME NEW j \in 0..(k - 1), j \in T
                PROVE  j + 1 \in T
    OBVIOUS
  <2>1. j + 1 \in 1..n /\ j + 1 \in 1..k /\ j + 1 \in 0..k /\ (j + 1) - 1 = j
    BY <1>1
  <2>2. \A i \in 1..Len(c) :
           Others(c, i) = IF IsOption(c[i]) THEN Others(c, i - 1) ELSE Append(Others(c, i - 1), c[i])
    BY <1>1, SortedOneMore
  <2>3. Others(c, j + 1) = Others(c, j)
    <3>1. IsOption(c[j + 1]) /\ j + 1 \in 1..Len(c)
      BY <2>1
    <3>. QED
      BY <2>1, <2>2, <3>1
  <2>. QED
    BY <2>1, <2>3
<1>4. 0..k \subseteq T
  <2>1. 0 \in Int /\ k \in Int
    BY <1>1
  <2>. HIDE DEF T
  <2>. QED
    BY <1>2, <1>3, <2>1, AllUpTo
<1>. QED
  BY <1>1, <1>4

LEMMA StopKeeps == Steps /\ StopAtNonOption => GetoptInv'
<1>. SUFFICES ASSUME Steps, StopAtNonOption
              PROVE  GetoptInv'
  OBVIOUS
<1>1. WordsSound(command) /\ Scanning /\ returned = "scanning" /\ command' = command
  BY DEF Steps, GetoptInv
<1>2. /\ environment' = environment /\ argv' = argv /\ optind' = optind /\ place' = place
      /\ nonopt_start' = nonopt_start /\ nonopt_end' = nonopt_end /\ returned' = "EOF"
      /\ place = <<>> /\ optind <= Len(argv) /\ ~IsOption(word) /\ "POSIXLY_CORRECT" \in environment
  BY DEF StopAtNonOption, AtNonOption, AtWord
<1>. DEFINE k == optind - 1
<1>3. optind \in 1..Len(command) /\ ~IsOption(command[optind]) /\ Len(command) \in Nat
  BY <1>1, <1>2, AtAWord, WordIs
<1>4. k \in 0..Len(command) /\ k + 1 = optind /\ optind - 1 = k /\ optind \in 1..(Len(command) + 1)
  BY <1>3
<1>5. /\ Words(command, argv, optind) /\ Skipped(command, optind, argv, nonopt_start, nonopt_end, <<>>)
      /\ \A j \in 1..k : NoStop(command, environment, j)
  BY <1>1, <1>2 DEF Scanning, Looked
<1>. HIDE DEF k
<1>6. Len(Others(command, k)) = 0
  <2>1. \A j \in 1..k : IsOption(command[j])
    BY <1>2, <1>5 DEF NoStop
  <2>. QED
    BY <1>1, <1>4, <2>1, AllOptions
<1>7. /\ nonopt_start = -1 /\ nonopt_end = -1
      /\ Laid(argv, Opts(command, k), Others(command, k), Len(Opts(command, k)) + 1)
  BY <1>4, <1>5, <1>6 DEF Skipped
<1>8. optind = Len(Opts(command, k)) + 1
  <2>1. Len(Opts(command, k)) + 0 = k /\ Len(Opts(command, k)) \in Nat
    BY <1>1, <1>4, <1>6, SortedBefore
  <2>. QED
    BY <1>4, <2>1
<1>9. LooksNoFurther(command, environment, k)
  <2>1. \A j \in 1..(k - 1) : j \in 1..k
    BY <1>4
  <2>2. k # 0 => k \in 1..k
    BY <1>4
  <2>. QED
    BY <1>2, <1>3, <1>4, <1>5, <2>1, <2>2 DEF LooksNoFurther
<1>10. EndedAt(command, environment, argv, optind, k)
  BY <1>4, <1>5, <1>7, <1>8, <1>9 DEF EndedAt
<1>11. Ended'
  BY <1>1, <1>2, <1>4, <1>7, <1>10 DEF Ended
<1>. QED
  BY <1>1, <1>2, <1>11 DEF GetoptInv

\* Letters are handed out one by one.
LEMMA ShortKeeps == Steps /\ ShortOption => GetoptInv'
<1>. SUFFICES ASSUME Steps, ShortOption
              PROVE  GetoptInv'
  OBVIOUS
<1>1. WordsSound(command) /\ Scanning /\ returned = "scanning" /\ command' = command
  BY DEF Steps, GetoptInv
<1>. DEFINE w == command[optind]
            letters == IF place = <<>> THEN Tail(w) ELSE place
            n == Len(command)
<1>2. optind <= Len(argv)
  <2>1. CASE place # <<>>
    <3>1. optind <= n /\ Len(argv) = n
      BY <1>1, <2>1 DEF Scanning, Looked, Words
    <3>. HIDE DEF n
    <3>. QED
      BY <3>1
  <2>2. CASE place = <<>>
    BY <2>2 DEF ShortOption, AtWord
  <2>. QED
    BY <2>1, <2>2
<1>3. optind \in 1..n /\ word = w /\ n \in Nat /\ w \in Seq(Range(w)) /\ Len(w) \in Nat
  BY <1>1, <1>2, AtAWord, WordIs
<1>4. /\ environment' = environment /\ argv' = argv /\ nonopt_start' = nonopt_start
      /\ nonopt_end' = IF nonopt_start # -1 /\ nonopt_end = -1 THEN optind ELSE nonopt_end
      /\ returned' \in Letters \cup {"?"} /\ returned' = IF Head(letters) \in Letters THEN Head(letters) ELSE "?"
      /\ place' = Tail(letters)
      /\ optind' = IF Tail(letters) = <<>> THEN optind + 1 ELSE optind
  BY <1>3 DEF ShortOption, EndOfSkipped
<1>5. IsOption(w) /\ ~IsLong(w)
  <2>1. CASE place # <<>>
    BY <1>1, <2>1 DEF Scanning, Looked
  <2>2. CASE place = <<>>
    BY <1>3, <2>2 DEF ShortOption
  <2>. QED
    BY <2>1, <2>2
<1>6. /\ Words(command, argv, optind) /\ Looked(command, environment, optind, place)
      /\ Skipped(command, optind, argv, nonopt_start, nonopt_end, place)
  BY <1>1 DEF Scanning
<1>7. NoStop(command, environment, optind)
  BY <1>5, MarkIsOption DEF NoStop
<1>8. /\ \A q : q # <<>> => Skipped(command, optind, argv, nonopt_start, nonopt_end', q)
      /\ Skipped(command, optind + 1, argv, nonopt_start, nonopt_end', <<>>)
  BY <1>1, <1>3, <1>4, <1>5, <1>6, OptionMet
<1>9. Len(w) > 1
  BY <1>5 DEF IsOption
<1>10. place' # <<>> => Rest(w, place')
  <2>. HIDE DEF w, letters
  <2>. SUFFICES ASSUME place' # <<>>
                PROVE  Rest(w, place')
    OBVIOUS
  <2>1. CASE place = <<>>
    <3>1. place' = Tail(Tail(w))
      BY <1>4, <2>1 DEF letters
    <3>2. Tail(w) \in Seq(Range(w)) /\ Len(Tail(w)) = Len(w) - 1 /\ Tail(w) # <<>>
          /\ \A q \in 1..(Len(w) - 1) : Tail(w)[q] = w[q + 1]
      <4>1. w # <<>> /\ w \in Seq(Range(w)) /\ Len(w) > 1
        BY <1>3, <1>9
      <4>2. Tail(w) \in Seq(Range(w)) /\ Len(Tail(w)) = Len(w) - 1
            /\ \A q \in 1..(Len(w) - 1) : Tail(w)[q] = w[q + 1]
        BY <4>1
      <4>. DEFINE t == Tail(w)
                  l == Len(w)
      <4>3. Len(t) = l - 1 /\ l > 1 /\ l \in Nat
        BY <1>3, <4>1, <4>2
      <4>. HIDE DEF l, t
      <4>4. Len(t) # 0
        BY <4>3
      <4>5. t # <<>>
        BY <4>4
      <4>. QED
        BY <4>2, <4>5 DEF t
    <3>. DEFINE t == Tail(w)
                p == Tail(t)
                l == Len(w)
    <3>3. t \in Seq(Range(w)) /\ Len(t) = l - 1 /\ t # <<>> /\ \A q \in 1..(l - 1) : t[q] = w[q + 1]
      BY <3>2
    <3>. HIDE DEF t
    <3>4. p \in Seq(Range(w)) /\ Len(p) = Len(t) - 1 /\ \A q \in 1..(Len(t) - 1) : p[q] = t[q + 1]
      BY <3>3
    <3>5. p # <<>> /\ Len(p) \in Nat
      BY <3>1, <3>4 DEF t
    <3>6. Len(p) # 0
      BY <3>4, <3>5
    <3>. HIDE DEF p, l
    <3>7. l \in Nat /\ Len(p) = l - 2
      BY <1>3, <3>3, <3>4 DEF l
    <3>8. \A q \in 1..Len(p) : p[q] = w[l - Len(p) + q]
      <4>. SUFFICES ASSUME NEW q \in 1..Len(p)
                    PROVE  p[q] = w[l - Len(p) + q]
        OBVIOUS
      <4>1. q \in 1..(Len(t) - 1) /\ q + 1 \in 1..(l - 1) /\ (q + 1) + 1 = l - Len(p) + q
        BY <3>3, <3>4, <3>7
      <4>2. p[q] = t[q + 1]
        BY <3>4, <4>1
      <4>3. t[q + 1] = w[(q + 1) + 1]
        BY <3>3, <4>1
      <4>. QED
        BY <4>1, <4>2, <4>3
    <3>9. Len(p) \in 1..(l - 2)
      BY <3>5, <3>6, <3>7
    <3>10. Rest(w, p)
      BY <3>4, <3>8, <3>9 DEF Rest, l
    <3>. QED
      BY <3>1, <3>10 DEF p, t
  <2>2. CASE place # <<>>
    <3>. DEFINE p == Tail(place)
                l == Len(w)
                r == Len(place)
    <3>1. place' = p
      BY <1>4, <2>2 DEF letters
    <3>2. place \in Seq(Range(w)) /\ r \in 1..(l - 2) /\ \A q \in 1..r : place[q] = w[l - r + q]
      BY <1>6, <2>2 DEF Looked, Rest, w
    <3>3. p \in Seq(Range(w)) /\ Len(p) = r - 1 /\ \A q \in 1..(r - 1) : p[q] = place[q + 1]
      BY <2>2, <3>2
    <3>4. p # <<>> /\ Len(p) # 0 /\ Len(p) \in Nat
      BY <3>1, <3>3
    <3>5. l \in Nat /\ r \in Nat
      BY <1>3, <3>2
    <3>. HIDE DEF p, l, r
    <3>6. \A q \in 1..Len(p) : p[q] = w[l - Len(p) + q]
      <4>. SUFFICES ASSUME NEW q \in 1..Len(p)
                    PROVE  p[q] = w[l - Len(p) + q]
        OBVIOUS
      <4>1. q \in 1..(r - 1) /\ q + 1 \in 1..r /\ l - r + (q + 1) = l - Len(p) + q
        BY <3>3, <3>5
      <4>. QED
        BY <3>2, <3>3, <4>1
    <3>7. Len(p) \in 1..(l - 2)
      BY <3>2, <3>3, <3>4, <3>5
    <3>8. Rest(w, p)
      BY <3>3, <3>6, <3>7 DEF Rest, l
    <3>. QED
      BY <3>1, <3>8
  <2>. QED
    BY <2>1, <2>2
<1>. HIDE DEF letters
<1>11. CASE place' # <<>>
  <2>1. optind' = optind
    BY <1>4, <1>11
  <2>2. Skipped(command, optind, argv, nonopt_start, nonopt_end', place')
    BY <1>8, <1>11
  <2>3. Looked(command, environment, optind, place')
    BY <1>3, <1>5, <1>6, <1>10 DEF Looked
  <2>4. Scanning'
    BY <1>1, <1>4, <1>6, <2>1, <2>2, <2>3 DEF Scanning
  <2>5. returned' # "EOF"
    BY <1>4 DEF Letters
  <2>. QED
    BY <1>1, <2>4, <2>5 DEF GetoptInv
<1>12. CASE place' = <<>>
  <2>1. optind' = optind + 1
    BY <1>4, <1>12
  <2>2. Looked(command, environment, optind + 1, <<>>)
    BY <1>1, <1>3, <1>6, <1>7, LookedOn
  <2>3. Words(command, argv, optind + 1)
    <3>1. \A k \in (optind + 1)..n : k \in optind..n
      BY <1>3
    <3>. QED
      BY <1>6, <3>1 DEF Words
  <2>4. Scanning'
    BY <1>1, <1>4, <1>8, <1>12, <2>1, <2>2, <2>3 DEF Scanning
  <2>5. returned' # "EOF"
    BY <1>4 DEF Letters
  <2>. QED
    BY <1>1, <2>4, <2>5 DEF GetoptInv
<1>. QED
  BY <1>11, <1>12

\* A long option is handed out at once.
LEMMA LongKeeps == Steps /\ LongOption => GetoptInv'
<1>. SUFFICES ASSUME Steps, LongOption
              PROVE  GetoptInv'
  OBVIOUS
<1>1. WordsSound(command) /\ Scanning /\ returned = "scanning" /\ command' = command
  BY DEF Steps, GetoptInv
<1>2. /\ environment' = environment /\ argv' = argv /\ place' = place /\ nonopt_start' = nonopt_start
      /\ nonopt_end' = IF nonopt_start # -1 /\ nonopt_end = -1 THEN optind ELSE nonopt_end
      /\ optind' = optind + 1 /\ place = <<>> /\ optind <= Len(argv)
      /\ IsLong(word) /\ word # EndMark
      /\ returned' = ValueOf(SubSeq(word, 3, Len(word)))
  BY DEF LongOption, AtWord, EndOfSkipped
<1>3. optind \in 1..Len(command) /\ word = command[optind] /\ Len(command) \in Nat
  BY <1>1, <1>2, AtAWord, WordIs
<1>4. /\ Words(command, argv, optind) /\ Looked(command, environment, optind, <<>>)
      /\ Skipped(command, optind, argv, nonopt_start, nonopt_end, <<>>)
  BY <1>1, <1>2 DEF Scanning
<1>5. IsOption(command[optind])
  BY <1>2, <1>3 DEF IsLong
<1>6. Skipped(command, optind + 1, argv, nonopt_start, nonopt_end', <<>>)
  BY <1>1, <1>2, <1>3, <1>4, <1>5, OptionMet
<1>7. Looked(command, environment, optind + 1, <<>>)
  <2>1. NoStop(command, environment, optind)
    BY <1>2, <1>3, <1>5 DEF NoStop
  <2>. QED
    BY <1>1, <1>3, <1>4, <2>1, LookedOn
<1>8. Words(command, argv, optind + 1)
  <2>1. \A k \in (optind + 1)..Len(command) : k \in optind..Len(command)
    BY <1>3
  <2>. QED
    BY <1>4, <2>1 DEF Words
<1>9. Scanning'
  BY <1>1, <1>2, <1>6, <1>7, <1>8 DEF Scanning
<1>10. returned' # "EOF"
  <2>1. SubSeq(word, 3, Len(word)) \in Seq(Range(word))
    BY <1>1, <1>3, WordIs
  <2>2. returned' \in Values
    BY <1>2, <2>1, ValueIs
  <2>. QED
    BY <2>2 DEF Values
<1>. QED
  BY <1>1, <1>9, <1>10 DEF GetoptInv

LEMMA GetoptKeeps == Steps /\ GetoptNext => GetoptInv'
BY SkipKeeps, EndKeeps, MarkKeeps, StopKeeps, ShortKeeps, LongKeeps DEF GetoptNext

-----------------------------------------------------------------------------
(* The end *)

\* Where the options stop.
LEMMA StopIs ==
    ASSUME WordsSound(command), NEW k \in 0..Len(command), LooksNoFurther(command, environment, k)
    PROVE  StopsAt = IF k # 0 /\ command[k] = EndMark THEN k ELSE k + 1
<1>. DEFINE n == Len(command)
            stops == {j \in 1..n : command[j] = EndMark
                                      \/ ("POSIXLY_CORRECT" \in environment /\ ~IsOption(command[j]))}
<1>1. n \in Nat /\ k \in 0..n
  BY DEF WordsSound
<1>2. StopsAt = IF stops = {} THEN n + 1 ELSE Min(stops)
  BY DEF StopsAt
<1>3. stops \subseteq 1..n
  OBVIOUS
<1>4. \A j \in 1..n : j \in stops <=> ~NoStop(command, environment, j)
  BY DEF NoStop
<1>. HIDE DEF stops, n
<1>5. \A m \in stops : (\A j \in stops : m <= j) => Min(stops) = m
  <2>. SUFFICES ASSUME NEW m \in stops, \A j \in stops : m <= j
                PROVE  Min(stops) = m
    OBVIOUS
  <2>1. \E x \in stops : \A y \in stops : x <= y
    OBVIOUS
  <2>2. Min(stops) \in stops /\ \A y \in stops : Min(stops) <= y
    BY <2>1 DEF Min
  <2>. DEFINE l == Min(stops)
  <2>3. l \in stops /\ l <= m /\ m <= l
    BY <2>2
  <2>. HIDE DEF l
  <2>4. l \in Int /\ m \in Int
    BY <1>1, <1>3, <2>3
  <2>5. l = m
    BY ONLY <2>3, <2>4
  <2>. QED
    BY <2>5 DEF l
<1>6. \A j \in 1..(k - 1) : NoStop(command, environment, j)
  BY DEF LooksNoFurther
<1>7. CASE k # 0 /\ command[k] = EndMark
  <2>1. k \in stops
    <3>1. k \in 1..n
      BY <1>1, <1>7
    <3>. QED
      BY <1>4, <1>7, <3>1 DEF NoStop
  <2>2. \A j \in stops : k <= j
    <3>. SUFFICES ASSUME NEW j \in stops, ~(k <= j)
                  PROVE  FALSE
      OBVIOUS
    <3>1. j \in 1..n /\ j \in 1..(k - 1)
      BY <1>1, <1>3
    <3>. QED
      BY <1>4, <1>6, <3>1
  <2>. QED
    BY <1>2, <1>5, <1>7, <2>1, <2>2
<1>8. CASE ~(k # 0 /\ command[k] = EndMark)
  <2>1. k = n \/ ("POSIXLY_CORRECT" \in environment /\ ~IsOption(command[k + 1]))
    BY <1>8 DEF LooksNoFurther, n
  <2>2. k # 0 => NoStop(command, environment, k)
    BY <1>8 DEF LooksNoFurther
  <2>3. \A j \in stops : k + 1 <= j
    <3>. SUFFICES ASSUME NEW j \in stops, ~(k + 1 <= j)
                  PROVE  FALSE
      OBVIOUS
    <3>1. j \in 1..n /\ (j \in 1..(k - 1) \/ (j = k /\ k # 0))
      BY <1>1, <1>3
    <3>. QED
      BY <1>4, <1>6, <2>2, <3>1
  <2>4. CASE k = n
    <3>1. stops = {}
      <4>. SUFFICES ASSUME NEW j \in stops
                    PROVE  FALSE
        OBVIOUS
      <4>1. j \in 1..n /\ n + 1 <= j
        BY <1>3, <2>3, <2>4
      <4>. QED
        BY <1>1, <4>1
    <3>. QED
      BY <1>2, <1>8, <2>4, <3>1
  <2>5. CASE k # n
    <3>1. k + 1 \in 1..n
      BY <1>1, <2>5
    <3>2. k + 1 \in stops
      BY <1>4, <2>1, <2>5, <3>1 DEF NoStop
    <3>. QED
      BY <1>2, <1>5, <1>8, <2>3, <3>2
  <2>. QED
    BY <2>4, <2>5
<1>. QED
  BY <1>7, <1>8

\* The words as they are understood by the reader, in terms of where the options end.
LEMMA Understood ==
    ASSUME WordsSound(command), NEW k \in 0..Len(command), LooksNoFurther(command, environment, k)
    PROVE  /\ OptionWords \in Seq(Range(command))
           /\ OptionWords \o (IF Marked THEN <<EndMark>> ELSE <<>>) = Opts(command, k)
           /\ Operands = Others(command, k) \o SubSeq(command, k + 1, Len(command))
           /\ OptionWords = IF k # 0 /\ command[k] = EndMark THEN Opts(command, k - 1) ELSE Opts(command, k)
<1>. DEFINE c == command
            n == Len(command)
<1>1. n \in Nat /\ c \in Seq(Range(c)) /\ k \in 0..n /\ k \in Int /\ (k + 1) - 1 = k
  BY DEF WordsSound
<1>2. Opts(c, k) \in Seq(Range(c)) /\ Others(c, k) \in Seq(Range(c))
  BY <1>1, SortedTypes
<1>3. CASE k # 0 /\ c[k] = EndMark
  <2>1. StopsAt = k
    BY <1>3, StopIs
  <2>2. k \in 1..n /\ k \in 1..Len(c)
    BY <1>1, <1>3
  <2>3. Marked
    BY <1>1, <1>3, <2>1, <2>2 DEF Marked
  <2>4. OptionWords = Opts(c, k - 1) /\ OthersIn(InFront) = Others(c, k - 1)
    BY <2>1 DEF OptionWords, InFront, Opts, Others
  <2>5. /\ Opts(c, k - 1) \in Seq(Range(c))
        /\ Opts(c, k) = IF IsOption(c[k]) THEN Append(Opts(c, k - 1), c[k]) ELSE Opts(c, k - 1)
        /\ Others(c, k) = IF IsOption(c[k]) THEN Others(c, k - 1) ELSE Append(Others(c, k - 1), c[k])
    BY <1>1, <2>2, SortedOneMore
  <2>6. Opts(c, k) = Append(Opts(c, k - 1), EndMark) /\ Others(c, k) = Others(c, k - 1)
    BY <1>3, <2>5, MarkIsOption
  <2>7. EndMark \in Range(c)
    BY <1>3, <2>2, WordIs
  <2>8. \A s \in Seq(Range(c)) : s \o <<EndMark>> = Append(s, EndMark)
    <3>. HIDE DEF c
    <3>. SUFFICES ASSUME NEW s \in Seq(Range(c))
                  PROVE  s \o <<EndMark>> = Append(s, EndMark)
      OBVIOUS
    <3>. DEFINE x == EndMark
    <3>1. x \in Range(c)
      BY <2>7
    <3>. HIDE DEF x
    <3>2. s \o <<x>> = Append(s, x)
      BY <3>1
    <3>. QED
      BY <3>2 DEF x
  <2>9. OptionWords \o <<EndMark>> = Opts(c, k)
    BY <2>4, <2>5, <2>6, <2>8
  <2>10. Operands = Others(c, k) \o SubSeq(c, k + 1, n)
    BY <2>1, <2>3, <2>4, <2>6 DEF Operands
  <2>. QED
    BY <1>3, <2>3, <2>4, <2>5, <2>9, <2>10
<1>4. CASE ~(k # 0 /\ c[k] = EndMark)
  <2>1. StopsAt = k + 1
    BY <1>4, StopIs
  <2>2. ~Marked
    <3>1. k = n \/ ~IsOption(c[k + 1])
      BY <1>4 DEF LooksNoFurther
    <3>2. k + 1 <= n => k # n
      <4>. HIDE DEF n
      <4>. QED
        BY <1>1
    <3>. QED
      BY <2>1, <3>1, <3>2, MarkIsOption DEF Marked
  <2>3. OptionWords = Opts(c, k) /\ OthersIn(InFront) = Others(c, k)
    BY <1>1, <2>1 DEF OptionWords, InFront, Opts, Others
  <2>4. OptionWords \o <<>> = Opts(c, k)
    <3>1. \A s \in Seq(Range(c)) : s \o <<>> = s
      OBVIOUS
    <3>. QED
      BY <1>2, <2>3, <3>1
  <2>5. Operands = Others(c, k) \o SubSeq(c, k + 1, n)
    BY <2>1, <2>2, <2>3 DEF Operands
  <2>. QED
    BY <1>2, <1>4, <2>2, <2>3, <2>4, <2>5
<1>. QED
  BY <1>3, <1>4

LEMMA EndedPermuted ==
    ASSUME GetoptInv, returned = "EOF"
    PROVE  /\ argv = OptionWords \o (IF Marked THEN <<EndMark>> ELSE <<>>) \o Operands
           /\ optind = Len(argv) - Len(Operands) + 1
           /\ Len(argv) \in Nat /\ Len(Operands) \in Nat
           /\ \E k \in 0..Len(command) : EndedAt(command, environment, argv, optind, k)
<1>1. WordsSound(command)
  BY DEF GetoptInv
<1>2. PICK k \in 0..Len(command) : EndedAt(command, environment, argv, optind, k)
  BY DEF GetoptInv, Ended
<1>. DEFINE c == command
            n == Len(command)
            os == Opts(c, k)
            ns == Others(c, k)
            rest == SubSeq(c, k + 1, n)
            tail == ns \o rest
            o == Len(os)
            m == Len(ns)
<1>3. n \in Nat /\ c \in Seq(Range(c)) /\ k \in 0..n
  BY <1>1 DEF WordsSound
<1>4. os \in Seq(Range(c)) /\ ns \in Seq(Range(c)) /\ o + m = k /\ o \in Nat /\ m \in Nat
  BY <1>3, SortedTypes
<1>5. rest \in Seq(Range(c)) /\ Len(rest) = n - k /\ \A t \in 1..(n - k) : rest[t] = c[t + k]
  <2>1. k + 1 \in 1..(n + 1) /\ n \in 0..n
    BY <1>3
  <2>2. Len(rest) = n - k
    BY <1>3
  <2>3. \A t \in 1..(n - k) : rest[t] = c[t + k]
    BY <1>3
  <2>. QED
    BY <1>3, <2>2, <2>3
<1>6. /\ argv \in Seq(Range(c)) /\ Len(argv) = n /\ \A t \in (k + 1)..n : argv[t] = c[t]
      /\ optind = o + 1
  BY <1>2 DEF EndedAt, Words
<1>7. \A t \in 1..(o + m) : argv[t] = IF t < o + 1 THEN os[t]
                                      ELSE IF t < o + 1 + m THEN ns[t - (o + 1) + 1] ELSE os[t - m]
  BY <1>2 DEF EndedAt, Laid
<1>8. /\ OptionWords \in Seq(Range(c))
      /\ OptionWords \o (IF Marked THEN <<EndMark>> ELSE <<>>) = os
      /\ Operands = tail
  BY <1>1, <1>2, Understood DEF EndedAt
<1>. HIDE DEF c, os, ns, rest
<1>9. tail \in Seq(Range(c)) /\ Len(tail) = m + (n - k) /\ os \o tail \in Seq(Range(c))
      /\ Len(os \o tail) = o + (m + (n - k))
      /\ \A t \in 1..(m + (n - k)) : tail[t] = IF t <= m THEN ns[t] ELSE rest[t - m]
  <2>. HIDE DEF n
  <2>1. tail \in Seq(Range(c)) /\ Len(tail) = m + (n - k)
        /\ \A t \in 1..(m + (n - k)) : tail[t] = IF t <= m THEN ns[t] ELSE rest[t - m]
    BY <1>4, <1>5
  <2>. HIDE DEF tail
  <2>2. os \o tail \in Seq(Range(c)) /\ Len(os \o tail) = o + Len(tail)
    <3>1. os \in Seq(Range(c)) /\ tail \in Seq(Range(c))
      BY ONLY <1>4, <2>1
    <3>2. \A X : \A s, r \in Seq(X) : s \o r \in Seq(X) /\ Len(s \o r) = Len(s) + Len(r)
      OBVIOUS
    <3>. QED
      BY ONLY <3>1, <3>2
  <2>. QED
    BY <2>1, <2>2
<1>. HIDE DEF n, tail, o, m
<1>10. \A t \in 1..(o + (m + (n - k))) : (os \o tail)[t] = IF t <= o THEN os[t] ELSE tail[t - o]
  BY <1>4, <1>9 DEF o
<1>11. Len(os \o tail) = n
  <2>1. o + (m + (n - k)) = n
    BY <1>3, <1>4
  <2>. QED
    BY <1>9, <2>1
<1>12. ASSUME NEW t \in 1..n
       PROVE  argv[t] = (os \o tail)[t]
  <2>1. t \in 1..(o + (m + (n - k))) /\ t \in Int
    BY <1>3, <1>4
  <2>2. CASE t <= o
    <3>1. t \in 1..(o + m) /\ t < o + 1
      BY <1>4, <2>1, <2>2
    <3>. QED
      BY <1>7, <1>10, <2>1, <2>2, <3>1
  <2>3. CASE t > o /\ t <= k
    <3>1. t \in 1..(o + m) /\ ~(t < o + 1) /\ t < o + 1 + m /\ t - (o + 1) + 1 = t - o /\ ~(t <= o)
          /\ t - o \in 1..(m + (n - k)) /\ t - o <= m
      BY <1>3, <1>4, <2>1, <2>3
    <3>2. argv[t] = ns[t - o]
      BY <1>7, <3>1
    <3>. QED
      BY <1>9, <1>10, <2>1, <3>1, <3>2
  <2>4. CASE t > k
    <3>1. t \in (k + 1)..n /\ ~(t <= o) /\ t - o \in 1..(m + (n - k)) /\ ~(t - o <= m)
          /\ t - o - m \in 1..(n - k) /\ (t - o - m) + k = t
      BY <1>3, <1>4, <2>1, <2>4
    <3>2. (os \o tail)[t] = rest[t - o - m]
      BY <1>9, <1>10, <2>1, <3>1
    <3>3. rest[t - o - m] = c[t]
      BY <1>5, <3>1
    <3>. QED
      BY <1>6, <3>1, <3>2, <3>3
  <2>5. t <= o \/ (t > o /\ t <= k) \/ t > k
    <3>1. t \in Int /\ o \in Int /\ k \in Int
      BY <1>3, <1>4
    <3>. QED
      BY ONLY <3>1
  <2>. QED
    BY <2>2, <2>3, <2>4, <2>5
<1>13. argv = os \o tail
  <2>. DEFINE b == os \o tail
  <2>1. b \in Seq(Range(c)) /\ Len(b) = Len(argv) /\ \A t \in 1..Len(argv) : argv[t] = b[t]
    BY <1>6, <1>9, <1>11, <1>12
  <2>. HIDE DEF b
  <2>2. argv = b
    BY <1>6, <2>1
  <2>. QED
    BY <2>2 DEF b
<1>14. optind = Len(argv) - Len(Operands) + 1 /\ Len(argv) \in Nat /\ Len(Operands) \in Nat
  <2>1. Len(argv) = n /\ Len(Operands) = m + (n - k) /\ optind = o + 1
    BY <1>6, <1>8, <1>9
  <2>2. n - (m + (n - k)) + 1 = o + 1 /\ m + (n - k) \in Nat
    BY <1>3, <1>4
  <2>. QED
    BY <2>1, <2>2
<1>15. argv = OptionWords \o (IF Marked THEN <<EndMark>> ELSE <<>>) \o Operands
  BY <1>8, <1>13
<1>. QED
  BY <1>2, <1>14, <1>15

LEMMA GetoptInvPermuted == GetoptInv => ArgvPermuted
BY EndedPermuted DEF ArgvPermuted

-----------------------------------------------------------------------------
(* What words demand *)

LEMMA YieldsIs ==
    ASSUME NEW w, w \in Seq(Range(w))
    PROVE  /\ Yields(w) \in Seq(Values)
           /\ IsLong(w) => Yields(w) = <<ValueOf(SubSeq(w, 3, Len(w)))>>
           /\ IsOption(w) /\ ~IsLong(w) =>
                 /\ Len(Yields(w)) = Len(w) - 1
                 /\ \A k \in 1..(Len(w) - 1) : Yields(w)[k] = IF w[k + 1] \in Letters THEN w[k + 1] ELSE "?"
<1>1. CASE IsLong(w)
  <2>. DEFINE name == SubSeq(w, 3, Len(w))
  <2>1. name \in Seq(Range(w))
    OBVIOUS
  <2>2. Yields(w) = IF Cardinality(Meant(name)) = 1 THEN <<(CHOOSE o \in Meant(name) : TRUE).value>> ELSE <<"?">>
    BY <1>1 DEF Yields, Reading, Meant
  <2>. HIDE DEF name
  <2>3. Yields(w) = <<ValueOf(name)>> /\ ValueOf(name) \in Values
    BY <2>1, <2>2, ValueIs
  <2>. DEFINE x == ValueOf(name)
  <2>4. Yields(w) = <<x>> /\ x \in Values
    BY <2>3
  <2>. HIDE DEF x
  <2>5. Yields(w) \in Seq(Values)
    BY <2>4
  <2>. QED
    BY <1>1, <2>3, <2>5 DEF name
<1>2. CASE ~IsLong(w)
  <2>. DEFINE n == Len(w) - 1
  <2>1. Yields(w) = [k \in 1..n |-> IF w[k + 1] \in Letters THEN w[k + 1] ELSE "?"]
    BY <1>2 DEF Yields, Reading
  <2>2. Letters \subseteq Values /\ "?" \in Values
    BY DEF Letters, Values
  <2>3. CASE Len(w) = 0
    <3>1. n = -1 /\ 1..n = {}
      BY <2>3
    <3>. HIDE DEF n
    <3>2. Yields(w) = [k \in {} |-> 0]
      BY <2>1, <3>1
    <3>3. [k \in {} |-> 0] = <<>>
      OBVIOUS
    <3>4. ~IsOption(w)
      BY <2>3 DEF IsOption
    <3>. QED
      BY <1>2, <3>2, <3>3, <3>4
  <2>4. CASE Len(w) # 0
    <3>1. n \in Nat
      BY <2>4
    <3>. HIDE DEF n
    <3>2. Yields(w) \in Seq(Values) /\ Len(Yields(w)) = n
      BY <2>1, <2>2, <3>1
    <3>3. \A k \in 1..n : Yields(w)[k] = IF w[k + 1] \in Letters THEN w[k + 1] ELSE "?"
      BY <2>1
    <3>. QED
      BY <1>2, <3>2, <3>3 DEF n
  <2>. QED
    BY <2>3, <2>4
<1>. QED
  BY <1>1, <1>2

LEMMA DemandsOneMore ==
    ASSUME NEW c, WordsSound(c), NEW k \in 1..Len(c)
    PROVE  /\ Demands(c, k - 1) \in Seq(Values)
           /\ Demands(c, k) = IF IsOption(c[k]) THEN Demands(c, k - 1) \o Yields(c[k])
                              ELSE Demands(c, k - 1)
<1>. DEFINE X == Range(c)
            os == Opts(c, k - 1)
            ps == Opts(c, k)
            V == Seq(Values)
            w == c[k]
            f == [j \in 1..Len(os) |-> Yields(os[j])]
<1>1. c \in Seq(X) /\ \A x \in X : x \in Seq(Range(x))
  BY DEF WordsSound
<1>2. os \in Seq(X) /\ ps = IF IsOption(w) THEN Append(os, w) ELSE os
  BY <1>1, SortedOneMore
<1>3. \A x \in X : Yields(x) \in V
  BY <1>1, YieldsIs
<1>4. w \in X
  BY WordIs
<1>. HIDE DEF os, ps, w, X, V
<1>5. f \in Seq(V)
  <2>1. \A j \in 1..Len(os) : os[j] \in X /\ Len(os) \in Nat
    BY <1>2
  <2>2. \A j \in 1..Len(os) : Yields(os[j]) \in V
    BY <1>3, <2>1
  <2>3. Len(os) \in Nat
    BY <1>2
  <2>. QED
    BY <2>2, <2>3
<1>6. Demands(c, k - 1) = FlattenSeq(f)
  BY DEF Demands, os
<1>7. f \in Seq(Seq(Values)) /\ Yields(w) \in Seq(Values)
  BY <1>3, <1>4, <1>5 DEF V
<1>8. FlattenSeq(f) \in Seq(Values) /\ FlattenSeq(Append(f, Yields(w))) = FlattenSeq(f) \o Yields(w)
  <2>. HIDE DEF f
  <2>. QED
    BY <1>7, FlattenAppend
<1>9. CASE IsOption(w)
  <2>1. ps = Append(os, w) /\ Len(os) \in Nat /\ Len(ps) = Len(os) + 1 /\ ps[Len(os) + 1] = w
        /\ \A j \in 1..Len(os) : ps[j] = os[j]
    BY <1>2, <1>4, <1>9
  <2>2. [j \in 1..Len(ps) |-> Yields(ps[j])] = Append(f, Yields(w))
    <3>. DEFINE n == Len(os)
                g == [j \in 1..Len(ps) |-> Yields(ps[j])]
    <3>1. n \in Nat /\ Len(f) = n /\ f \in Seq(V) /\ Yields(w) \in V /\ \A j \in 1..n : f[j] = Yields(ps[j])
      BY <1>5, <1>7, <2>1 DEF V
    <3>2. g = [j \in 1..(n + 1) |-> IF j <= n THEN f[j] ELSE Yields(w)]
      <4>1. \A j \in 1..(n + 1) : Yields(ps[j]) = IF j <= n THEN f[j] ELSE Yields(w)
        <5>. SUFFICES ASSUME NEW j \in 1..(n + 1)
                      PROVE  Yields(ps[j]) = IF j <= n THEN f[j] ELSE Yields(w)
          OBVIOUS
        <5>1. j <= n => j \in 1..n
          BY <3>1
        <5>2. ~(j <= n) => j = n + 1
          BY <3>1
        <5>. QED
          BY <2>1, <3>1, <5>1, <5>2
      <4>. QED
        BY <2>1, <4>1
    <3>. HIDE DEF n, f, g
    <3>. DEFINE x == Yields(w)
                h == [j \in 1..(n + 1) |-> IF j <= n THEN f[j] ELSE x]
    <3>3. Append(f, x) \in Seq(V) /\ Len(Append(f, x)) = n + 1 /\ Append(f, x)[n + 1] = x
          /\ \A j \in 1..n : Append(f, x)[j] = f[j]
      BY <3>1
    <3>4. h \in Seq(V) /\ Len(h) = n + 1
      <4>1. \A j \in 1..(n + 1) : (IF j <= n THEN f[j] ELSE x) \in V
        BY <3>1
      <4>2. n + 1 \in Nat
        BY <3>1
      <4>. HIDE DEF x
      <4>. QED
        BY <4>1, <4>2
    <3>5. \A j \in 1..(n + 1) : Append(f, x)[j] = h[j]
      <4>. SUFFICES ASSUME NEW j \in 1..(n + 1)
                    PROVE  Append(f, x)[j] = h[j]
        OBVIOUS
      <4>1. (j \in 1..n /\ j <= n) \/ (j = n + 1 /\ ~(j <= n))
        BY <3>1
      <4>. QED
        BY <3>3, <4>1
    <3>. DEFINE y == Append(f, x)
    <3>6. y \in Seq(V) /\ h \in Seq(V) /\ Len(y) = Len(h) /\ \A j \in 1..Len(y) : y[j] = h[j]
      BY <3>3, <3>4, <3>5
    <3>. HIDE DEF x, y, h
    <3>7. y = h
      BY <3>6
    <3>. QED
      BY <3>2, <3>7 DEF g, h, y, x
  <2>3. Demands(c, k) = FlattenSeq(Append(f, Yields(w)))
    BY <2>2 DEF Demands, ps
  <2>. QED
    BY <1>6, <1>8, <1>9, <2>3 DEF w
<1>10. CASE ~IsOption(w)
  <2>1. ps = os
    BY <1>2, <1>10
  <2>2. Demands(c, k) = Demands(c, k - 1)
    BY <2>1 DEF Demands, os, ps
  <2>. QED
    BY <1>6, <1>8, <1>10, <2>2 DEF w
<1>. QED
  BY <1>9, <1>10

NextDemands(c, i, m) ==
    /\ Demands(c, i) \in Seq(Values)
    /\ Yields(c[m]) \in Seq(Values)
    /\ IsOption(c[m]) => Demands(c, m) = Demands(c, i) \o Yields(c[m])
    /\ ~IsOption(c[m]) => Demands(c, m) = Demands(c, i)

\* More words, more demands.
LEMMA DemandsGrow ==
    ASSUME NEW c, WordsSound(c), NEW j \in 0..Len(c), NEW k \in j..Len(c)
    PROVE  /\ Demands(c, j) \in Seq(Values) /\ Demands(c, k) \in Seq(Values)
           /\ Len(Demands(c, j)) <= Len(Demands(c, k))
           /\ \A q \in 1..Len(Demands(c, j)) : Demands(c, k)[q] = Demands(c, j)[q]
<1>. DEFINE n == Len(c)
            T == {i \in 0..n : Demands(c, i) \in Seq(Values)}
            U == {i \in j..n : /\ Len(Demands(c, j)) <= Len(Demands(c, i))
                               /\ \A q \in 1..Len(Demands(c, j)) : Demands(c, i)[q] = Demands(c, j)[q]}
<1>1. n \in Nat /\ j \in 0..n /\ k \in j..n /\ c \in Seq(Range(c))
  BY DEF WordsSound
<1>. HIDE DEF n
<1>2. \A i \in 0..(n - 1) : NextDemands(c, i, i + 1)
  <2>1. \A m \in 1..n : NextDemands(c, m - 1, m)
    BY DemandsOneMore, WordIs, YieldsIs DEF NextDemands, n
  <2>2. \A i \in 0..(n - 1) : i + 1 \in 1..n /\ (i + 1) - 1 = i
    BY <1>1
  <2>. SUFFICES ASSUME NEW i \in 0..(n - 1)
                PROVE  NextDemands(c, i, i + 1)
    OBVIOUS
  <2>3. NextDemands(c, (i + 1) - 1, i + 1)
    BY <2>1, <2>2
  <2>. QED
    BY <2>2, <2>3
<1>3. Demands(c, 0) \in Seq(Values)
  <2>1. Opts(c, 0) = <<>>
    BY <1>1, SortedNone
  <2>2. [i \in 1..Len(<<>>) |-> Yields(<<>>[i])] = <<>>
    OBVIOUS
  <2>3. Demands(c, 0) = <<>>
    BY <2>1, <2>2, FlattenEmpty DEF Demands
  <2>4. <<>> \in Seq(Values)
    OBVIOUS
  <2>. QED
    BY <2>3, <2>4, Zenon
<1>4. \A s, r \in Seq(Values) : s \o r \in Seq(Values) /\ Len(s) <= Len(s \o r)
                                /\ \A q \in 1..Len(s) : (s \o r)[q] = s[q]
  OBVIOUS
<1>5. 0..n \subseteq T
  <2>1. \A i \in 0..(n - 1) : i \in T => i + 1 \in T
    <3>. SUFFICES ASSUME NEW i \in 0..(n - 1)
                  PROVE  i + 1 \in T
      OBVIOUS
    <3>1. i + 1 \in 0..n
      BY <1>1
    <3>2. Demands(c, i + 1) \in Seq(Values)
      BY <1>2, <1>4 DEF NextDemands
    <3>. QED
      BY <3>1, <3>2
  <2>2. 0 \in T /\ 0 \in Int /\ n \in Int
    BY <1>1, <1>3
  <2>. HIDE DEF T
  <2>. QED
    BY <2>1, <2>2, AllUpTo
<1>6. \A i \in 0..n : Demands(c, i) \in Seq(Values)
  BY <1>5
<1>7. j..n \subseteq U
  <2>1. j \in U /\ j \in Int /\ n \in Int
    <3>1. j \in j..n /\ Len(Demands(c, j)) \in Nat
      BY <1>1, <1>6
    <3>2. Len(Demands(c, j)) <= Len(Demands(c, j))
      BY <3>1
    <3>. QED
      BY <1>1, <3>1, <3>2
  <2>2. \A i \in j..(n - 1) : i \in U => i + 1 \in U
    <3>. SUFFICES ASSUME NEW i \in j..(n - 1), i \in U
                  PROVE  i + 1 \in U
      OBVIOUS
    <3>1. i + 1 \in j..n /\ i \in 0..(n - 1) /\ i \in 0..n /\ i + 1 \in 0..n
      BY <1>1
    <3>. DEFINE x == Demands(c, j)
                y == Demands(c, i)
                z == Demands(c, i + 1)
    <3>2. x \in Seq(Values) /\ y \in Seq(Values) /\ z \in Seq(Values)
      BY <1>1, <1>6, <3>1
    <3>3. Len(x) <= Len(y) /\ \A q \in 1..Len(x) : y[q] = x[q]
      OBVIOUS
    <3>4. Len(y) <= Len(z) /\ \A q \in 1..Len(y) : z[q] = y[q]
      <4>1. CASE IsOption(c[i + 1])
        <5>1. z = y \o Yields(c[i + 1]) /\ Yields(c[i + 1]) \in Seq(Values)
          BY <1>2, <3>1, <4>1 DEF NextDemands
        <5>. HIDE DEF y, z
        <5>. QED
          BY <1>4, <3>2, <5>1
      <4>2. CASE ~IsOption(c[i + 1])
        <5>1. z = y
          BY <1>2, <3>1, <4>2 DEF NextDemands
        <5>2. Len(y) \in Nat
          BY <3>2
        <5>. HIDE DEF y, z
        <5>. QED
          BY <5>1, <5>2
      <4>. QED
        BY <4>1, <4>2
    <3>. HIDE DEF x, y, z
    <3>5. Len(x) \in Nat /\ Len(y) \in Nat /\ Len(z) \in Nat
      BY <3>2
    <3>6. Len(x) <= Len(z)
      BY <3>3, <3>4, <3>5
    <3>7. \A q \in 1..Len(x) : q \in 1..Len(y)
      BY <3>3, <3>5
    <3>8. \A q \in 1..Len(x) : z[q] = x[q]
      BY <3>3, <3>4, <3>7
    <3>. QED
      BY <3>1, <3>6, <3>8 DEF x, z
  <2>. HIDE DEF U
  <2>. QED
    BY <2>1, <2>2, AllUpTo
<1>8. k \in 0..n
  BY <1>1
<1>. QED
  BY <1>1, <1>6, <1>7, <1>8

\* Words that do not stop are in front of where it stops.
LEMMA StopBehind ==
    ASSUME WordsSound(command), NEW i \in 0..Len(command),
           \A k \in 1..i : NoStop(command, environment, k)
    PROVE  StopsAt - 1 \in i..Len(command) /\ StopsAt \in Int
<1>. DEFINE n == Len(command)
            stops == {j \in 1..n : command[j] = EndMark
                                      \/ ("POSIXLY_CORRECT" \in environment /\ ~IsOption(command[j]))}
<1>1. n \in Nat /\ i \in 0..n
  BY DEF WordsSound
<1>2. StopsAt = IF stops = {} THEN n + 1 ELSE Min(stops)
  BY DEF StopsAt
<1>3. \A j \in stops : j \in 1..n /\ ~NoStop(command, environment, j)
  BY DEF NoStop
<1>. HIDE DEF n, stops
<1>4. CASE stops = {}
  BY <1>1, <1>2, <1>4 DEF n
<1>5. CASE stops # {}
  <2>1. stops \in SUBSET Nat
    BY <1>1, <1>3
  <2>2. \E x \in stops : \A y \in stops : x <= y
    BY <1>5, <2>1, LeastNumber
  <2>3. Min(stops) \in stops
    BY <2>2 DEF Min
  <2>4. StopsAt \in 1..n /\ ~(StopsAt \in 1..i)
    BY <1>2, <1>3, <1>5, <2>3
  <2>5. StopsAt - 1 \in i..n /\ StopsAt \in Int
    BY <1>1, <2>4
  <2>. QED
    BY <2>5 DEF n
<1>. QED
  BY <1>4, <1>5

LEMMA HandedOverIs == HandedOver = Demands(command, StopsAt - 1)
BY DEF HandedOver, Demands, OptionWords, InFront, Opts

-----------------------------------------------------------------------------
(* Demands are handed out one after the other *)

LEMMA TailIs ==
    ASSUME NEW X, NEW s \in Seq(X), Len(s) # 0
    PROVE  /\ Tail(s) \in Seq(X) /\ Len(Tail(s)) = Len(s) - 1 /\ Head(s) = s[1]
           /\ \A q \in 1..(Len(s) - 1) : Tail(s)[q] = s[q + 1]
           /\ Tail(s) = <<>> <=> Len(s) = 1
<1>1. s # <<>> /\ Len(s) \in Nat
  OBVIOUS
<1>2. Tail(s) \in Seq(X) /\ Len(Tail(s)) = Len(s) - 1 /\ Head(s) = s[1]
      /\ \A q \in 1..(Len(s) - 1) : Tail(s)[q] = s[q + 1]
  BY <1>1
<1>. DEFINE t == Tail(s)
            m == Len(s)
<1>3. Len(t) = m - 1 /\ t \in Seq(X) /\ m \in Nat
  BY <1>1, <1>2
<1>. HIDE DEF t, m
<1>4. t = <<>> <=> Len(t) = 0
  BY <1>3
<1>5. t = <<>> <=> m = 1
  BY <1>3, <1>4
<1>. QED
  BY <1>2, <1>5 DEF t, m

LEMMA HandedOverType ==
    ASSUME WordsSound(command)
    PROVE  HandedOver \in Seq(Values) /\ Len(HandedOver) \in Nat /\ Len(command) \in Nat
<1>1. Len(command) \in Nat
  BY DEF WordsSound
<1>2. \A k \in 1..0 : NoStop(command, environment, k)
  OBVIOUS
<1>3. 0 \in 0..Len(command)
  BY <1>1
<1>4. StopsAt - 1 \in 0..Len(command)
  BY <1>2, <1>3, StopBehind
<1>. DEFINE b == StopsAt - 1
<1>5. b \in b..Len(command) /\ b \in 0..Len(command)
  BY <1>1, <1>4
<1>. HIDE DEF b
<1>6. Demands(command, b) \in Seq(Values)
  BY <1>5, DemandsGrow
<1>7. HandedOver \in Seq(Values)
  BY <1>6, HandedOverIs DEF b
<1>. QED
  BY <1>1, <1>7

\* What a word of options demands, and where that is.
LEMMA WordDemands ==
    ASSUME WordsSound(command), NEW i \in 1..Len(command), IsOption(command[i]),
           \A k \in 1..i : NoStop(command, environment, k)
    PROVE  /\ Len(Demands(command, i - 1)) \in Nat
           /\ Yields(command[i]) \in Seq(Values)
           /\ Len(Demands(command, i)) = Len(Demands(command, i - 1)) + Len(Yields(command[i]))
           /\ Len(Demands(command, i)) <= Len(HandedOver)
           /\ \A q \in 1..Len(Yields(command[i])) :
                 HandedOver[Len(Demands(command, i - 1)) + q] = Yields(command[i])[q]
<1>. DEFINE c == command
            d == Demands(c, i - 1)
            e == Demands(c, i)
            s == Yields(c[i])
            b == StopsAt - 1
<1>1. Len(c) \in Nat /\ i \in 0..Len(c)
  BY WordIs
<1>2. d \in Seq(Values) /\ e = d \o s /\ s \in Seq(Values)
  BY DemandsOneMore, WordIs, YieldsIs
<1>3. b \in i..Len(c)
  BY <1>1, StopBehind
<1>4. /\ Len(e) <= Len(HandedOver)
      /\ \A q \in 1..Len(e) : HandedOver[q] = e[q]
  <2>. HIDE DEF b
  <2>1. /\ Len(e) <= Len(Demands(c, b))
        /\ \A q \in 1..Len(e) : Demands(c, b)[q] = e[q]
    BY <1>1, <1>3, DemandsGrow
  <2>. QED
    BY <2>1, HandedOverIs DEF b
<1>. HIDE DEF d, e, s
<1>5. Len(d) \in Nat /\ Len(s) \in Nat /\ Len(e) = Len(d) + Len(s)
      /\ \A q \in 1..Len(s) : e[Len(d) + q] = s[q]
  BY <1>2
<1>6. \A q \in 1..Len(s) : Len(d) + q \in 1..Len(e)
  BY <1>5
<1>7. \A q \in 1..Len(s) : HandedOver[Len(d) + q] = s[q]
  BY <1>4, <1>5, <1>6
<1>. QED
  BY <1>2, <1>4, <1>5, <1>7 DEF d, e, s

NextDemandIs(i, p, j, q, value) ==
    /\ HandedOut(command, i, p) \in 0..(Len(HandedOver) - 1)
    /\ HandedOut(command, j, q) = HandedOut(command, i, p) + 1
    /\ HandedOver[HandedOut(command, j, q)] = value
    /\ value \in Values

LEMMA ShortHandsOut == Steps /\ ShortOption => NextDemandIs(optind, place, optind', place', returned')
<1>. SUFFICES ASSUME Steps, ShortOption
              PROVE  NextDemandIs(optind, place, optind', place', returned')
  OBVIOUS
<1>1. WordsSound(command) /\ Scanning
  BY DEF Steps, GetoptInv
<1>. DEFINE w == command[optind]
            letters == IF place = <<>> THEN Tail(w) ELSE place
            n == Len(command)
            l == Len(w)
            d == Len(Demands(command, optind - 1))
            g == l - 1 - Len(letters)
<1>2. optind <= Len(argv)
  <2>1. CASE place # <<>>
    <3>1. optind <= n /\ Len(argv) = n
      BY <1>1, <2>1 DEF Scanning, Looked, Words
    <3>. HIDE DEF n
    <3>. QED
      BY <3>1
  <2>2. CASE place = <<>>
    BY <2>2 DEF ShortOption, AtWord
  <2>. QED
    BY <2>1, <2>2
<1>3. optind \in 1..n /\ word = w /\ n \in Nat /\ w \in Seq(Range(w)) /\ l \in Nat
  BY <1>1, <1>2, AtAWord, WordIs
<1>4. /\ returned' = IF Head(letters) \in Letters THEN Head(letters) ELSE "?"
      /\ place' = Tail(letters)
      /\ optind' = IF Tail(letters) = <<>> THEN optind + 1 ELSE optind
  BY <1>3 DEF ShortOption
<1>5. IsOption(w) /\ ~IsLong(w)
  <2>1. CASE place # <<>>
    BY <1>1, <2>1 DEF Scanning, Looked
  <2>2. CASE place = <<>>
    BY <1>3, <2>2 DEF ShortOption
  <2>. QED
    BY <2>1, <2>2
<1>6. l > 1
  BY <1>5 DEF IsOption
<1>7. /\ letters \in Seq(Range(w)) /\ Len(letters) \in 1..(l - 1)
      /\ \A q \in 1..Len(letters) : letters[q] = w[(l - Len(letters)) + q]
  <2>1. CASE place = <<>>
    <3>. DEFINE t == Tail(w)
    <3>1. Len(w) # 0
      BY <1>3, <1>6
    <3>2. t \in Seq(Range(w)) /\ Len(t) = l - 1 /\ \A q \in 1..(l - 1) : t[q] = w[q + 1]
      <4>. HIDE DEF w
      <4>. QED
        BY <1>3, <3>1, TailIs
    <3>. HIDE DEF t, l
    <3>3. Len(t) \in 1..(l - 1) /\ \A q \in 1..Len(t) : (l - Len(t)) + q = q + 1
      BY <1>3, <1>6, <3>2
    <3>4. letters = t
      BY <2>1 DEF t
    <3>. HIDE DEF letters
    <3>. QED
      BY <3>2, <3>3, <3>4
  <2>2. CASE place # <<>>
    <3>1. Rest(w, place) /\ letters = place
      BY <1>1, <2>2 DEF Scanning, Looked
    <3>. HIDE DEF letters
    <3>2. Len(place) \in 1..(l - 2)
      BY <3>1 DEF Rest
    <3>. HIDE DEF l
    <3>3. Len(place) \in 1..(l - 1)
      BY <1>3, <3>2
    <3>. QED
      BY <3>1, <3>3 DEF Rest, l
  <2>. QED
    BY <2>1, <2>2
<1>8. HandedOut(command, optind, place) = d + g
  <2>1. CASE place = <<>>
    <3>1. letters = Tail(w) /\ Len(w) # 0
      BY <1>3, <1>6, <2>1
    <3>2. Len(letters) = l - 1
      <4>. HIDE DEF w, letters
      <4>. QED
        BY <1>3, <3>1, TailIs
    <3>. HIDE DEF letters, l, d
    <3>3. g = 0
      BY <1>3, <3>2
    <3>4. HandedOut(command, optind, place) = d + 0
      BY <2>1 DEF HandedOut, d
    <3>. QED
      BY <3>3, <3>4
  <2>2. CASE place # <<>>
    BY <2>2 DEF HandedOut
  <2>. QED
    BY <2>1, <2>2
<1>9. \A k \in 1..optind : NoStop(command, environment, k)
  <2>1. NoStop(command, environment, optind)
    BY <1>5, MarkIsOption DEF NoStop
  <2>2. \A k \in 1..(optind - 1) : NoStop(command, environment, k)
    BY <1>1 DEF Scanning, Looked
  <2>3. \A k \in 1..optind : k = optind \/ k \in 1..(optind - 1)
    BY <1>3
  <2>. QED
    BY <2>1, <2>2, <2>3
<1>10. /\ d \in Nat
       /\ Len(Demands(command, optind)) = d + (l - 1)
       /\ d + (l - 1) <= Len(HandedOver) /\ Len(HandedOver) \in Nat
       /\ \A q \in 1..(l - 1) : HandedOver[d + q] = IF w[q + 1] \in Letters THEN w[q + 1] ELSE "?"
  <2>1. Len(Yields(w)) = l - 1 /\ \A k \in 1..(l - 1) : Yields(w)[k] = IF w[k + 1] \in Letters THEN w[k + 1] ELSE "?"
    BY <1>3, <1>5, YieldsIs
  <2>2. /\ d \in Nat
        /\ Len(Demands(command, optind)) = d + Len(Yields(w))
        /\ Len(Demands(command, optind)) <= Len(HandedOver)
        /\ \A q \in 1..Len(Yields(w)) : HandedOver[d + q] = Yields(w)[q]
    BY <1>1, <1>3, <1>5, <1>9, WordDemands
  <2>3. Len(HandedOver) \in Nat
    BY <1>1, HandedOverType
  <2>. HIDE DEF d, l, w
  <2>. QED
    BY <2>1, <2>2, <2>3
<1>11. Len(Tail(letters)) = Len(letters) - 1 /\ Head(letters) = letters[1]
       /\ (Tail(letters) = <<>> <=> Len(letters) = 1)
  <2>. HIDE DEF letters, l
  <2>1. Len(letters) # 0 /\ letters \in Seq(Range(w))
    BY <1>7
  <2>. QED
    BY <2>1, TailIs
<1>12. HandedOut(command, optind', place') = d + (g + 1)
  <2>1. CASE Tail(letters) = <<>>
    <3>1. optind' = optind + 1 /\ place' = <<>> /\ Len(letters) = 1 /\ (optind + 1) - 1 = optind
      BY <1>3, <1>4, <1>11, <2>1
    <3>2. HandedOut(command, optind', place') = Len(Demands(command, optind)) + 0
      BY <3>1 DEF HandedOut
    <3>. HIDE DEF l, d, letters
    <3>3. d + (l - 1) + 0 = d + (g + 1)
      BY <1>3, <1>10, <3>1
    <3>. QED
      BY <1>10, <3>2, <3>3
  <2>2. CASE Tail(letters) # <<>>
    <3>1. optind' = optind /\ place' # <<>> /\ Len(place') = Len(letters) - 1
      BY <1>4, <1>11, <2>2
    <3>2. HandedOut(command, optind', place') = d + (l - 1 - Len(place'))
      BY <3>1 DEF HandedOut
    <3>3. Len(letters) \in Int /\ l \in Int
      BY <1>3, <1>7
    <3>. HIDE DEF l, d, letters
    <3>4. l - 1 - Len(place') = g + 1
      BY <3>1, <3>3
    <3>. QED
      BY <3>2, <3>4
  <2>. QED
    BY <2>1, <2>2
<1>13. HandedOver[d + (g + 1)] = returned' /\ returned' \in Values
  <2>. DEFINE m == Len(letters)
  <2>1. m \in 1..(l - 1) /\ \A q \in 1..m : letters[q] = w[(l - m) + q]
    BY <1>7
  <2>. HIDE DEF letters, l, w, d, m
  <2>0. 1 \in 1..m /\ letters[1] = w[(l - m) + 1]
    BY <2>1
  <2>2. g = l - 1 - m
    BY DEF m
  <2>3. g + 1 \in 1..(l - 1) /\ (g + 1) + 1 = (l - m) + 1
    <3>. HIDE DEF g
    <3>. QED
      BY <1>3, <2>1, <2>2
  <2>. HIDE DEF g
  <2>4. HandedOver[d + (g + 1)] = IF Head(letters) \in Letters THEN Head(letters) ELSE "?"
    BY <1>10, <1>11, <2>0, <2>3
  <2>. QED
    BY <1>4, <2>4 DEF Letters, Values
<1>14. d + g \in 0..(Len(HandedOver) - 1)
  <2>. DEFINE m == Len(letters)
              r == Len(HandedOver)
  <2>1. m \in 1..(l - 1) /\ l \in Nat /\ d \in Nat /\ d + (l - 1) <= r /\ r \in Nat /\ g = l - 1 - m
    BY <1>3, <1>7, <1>10
  <2>. HIDE DEF m, r, d, l, g
  <2>2. d + g \in 0..(r - 1)
    BY ONLY <2>1
  <2>. QED
    BY <2>2 DEF r
<1>. HIDE DEF d, g
<1>15. d + (g + 1) = (d + g) + 1
  <2>1. d \in Int /\ g \in Int
    <3>1. l \in Int /\ Len(letters) \in Int
      BY <1>3, <1>7
    <3>. HIDE DEF l, letters
    <3>2. g \in Int
      BY <3>1 DEF g
    <3>. QED
      BY <1>10, <3>2
  <2>. QED
    BY ONLY <2>1
<1>. QED
  BY <1>8, <1>12, <1>13, <1>14, <1>15 DEF NextDemandIs

LEMMA LongHandsOut == Steps /\ LongOption => NextDemandIs(optind, place, optind', place', returned')
<1>. SUFFICES ASSUME Steps, LongOption
              PROVE  NextDemandIs(optind, place, optind', place', returned')
  OBVIOUS
<1>1. WordsSound(command) /\ Scanning
  BY DEF Steps, GetoptInv
<1>2. /\ place' = <<>> /\ place = <<>> /\ optind' = optind + 1 /\ optind <= Len(argv)
      /\ IsLong(word) /\ word # EndMark
      /\ returned' = ValueOf(SubSeq(word, 3, Len(word)))
  BY DEF LongOption, AtWord
<1>. DEFINE w == command[optind]
            d == Len(Demands(command, optind - 1))
<1>3. optind \in 1..Len(command) /\ word = w /\ w \in Seq(Range(w)) /\ Len(command) \in Nat
  BY <1>1, <1>2, AtAWord, WordIs
<1>4. IsOption(w) /\ IsLong(w)
  BY <1>2, <1>3 DEF IsLong
<1>5. \A k \in 1..optind : NoStop(command, environment, k)
  <2>1. NoStop(command, environment, optind)
    BY <1>2, <1>3, <1>4 DEF NoStop
  <2>2. \A k \in 1..(optind - 1) : NoStop(command, environment, k)
    BY <1>1 DEF Scanning, Looked
  <2>3. \A k \in 1..optind : k = optind \/ k \in 1..(optind - 1)
    BY <1>3
  <2>. QED
    BY <2>1, <2>2, <2>3
<1>6. Yields(w) = <<returned'>> /\ Yields(w) \in Seq(Values)
  BY <1>2, <1>3, <1>4, YieldsIs
<1>7. Len(Yields(w)) = 1 /\ Yields(w)[1] = returned' /\ returned' \in Values
  <2>. DEFINE s == Yields(w)
              x == returned'
  <2>1. s = <<x>> /\ s \in Seq(Values)
    BY <1>6
  <2>. HIDE DEF s, x
  <2>2. Len(s) = 1 /\ s[1] = x /\ x \in Values
    BY <2>1
  <2>. QED
    BY <2>2 DEF s, x
<1>8. /\ d \in Nat
      /\ Len(Demands(command, optind)) = d + Len(Yields(w))
      /\ Len(Demands(command, optind)) <= Len(HandedOver)
      /\ \A q \in 1..Len(Yields(w)) : HandedOver[d + q] = Yields(w)[q]
  BY <1>1, <1>3, <1>4, <1>5, WordDemands
<1>9. HandedOut(command, optind, place) = d + 0 /\ HandedOut(command, optind', place') = d + 1 + 0
  <2>1. (optind + 1) - 1 = optind
    BY <1>3
  <2>. QED
    BY <1>2, <1>7, <1>8, <2>1 DEF HandedOut
<1>10. Len(HandedOver) \in Nat
  BY <1>1, HandedOverType
<1>. HIDE DEF d
<1>11. d + 0 = d /\ d + 1 + 0 = d + 1 /\ d \in 0..(Len(HandedOver) - 1)
  <2>1. d + 1 <= Len(HandedOver) /\ d \in Nat
    BY <1>7, <1>8
  <2>. DEFINE r == Len(HandedOver)
  <2>2. d + 1 <= r /\ r \in Nat
    BY <1>10, <2>1
  <2>. HIDE DEF r
  <2>3. d \in 0..(r - 1) /\ d + 0 = d /\ d + 1 + 0 = d + 1
    BY ONLY <2>1, <2>2
  <2>. QED
    BY <2>3 DEF r
<1>12. HandedOver[d + 1] = returned'
  BY <1>7, <1>8
<1>. QED
  BY <1>7, <1>9, <1>11, <1>12 DEF NextDemandIs

\* Skipping a word hands out nothing.
LEMMA SkipHandsOut ==
    Steps /\ SkipNonOption => HandedOut(command, optind', place') = HandedOut(command, optind, place)
<1>. SUFFICES ASSUME Steps, SkipNonOption
              PROVE  HandedOut(command, optind', place') = HandedOut(command, optind, place)
  OBVIOUS
<1>1. WordsSound(command) /\ Scanning
  BY DEF Steps, GetoptInv
<1>2. place' = <<>> /\ place = <<>> /\ optind' = optind + 1 /\ optind <= Len(argv) /\ ~IsOption(word)
  BY DEF SkipNonOption, AtNonOption, AtWord
<1>3. optind \in 1..Len(command) /\ word = command[optind]
  BY <1>1, <1>2, AtAWord
<1>4. Demands(command, optind) = Demands(command, optind - 1)
  BY <1>1, <1>2, <1>3, DemandsOneMore
<1>5. (optind + 1) - 1 = optind
  BY <1>3
<1>. QED
  BY <1>2, <1>4, <1>5 DEF HandedOut

\* At the end everything has been handed out.
LEMMA EndHandsOut ==
    Steps /\ (EndOfArguments \/ EndOfOptions \/ StopAtNonOption)
        => HandedOut(command, optind, place) = Len(HandedOver) /\ returned' = "EOF"
<1>. SUFFICES ASSUME Steps, EndOfArguments \/ EndOfOptions \/ StopAtNonOption
              PROVE  HandedOut(command, optind, place) = Len(HandedOver) /\ returned' = "EOF"
  OBVIOUS
<1>1. WordsSound(command) /\ Scanning
  BY DEF Steps, GetoptInv
<1>2. place = <<>> /\ returned' = "EOF"
  BY DEF EndOfArguments, EndOfOptions, StopAtNonOption, AtWord, AtNonOption
<1>. DEFINE n == Len(command)
            k == optind - 1
<1>3. n \in Nat /\ optind \in 1..(n + 1) /\ Len(argv) = n /\ \A j \in 1..(optind - 1) : NoStop(command, environment, j)
  BY <1>1 DEF Scanning, Looked, Words, WordsSound
<1>4. StopsAt - 1 = k
  <2>1. CASE EndOfArguments
    <3>1. optind > n
      BY <1>3, <2>1 DEF EndOfArguments
    <3>. HIDE DEF n
    <3>2. k = n /\ k \in 0..n
      BY <1>3, <3>1
    <3>. HIDE DEF k
    <3>3. StopsAt - 1 \in k..n
      BY <1>1, <1>3, <3>2, StopBehind DEF n, k
    <3>. QED
      BY <1>3, <3>2, <3>3
  <2>2. CASE ~EndOfArguments
    <3>1. optind <= Len(argv)
      BY <2>2 DEF EndOfOptions, StopAtNonOption, AtWord, AtNonOption
    <3>2. optind \in 1..n /\ word = command[optind]
      BY <1>1, <3>1, AtAWord
    <3>3. ~NoStop(command, environment, optind)
      BY <2>2, <3>2 DEF NoStop, EndOfOptions, StopAtNonOption, AtNonOption
    <3>. HIDE DEF n
    <3>4. k \in 0..n /\ optind = k + 1
      BY <1>3, <3>2
    <3>. HIDE DEF k
    <3>5. StopsAt - 1 \in k..n /\ StopsAt \in Int
      BY <1>1, <1>3, <3>4, StopBehind DEF n, k
    <3>6. StopsAt <= optind
      <4>. DEFINE stops == {j \in 1..Len(command) : command[j] = EndMark
                              \/ ("POSIXLY_CORRECT" \in environment /\ ~IsOption(command[j]))}
      <4>1. optind \in stops /\ StopsAt = IF stops = {} THEN Len(command) + 1 ELSE Min(stops)
        BY <3>2, <3>3 DEF NoStop, StopsAt, n
      <4>2. stops \in SUBSET Nat
        BY <1>3 DEF n
      <4>. HIDE DEF stops
      <4>3. \E x \in stops : \A y \in stops : x <= y
        BY <4>1, <4>2, LeastNumber
      <4>4. \A y \in stops : Min(stops) <= y
        BY <4>3 DEF Min
      <4>5. StopsAt = Min(stops)
        BY <4>1
      <4>. QED
        BY <4>1, <4>4, <4>5
    <3>7. k \in Int /\ n \in Int
      BY <1>3, <3>4
    <3>8. StopsAt - 1 >= k
      BY <3>5, <3>7
    <3>9. StopsAt - 1 = k
      BY ONLY <3>4, <3>5, <3>6, <3>7, <3>8
    <3>. QED
      BY <3>9
  <2>. QED
    BY <2>1, <2>2
<1>5. HandedOver = Demands(command, optind - 1)
  BY <1>4, HandedOverIs
<1>6. HandedOut(command, optind, place) = Len(HandedOver) + 0 /\ Len(HandedOver) \in Nat
  BY <1>1, <1>2, <1>5, HandedOverType DEF HandedOut
<1>. QED
  BY <1>2, <1>6

-----------------------------------------------------------------------------
(* The loop over what is handed out *)

LEMMA SameHandedOver ==
    ASSUME UNCHANGED <<command, environment>>
    PROVE  HandedOver' = HandedOver /\ StopsAt' = StopsAt
<1>1. StopsAt' = StopsAt
  BY DEF StopsAt
<1>. QED
  BY <1>1 DEF HandedOver, OptionWords, InFront

\* One demand more is dealt with.
LEMMA NoneMore ==
    ASSUME NEW d, NEW a \in Nat \ {0}, NEW values, NoneOf(d, a - 1, values), d[a] \notin values
    PROVE  NoneOf(d, a, values)
<1>1. \A j \in 1..a : j = a \/ j \in 1..(a - 1)
  OBVIOUS
<1>. QED
  BY <1>1 DEF NoneOf

LEMMA LastMore ==
    ASSUME NEW d, NEW a \in Nat \ {0}, NEW values, NEW k, LastOf(d, a - 1, values, k), d[a] \notin values
    PROVE  LastOf(d, a, values, k) /\ k \in 1..a
<1>1. k \in 1..(a - 1) /\ k \in 1..a
  BY DEF LastOf
<1>2. \A j \in (k + 1)..a : j = a \/ j \in (k + 1)..(a - 1)
  BY <1>1
<1>. QED
  BY <1>1, <1>2 DEF LastOf

LEMMA LastNow ==
    ASSUME NEW d, NEW a \in Nat \ {0}, NEW values, d[a] \in values
    PROVE  LastOf(d, a, values, a) /\ a \in 1..a
<1>1. a \in 1..a /\ \A j \in (a + 1)..a : FALSE
  OBVIOUS
<1>. QED
  BY <1>1 DEF LastOf

LEMMA ResultsMore ==
    ASSUME NEW d, NEW a \in Nat \ {0}, NEW setting, ResultsOf(d, a - 1, setting),
           d[a] \notin ResultOptions
    PROVE  ResultsOf(d, a, setting)
<1>1. CASE NoneOf(d, a - 1, ResultOptions) /\ setting = "unset"
  BY <1>1, NoneMore DEF ResultsOf
<1>2. CASE \E k \in 1..(a - 1) : /\ LastOf(d, a - 1, ResultOptions, k)
                                 /\ setting = IF d[k] = "q" THEN "never" ELSE "always"
  <2>1. PICK k \in 1..(a - 1) : /\ LastOf(d, a - 1, ResultOptions, k)
                                /\ setting = IF d[k] = "q" THEN "never" ELSE "always"
    BY <1>2
  <2>2. LastOf(d, a, ResultOptions, k) /\ k \in 1..a
    BY <2>1, LastMore
  <2>. QED
    BY <2>1, <2>2 DEF ResultsOf
<1>. QED
  BY <1>1, <1>2 DEF ResultsOf

LEMMA ResultsNow ==
    ASSUME NEW d, NEW a \in Nat \ {0}, d[a] \in ResultOptions
    PROVE  ResultsOf(d, a, IF d[a] = "q" THEN "never" ELSE "always")
BY LastNow DEF ResultsOf

LEMMA SandboxMore ==
    ASSUME NEW d, NEW a \in Nat \ {0}, NEW setting, SandboxOf(d, a - 1, setting),
           d[a] \notin SandboxOptions
    PROVE  SandboxOf(d, a, setting)
<1>1. CASE NoneOf(d, a - 1, SandboxOptions) /\ setting = "unset"
  BY <1>1, NoneMore DEF SandboxOf
<1>2. CASE \E k \in 1..(a - 1) : /\ LastOf(d, a - 1, SandboxOptions, k)
                                 /\ setting = IF d[k] = "keep-broken" THEN "failed" ELSE "always"
  <2>1. PICK k \in 1..(a - 1) : /\ LastOf(d, a - 1, SandboxOptions, k)
                                /\ setting = IF d[k] = "keep-broken" THEN "failed" ELSE "always"
    BY <1>2
  <2>2. LastOf(d, a, SandboxOptions, k) /\ k \in 1..a
    BY <2>1, LastMore
  <2>. QED
    BY <2>1, <2>2 DEF SandboxOf
<1>. QED
  BY <1>1, <1>2 DEF SandboxOf

LEMMA SandboxNow ==
    ASSUME NEW d, NEW a \in Nat \ {0}, d[a] \in SandboxOptions
    PROVE  SandboxOf(d, a, IF d[a] = "keep-broken" THEN "failed" ELSE "always")
BY LastNow DEF SandboxOf

\* The invariant at the start.
LEMMA OptionsBegin ==
    ASSUME WordsSound(command), OptionsInit
    PROVE  GetoptInv /\ MainInv
<1>1. GetoptInv
  BY GetoptBegins DEF OptionsInit
<1>2. /\ optind = 1 /\ place = <<>> /\ returned = "scanning" /\ options = "open"
      /\ print_results = "unset" /\ keep_sandbox = "unset"
  BY DEF OptionsInit, GetoptInit
<1>3. Demands(command, 1 - 1) = <<>>
  <2>1. Opts(command, 0) = <<>>
    BY SortedNone DEF WordsSound
  <2>2. [i \in 1..Len(<<>>) |-> Yields(<<>>[i])] = <<>>
    OBVIOUS
  <2>3. Demands(command, 0) = <<>>
    BY <2>1, <2>2, FlattenEmpty DEF Demands
  <2>. QED
    BY <2>3
<1>4. Len(<<>>) = 0
  OBVIOUS
<1>5. HandedOut(command, optind, place) = Len(<<>>) + 0
  BY <1>2, <1>3 DEF HandedOut
<1>6. Taken = 0 /\ Applied = 0 /\ ~Pending
  BY <1>2, <1>4, <1>5 DEF Taken, Applied, Pending
<1>7. Len(HandedOver) \in Nat
  BY HandedOverType
<1>8. NoneOf(HandedOver, 0, Ends) /\ NoneOf(HandedOver, 0, ResultOptions) /\ NoneOf(HandedOver, 0, SandboxOptions)
  BY DEF NoneOf
<1>9. SettingsOf
  BY <1>2, <1>6, <1>8 DEF SettingsOf, ResultsOf, SandboxOf
<1>10. Ending
  BY <1>2 DEF Ending
<1>. QED
  BY <1>1, <1>6, <1>7, <1>8, <1>9, <1>10 DEF MainInv

LEMMA StutterHonours ==
    ASSUME GetoptInv, MainInv, UNCHANGED optionVars
    PROVE  GetoptInv' /\ MainInv'
<1>1. /\ command' = command /\ environment' = environment /\ argv' = argv /\ optind' = optind
      /\ place' = place /\ nonopt_start' = nonopt_start /\ nonopt_end' = nonopt_end
      /\ returned' = returned /\ keep_sandbox' = keep_sandbox /\ print_results' = print_results
      /\ options' = options
  BY DEF optionVars, callVars, ownVars
<1>2. HandedOver' = HandedOver
  BY <1>1, SameHandedOver
<1>3. Taken' = Taken
  BY <1>1, <1>2 DEF Taken
<1>4. Pending' <=> Pending
  BY <1>1 DEF Pending
<1>5. Applied' = Applied
  BY <1>3, <1>4 DEF Applied
<1>6. SettingsOf'
  BY <1>1, <1>2, <1>5 DEF MainInv, SettingsOf, WithEnvironment
<1>7. Ending'
  BY <1>1 DEF MainInv, Ending
<1>8. MainInv'
  BY <1>1, <1>2, <1>3, <1>4, <1>5, <1>6, <1>7 DEF MainInv
<1>9. GetoptInv'
  BY <1>1 DEF GetoptInv, Scanning, Ended
<1>. QED
  BY <1>8, <1>9

LEMMA ParsingHonours ==
    ASSUME GetoptInv, MainInv, Parsing
    PROVE  GetoptInv' /\ MainInv'
<1>1. /\ options = "open" /\ options' = options /\ GetoptNext /\ command' = command
      /\ keep_sandbox' = keep_sandbox /\ print_results' = print_results
  BY DEF Parsing, ownVars
<1>2. returned = "scanning" /\ environment' = environment
  BY <1>1 DEF GetoptNext, EndOfArguments, StopAtNonOption, SkipNonOption, ShortOption, LongOption,
              EndOfOptions, AtWord, AtNonOption
<1>3. Steps
  BY <1>1, <1>2 DEF Steps
<1>4. GetoptInv'
  BY <1>1, <1>3, GetoptKeeps
<1>5. HandedOver' = HandedOver
  BY <1>1, <1>2, SameHandedOver
<1>. DEFINE a == HandedOut(command, optind, place)
            b == HandedOut(command, optind', place')
            d == HandedOver
<1>6. Len(d) \in Nat
  BY HandedOverType DEF GetoptInv
<1>7. Taken = a /\ ~Pending /\ Applied = a
  BY <1>2 DEF Taken, Pending, Applied
<1>8. a \in 0..Len(d) /\ NoneOf(d, a, Ends) /\ ResultsOf(d, a, print_results)
      /\ SandboxOf(d, a, keep_sandbox)
  BY <1>1, <1>7 DEF MainInv, SettingsOf
<1>9. returned' # "EOF" => Taken' = b
  BY <1>1 DEF Taken
<1>10. Ending'
  BY <1>1 DEF Ending
<1>. HIDE DEF a, b, d
<1>11. ASSUME Applied' = a
       PROVE  NoneOf(d, Applied', Ends) /\ SettingsOf'
  BY <1>1, <1>5, <1>8, <1>11 DEF SettingsOf, d
<1>12. CASE ShortOption \/ LongOption
  <2>1. NextDemandIs(optind, place, optind', place', returned')
    BY <1>3, <1>12, ShortHandsOut, LongHandsOut
  <2>2. a \in 0..(Len(d) - 1) /\ b = a + 1 /\ d[b] = returned' /\ returned' \in Values
    BY <2>1 DEF NextDemandIs, a, b, d
  <2>3. Pending'
    BY <2>2 DEF Pending, Values
  <2>4. returned' # "EOF"
    BY <2>2 DEF Values
  <2>5. Taken' = b /\ Applied' = b - 1
    BY <1>9, <2>3, <2>4 DEF Applied
  <2>6. b - 1 = a /\ b \in 0..Len(d) /\ b # 0
    <3>. DEFINE r == Len(d)
    <3>1. r \in Nat /\ a \in 0..(r - 1) /\ b = a + 1
      BY <1>6, <2>2
    <3>. HIDE DEF r
    <3>2. b - 1 = a /\ b \in 0..r /\ b # 0
      BY ONLY <3>1
    <3>. QED
      BY <3>2 DEF r
  <2>. QED
    BY <1>4, <1>5, <1>10, <1>11, <2>2, <2>3, <2>5, <2>6 DEF MainInv, d
<1>13. CASE SkipNonOption
  <2>1. b = a
    BY <1>3, <1>13, SkipHandsOut DEF a, b
  <2>2. returned' = "scanning"
    BY <1>2, <1>13 DEF SkipNonOption
  <2>3. Taken' = a /\ Applied' = a /\ ~Pending'
    BY <1>9, <2>1, <2>2 DEF Pending, Applied
  <2>. QED
    BY <1>4, <1>5, <1>8, <1>10, <1>11, <2>3 DEF MainInv, d
<1>14. CASE EndOfArguments \/ EndOfOptions \/ StopAtNonOption
  <2>1. a = Len(d) /\ returned' = "EOF"
    BY <1>3, <1>14, EndHandsOut DEF a, d
  <2>2. Taken' = a /\ Applied' = a /\ ~Pending'
    BY <1>5, <2>1 DEF Taken, Pending, Applied, d
  <2>. QED
    BY <1>4, <1>5, <1>8, <1>10, <1>11, <2>2 DEF MainInv, d
<1>. QED
  BY <1>1, <1>12, <1>13, <1>14 DEF GetoptNext

\* A demand is dealt with, and the loop goes on.
LEMMA GoOnHonours ==
    ASSUME GetoptInv, MainInv, options = "open", options' = "open", GoOn, command' = command,
           Pending, returned \notin Ends,
           IF returned \in ResultOptions
           THEN print_results' = IF returned = "q" THEN "never" ELSE "always"
           ELSE print_results' = print_results,
           IF returned \in SandboxOptions
           THEN keep_sandbox' = IF returned = "keep-broken" THEN "failed" ELSE "always"
           ELSE keep_sandbox' = keep_sandbox
    PROVE  GetoptInv' /\ MainInv'
<1>1. /\ environment' = environment /\ argv' = argv /\ optind' = optind
      /\ place' = place /\ nonopt_start' = nonopt_start /\ nonopt_end' = nonopt_end
      /\ returned' = "scanning"
  BY DEF GoOn
<1>2. HandedOver' = HandedOver
  BY <1>1, SameHandedOver
<1>3. returned # "EOF" /\ returned # "scanning"
  BY DEF Pending
<1>4. GetoptInv'
  BY <1>1, <1>3 DEF GetoptInv, Scanning
<1>. DEFINE a == Taken
            d == HandedOver
<1>5. Taken' = a /\ Applied' = a /\ ~Pending'
  BY <1>1, <1>3 DEF Taken, Applied, Pending
<1>6. /\ a \in 0..Len(d) /\ Len(d) \in Nat /\ a # 0 /\ returned = d[a]
      /\ NoneOf(d, a - 1, Ends) /\ ResultsOf(d, a - 1, print_results) /\ SandboxOf(d, a - 1, keep_sandbox)
  BY HandedOverType DEF MainInv, GetoptInv, Applied, SettingsOf
<1>. HIDE DEF a, d
<1>7. a \in Nat \ {0}
  BY <1>6
<1>8. NoneOf(d, a, Ends)
  BY <1>6, <1>7, NoneMore
<1>9. ResultsOf(d, a, print_results')
  <2>1. CASE returned \in ResultOptions
    <3>1. ResultsOf(d, a, IF d[a] = "q" THEN "never" ELSE "always")
      BY <1>6, <1>7, <2>1, ResultsNow
    <3>. QED
      BY <1>6, <2>1, <3>1
  <2>2. CASE returned \notin ResultOptions
    BY <1>6, <1>7, <2>2, ResultsMore
  <2>. QED
    BY <2>1, <2>2
<1>10. SandboxOf(d, a, keep_sandbox')
  <2>1. CASE returned \in SandboxOptions
    <3>1. SandboxOf(d, a, IF d[a] = "keep-broken" THEN "failed" ELSE "always")
      BY <1>6, <1>7, <2>1, SandboxNow
    <3>. QED
      BY <1>6, <2>1, <3>1
  <2>2. CASE returned \notin SandboxOptions
    BY <1>6, <1>7, <2>2, SandboxMore
  <2>. QED
    BY <2>1, <2>2
<1>11. SettingsOf' /\ Ending'
  BY <1>2, <1>5, <1>9, <1>10 DEF SettingsOf, Ending, d
<1>. QED
  BY <1>2, <1>4, <1>5, <1>6, <1>8, <1>11 DEF MainInv, d

\* nihtest ends, or is done with the options.
LEMMA EndHonours ==
    ASSUME GetoptInv, MainInv, options = "open", UNCHANGED <<callVars, command>>, Ending', SettingsOf'
    PROVE  GetoptInv' /\ MainInv'
<1>1. /\ command' = command /\ environment' = environment /\ argv' = argv /\ optind' = optind
      /\ place' = place /\ nonopt_start' = nonopt_start /\ nonopt_end' = nonopt_end
      /\ returned' = returned
  BY DEF callVars
<1>2. HandedOver' = HandedOver
  BY <1>1, SameHandedOver
<1>3. Taken' = Taken /\ (Pending' <=> Pending) /\ Applied' = Applied
  BY <1>1, <1>2 DEF Taken, Pending, Applied
<1>4. GetoptInv'
  BY <1>1 DEF GetoptInv, Scanning, Ended
<1>. QED
  BY <1>1, <1>2, <1>3, <1>4 DEF MainInv

LEMMA OptionsHonour ==
    ASSUME GetoptInv, MainInv, OptionsNext
    PROVE  GetoptInv' /\ MainInv'
<1>. USE DEF Returned
<1>1. ASSUME options = "open", UNCHANGED <<callVars, command>>
      PROVE  HandedOver' = HandedOver /\ Applied' = Applied /\ returned' = returned /\ optind' = optind
             /\ argv' = argv /\ environment' = environment
             /\ ResultsOf(HandedOver, Applied, print_results) /\ SandboxOf(HandedOver, Applied, keep_sandbox)
  <2>1. /\ command' = command /\ environment' = environment /\ argv' = argv /\ optind' = optind
        /\ place' = place /\ returned' = returned
    BY <1>1 DEF callVars
  <2>2. HandedOver' = HandedOver
    BY <2>1, SameHandedOver
  <2>3. Taken' = Taken /\ (Pending' <=> Pending) /\ Applied' = Applied
    BY <2>1, <2>2 DEF Taken, Pending, Applied
  <2>. QED
    BY <1>1, <2>1, <2>2, <2>3 DEF MainInv, SettingsOf
<1>2. CASE Parsing
  BY <1>2, ParsingHonours
<1>3. CASE HelpOrVersion
  <2>1. options = "open" /\ UNCHANGED <<callVars, command, keep_sandbox, print_results>>
        /\ options' = "exit 0" /\ returned \in {"h", "V"}
    BY <1>3 DEF HelpOrVersion
  <2>2. Ending' /\ SettingsOf'
    BY <1>1, <2>1 DEF Ending, SettingsOf
  <2>. QED
    BY <2>1, <2>2, EndHonours
<1>4. CASE ConfigFile
  <2>1. options = "open" /\ returned = "C" /\ UNCHANGED <<command, keep_sandbox, print_results>>
    BY <1>4 DEF ConfigFile
  <2>2. CASE optind <= Len(argv)
    <3>1. GoOn /\ options' = "open"
      BY <1>4, <2>1, <2>2 DEF ConfigFile
    <3>2. Pending /\ returned \notin Ends /\ returned \notin ResultOptions /\ returned \notin SandboxOptions
      BY <2>1 DEF Pending, Ends, ResultOptions, SandboxOptions
    <3>. QED
      BY <2>1, <3>1, <3>2, GoOnHonours
  <2>3. CASE ~(optind <= Len(argv))
    <3>1. options' = "crash" /\ UNCHANGED callVars
      BY <1>4, <2>3 DEF ConfigFile
    <3>2. Ending' /\ SettingsOf'
      BY <1>1, <2>1, <3>1 DEF Ending, SettingsOf
    <3>. QED
      BY <2>1, <3>1, <3>2, EndHonours
  <2>. QED
    BY <2>2, <2>3
<1>5. ASSUME NEW value \in ResultOptions,
             Results(value, IF value = "q" THEN "never" ELSE "always")
      PROVE  GetoptInv' /\ MainInv'
  <2>1. /\ options = "open" /\ options' = "open" /\ returned = value /\ GoOn /\ command' = command
        /\ print_results' = IF value = "q" THEN "never" ELSE "always"
        /\ keep_sandbox' = keep_sandbox
    BY <1>5 DEF Results
  <2>2. Pending /\ returned \notin Ends /\ returned \in ResultOptions /\ returned \notin SandboxOptions
    BY <2>1 DEF Pending, Ends, ResultOptions, SandboxOptions
  <2>. QED
    BY <2>1, <2>2, GoOnHonours
<1>6. ASSUME NEW value \in SandboxOptions,
             Sandbox(value, IF value = "keep-broken" THEN "failed" ELSE "always")
      PROVE  GetoptInv' /\ MainInv'
  <2>1. /\ options = "open" /\ options' = "open" /\ returned = value /\ GoOn /\ command' = command
        /\ keep_sandbox' = IF value = "keep-broken" THEN "failed" ELSE "always"
        /\ print_results' = print_results
    BY <1>6 DEF Sandbox
  <2>2. Pending /\ returned \notin Ends /\ returned \in SandboxOptions /\ returned \notin ResultOptions
    BY <2>1 DEF Pending, Ends, ResultOptions, SandboxOptions
  <2>. QED
    BY <2>1, <2>2, GoOnHonours
<1>7. CASE Usage
  <2>1. options = "open" /\ UNCHANGED <<callVars, command, keep_sandbox, print_results>>
        /\ options' = "usage" /\ (returned = "?" \/ (returned = "EOF" /\ optind # Len(argv)))
    BY <1>7 DEF Usage
  <2>2. Ending' /\ SettingsOf'
    BY <1>1, <2>1 DEF Ending, SettingsOf
  <2>. QED
    BY <2>1, <2>2, EndHonours
<1>8. CASE FinishOptions
  <2>1. /\ options = "open" /\ UNCHANGED <<callVars, command>>
        /\ options' = "done" /\ returned = "EOF" /\ optind = Len(argv)
        /\ print_results' = WithEnvironment(print_results, "VERBOSE", "always")
        /\ keep_sandbox' = WithEnvironment(keep_sandbox, "KEEP_BROKEN", "failed")
    BY <1>8 DEF FinishOptions, WithEnvironment
  <2>3. Ending'
    BY <1>1, <2>1 DEF Ending
  <2>4. SettingsOf'
    <3>1. print_results' = IF print_results = "unset" /\ "VERBOSE" \in environment' THEN "always" ELSE print_results
      BY <1>1, <2>1 DEF WithEnvironment
    <3>2. keep_sandbox' = IF keep_sandbox = "unset" /\ "KEEP_BROKEN" \in environment' THEN "failed" ELSE keep_sandbox
      BY <1>1, <2>1 DEF WithEnvironment
    <3>3. ResultsOf(HandedOver', Applied', print_results) /\ SandboxOf(HandedOver', Applied', keep_sandbox)
      BY <1>1, <2>1
    <3>. QED
      BY <2>1, <3>1, <3>2, <3>3 DEF SettingsOf, WithEnvironment
  <2>. QED
    BY <2>1, <2>3, <2>4, EndHonours
<1>9. /\ Results("q", "never") => Results("q", IF "q" = "q" THEN "never" ELSE "always")
      /\ Results("v", "always") => Results("v", IF "v" = "q" THEN "never" ELSE "always")
      /\ "q" \in ResultOptions /\ "v" \in ResultOptions
  BY DEF ResultOptions
<1>10. /\ "keep-broken" \in SandboxOptions /\ "no-cleanup" \in SandboxOptions /\ "setup-only" \in SandboxOptions
       /\ "no-cleanup" # "keep-broken" /\ "setup-only" # "keep-broken"
  BY DEF SandboxOptions
<1>. QED
  BY <1>2, <1>3, <1>4, <1>5, <1>6, <1>7, <1>8, <1>9, <1>10 DEF OptionsNext

-----------------------------------------------------------------------------
(* What main does with them *)

LEMMA FirstEnd ==
    ASSUME NEW d, NEW n \in Nat, NEW a \in 1..n, d[a] \in Ends, NoneOf(d, a - 1, Ends)
    PROVE  /\ {k \in 1..n : d[k] \in Ends} # {}
           /\ Min({k \in 1..n : d[k] \in Ends}) = a
<1>. DEFINE ends == {k \in 1..n : d[k] \in Ends}
<1>1. a \in ends
  OBVIOUS
<1>2. \A k \in ends : a <= k
  <2>1. \A k \in 1..n : k < a => k \in 1..(a - 1)
    OBVIOUS
  <2>. QED
    BY <2>1 DEF NoneOf
<1>3. \A k \in ends : k \in Int
  OBVIOUS
<1>. HIDE DEF ends
<1>4. Min(ends) = a
  <2>1. \E x \in ends : \A y \in ends : x <= y
    BY <1>1, <1>2
  <2>2. Min(ends) \in ends /\ \A y \in ends : Min(ends) <= y
    BY <2>1 DEF Min
  <2>. DEFINE l == Min(ends)
  <2>3. l \in Int /\ a \in Int /\ l <= a /\ a <= l
    BY <1>1, <1>2, <1>3, <2>2
  <2>. HIDE DEF l
  <2>4. l = a
    BY ONLY <2>3
  <2>. QED
    BY <2>4 DEF l
<1>. QED
  BY <1>1, <1>4 DEF ends

-----------------------------------------------------------------------------
(* The letters offered and those main knows *)

\* The option words of a command line are words of it.
LEMMA OptionWordIs ==
    ASSUME NEW c, WordsSound(c), NEW k \in 0..Len(c), NEW w \in ToSet(Opts(c, k))
    PROVE  \E j \in 1..k : w = c[j] /\ IsOption(w)
<1>. DEFINE n == Len(c)
            From(j) == \A x \in ToSet(Opts(c, j)) : \E i \in 1..j : x = c[i] /\ IsOption(x)
            T == {j \in 0..n : From(j)}
<1>1. c \in Seq(Range(c)) /\ n \in Nat
  BY DEF WordsSound
<1>2. 0 \in T
  <2>1. Opts(c, 0) = <<>>
    BY <1>1, SortedNone
  <2>2. ToSet(Opts(c, 0)) = {}
    BY <2>1 DEF ToSet
  <2>. QED
    BY <1>1, <2>2
<1>3. ASSUME NEW j \in 0..(n - 1), j \in T
      PROVE  j + 1 \in T
  <2>. DEFINE o == Opts(c, j)
              v == c[j + 1]
  <2>1. j + 1 \in 1..n /\ (j + 1) - 1 = j /\ j \in Nat /\ v \in Range(c)
    BY <1>1
  <2>2. o \in Seq(Range(c)) /\ Opts(c, j + 1) = IF IsOption(v) THEN Append(o, v) ELSE o
    <3>1. \A i \in 1..Len(c) :
             /\ Opts(c, i - 1) \in Seq(Range(c))
             /\ Opts(c, i) = IF IsOption(c[i]) THEN Append(Opts(c, i - 1), c[i]) ELSE Opts(c, i - 1)
      BY <1>1, SortedOneMore
    <3>. QED
      BY <2>1, <3>1
  <2>3. From(j)
    BY <1>3
  <2>. HIDE DEF o, v
  <2>4. ToSet(Append(o, v)) \subseteq ToSet(o) \cup {v}
    BY <2>1, <2>2 DEF ToSet
  <2>5. ASSUME NEW x \in ToSet(Opts(c, j + 1))
        PROVE  \E i \in 1..(j + 1) : x = c[i] /\ IsOption(x)
    <3>1. CASE x = v /\ IsOption(v)
      BY <2>1, <3>1 DEF v
    <3>2. CASE x \in ToSet(o)
      BY <2>1, <2>3, <3>2 DEF o
    <3>. QED
      BY <2>2, <2>4, <3>1, <3>2
  <2>. QED
    BY <2>1, <2>5
<1>. HIDE DEF T
<1>4. 0..n \subseteq T
  BY <1>1, <1>2, <1>3, AllUpTo
<1>. QED
  BY <1>4 DEF T

\* Words in front of where it stops do not stop.
LEMMA BeforeStop ==
    ASSUME WordsSound(command)
    PROVE  /\ StopsAt \in 1..(Len(command) + 1)
           /\ \A k \in 1..(StopsAt - 1) : NoStop(command, environment, k)
<1>. DEFINE n == Len(command)
            stops == {j \in 1..n : command[j] = EndMark
                                      \/ ("POSIXLY_CORRECT" \in environment /\ ~IsOption(command[j]))}
<1>1. n \in Nat
  BY DEF WordsSound
<1>2. StopsAt = IF stops = {} THEN n + 1 ELSE Min(stops)
  BY DEF StopsAt
<1>3. \A j \in 1..n : j \in stops \/ NoStop(command, environment, j)
  BY DEF NoStop
<1>4. stops \subseteq 1..n
  OBVIOUS
<1>. HIDE DEF n, stops
<1>5. CASE stops = {}
  BY <1>1, <1>2, <1>3, <1>5 DEF n
<1>6. CASE stops # {}
  <2>1. stops \in SUBSET Nat
    BY <1>1, <1>4
  <2>2. \E x \in stops : \A y \in stops : x <= y
    BY <1>6, <2>1, LeastNumber
  <2>3. Min(stops) \in stops /\ \A y \in stops : Min(stops) <= y
    BY <2>2 DEF Min
  <2>5. StopsAt \in stops /\ \A y \in stops : StopsAt <= y
    BY <1>2, <1>6, <2>3
  <2>6. StopsAt \in 1..n
    BY <1>4, <2>5
  <2>7. ASSUME NEW k \in 1..(StopsAt - 1)
        PROVE  k \in 1..n /\ k \notin stops
    <3>1. k \in 1..n /\ ~(StopsAt <= k)
      BY <1>1, <2>6
    <3>. QED
      BY <2>5, <3>1
  <2>4. StopsAt \in 1..n /\ \A k \in 1..(StopsAt - 1) : k \in 1..n /\ k \notin stops
    BY <2>6, <2>7
  <2>. QED
    BY <1>1, <1>3, <2>4 DEF n
<1>. QED
  BY <1>5, <1>6

LEMMA SameReading ==
    ASSUME NEW w, w \in Seq(Range(w)), IsLong(w) \/ "q" \notin ToSet(w)
    PROVE  Says(w) = Yields(w)
<1>1. CASE IsLong(w)
  BY <1>1 DEF Says, Yields, Reading
<1>2. CASE ~IsLong(w)
  <2>1. ASSUME NEW k \in 1..(Len(w) - 1)
        PROVE  w[k + 1] \in Offered <=> w[k + 1] \in Letters
    <3>1. k + 1 \in DOMAIN w
      OBVIOUS
    <3>2. w[k + 1] # "q"
      BY <1>2, <3>1 DEF ToSet
    <3>. QED
      BY <3>2 DEF Offered, Letters
  <2>. QED
    BY <1>2, <2>1 DEF Says, Yields, Reading
<1>. QED
  BY <1>1, <1>2

LEMMA OptionWordsAre ==
    ASSUME WordsSound(command)
    PROVE  /\ OptionWords \in Seq(Range(command))
           /\ \A w \in ToSet(OptionWords) :
                 \E j \in 1..(StopsAt - 1) : j \in 1..Len(command) /\ w = command[j] /\ IsOption(w)
<1>. DEFINE b == StopsAt - 1
<1>1. Len(command) \in Nat /\ b \in 0..Len(command) /\ \A j \in 1..b : j \in 1..Len(command)
  BY BeforeStop DEF WordsSound
<1>2. OptionWords = Opts(command, b)
  BY DEF OptionWords, InFront, Opts
<1>. HIDE DEF b
<1>3. OptionWords \in Seq(Range(command))
  BY <1>1, <1>2, SortedTypes DEF WordsSound
<1>4. \A w \in ToSet(OptionWords) : \E j \in 1..b : w = command[j] /\ IsOption(w)
  BY <1>1, <1>2, OptionWordIs
<1>. QED
  BY <1>1, <1>3, <1>4 DEF b

\* But for -q, main reads what was meant.
LEMMA ReadAsMeant ==
    ASSUME WordsSound(command), ~QuietByLetter
    PROVE  Demanded = HandedOver
<1>1. ASSUME NEW k \in 1..Len(OptionWords)
      PROVE  Says(OptionWords[k]) = Yields(OptionWords[k])
  <2>. DEFINE w == OptionWords[k]
  <2>1. w \in Range(command) /\ w \in ToSet(OptionWords)
    BY OptionWordsAre DEF ToSet
  <2>. HIDE DEF w
  <2>2. w \in Seq(Range(w)) /\ (IsLong(w) \/ "q" \notin ToSet(w))
    BY <2>1 DEF WordsSound, QuietByLetter
  <2>3. Says(w) = Yields(w)
    BY <2>2, SameReading
  <2>. QED
    BY <2>3 DEF w
<1>. DEFINE m == Len(OptionWords)
            f == [k \in 1..m |-> Says(OptionWords[k])]
            g == [k \in 1..m |-> Yields(OptionWords[k])]
<1>2. f = g
  BY <1>1
<1>3. Demanded = FlattenSeq(f) /\ HandedOver = FlattenSeq(g)
  BY DEF Demanded, HandedOver
<1>. HIDE DEF f, g
<1>. QED
  BY <1>2, <1>3

\* When main goes on, no -q was there.
LEMMA DoneReadsAsMeant ==
    ASSUME GetoptInv, MainInv, options = "done"
    PROVE  Demanded = HandedOver
<1>1. WordsSound(command)
  BY DEF GetoptInv
<1>2. returned = "EOF"
  BY DEF MainInv, Ending
<1>3. NoneOf(HandedOver, Len(HandedOver), Ends) /\ Len(HandedOver) \in Nat
  BY <1>1, <1>2, HandedOverType DEF MainInv, Applied, Pending, Taken
<1>4. ASSUME NEW w \in ToSet(OptionWords), ~IsLong(w), "q" \in ToSet(w)
      PROVE  FALSE
  <2>1. PICK j \in 1..(StopsAt - 1) : j \in 1..Len(command) /\ w = command[j] /\ IsOption(w)
    BY <1>1, OptionWordsAre
  <2>2. \A k \in 1..j : NoStop(command, environment, k)
    BY <1>1, <2>1, BeforeStop
  <2>3. w \in Seq(Range(w)) /\ w[1] = Dash
    BY <1>1, <2>1, WordIs DEF IsOption
  <2>4. PICK m \in 1..Len(w) : w[m] = "q"
    BY <1>4, <2>3 DEF ToSet
  <2>5. m # 1
    BY <2>3, <2>4 DEF Dash
  <2>. DEFINE i == m - 1
  <2>6. i \in 1..(Len(w) - 1) /\ w[i + 1] = "q"
    BY <2>3, <2>4, <2>5
  <2>. HIDE DEF i
  <2>7. Len(Yields(w)) = Len(w) - 1 /\ Yields(w)[i] = "?"
    BY <1>4, <2>1, <2>3, <2>6, YieldsIs DEF Letters
  <2>. DEFINE p == Len(Demands(command, j - 1))
              y == Len(Yields(w))
  <2>8. /\ p \in Nat /\ p + y <= Len(HandedOver)
        /\ \A q \in 1..y : HandedOver[p + q] = Yields(w)[q]
    BY <1>1, <2>1, <2>2, WordDemands
  <2>9. i \in 1..y /\ y \in Nat
    BY <2>3, <2>6, <2>7
  <2>. HIDE DEF p, y
  <2>10. p + i \in 1..Len(HandedOver) /\ HandedOver[p + i] = "?"
    BY <1>3, <2>7, <2>8, <2>9
  <2>. QED
    BY <1>3, <2>10 DEF NoneOf, Ends
<1>5. ~QuietByLetter
  BY <1>4 DEF QuietByLetter
<1>. QED
  BY <1>1, <1>5, ReadAsMeant

LEMMA Honours ==
    ASSUME GetoptInv, MainInv
    PROVE  OptionsHonoured
<1>. DEFINE d == HandedOver
            n == Len(d)
            ends == {k \in 1..n : d[k] \in {"h", "V", "?"}}
<1>12. ~QuietByLetter => Demanded = d
  BY ReadAsMeant DEF GetoptInv
<1>1. n \in Nat
  BY HandedOverType DEF GetoptInv
<1>2. Taken \in 0..n /\ NoneOf(d, Applied, Ends) /\ Ending /\ (Pending => Taken # 0 /\ returned = d[Taken])
  BY DEF MainInv
<1>3. SUFFICES ASSUME options # "open", "C" \notin ToSet(d)
               PROVE  options = IF ends = {} THEN IF Len(Operands) = 1 THEN "done" ELSE "usage"
                                ELSE IF d[Min(ends)] = "?" THEN "usage" ELSE "exit 0"
  BY <1>12 DEF OptionsHonoured
<1>4. ends = {k \in 1..n : d[k] \in Ends}
  BY DEF Ends
<1>. HIDE DEF d, n, ends
<1>5. ASSUME returned = "EOF"
      PROVE  ends = {} /\ (Len(Operands) = 1 <=> optind = Len(argv))
  <2>1. Applied = n
    BY <1>5 DEF Applied, Pending, Taken, n, d
  <2>2. ends = {}
    BY <1>2, <1>4, <2>1 DEF NoneOf
  <2>3. /\ optind = Len(argv) - Len(Operands) + 1
        /\ Len(argv) \in Nat /\ Len(Operands) \in Nat
    BY <1>5, EndedPermuted
  <2>4. \A x, y \in Nat : y = 1 <=> x - y + 1 = x
    OBVIOUS
  <2>. QED
    BY <2>2, <2>3, <2>4
<1>6. ASSUME Pending
      PROVE  Taken \in 1..n /\ returned = d[Taken] /\ (returned \in Ends => ends # {} /\ Min(ends) = Taken)
  <2>1. Taken \in 1..n /\ returned = d[Taken] /\ Applied = Taken - 1
    BY <1>1, <1>2, <1>6 DEF Applied
  <2>2. ASSUME returned \in Ends
        PROVE  ends # {} /\ Min(ends) = Taken
    <3>1. d[Taken] \in Ends /\ NoneOf(d, Taken - 1, Ends)
      BY <1>2, <2>1, <2>2
    <3>. QED
      BY <1>1, <1>4, <2>1, <3>1, FirstEnd
  <2>. QED
    BY <2>1, <2>2
<1>7. CASE options = "done" /\ returned = "EOF" /\ optind = Len(argv)
  BY <1>5, <1>7
<1>8. CASE options = "exit 0" /\ returned \in {"h", "V"}
  <2>1. Pending /\ returned \in Ends /\ returned # "?"
    BY <1>8 DEF Pending, Ends
  <2>. QED
    BY <1>6, <1>8, <2>1
<1>9. CASE options = "usage" /\ returned = "?"
  <2>1. Pending /\ returned \in Ends
    BY <1>9 DEF Pending, Ends
  <2>. QED
    BY <1>6, <1>9, <2>1
<1>10. CASE options = "usage" /\ returned = "EOF" /\ optind # Len(argv)
  BY <1>5, <1>10
<1>11. CASE options = "crash" /\ returned = "C"
  <2>1. Pending
    BY <1>11 DEF Pending
  <2>2. "C" \in ToSet(d)
    BY <1>6, <1>11, <2>1 DEF ToSet, n
  <2>. QED
    BY <1>3, <2>2
<1>. QED
  BY <1>2, <1>3, <1>7, <1>8, <1>9, <1>10, <1>11 DEF Ending

-----------------------------------------------------------------------------
(* Types *)

LEMMA RestIsSuffix ==
    ASSUME NEW w, w \in Seq(Range(w)), NEW p, Rest(w, p)
    PROVE  IsSuffix(p, w)
<1>. DEFINE m == Len(p)
            n == Len(w)
            r == Reverse(p)
            t == Reverse(w)
<1>1. n \in Nat /\ m \in 1..(n - 2) /\ p \in Seq(Range(w)) /\ \A q \in 1..m : p[q] = w[n - m + q]
  BY DEF Rest
<1>2. m \in Nat /\ m <= n
  BY <1>1
<1>3. /\ r = [i \in 1..m |-> p[(m - i) + 1]] /\ t = [i \in 1..n |-> w[(n - i) + 1]]
      /\ r \in Seq(Range(w)) /\ t \in Seq(Range(w)) /\ Len(r) = m /\ Len(t) = n
  <2>1. \A i \in 1..m : (m - i) + 1 \in 1..m
    BY <1>1
  <2>2. \A i \in 1..n : (n - i) + 1 \in 1..n
    BY <1>1
  <2>3. r = [i \in 1..m |-> p[(m - i) + 1]] /\ t = [i \in 1..n |-> w[(n - i) + 1]]
    BY DEF Reverse
  <2>4. \A i \in 1..m : p[i] \in Range(w)
    BY <1>1
  <2>5. \A i \in 1..n : w[i] \in Range(w)
    BY <1>1
  <2>. HIDE DEF r, t, m, n
  <2>6. r \in [1..m -> Range(w)] /\ t \in [1..n -> Range(w)]
    BY <2>1, <2>2, <2>3, <2>4, <2>5
  <2>. QED
    BY <1>1, <1>2, <2>3, <2>6
<1>. HIDE DEF m, n, r, t
<1>4. \A i \in 1..m : r[i] = t[i]
  <2>. SUFFICES ASSUME NEW i \in 1..m
                PROVE  r[i] = t[i]
    OBVIOUS
  <2>1. /\ (m - i) + 1 \in 1..m /\ n - m + ((m - i) + 1) = (n - i) + 1 /\ i \in 1..n
    BY <1>1, <1>2
  <2>2. p[(m - i) + 1] = w[(n - i) + 1]
    BY <1>1, <2>1
  <2>. QED
    BY <1>3, <2>1, <2>2
<1>5. SubSeq(r, 1, m) = SubSeq(t, 1, m)
  <2>1. SubSeq(r, 1, m) = [i \in 1..m |-> r[i]] /\ SubSeq(t, 1, m) = [i \in 1..m |-> t[i]]
    BY <1>1, <1>2, <1>3
  <2>. QED
    BY <1>4, <2>1
<1>6. IsPrefix(r, t)
  BY <1>2, <1>3, <1>5 DEF IsPrefix
<1>. QED
  BY <1>6 DEF IsSuffix, r, t

\* The file is the usual one, or named on the command line.
FileNamed == configuration_file \in {<<"nihtest", ".", "conf">>} \cup Range(command)

LEMMA FileStays == ASSUME GetoptInv, MainInv, FileNamed, OptionsNext PROVE FileNamed'
<1>1. command' = command
  BY DEF OptionsNext, Parsing, ownVars, HelpOrVersion, ConfigFile, Results, Sandbox, Usage, FinishOptions
<1>2. CASE configuration_file' = configuration_file
  BY <1>1, <1>2 DEF FileNamed
<1>3. CASE ConfigFile /\ optind <= Len(argv)
  <2>1. configuration_file' = argv[optind] /\ returned = "C"
    BY <1>3 DEF ConfigFile, Returned
  <2>2. Words(command, argv, optind) /\ optind \in 1..(Len(command) + 1)
    BY <2>1 DEF GetoptInv, Scanning, Looked
  <2>3. optind \in 1..Len(argv)
    BY <1>3, <2>2
  <2>4. argv[optind] \in Range(command)
    BY <2>2, <2>3 DEF Words
  <2>. QED
    BY <1>1, <2>1, <2>4 DEF FileNamed
<1>. QED
  BY <1>2, <1>3 DEF OptionsNext, Parsing, ownVars, HelpOrVersion, ConfigFile, Results, Sandbox, Usage,
                    FinishOptions

LEMMA SkippedTypes ==
    ASSUME NEW c, WordsSound(c), NEW i \in 1..(Len(c) + 1), NEW v, NEW first, NEW end, NEW p,
           Skipped(c, i, v, first, end, p)
    PROVE  /\ first \in {-1} \cup 1..(i - 1)
           /\ end \in {-1} \cup (first + 1)..i
           /\ first = -1 => end = -1
<1>. DEFINE o == Len(Opts(c, i - 1))
            m == Len(Others(c, i - 1))
<1>1. o \in Nat /\ m \in Nat /\ o + m = i - 1
  BY SortedBefore
<1>2. i \in Int
  BY DEF WordsSound
<1>3. \/ first = -1 /\ end = -1
      \/ m # 0 /\ first \in 1..(o + 1) /\ (end = -1 \/ end = first + m)
  BY DEF Skipped, Laid
<1>. HIDE DEF o, m
<1>. QED
  BY <1>1, <1>2, <1>3

LEMMA ResultsType ==
    ASSUME NEW d, NEW a, NEW setting, ResultsOf(d, a, setting)
    PROVE  setting \in {"unset", "never", "always"}
BY DEF ResultsOf

LEMMA SandboxType ==
    ASSUME NEW d, NEW a, NEW setting, SandboxOf(d, a, setting)
    PROVE  setting \in {"unset", "failed", "always"}
BY DEF SandboxOf

LEMMA ReturnedType ==
    ASSUME GetoptInv, MainInv
    PROVE  returned \in Letters \cup {o.value : o \in ToSet(LongOptions)} \cup {"scanning", "?", "EOF"}
<1>. DEFINE values == {o.value : o \in ToSet(LongOptions)}
<1>1. \A i \in 1..8 : LongOptions[i].value \in values
  BY TableIs DEF ToSet
<1>2. {"keep-broken", "no-cleanup", "q", "setup-only"} \subseteq values
  <2>1. /\ LongOptions[4].value = "keep-broken" /\ LongOptions[5].value = "no-cleanup"
        /\ LongOptions[6].value = "q" /\ LongOptions[7].value = "setup-only"
    BY DEF LongOptions, Option
  <2>. HIDE DEF values
  <2>2. 4 \in 1..8 /\ 5 \in 1..8 /\ 6 \in 1..8 /\ 7 \in 1..8
    OBVIOUS
  <2>. QED
    BY <1>1, <2>1, <2>2
<1>. HIDE DEF values
<1>3. CASE Pending
  <2>1. HandedOver \in Seq(Values) /\ Taken \in 1..Len(HandedOver) /\ returned = HandedOver[Taken]
    <3>1. HandedOver \in Seq(Values) /\ Len(HandedOver) \in Nat
      BY HandedOverType DEF GetoptInv
    <3>2. Taken \in 0..Len(HandedOver) /\ Taken # 0 /\ returned = HandedOver[Taken]
      BY <1>3 DEF MainInv
    <3>. QED
      BY <3>1, <3>2
  <2>2. returned \in Values
    BY <2>1
  <2>. QED
    BY <1>2, <2>2 DEF Values, Letters, values
<1>4. CASE ~Pending
  BY <1>4 DEF Pending
<1>. QED
  BY <1>3, <1>4

LEMMA OptionsTyped == ASSUME GetoptInv, MainInv, FileNamed PROVE OptionsTypeOK
<1>. DEFINE n == Len(command)
<1>1. WordsSound(command) /\ n \in Nat
  BY DEF GetoptInv, WordsSound
<1>. HIDE DEF n
<1>2. /\ argv \in Seq(Range(command)) /\ Len(argv) = n
      /\ optind \in 1..(n + 1)
      /\ place # <<>> => optind <= n /\ IsSuffix(place, word)
      /\ nonopt_start \in {-1} \cup 1..(optind - 1)
      /\ nonopt_end \in {-1} \cup (nonopt_start + 1)..optind
      /\ nonopt_start = -1 => nonopt_end = -1
  <2>1. CASE returned = "EOF"
    <3>1. PICK k \in 0..Len(command) : EndedAt(command, environment, argv, optind, k)
      BY <2>1 DEF GetoptInv, Ended
    <3>2. place = <<>> /\ nonopt_start = -1 /\ nonopt_end = -1
      BY <2>1 DEF GetoptInv, Ended
    <3>3. argv \in Seq(Range(command)) /\ Len(argv) = n /\ optind = Len(Opts(command, k)) + 1
      BY <3>1 DEF EndedAt, Words, n
    <3>4. Len(Opts(command, k)) \in Nat /\ Len(Others(command, k)) \in Nat
          /\ Len(Opts(command, k)) + Len(Others(command, k)) = k
      <4>1. command \in Seq(Range(command)) /\ k \in 0..Len(command)
        BY <1>1 DEF WordsSound
      <4>2. Opts(command, k) \in Seq(Range(command)) /\ Others(command, k) \in Seq(Range(command))
        /\ Len(Opts(command, k)) + Len(Others(command, k)) = k
        BY <4>1, SortedTypes
      <4>. QED
        BY <4>2
    <3>5. k \in 0..n
      BY DEF n
    <3>6. optind \in 1..(n + 1)
      BY <1>1, <3>3, <3>4, <3>5
    <3>. QED
      BY <3>2, <3>3, <3>6
  <2>2. CASE returned # "EOF"
    <3>1. Scanning
      BY <2>2 DEF GetoptInv
    <3>2. /\ argv \in Seq(Range(command)) /\ Len(argv) = n
          /\ \A k \in optind..n : argv[k] = command[k]
          /\ optind \in 1..(n + 1)
      BY <3>1 DEF Scanning, Words, Looked, n
    <3>3. /\ nonopt_start \in {-1} \cup 1..(optind - 1)
          /\ nonopt_end \in {-1} \cup (nonopt_start + 1)..optind
          /\ nonopt_start = -1 => nonopt_end = -1
      BY <1>1, <3>1, <3>2, SkippedTypes DEF Scanning, n
    <3>4. ASSUME place # <<>>
          PROVE  optind <= n /\ IsSuffix(place, word)
      <4>1. optind <= n /\ Rest(command[optind], place)
        BY <3>1, <3>4 DEF Scanning, Looked, n
      <4>2. optind \in 1..n /\ optind \in optind..n
        BY <1>1, <3>2, <4>1
      <4>3. command[optind] \in Seq(Range(command[optind]))
        BY <1>1, <4>2, WordIs DEF n
      <4>4. word = command[optind]
        BY <3>2, <4>2 DEF word
      <4>. QED
        BY <4>1, <4>3, <4>4, RestIsSuffix
    <3>. QED
      BY <3>2, <3>3, <3>4
  <2>. QED
    BY <2>1, <2>2
<1>3. keep_sandbox \in {"unset", "failed", "always"} /\ print_results \in {"unset", "never", "always"}
  <2>1. SettingsOf
    BY DEF MainInv
  <2>2. CASE ResultsOf(HandedOver, Applied, print_results) /\ SandboxOf(HandedOver, Applied, keep_sandbox)
    BY <2>2, ResultsType, SandboxType
  <2>3. CASE /\ \E setting : /\ ResultsOf(HandedOver, Applied, setting)
                             /\ print_results = WithEnvironment(setting, "VERBOSE", "always")
             /\ \E setting : /\ SandboxOf(HandedOver, Applied, setting)
                             /\ keep_sandbox = WithEnvironment(setting, "KEEP_BROKEN", "failed")
    <3>1. print_results \in {"unset", "never", "always"}
      BY <2>3, ResultsType DEF WithEnvironment
    <3>2. keep_sandbox \in {"unset", "failed", "always"}
      BY <2>3, SandboxType DEF WithEnvironment
    <3>. QED
      BY <3>1, <3>2
  <2>. QED
    BY <2>1, <2>2, <2>3 DEF SettingsOf
<1>4. options \in {"open", "done", "exit 0", "usage", "crash"}
  BY DEF MainInv, Ending
<1>5. returned \in Letters \cup {o.value : o \in ToSet(LongOptions)} \cup {"scanning", "?", "EOF"}
  BY ReturnedType
<1>. HIDE DEF word
<1>. QED
  BY <1>2, <1>3, <1>4, <1>5 DEF OptionsTypeOK, FileNamed, n

=============================================================================
