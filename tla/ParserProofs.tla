---------------------------- MODULE ParserProofs ----------------------------
(***************************************************************************)
(* Proofs about the reading of files of any length: what tokenize returns, *)
(* what process_directive finds out about the lines before, and that the   *)
(* mistakes printed are those there are.                                   *)
(***************************************************************************)
EXTENDS Startup, Induction, SequenceTheorems, FiniteSetTheorems, TLAPS

-----------------------------------------------------------------------------
(* Sets of numbers *)

\* The smallest and the largest of a set.
LEMMA MinIs ==
    ASSUME NEW S \in SUBSET Nat, S # {}
    PROVE  Min(S) \in S /\ \A n \in S : Min(S) <= n
BY LeastNumber DEF Min

LEMMA MaxIs ==
    ASSUME NEW S \in SUBSET Nat, NEW n \in S, \A m \in S : m <= n
    PROVE  Max(S) = n
<1>1. \A m \in S : n >= m
  OBVIOUS
<1>2. Max(S) \in S /\ \A m \in S : Max(S) >= m
  BY <1>1, Zenon DEF Max
<1>3. Max(S) \in Nat /\ n \in Nat /\ Max(S) >= n /\ n >= Max(S)
  BY <1>1, <1>2
<1>. QED
  BY <1>3

-----------------------------------------------------------------------------
(* What tokenize returns *)

LEMMA FirstIs ==
    ASSUME NEW text \in Text, NEW k \in Nat \ {0}, NEW places,
           places \subseteq k..Len(text)
    PROVE  /\ FirstOf(places, text) \in 1..(Len(text) + 1)
           /\ k <= Len(text) + 1 => FirstOf(places, text) >= k
           /\ FirstOf(places, text) > Len(text) <=> places = {}
           /\ places # {} => FirstOf(places, text) \in places
           /\ \A j \in places : FirstOf(places, text) <= j
<1>1. Len(text) \in Nat
  BY DEF Text
<1>2. CASE places = {}
  BY <1>1, <1>2 DEF FirstOf
<1>3. CASE places # {}
  <2>1. places \in SUBSET Nat
    BY <1>1
  <2>2. Min(places) \in places /\ \A n \in places : Min(places) <= n
    BY <1>3, <2>1, MinIs
  <2>3. FirstOf(places, text) = Min(places)
    BY <1>3 DEF FirstOf
  <2>4. FirstOf(places, text) \in places /\ FirstOf(places, text) \in k..Len(text)
    BY <2>2, <2>3
  <2>5. \A j \in places : FirstOf(places, text) <= j
    BY <2>2, <2>3
  <2>. QED
    BY ONLY <1>1, <1>3, <2>4, <2>5, k \in Nat \ {0}
<1>. QED
  BY <1>2, <1>3

LEMMA SkipIs ==
    ASSUME NEW text \in Text, NEW k \in Nat \ {0}
    PROVE  /\ SkipWhitespace(text, k) \in 1..(Len(text) + 1)
           /\ k <= Len(text) + 1 => SkipWhitespace(text, k) >= k
BY FirstIs DEF SkipWhitespace

LEMMA NextBlankIs ==
    ASSUME NEW text \in Text, NEW k \in Nat \ {0}
    PROVE  /\ NextBlank(text, k) \in 1..(Len(text) + 1)
           /\ k <= Len(text) + 1 => NextBlank(text, k) >= k
BY FirstIs DEF NextBlank

LEMMA EscapeIs ==
    ASSUME NEW c
    PROVE  Escape(c) \in Text
<1>1. {Backslash, "bs", "ff", "nl", "cr", Tab} \subseteq Symbol
  BY DEF Symbol, Control, Whitespace
<1>2. \A s \in Symbol : <<s>> \in Seq(Symbol)
  OBVIOUS
<1>3. <<>> \in Seq(Symbol)
  OBVIOUS
<1>. QED
  BY <1>1, <1>2, <1>3, Zenon DEF Escape, Text

QuotedType == [ok : BOOLEAN, arg : Text, close : Nat]

\* Quoted follows its equation; the closing quote is behind the opening one.
LEMMA QuotedIs ==
    ASSUME NEW text \in Text
    PROVE  LET From == Quoted(text) IN
           /\ From \in [1..(Len(text) + 1) -> QuotedType]
           /\ \A k \in 1..(Len(text) + 1) :
                 /\ From[k] =
                      IF k > Len(text) \/ (k = Len(text) /\ text[k] = Backslash)
                      THEN [ok |-> FALSE, arg |-> <<>>, close |-> k]
                      ELSE IF text[k] = Quote
                      THEN [ok |-> TRUE, arg |-> <<>>, close |-> k]
                      ELSE IF text[k] = Backslash
                      THEN [From[k + 2] EXCEPT !.arg = Escape(text[k + 1]) \o @]
                      ELSE [From[k + 1] EXCEPT !.arg = <<text[k]>> \o @]
                 /\ From[k].close >= k
                 /\ From[k].ok => From[k].close <= Len(text)
<1>. DEFINE S == 1..(Len(text) + 1)
            E(f, k) == IF k > Len(text) \/ (k = Len(text) /\ text[k] = Backslash)
                       THEN [ok |-> FALSE, arg |-> <<>>, close |-> k]
                       ELSE IF text[k] = Quote
                       THEN [ok |-> TRUE, arg |-> <<>>, close |-> k]
                       ELSE IF text[k] = Backslash
                       THEN [f[k + 2] EXCEPT !.arg = Escape(text[k + 1]) \o @]
                       ELSE [f[k + 1] EXCEPT !.arg = <<text[k]>> \o @]
            rank == [k \in S |-> Len(text) + 1 - k]
            D == [k \in S |-> [f \in [S -> QuotedType] |-> E(f, k)]]
<1>1. Len(text) \in Nat /\ <<>> \in Text
  BY DEF Text
<1>2. \A k \in S : k \in Nat /\ k >= 1 /\ k <= Len(text) + 1
  BY <1>1
<1>3. rank \in [S -> Nat] /\ \A k \in S : rank[k] = Len(text) + 1 - k
  BY <1>1
<1>4. ASSUME NEW k \in S, ~(k > Len(text) \/ (k = Len(text) /\ text[k] = Backslash))
      PROVE  /\ k + 1 \in S /\ rank[k + 1] < rank[k] /\ <<text[k]>> \in Text
             /\ text[k] = Backslash => k + 2 \in S /\ rank[k + 2] < rank[k]
  <2>1. k + 1 \in S /\ rank[k + 1] < rank[k]
    BY <1>1, <1>4
  <2>2. text[k] = Backslash => k + 2 \in S /\ rank[k + 2] < rank[k]
    BY <1>1, <1>4
  <2>3. text[k] \in Symbol
    BY <1>1, <1>4 DEF Text
  <2>4. <<text[k]>> \in Text
    BY <2>3 DEF Text
  <2>. QED
    BY <2>1, <2>2, <2>4
<1>5. \A q \in QuotedType : \A a \in Text :
        /\ [q EXCEPT !.arg = a \o @] \in QuotedType
        /\ [q EXCEPT !.arg = a \o @].close = q.close
        /\ [q EXCEPT !.arg = a \o @].ok = q.ok
  <2>1. \A a, b \in Text : a \o b \in Text
    BY ConcatProperties DEF Text
  <2>. HIDE DEF Text
  <2>. QED
    BY <2>1 DEF QuotedType
<1>6. ASSUME NEW k \in S, NEW f, \A j \in S : rank[j] < rank[k] => f[j] \in QuotedType
      PROVE  E(f, k) \in QuotedType
  <2>1. CASE k > Len(text) \/ (k = Len(text) /\ text[k] = Backslash)
    BY <1>1, <2>1 DEF QuotedType
  <2>2. CASE ~(k > Len(text) \/ (k = Len(text) /\ text[k] = Backslash))
    <3>. HIDE DEF S, rank
    <3>1. CASE text[k] = Quote
      BY <1>1, <1>2, <2>2, <3>1 DEF QuotedType
    <3>2. CASE text[k] # Quote /\ text[k] = Backslash
      <4>1. f[k + 2] \in QuotedType /\ Escape(text[k + 1]) \in Text
        BY <1>4, <1>6, <2>2, <3>2, EscapeIs
      <4>2. [f[k + 2] EXCEPT !.arg = Escape(text[k + 1]) \o @] \in QuotedType
        BY <1>5, <4>1
      <4>. QED
        BY <2>2, <3>2, <4>2
    <3>3. CASE text[k] # Quote /\ text[k] # Backslash
      <4>1. f[k + 1] \in QuotedType /\ <<text[k]>> \in Text
        BY <1>4, <1>6, <2>2, <3>3
      <4>2. [f[k + 1] EXCEPT !.arg = <<text[k]>> \o @] \in QuotedType
        BY <1>5, <4>1
      <4>. QED
        BY <2>2, <3>3, <4>2
    <3>. QED
      BY <3>1, <3>2, <3>3
  <2>. QED
    BY <2>1, <2>2
<1>7. ASSUME NEW k \in S, NEW f, NEW h, \A j \in S : rank[j] < rank[k] => f[j] = h[j]
      PROVE  E(f, k) = E(h, k)
  <2>. HIDE DEF S, rank
  <2>1. CASE k > Len(text) \/ (k = Len(text) /\ text[k] = Backslash)
    BY <2>1
  <2>2. CASE ~(k > Len(text) \/ (k = Len(text) /\ text[k] = Backslash))
    <3>1. f[k + 1] = h[k + 1] /\ (text[k] = Backslash => f[k + 2] = h[k + 2])
      BY <1>4, <1>7, <2>2
    <3>. QED
      BY <2>2, <3>1
  <2>. QED
    BY <2>1, <2>2
<1>8. PICK f \in [S -> QuotedType] : \A k \in S : f[k] = D[k][f]
  <2>1. QuotedType # {}
    <3>1. [ok |-> FALSE, arg |-> <<>>, close |-> 0] \in QuotedType
      BY <1>1 DEF QuotedType
    <3>. QED
      BY <3>1
  <2>2. \A k \in S : \A f \in [S -> QuotedType] : D[k][f] = E(f, k) /\ E(f, k) \in QuotedType
    <3>. HIDE DEF S, E, rank
    <3>. QED
      BY <1>6
  <2>3. \A k \in S : \A f, h \in [S -> QuotedType] :
          (\A j \in S : rank[j] < rank[k] => f[j] = h[j]) => D[k][f] = D[k][h]
    <3>. HIDE DEF S, E, rank, D
    <3>. QED
      BY <1>7, <2>2
  <2>. HIDE DEF S, D, rank, E
  <2>4. DependsBelow(S, QuotedType, rank, D)
    BY <1>3, <2>1, <2>2, <2>3 DEF DependsBelow
  <2>5. \E solution : Satisfies(solution, S, QuotedType, D)
    BY ONLY <2>4, Recursion, Zenon
  <2>. QED
    BY <2>5 DEF Satisfies
<1>9. f = [k \in S |-> E(f, k)]
  <2>. HIDE DEF S, E
  <2>. QED
    BY <1>8
<1>. DEFINE From == CHOOSE g : g = [k \in S |-> E(g, k)]
<1>10. From = [k \in S |-> E(From, k)]
  <2>. HIDE DEF S, E
  <2>. QED
    BY <1>9
<1>11. Quoted(text) = From
  BY DEF Quoted
<1>. HIDE DEF From
<1>12. \A k \in S : From[k] = E(From, k)
  <2>. HIDE DEF S, E
  <2>. QED
    BY <1>10
<1>13. \A k \in S : From[k] \in QuotedType /\ From[k].close >= k
                     /\ (From[k].ok => From[k].close <= Len(text))
  <2>. DEFINE T == {k \in S : From[k] \in QuotedType /\ From[k].close >= k
                                /\ (From[k].ok => From[k].close <= Len(text))}
  <2>1. ASSUME NEW k \in S, \A j \in S : rank[j] < rank[k] => j \in T
        PROVE  k \in T
    <3>. HIDE DEF S, rank
    <3>1. From[k] = E(From, k)
      BY <1>12
    <3>2. From[k] \in QuotedType
      <4>. HIDE DEF E
      <4>. QED
        BY <1>6, <2>1, <3>1
    <3>3. From[k].close >= k /\ (From[k].ok => From[k].close <= Len(text))
      <4>1. CASE k > Len(text) \/ (k = Len(text) /\ text[k] = Backslash)
        BY <1>2, <3>1, <4>1
      <4>2. CASE /\ ~(k > Len(text) \/ (k = Len(text) /\ text[k] = Backslash))
                 /\ text[k] = Quote
        BY <1>1, <1>2, <3>1, <4>2
      <4>3. CASE /\ ~(k > Len(text) \/ (k = Len(text) /\ text[k] = Backslash))
                 /\ text[k] # Quote /\ text[k] = Backslash
        <5>1. k + 2 \in T /\ Escape(text[k + 1]) \in Text
          BY <1>4, <2>1, <4>3, EscapeIs
        <5>2. From[k] = [From[k + 2] EXCEPT !.arg = Escape(text[k + 1]) \o @]
          BY <3>1, <4>3
        <5>3. From[k].close = From[k + 2].close /\ From[k].ok = From[k + 2].ok
          BY <1>5, <5>1, <5>2
        <5>4. From[k + 2].close \in Nat
          BY <5>1 DEF QuotedType
        <5>. QED
          BY <1>2, <5>1, <5>3, <5>4
      <4>4. CASE /\ ~(k > Len(text) \/ (k = Len(text) /\ text[k] = Backslash))
                 /\ text[k] # Quote /\ text[k] # Backslash
        <5>1. k + 1 \in T /\ <<text[k]>> \in Text
          BY <1>4, <2>1, <4>4
        <5>2. From[k] = [From[k + 1] EXCEPT !.arg = <<text[k]>> \o @]
          BY <3>1, <4>4
        <5>3. From[k].close = From[k + 1].close /\ From[k].ok = From[k + 1].ok
          BY <1>5, <5>1, <5>2
        <5>4. From[k + 1].close \in Nat
          BY <5>1 DEF QuotedType
        <5>. QED
          BY <1>2, <5>1, <5>3, <5>4
      <4>. QED
        BY <4>1, <4>2, <4>3, <4>4
    <3>. QED
      BY <3>2, <3>3
  <2>2. S \subseteq T
    <3>. HIDE DEF S, rank, T
    <3>. QED
      BY <1>3, <2>1, ByRank
  <2>. QED
    BY <2>2
<1>14. From \in [S -> QuotedType]
  <2>. HIDE DEF S, E
  <2>. QED
    BY <1>10, <1>13
<1>. QED
  BY <1>11, <1>12, <1>13, <1>14

TokensType == [ok : BOOLEAN, args : Seq(Text)]

\* Tokenize follows its equation.
LEMMA TokenizeIs ==
    ASSUME NEW text \in Text
    PROVE  \E From \in [1..(Len(text) + 1) -> TokensType] :
              /\ Tokenize(text) = From[SkipWhitespace(text, 1)]
              /\ \A k \in 1..(Len(text) + 1) :
                    From[k] =
                       IF k > Len(text)
                       THEN [ok |-> TRUE, args |-> <<>>]
                       ELSE IF text[k] = Quote
                       THEN IF Quoted(text)[k + 1].ok
                            THEN [From[SkipWhitespace(text, Quoted(text)[k + 1].close + 1)]
                                     EXCEPT !.args = <<Quoted(text)[k + 1].arg>> \o @]
                            ELSE [ok |-> FALSE, args |-> <<>>]
                       ELSE [From[SkipWhitespace(text, NextBlank(text, k) + 1)]
                                EXCEPT !.args = <<SubSeq(text, k, NextBlank(text, k) - 1)>> \o @]
<1>. DEFINE S == 1..(Len(text) + 1)
            behind(k) == SkipWhitespace(text, Quoted(text)[k + 1].close + 1)
            next(k) == SkipWhitespace(text, NextBlank(text, k) + 1)
            bare(k) == SubSeq(text, k, NextBlank(text, k) - 1)
            E(f, k) == IF k > Len(text)
                       THEN [ok |-> TRUE, args |-> <<>>]
                       ELSE IF text[k] = Quote
                       THEN IF Quoted(text)[k + 1].ok
                            THEN [f[behind(k)] EXCEPT !.args = <<Quoted(text)[k + 1].arg>> \o @]
                            ELSE [ok |-> FALSE, args |-> <<>>]
                       ELSE [f[next(k)] EXCEPT !.args = <<bare(k)>> \o @]
            rank == [k \in S |-> Len(text) + 1 - k]
            D == [k \in S |-> [f \in [S -> TokensType] |-> E(f, k)]]
<1>1. Len(text) \in Nat /\ <<>> \in Seq(Text)
  BY DEF Text
<1>2. \A k \in S : k \in Nat /\ k >= 1 /\ k <= Len(text) + 1
  BY <1>1
<1>3. rank \in [S -> Nat] /\ \A k \in S : rank[k] = Len(text) + 1 - k
  BY <1>1
<1>4. ASSUME NEW k \in S, ~(k > Len(text))
      PROVE  /\ Quoted(text)[k + 1].ok =>
                   /\ behind(k) \in S /\ rank[behind(k)] < rank[k]
                   /\ Quoted(text)[k + 1].arg \in Text
             /\ next(k) \in S /\ rank[next(k)] < rank[k]
             /\ bare(k) \in Text
  <2>1. k + 1 \in S
    BY <1>1, <1>4
  <2>2. /\ Quoted(text)[k + 1] \in QuotedType
        /\ Quoted(text)[k + 1].close >= k + 1
        /\ Quoted(text)[k + 1].ok => Quoted(text)[k + 1].close <= Len(text)
    BY <2>1, QuotedIs
  <2>3. Quoted(text)[k + 1].close \in Nat /\ Quoted(text)[k + 1].arg \in Text
    BY <2>2 DEF QuotedType
  <2>. HIDE DEF S, rank
  <2>. DEFINE c == Quoted(text)[k + 1].close
  <2>4. ASSUME Quoted(text)[k + 1].ok
        PROVE  behind(k) \in S /\ rank[behind(k)] < rank[k]
    <3>1. c \in Nat /\ c >= k + 1 /\ c <= Len(text)
      BY <2>2, <2>3, <2>4
    <3>. HIDE DEF c
    <3>2. c + 1 \in Nat \ {0} /\ c + 1 <= Len(text) + 1
      BY <1>1, <3>1
    <3>3. SkipWhitespace(text, c + 1) \in 1..(Len(text) + 1) /\ SkipWhitespace(text, c + 1) >= c + 1
      BY <3>2, SkipIs
    <3>4. behind(k) \in S /\ behind(k) >= c + 1
      BY <3>3 DEF c, S
    <3>. HIDE DEF behind
    <3>. QED
      BY <1>1, <1>2, <1>3, <3>1, <3>4
  <2>5. NextBlank(text, k) \in 1..(Len(text) + 1) /\ NextBlank(text, k) >= k
    BY <1>2, NextBlankIs
  <2>6. next(k) \in S /\ rank[next(k)] < rank[k]
    <3>. DEFINE b == NextBlank(text, k)
    <3>1. b \in Nat /\ b >= k /\ b <= Len(text) + 1
      BY <1>1, <2>5
    <3>. HIDE DEF b
    <3>2. b + 1 \in Nat \ {0}
      BY <3>1
    <3>3. /\ SkipWhitespace(text, b + 1) \in 1..(Len(text) + 1)
          /\ b + 1 <= Len(text) + 1 => SkipWhitespace(text, b + 1) >= b + 1
      BY <3>2, SkipIs
    <3>4. SkipWhitespace(text, b + 1) > k
      <4>1. CASE b <= Len(text)
        BY <1>1, <1>2, <3>1, <3>3, <4>1
      <4>2. CASE b = Len(text) + 1
        <5>1. SkipWhitespace(text, b + 1) = Len(text) + 1
          <6>1. {j \in (b + 1)..Len(text) : text[j] \notin Whitespace} = {}
            BY <1>1, <4>2
          <6>. QED
            BY <6>1 DEF SkipWhitespace, FirstOf
        <5>. QED
          BY <1>1, <1>2, <1>4, <5>1
      <4>. QED
        BY <1>1, <3>1, <4>1, <4>2
    <3>5. next(k) \in S /\ next(k) > k
      BY <3>3, <3>4 DEF b, S
    <3>. HIDE DEF next
    <3>. QED
      BY <1>1, <1>2, <1>3, <3>5
  <2>7. bare(k) \in Text
    <3>. DEFINE b == NextBlank(text, k) - 1
    <3>1. b \in Int /\ b <= Len(text) /\ k \in Nat /\ k >= 1
      BY <1>1, <1>2, <2>5
    <3>. HIDE DEF b
    <3>2. \A j \in k..b : text[j] \in Symbol
      BY <1>1, <3>1 DEF Text
    <3>3. SubSeq(text, k, b) \in Seq(Symbol)
      BY <3>1, <3>2, <1>1 DEF Text
    <3>. QED
      BY <3>3 DEF b, Text
  <2>. QED
    BY <2>3, <2>4, <2>6, <2>7
<1>5. \A q \in TokensType : \A a \in Text : [q EXCEPT !.args = <<a>> \o @] \in TokensType
  <2>1. \A a \in Text : \A s \in Seq(Text) : <<a>> \o s \in Seq(Text)
    <3>1. \A a \in Text : <<a>> \in Seq(Text)
      OBVIOUS
    <3>. QED
      BY <3>1, ConcatProperties
  <2>. QED
    BY <2>1 DEF TokensType
<1>. HIDE DEF behind, next, bare
<1>6. ASSUME NEW k \in S, NEW f, \A j \in S : rank[j] < rank[k] => f[j] \in TokensType
      PROVE  E(f, k) \in TokensType
  <2>. HIDE DEF S, rank
  <2>0. [ok |-> TRUE, args |-> <<>>] \in TokensType /\ [ok |-> FALSE, args |-> <<>>] \in TokensType
    BY <1>1 DEF TokensType
  <2>1. CASE k > Len(text)
    BY <2>0, <2>1
  <2>2. CASE ~(k > Len(text)) /\ text[k] = Quote /\ Quoted(text)[k + 1].ok
    <3>1. f[behind(k)] \in TokensType /\ Quoted(text)[k + 1].arg \in Text
      BY <1>4, <1>6, <2>2
    <3>2. [f[behind(k)] EXCEPT !.args = <<Quoted(text)[k + 1].arg>> \o @] \in TokensType
      BY <1>5, <3>1
    <3>. QED
      BY <2>2, <3>2
  <2>3. CASE ~(k > Len(text)) /\ text[k] = Quote /\ ~Quoted(text)[k + 1].ok
    BY <2>0, <2>3
  <2>4. CASE ~(k > Len(text)) /\ text[k] # Quote
    <3>1. f[next(k)] \in TokensType /\ bare(k) \in Text
      BY <1>4, <1>6, <2>4
    <3>2. [f[next(k)] EXCEPT !.args = <<bare(k)>> \o @] \in TokensType
      BY <1>5, <3>1
    <3>. QED
      BY <2>4, <3>2
  <2>. QED
    BY <2>1, <2>2, <2>3, <2>4
<1>7. ASSUME NEW k \in S, NEW f, NEW h, \A j \in S : rank[j] < rank[k] => f[j] = h[j]
      PROVE  E(f, k) = E(h, k)
  <2>. HIDE DEF S, rank
  <2>1. CASE k > Len(text)
    BY <2>1
  <2>2. CASE ~(k > Len(text))
    <3>1. f[next(k)] = h[next(k)] /\ (Quoted(text)[k + 1].ok => f[behind(k)] = h[behind(k)])
      BY <1>4, <1>7, <2>2
    <3>. QED
      BY <2>2, <3>1
  <2>. QED
    BY <2>1, <2>2
<1>8. PICK f \in [S -> TokensType] : \A k \in S : f[k] = D[k][f]
  <2>1. TokensType # {}
    <3>1. [ok |-> FALSE, args |-> <<>>] \in TokensType
      BY <1>1 DEF TokensType
    <3>. QED
      BY <3>1
  <2>2. \A k \in S : \A f \in [S -> TokensType] : D[k][f] = E(f, k) /\ E(f, k) \in TokensType
    <3>. HIDE DEF S, E, rank
    <3>. QED
      BY <1>6
  <2>3. \A k \in S : \A f, h \in [S -> TokensType] :
          (\A j \in S : rank[j] < rank[k] => f[j] = h[j]) => D[k][f] = D[k][h]
    <3>. HIDE DEF S, E, rank, D
    <3>. QED
      BY <1>7, <2>2
  <2>. HIDE DEF S, D, rank, E
  <2>4. DependsBelow(S, TokensType, rank, D)
    BY <1>3, <2>1, <2>2, <2>3 DEF DependsBelow
  <2>5. \E solution : Satisfies(solution, S, TokensType, D)
    BY ONLY <2>4, Recursion, Zenon
  <2>. QED
    BY <2>5 DEF Satisfies
<1>9. f = [k \in S |-> E(f, k)]
  <2>. HIDE DEF S, E
  <2>. QED
    BY <1>8
<1>. DEFINE From == CHOOSE g : g = [k \in S |-> E(g, k)]
<1>10. From = [k \in S |-> E(From, k)]
  <2>. HIDE DEF S, E
  <2>. QED
    BY <1>9
<1>11. Tokenize(text) = From[SkipWhitespace(text, 1)]
  BY Zenon DEF Tokenize, behind, next, bare
<1>. HIDE DEF From
<1>12. \A k \in S : From[k] = E(From, k)
  <2>. HIDE DEF S, E
  <2>. QED
    BY <1>10
<1>13. \A k \in S : From[k] \in TokensType
  <2>. DEFINE T == {k \in S : From[k] \in TokensType}
  <2>1. ASSUME NEW k \in S, \A j \in S : rank[j] < rank[k] => j \in T
        PROVE  k \in T
    <3>. HIDE DEF S, rank, E
    <3>. QED
      BY <1>6, <1>12, <2>1
  <2>2. S \subseteq T
    <3>. HIDE DEF S, rank, T
    <3>. QED
      BY <1>3, <2>1, ByRank
  <2>. HIDE DEF S
  <2>. QED
    BY <2>2
<1>14. From \in [S -> TokensType]
  <2>. HIDE DEF S, E
  <2>. QED
    BY <1>10, <1>13
<1>. QED
  BY <1>11, <1>12, <1>14 DEF behind, next, bare

\* The arguments of a text are texts.
LEMMA Tokens ==
    ASSUME NEW text \in Text
    PROVE  Tokenize(text).ok \in BOOLEAN /\ Tokenize(text).args \in Seq(Text)
<1>1. SkipWhitespace(text, 1) \in 1..(Len(text) + 1)
  BY SkipIs
<1>2. Tokenize(text) \in TokensType
  BY <1>1, TokenizeIs
<1>. QED
  BY <1>2 DEF TokensType

-----------------------------------------------------------------------------
(* What was written is read *)

\* What is written has the symbols of a text, and the n of an escape.
Wide == Symbol \cup {"n"}

\* At q, the text goes on with s.
StandsAt(text, q, s) ==
    /\ q + Len(s) <= Len(text) + 1
    /\ \A i \in 1..Len(s) : text[q + (i - 1)] = s[i]

LEMMA AtBoth ==
    ASSUME NEW text \in Text, NEW q \in Nat \ {0}, NEW s \in Seq(Wide), NEW t \in Seq(Wide),
           StandsAt(text, q, s \o t)
    PROVE  StandsAt(text, q, s) /\ StandsAt(text, q + Len(s), t)
<1>1. /\ Len(text) \in Nat /\ Len(s) \in Nat /\ Len(t) \in Nat
      /\ Len(s \o t) = Len(s) + Len(t)
      /\ \A i \in 1..(Len(s) + Len(t)) : (s \o t)[i] = IF i <= Len(s) THEN s[i] ELSE t[i - Len(s)]
  BY ConcatProperties DEF Text
<1>2. /\ q + (Len(s) + Len(t)) <= Len(text) + 1
      /\ \A i \in 1..(Len(s) + Len(t)) : text[q + (i - 1)] = (s \o t)[i]
  BY <1>1 DEF StandsAt
<1>. DEFINE m == Len(s)
            n == Len(t)
<1>3. ASSUME NEW i \in 1..m
      PROVE  text[q + (i - 1)] = s[i]
  <2>1. i \in 1..(m + n) /\ i <= m
    BY <1>1
  <2>. QED
    BY <1>1, <1>2, <2>1
<1>4. ASSUME NEW i \in 1..n
      PROVE  text[(q + m) + (i - 1)] = t[i]
  <2>1. m + i \in 1..(m + n) /\ ~(m + i <= m) /\ (m + i) - m = i
    BY <1>1
  <2>2. q + ((m + i) - 1) = (q + m) + (i - 1)
    BY <1>1
  <2>3. text[q + ((m + i) - 1)] = (s \o t)[m + i] /\ (s \o t)[m + i] = t[(m + i) - m]
    BY <1>1, <1>2, <2>1
  <2>. QED
    BY <2>1, <2>2, <2>3
<1>5. q + m <= Len(text) + 1 /\ (q + m) + n <= Len(text) + 1
  BY <1>1, <1>2
<1>. QED
  BY <1>3, <1>4, <1>5 DEF StandsAt

\* Its first symbol, if there is one.
LEMMA AtFirst ==
    ASSUME NEW text \in Text, NEW q \in Nat \ {0}, NEW s \in Seq(Wide), StandsAt(text, q, s), Len(s) >= 1
    PROVE  q \in 1..Len(text) /\ text[q] = s[1]
<1>1. Len(text) \in Nat /\ Len(s) \in Nat
  BY DEF Text
<1>2. q + Len(s) <= Len(text) + 1 /\ 1 \in 1..Len(s) /\ q + (1 - 1) = q
  BY <1>1 DEF StandsAt
<1>3. text[q + (1 - 1)] = s[1]
  BY <1>2 DEF StandsAt
<1>. QED
  BY <1>1, <1>2, <1>3

LEMMA SpelledIs ==
    ASSUME NEW c \in Symbol
    PROVE  Spelled(c) \in Seq(Wide)
<1>1. Backslash \in Wide /\ "n" \in Wide /\ c \in Wide
  BY DEF Wide, Symbol
<1>2. \A a, b \in Wide : <<a>> \in Seq(Wide) /\ <<a, b>> \in Seq(Wide)
  OBVIOUS
<1>. QED
  BY <1>1, <1>2, Zenon DEF Spelled

LEMMA EscapedIs ==
    ASSUME NEW arg \in Text
    PROVE  /\ Escaped(arg) \in [1..(Len(arg) + 1) -> Seq(Wide)]
           /\ Escaped(arg)[Len(arg) + 1] = <<>>
           /\ \A k \in 1..Len(arg) : Escaped(arg)[k] = Spelled(arg[k]) \o Escaped(arg)[k + 1]
<1>. DEFINE n == Len(arg)
            V == Seq(Wide)
            S == 1..(n + 1)
            E(f, k) == IF k > n THEN <<>> ELSE Spelled(arg[k]) \o f[k + 1]
            step == [k \in 1..n |-> [s \in V |-> Spelled(arg[k]) \o s]]
<1>1. n \in Nat /\ <<>> \in V
  BY DEF Text
<1>2. \A k \in 1..n : Spelled(arg[k]) \in V
  <2>1. \A k \in 1..n : arg[k] \in Symbol
    BY DEF Text
  <2>. QED
    BY <2>1, SpelledIs
<1>3. \A k \in 1..n : \A s \in V : Spelled(arg[k]) \o s \in V
  BY <1>2, ConcatProperties
<1>4. step \in [1..n -> [V -> V]]
  <2>. HIDE DEF V, n
  <2>. QED
    BY <1>3
<1>5. \A k \in S : k \in 1..n \/ k = n + 1
  BY <1>1
<1>6. \A k \in 1..n : k \in S /\ k + 1 \in S /\ ~(k > n)
  BY <1>1
<1>7. n + 1 \in S /\ n + 1 > n
  BY <1>1
<1>. HIDE DEF n, V, S
<1>8. PICK f : Backwards(f, n, V, <<>>, step)
  <2>. HIDE DEF step
  <2>. QED
    BY <1>1, <1>4, BackwardIteration
<1>9. f = [k \in S |-> E(f, k)]
  <2>1. f \in [S -> V] /\ f[n + 1] = <<>> /\ \A k \in 1..n : f[k] = step[k][f[k + 1]]
    BY <1>8 DEF Backwards, S
  <2>2. \A k \in 1..n : f[k] = Spelled(arg[k]) \o f[k + 1]
    BY <1>6, <2>1
  <2>3. \A k \in S : f[k] = E(f, k)
    BY <1>5, <1>6, <1>7, <2>1, <2>2
  <2>. HIDE DEF E
  <2>. QED
    BY <2>1, <2>3
<1>. DEFINE From == CHOOSE g : g = [k \in S |-> E(g, k)]
<1>10. From = [k \in S |-> E(From, k)]
  <2>. HIDE DEF E
  <2>. QED
    BY <1>9
<1>11. Escaped(arg) = From
  BY DEF Escaped, S, n
<1>. HIDE DEF From
<1>12. \A k \in S : From[k] = E(From, k)
  <2>. HIDE DEF E
  <2>. QED
    BY <1>10
<1>13. From[n + 1] = <<>> /\ \A k \in 1..n : From[k] = Spelled(arg[k]) \o From[k + 1]
  BY <1>6, <1>7, <1>12
<1>14. S \subseteq {k \in S : From[k] \in V}
  <2>. DEFINE T == {k \in S : From[k] \in V}
  <2>1. n + 1 \in T
    BY <1>1, <1>7, <1>13
  <2>2. \A k \in 1..n : k + 1 \in T => k \in T
    BY <1>3, <1>6, <1>13
  <2>. HIDE DEF T
  <2>3. S \subseteq T
    BY <1>1, <2>1, <2>2, AllDownTo DEF S
  <2>. QED
    BY <2>3 DEF T
<1>15. From \in [S -> V]
  <2>. HIDE DEF E
  <2>. QED
    BY <1>10, <1>14
<1>. QED
  BY <1>11, <1>13, <1>15 DEF n, V, S

LEMMA WithFirst ==
    ASSUME NEW q \in QuotedType, NEW a \in Text
    PROVE  [q EXCEPT !.arg = a \o @] = [ok |-> q.ok, arg |-> a \o q.arg, close |-> q.close]
<1>1. a \o q.arg \in Text
  BY ConcatProperties DEF Text, QuotedType
<1>. DEFINE r == [q EXCEPT !.arg = a \o @]
<1>. HIDE DEF Text
<1>2. r \in QuotedType /\ r.ok = q.ok /\ r.arg = a \o q.arg /\ r.close = q.close
  BY <1>1 DEF QuotedType
<1>3. \A p \in QuotedType : p = [ok |-> p.ok, arg |-> p.arg, close |-> p.close]
  BY DEF QuotedType
<1>. HIDE DEF r
<1>. QED
  BY <1>2, <1>3 DEF r

\* Between the quotes, from any place on, an argument is read as it was before it was
\* escaped.
LEMMA QuotedReads ==
    ASSUME NEW text \in Text, NEW arg \in Text, Quotable(arg), NEW q0 \in Nat \ {0},
           StandsAt(text, q0, Escaped(arg)[1] \o <<Quote>>)
    PROVE  Quoted(text)[q0] = [ok |-> TRUE, arg |-> arg, close |-> q0 + Len(Escaped(arg)[1])]
<1>. DEFINE n == Len(arg)
            E == Escaped(arg)
            Reads(k, q) == StandsAt(text, q, E[k] \o <<Quote>>) =>
                Quoted(text)[q] =
                    [ok |-> TRUE, arg |-> SubSeq(arg, k, n), close |-> q + Len(E[k])]
            S == {k \in 1..(n + 1) : \A q \in Nat \ {0} : Reads(k, q)}
<1>1. n \in Nat /\ Len(text) \in Nat /\ arg \in Seq(Symbol)
  BY DEF Text
<1>2. /\ E \in [1..(n + 1) -> Seq(Wide)] /\ E[n + 1] = <<>>
      /\ \A k \in 1..n : E[k] = Spelled(arg[k]) \o E[k + 1]
  BY EscapedIs
<1>3. Quote \in Wide /\ <<Quote>> \in Seq(Wide) /\ Len(<<Quote>>) = 1 /\ <<Quote>>[1] = Quote
  <2>1. Quote \in Wide
    BY DEF Wide, Symbol
  <2>. QED
    BY <2>1
<1>4. ASSUME NEW q \in 1..Len(text)
      PROVE  /\ text[q] = Quote => Quoted(text)[q] = [ok |-> TRUE, arg |-> <<>>, close |-> q]
             /\ (text[q] = Backslash /\ q < Len(text)) =>
                   Quoted(text)[q] = [Quoted(text)[q + 2] EXCEPT !.arg = Escape(text[q + 1]) \o @]
             /\ text[q] \notin {Quote, Backslash} =>
                   Quoted(text)[q] = [Quoted(text)[q + 1] EXCEPT !.arg = <<text[q]>> \o @]
  <2>1. q \in 1..(Len(text) + 1) /\ ~(q > Len(text)) /\ (q < Len(text) => q # Len(text))
    BY <1>1
  <2>2. Quote # Backslash
    BY DEF Quote, Backslash
  <2>3. Quoted(text)[q] =
          IF q > Len(text) \/ (q = Len(text) /\ text[q] = Backslash)
          THEN [ok |-> FALSE, arg |-> <<>>, close |-> q]
          ELSE IF text[q] = Quote
          THEN [ok |-> TRUE, arg |-> <<>>, close |-> q]
          ELSE IF text[q] = Backslash
          THEN [Quoted(text)[q + 2] EXCEPT !.arg = Escape(text[q + 1]) \o @]
          ELSE [Quoted(text)[q + 1] EXCEPT !.arg = <<text[q]>> \o @]
    BY <2>1, QuotedIs
  <2>. QED
    BY <2>1, <2>2, <2>3
<1>5. n + 1 \in S
  <2>. SUFFICES ASSUME NEW q \in Nat \ {0}, StandsAt(text, q, E[n + 1] \o <<Quote>>)
                PROVE  Quoted(text)[q] =
                         [ok |-> TRUE, arg |-> SubSeq(arg, n + 1, n), close |-> q + Len(E[n + 1])]
    BY <1>1
  <2>1. E[n + 1] \o <<Quote>> = <<Quote>>
    BY <1>2, <1>3, ConcatEmptySeq
  <2>2. q \in 1..Len(text) /\ text[q] = Quote
    <3>. DEFINE u == <<Quote>>
    <3>1. u \in Seq(Wide) /\ Len(u) >= 1 /\ u[1] = Quote
      BY <1>3
    <3>. HIDE DEF E, n, u, Reads
    <3>2. StandsAt(text, q, u)
      BY <2>1 DEF u
    <3>3. q \in 1..Len(text) /\ text[q] = u[1]
      BY <3>1, <3>2, AtFirst
    <3>. QED
      BY <3>1, <3>3
  <2>3. Quoted(text)[q] = [ok |-> TRUE, arg |-> <<>>, close |-> q]
    BY <1>4, <2>2
  <2>4. SubSeq(arg, n + 1, n) = <<>>
    <3>. HIDE DEF n
    <3>. QED
      BY <1>1, SubSeqEmpty
  <2>5. q + Len(E[n + 1]) = q
    BY <1>2
  <2>. QED
    BY <2>3, <2>4, <2>5
<1>6. ASSUME NEW k \in 1..n, k + 1 \in S, NEW q \in Nat \ {0}, StandsAt(text, q, E[k] \o <<Quote>>)
      PROVE  Quoted(text)[q] = [ok |-> TRUE, arg |-> SubSeq(arg, k, n), close |-> q + Len(E[k])]
  <2>. DEFINE c == arg[k]
              w == Spelled(c)
              r == E[k + 1]
  <2>1. c \in Symbol /\ k \in Nat /\ c # Quote
    BY <1>1 DEF Quotable
  <2>2. w \in Seq(Wide) /\ r \in Seq(Wide) /\ E[k] = w \o r
    <3>1. k + 1 \in 1..(n + 1)
      BY <1>1
    <3>. QED
      BY <1>2, <2>1, <3>1, SpelledIs
  <2>3. /\ E[k] \o <<Quote>> = w \o (r \o <<Quote>>) /\ r \o <<Quote>> \in Seq(Wide)
        /\ Len(E[k]) = Len(w) + Len(r) /\ Len(w) \in Nat /\ Len(r) \in Nat
    <3>. HIDE DEF w, r, E
    <3>1. (w \o r) \o <<Quote>> = w \o (r \o <<Quote>>)
      BY <1>3, <2>2, ConcatAssociative
    <3>. QED
      BY <1>3, <2>2, <3>1, ConcatProperties
  <2>4. StandsAt(text, q, w) /\ StandsAt(text, q + Len(w), r \o <<Quote>>)
    <3>. HIDE DEF w, r, E
    <3>1. StandsAt(text, q, w \o (r \o <<Quote>>))
      BY <1>6, <2>3
    <3>. QED
      BY <2>2, <2>3, <3>1, AtBoth
  <2>5. q + Len(w) \in Nat \ {0}
    BY <2>3
  <2>6. Quoted(text)[q + Len(w)] =
          [ok |-> TRUE, arg |-> SubSeq(arg, k + 1, n), close |-> (q + Len(w)) + Len(r)]
    <3>1. Reads(k + 1, q + Len(w))
      BY <1>6, <2>5
    <3>. QED
      BY <2>4, <3>1
  <2>7. (q + Len(w)) + Len(r) = q + Len(E[k])
    <3>. HIDE DEF w, r, E
    <3>. QED
      BY <2>3
  <2>8. SubSeq(arg, k, n) = <<c>> \o SubSeq(arg, k + 1, n)
    <3>1. n \in k..Len(arg)
      BY <1>1
    <3>. QED
      BY <1>1, <3>1, SubSeqRecursiveFirst
  <2>9. q + Len(w) <= Len(text) + 1
    BY <2>4 DEF StandsAt
  <2>12. ASSUME Quoted(text)[q] = [Quoted(text)[q + Len(w)] EXCEPT !.arg = <<c>> \o @]
         PROVE  Quoted(text)[q] = [ok |-> TRUE, arg |-> SubSeq(arg, k, n), close |-> q + Len(E[k])]
    <3>. DEFINE v == Quoted(text)[q + Len(w)]
    <3>1. v \in QuotedType
      <4>. HIDE DEF w
      <4>1. q + Len(w) \in 1..(Len(text) + 1)
        BY <1>1, <2>5, <2>9
      <4>. QED
        BY <4>1, QuotedIs
    <3>2. <<c>> \in Text
      BY <2>1 DEF Text
    <3>. HIDE DEF c, w, r, n, E
    <3>3. v.ok = TRUE /\ v.arg = SubSeq(arg, k + 1, n) /\ v.close = q + Len(E[k])
      <4>1. v = [ok |-> TRUE, arg |-> SubSeq(arg, k + 1, n), close |-> q + Len(E[k])]
        BY <2>6, <2>7, Zenon
      <4>. HIDE DEF v
      <4>. QED
        BY <4>1, Zenon
    <3>. HIDE DEF v
    <3>4. [v EXCEPT !.arg = <<c>> \o @] = [ok |-> v.ok, arg |-> <<c>> \o v.arg, close |-> v.close]
      BY <3>1, <3>2, WithFirst
    <3>. QED
      BY <2>8, <2>12, <3>3, <3>4, Zenon DEF v
  <2>10. CASE c \in {Backslash, "nl"}
    <3>1. /\ Len(w) = 2 /\ w[1] = Backslash /\ Escape(w[2]) = <<c>>
      <4>1. Backslash # "nl" /\ Backslash # Quote /\ Backslash \in {Backslash, Quote}
        BY DEF Backslash, Quote
      <4>2. CASE c = Backslash
        <5>1. w = <<Backslash, Backslash>>
          BY <4>1, <4>2 DEF Spelled
        <5>2. Escape(Backslash) = <<Backslash>>
          BY <4>1 DEF Escape, Backslash, Quote
        <5>. HIDE DEF c, w
        <5>. QED
          BY <4>2, <5>1, <5>2
      <4>3. CASE c = "nl"
        <5>1. w = <<Backslash, "n">>
          BY <4>1, <4>3 DEF Spelled
        <5>2. Escape("n") = <<"nl">>
          BY DEF Escape, Backslash, Quote
        <5>. HIDE DEF c, w
        <5>. QED
          BY <4>3, <5>1, <5>2
      <4>. QED
        BY <2>10, <4>2, <4>3
    <3>2. text[q] = Backslash /\ text[q + 1] = w[2] /\ q \in 1..Len(text) /\ q < Len(text)
      <4>. HIDE DEF w
      <4>1. 1 \in 1..Len(w) /\ 2 \in 1..Len(w) /\ q + (1 - 1) = q /\ q + (2 - 1) = q + 1
        BY <3>1
      <4>2. text[q + (1 - 1)] = w[1] /\ text[q + (2 - 1)] = w[2]
        BY <2>4, <4>1 DEF StandsAt
      <4>. QED
        BY <1>1, <2>9, <3>1, <4>1, <4>2
    <3>3. Quoted(text)[q] = [Quoted(text)[q + 2] EXCEPT !.arg = Escape(text[q + 1]) \o @]
      BY <1>4, <3>2
    <3>4. Escape(text[q + 1]) = <<c>> /\ q + 2 = q + Len(w)
      BY <3>1, <3>2
    <3>. HIDE DEF c, w, r, n, E
    <3>. QED
      BY <2>12, <3>3, <3>4
  <2>11. CASE c \notin {Backslash, "nl"}
    <3>1. w = <<c>>
      BY <2>11, Zenon DEF Spelled
    <3>2. Len(w) = 1 /\ w[1] = c
      BY <3>1
    <3>3. q \in 1..Len(text) /\ text[q] = c
      <4>. HIDE DEF w, c
      <4>. QED
        BY <2>2, <2>4, <3>2, AtFirst
    <3>4. Quoted(text)[q] = [Quoted(text)[q + 1] EXCEPT !.arg = <<text[q]>> \o @]
      BY <1>4, <2>1, <2>11, <3>3
    <3>. HIDE DEF c, w, r, n, E
    <3>. QED
      BY <2>12, <3>2, <3>3, <3>4
  <2>. QED
    BY <2>10, <2>11
<1>7. 1..(n + 1) \subseteq S
  <2>1. \A k \in 1..n : k + 1 \in S => k \in S
    <3>1. \A k \in 1..n : k \in 1..(n + 1)
      BY <1>1
    <3>. QED
      BY <1>6, <3>1
  <2>. HIDE DEF S
  <2>. QED
    BY <1>1, <1>5, <2>1, AllDownTo
<1>8. Reads(1, q0)
  <2>1. 1 \in 1..(n + 1)
    BY <1>1
  <2>. QED
    BY <1>7, <2>1
<1>9. SubSeq(arg, 1, n) = arg
  BY <1>1, SubSeqFull
<1>. QED
  BY <1>8, <1>9

LEMMA SkipPast ==
    ASSUME NEW text \in Text, NEW q \in Nat \ {0}, NEW gap \in Seq(Whitespace),
           StandsAt(text, q, gap), NEW j \in 0..Len(gap)
    PROVE  SkipWhitespace(text, q + j) = SkipWhitespace(text, q + Len(gap))
<1>. DEFINE g == Len(gap)
            n == Len(text)
            P(k) == {i \in k..n : text[i] \notin Whitespace}
<1>1. g \in Nat /\ n \in Nat /\ j \in Nat /\ j <= g
  BY DEF Text
<1>2. ASSUME NEW i \in (q + j)..n, ~(i >= q + g)
      PROVE  text[i] \in Whitespace
  <2>. DEFINE m == (i - q) + 1
  <2>1. m \in 1..g /\ q + (m - 1) = i
    BY <1>1, <1>2
  <2>2. text[q + (m - 1)] = gap[m] /\ gap[m] \in Whitespace
    <3>. HIDE DEF m
    <3>. QED
      BY <2>1 DEF StandsAt
  <2>. QED
    BY <2>1, <2>2
<1>3. \A i : i \in P(q + j) <=> i \in P(q + g)
  <2>. HIDE DEF g, n
  <2>. QED
    BY <1>1, <1>2
<1>4. P(q + j) = P(q + g)
  <2>. HIDE DEF P
  <2>. QED
    BY <1>3
<1>. QED
  BY <1>4 DEF SkipWhitespace

LEMMA SkipNone ==
    ASSUME NEW text \in Text, NEW q \in Nat \ {0}
    PROVE  /\ q \in 1..Len(text) /\ text[q] \notin Whitespace => SkipWhitespace(text, q) = q
           /\ q > Len(text) => SkipWhitespace(text, q) = Len(text) + 1
<1>. DEFINE P == {i \in q..Len(text) : text[i] \notin Whitespace}
<1>1. Len(text) \in Nat
  BY DEF Text
<1>2. ASSUME q > Len(text)
      PROVE  SkipWhitespace(text, q) = Len(text) + 1
  <2>1. P = {}
    BY <1>1, <1>2
  <2>. QED
    BY <2>1 DEF SkipWhitespace, FirstOf
<1>3. ASSUME q \in 1..Len(text), text[q] \notin Whitespace
      PROVE  SkipWhitespace(text, q) = q
  <2>1. q \in P /\ P \subseteq q..Len(text)
    BY <1>1, <1>3
  <2>2. P # {} /\ FirstOf(P, text) \in P /\ FirstOf(P, text) <= q
    BY <2>1, FirstIs
  <2>3. SkipWhitespace(text, q) = FirstOf(P, text)
    BY DEF SkipWhitespace
  <2>. DEFINE z == FirstOf(P, text)
  <2>4. z \in q..Len(text) /\ z <= q
    BY <2>1, <2>2
  <2>. HIDE DEF z, P
  <2>5. z = q
    BY <1>1, <2>4
  <2>. QED
    BY <2>3, <2>5 DEF z
<1>. QED
  BY <1>2, <1>3

\* Without quotes, an argument ends at the first blank behind it, or with the text.
LEMMA BareReads ==
    ASSUME NEW text \in Text, NEW arg \in Text, Bare(arg), NEW q \in Nat \ {0},
           StandsAt(text, q, arg),
           q + Len(arg) <= Len(text) => text[q + Len(arg)] = Blank
    PROVE  /\ NextBlank(text, q) = q + Len(arg)
           /\ SubSeq(text, q, (q + Len(arg)) - 1) = arg
<1>. DEFINE a == Len(arg)
            n == Len(text)
            P == {i \in q..n : text[i] = Blank}
<1>1. a \in Nat /\ a >= 1 /\ n \in Nat /\ q + a <= n + 1
  <2>1. arg # <<>> /\ arg \in Seq(Symbol)
    BY DEF Bare, Text
  <2>. QED
    BY <2>1 DEF StandsAt, Text
<1>2. \A i \in 1..a : text[q + (i - 1)] = arg[i] /\ arg[i] # Blank
  BY DEF StandsAt, Bare
<1>3. ASSUME NEW i \in q..n, i < q + a
      PROVE  text[i] # Blank
  <2>1. (i - q) + 1 \in 1..a /\ q + (((i - q) + 1) - 1) = i
    BY <1>1, <1>3
  <2>. QED
    BY <1>2, <2>1
<1>4. P \subseteq q..n /\ \A i \in P : i >= q + a
  <2>. HIDE DEF a, n
  <2>. QED
    BY <1>1, <1>3
<1>5. NextBlank(text, q) = FirstOf(P, text)
  BY DEF NextBlank
<1>6. FirstOf(P, text) = q + a
  <2>1. CASE q + a <= n
    <3>1. q + a \in P
      BY <1>1, <2>1
    <3>. DEFINE z == FirstOf(P, text)
    <3>2. z \in P /\ z <= q + a
      BY <1>4, <3>1, FirstIs
    <3>3. z \in q..n /\ z >= q + a
      BY <1>4, <3>2
    <3>. HIDE DEF z, P, a, n
    <3>4. z = q + a
      BY <1>1, <3>2, <3>3
    <3>. QED
      BY <3>4 DEF z
  <2>2. CASE ~(q + a <= n)
    <3>1. P = {}
      <4>. HIDE DEF P, a, n
      <4>1. \A i \in P : FALSE
        BY <1>1, <1>4, <2>2
      <4>. QED
        BY <4>1
    <3>2. q + a = n + 1
      BY <1>1, <2>2
    <3>. QED
      BY <3>1, <3>2 DEF FirstOf
  <2>. QED
    BY <2>1, <2>2
<1>7. SubSeq(text, q, (q + a) - 1) = arg
  <2>. DEFINE m == (q + a) - 1
              s == SubSeq(text, q, m)
  <2>1. q \in Int /\ m \in Int /\ q <= m /\ (m - q) + 1 = a /\ m <= n /\ q >= 1
    BY <1>1
  <2>2. \A i \in q..m : text[i] \in Symbol
    BY <2>1, <1>1 DEF Text
  <2>3. /\ s \in Seq(Symbol) /\ Len(s) = a
        /\ \A i \in 1..a : s[i] = text[q + (i - 1)]
    <3>. HIDE DEF m, a
    <3>1. s \in Seq(Symbol) /\ Len(s) = (IF q <= m THEN (m - q) + 1 ELSE 0)
      BY <2>1, <2>2, SubSeqProperties
    <3>2. \A i \in 1..((m - q) + 1) : s[i] = text[(q + i) - 1]
      BY <2>1, <2>2, SubSeqProperties
    <3>3. \A i \in 1..a : s[i] = text[q + (i - 1)]
      <4>1. \A i \in 1..a : (q + i) - 1 = q + (i - 1)
        BY <1>1
      <4>. QED
        BY <2>1, <3>2, <4>1
    <3>. QED
      BY <2>1, <3>1, <3>3
  <2>4. arg \in Seq(Symbol) /\ Len(arg) = a /\ \A i \in 1..Len(s) : s[i] = arg[i]
    BY <1>2, <2>3 DEF Text
  <2>. HIDE DEF s, a
  <2>5. s = arg
    BY <2>3, <2>4, SeqEqual
  <2>. QED
    BY <2>5 DEF s
<1>. QED
  BY <1>5, <1>6, <1>7

LEMMA GapsAre ==
    /\ GapsBehindQuotes \subseteq Seq(Whitespace)
    /\ Gaps \subseteq Seq(Whitespace)
    /\ \A gap \in Gaps : Len(gap) >= 1 /\ gap[1] = Blank
<1>1. Blank \in Whitespace /\ Tab \in Whitespace
  BY DEF Whitespace
<1>. DEFINE b == <<Blank>>
            bt == <<Blank, Tab>>
            t == <<Tab>>
<1>2. \A x, y \in Whitespace : <<x>> \in Seq(Whitespace) /\ <<x, y>> \in Seq(Whitespace)
  OBVIOUS
<1>3. b \in Seq(Whitespace) /\ bt \in Seq(Whitespace) /\ t \in Seq(Whitespace) /\ <<>> \in Seq(Whitespace)
  BY <1>1, <1>2
<1>4. Len(b) = 1 /\ b[1] = Blank /\ Len(bt) = 2 /\ bt[1] = Blank
  OBVIOUS
<1>5. Gaps = {b, bt} /\ GapsBehindQuotes = Gaps \cup {<<>>, t}
  BY DEF Gaps, GapsBehindQuotes
<1>. HIDE DEF b, bt, t
<1>. QED
  BY <1>3, <1>4, <1>5

LEMMA InQuotesIs ==
    ASSUME NEW arg \in Text
    PROVE  /\ Escaped(arg)[1] \in Seq(Wide)
           /\ InQuotes(arg) = <<Quote>> \o (Escaped(arg)[1] \o <<Quote>>)
           /\ Escaped(arg)[1] \o <<Quote>> \in Seq(Wide)
           /\ InQuotes(arg) \in Seq(Wide)
           /\ Len(InQuotes(arg)) = Len(Escaped(arg)[1]) + 2
<1>. DEFINE e == Escaped(arg)[1]
            u == <<Quote>>
<1>1. e \in Seq(Wide)
  <2>1. 1 \in 1..(Len(arg) + 1)
    BY DEF Text
  <2>. QED
    BY <2>1, EscapedIs
<1>2. u \in Seq(Wide) /\ Len(u) = 1
  <2>1. Quote \in Wide
    BY DEF Wide, Symbol
  <2>. QED
    BY <2>1
<1>3. InQuotes(arg) = (u \o e) \o u
  BY DEF InQuotes
<1>. HIDE DEF e, u
<1>4. (u \o e) \o u = u \o (e \o u)
  BY <1>1, <1>2, ConcatAssociative
<1>5. e \o u \in Seq(Wide) /\ Len(e \o u) = Len(e) + 1 /\ Len(e) \in Nat
  BY <1>1, <1>2, ConcatProperties
<1>6. u \o (e \o u) \in Seq(Wide) /\ Len(u \o (e \o u)) = 1 + (Len(e) + 1)
  BY <1>2, <1>5, ConcatProperties
<1>7. /\ e \in Seq(Wide) /\ InQuotes(arg) = u \o (e \o u) /\ e \o u \in Seq(Wide)
      /\ InQuotes(arg) \in Seq(Wide) /\ Len(InQuotes(arg)) = Len(e) + 2
  BY <1>1, <1>3, <1>4, <1>5, <1>6
<1>. QED
  BY <1>7, Zenon DEF e, u

LEMMA TextIsWide ==
    /\ Text \subseteq Seq(Wide)
    /\ Seq(Whitespace) \subseteq Seq(Wide)
<1>1. Symbol \subseteq Wide /\ Whitespace \subseteq Wide
  BY DEF Wide, Symbol
<1>2. ASSUME NEW s \in Seq(Symbol)
      PROVE  s \in Seq(Wide)
  BY <1>1, SeqMonotonic
<1>3. ASSUME NEW s \in Seq(Whitespace)
      PROVE  s \in Seq(Wide)
  BY <1>1, SeqMonotonic
<1>. QED
  BY <1>2, <1>3 DEF Text

\* What is written begins with an argument, in quotes or without, and a gap.
BeginsInQuotes(args, k, rests, s) ==
    /\ Quotable(args[k])
    /\ \E gap \in GapsBehindQuotes, rest \in rests : s = (InQuotes(args[k]) \o gap) \o rest
BeginsBare(args, k, rests, s) ==
    /\ Bare(args[k])
    /\ \E gap \in GapsBehindBare(args, k), rest \in rests : s = (args[k] \o gap) \o rest

LEMMA BeforeIs ==
    ASSUME NEW args, NEW k, NEW rests, NEW s \in WrittenBefore(args, k, rests)
    PROVE  BeginsInQuotes(args, k, rests, s) \/ BeginsBare(args, k, rests, s)
BY DEF WrittenBefore, BeginsInQuotes, BeginsBare

LEMMA BeforeType ==
    ASSUME NEW args \in Seq(Text), NEW k \in 1..Len(args), NEW rests \in SUBSET Seq(Wide)
    PROVE  WrittenBefore(args, k, rests) \in SUBSET Seq(Wide)
<1>. SUFFICES ASSUME NEW s \in WrittenBefore(args, k, rests)
              PROVE  s \in Seq(Wide)
  OBVIOUS
<1>1. \A r, t, u \in Seq(Wide) : (r \o t) \o u \in Seq(Wide)
  BY ConcatProperties
<1>2. InQuotes(args[k]) \in Seq(Wide) /\ args[k] \in Seq(Wide)
  <2>1. args[k] \in Text
    OBVIOUS
  <2>. QED
    BY <2>1, InQuotesIs, TextIsWide
<1>3. GapsBehindQuotes \subseteq Seq(Wide) /\ GapsBehindBare(args, k) \subseteq Seq(Wide)
  BY GapsAre, TextIsWide DEF GapsBehindQuotes, GapsBehindBare
<1>4. CASE BeginsInQuotes(args, k, rests, s)
  BY <1>1, <1>2, <1>3, <1>4 DEF BeginsInQuotes
<1>5. CASE BeginsBare(args, k, rests, s)
  BY <1>1, <1>2, <1>3, <1>5 DEF BeginsBare
<1>. QED
  BY <1>4, <1>5, BeforeIs

LEMMA WrittenIs ==
    ASSUME NEW args \in Seq(Text)
    PROVE  \E From \in [1..(Len(args) + 1) -> SUBSET Seq(Wide)] :
              /\ Written(args) = From[1]
              /\ From[Len(args) + 1] = {<<>>}
              /\ \A k \in 1..Len(args) : From[k] = WrittenBefore(args, k, From[k + 1])
<1>. DEFINE n == Len(args)
            V == SUBSET Seq(Wide)
            S == 1..(n + 1)
            E(f, k) == IF k > n THEN {<<>>} ELSE WrittenBefore(args, k, f[k + 1])
            step == [k \in 1..n |-> [rests \in V |-> WrittenBefore(args, k, rests)]]
<1>1. n \in Nat /\ {<<>>} \in V
  OBVIOUS
<1>2. \A k \in 1..n : \A rests \in V : WrittenBefore(args, k, rests) \in V
  BY BeforeType
<1>3. step \in [1..n -> [V -> V]]
  <2>. HIDE DEF V, n
  <2>. QED
    BY <1>2
<1>4. \A k \in S : k \in 1..n \/ k = n + 1
  BY <1>1
<1>5. \A k \in 1..n : k \in S /\ k + 1 \in S /\ ~(k > n)
  BY <1>1
<1>6. n + 1 \in S /\ n + 1 > n
  BY <1>1
<1>. HIDE DEF V, S, n
<1>7. PICK f : Backwards(f, n, V, {<<>>}, step)
  <2>. HIDE DEF step
  <2>. QED
    BY <1>1, <1>3, BackwardIteration
<1>8. f = [k \in S |-> E(f, k)]
  <2>1. f \in [S -> V] /\ f[n + 1] = {<<>>} /\ \A k \in 1..n : f[k] = step[k][f[k + 1]]
    BY <1>7 DEF Backwards, S
  <2>2. \A k \in 1..n : f[k] = WrittenBefore(args, k, f[k + 1])
    BY <1>5, <2>1
  <2>3. \A k \in S : f[k] = E(f, k)
    BY <1>4, <1>5, <1>6, <2>1, <2>2
  <2>. HIDE DEF E
  <2>. QED
    BY <2>1, <2>3
<1>. DEFINE From == CHOOSE g : g = [k \in S |-> E(g, k)]
<1>9. From = [k \in S |-> E(From, k)]
  <2>. HIDE DEF E
  <2>. QED
    BY <1>8
<1>10. Written(args) = From[1]
  BY DEF Written, S, n
<1>. HIDE DEF From
<1>11. \A k \in S : From[k] = E(From, k)
  <2>. HIDE DEF E
  <2>. QED
    BY <1>9
<1>12. From[n + 1] = {<<>>} /\ \A k \in 1..n : From[k] = WrittenBefore(args, k, From[k + 1])
  BY <1>5, <1>6, <1>11
<1>13. S \subseteq {k \in S : From[k] \in V}
  <2>. DEFINE T == {k \in S : From[k] \in V}
  <2>1. n + 1 \in T
    BY <1>1, <1>6, <1>12
  <2>2. \A k \in 1..n : k + 1 \in T => k \in T
    BY <1>2, <1>5, <1>12
  <2>. HIDE DEF T
  <2>3. S \subseteq T
    BY <1>1, <2>1, <2>2, AllDownTo DEF S
  <2>. QED
    BY <2>3 DEF T
<1>14. From \in [S -> V]
  <2>. HIDE DEF E
  <2>. QED
    BY <1>9, <1>13
<1>. HIDE DEF E, step
<1>. QED
  BY <1>10, <1>12, <1>14 DEF n, V, S

\* An argument in quotes, and what is behind it.
LEMMA InQuotesReads ==
    ASSUME NEW text \in Text, NEW arg \in Text, Quotable(arg), NEW q \in Nat \ {0},
           StandsAt(text, q, InQuotes(arg))
    PROVE  /\ q \in 1..Len(text) /\ text[q] = Quote
           /\ Quoted(text)[q + 1].ok /\ Quoted(text)[q + 1].arg = arg
           /\ Quoted(text)[q + 1].close + 1 = q + Len(InQuotes(arg))
<1>. DEFINE e == Escaped(arg)[1]
            u == <<Quote>>
            w == e \o u
<1>1. e \in Seq(Wide) /\ w \in Seq(Wide) /\ InQuotes(arg) = u \o w /\ Len(InQuotes(arg)) = Len(e) + 2
  BY InQuotesIs
<1>2. u \in Seq(Wide) /\ Len(u) = 1 /\ u[1] = Quote
  <2>1. Quote \in Wide
    BY DEF Wide, Symbol
  <2>. QED
    BY <2>1
<1>. HIDE DEF e, u, w
<1>3. StandsAt(text, q, u) /\ StandsAt(text, q + Len(u), w)
  <2>1. StandsAt(text, q, u \o w)
    BY <1>1
  <2>. QED
    BY <1>1, <1>2, <2>1, AtBoth
<1>4. q \in 1..Len(text) /\ text[q] = Quote
  <2>1. Len(u) >= 1
    BY <1>2
  <2>2. q \in 1..Len(text) /\ text[q] = u[1]
    BY <1>2, <1>3, <2>1, AtFirst
  <2>. QED
    BY <1>2, <2>2
<1>5. StandsAt(text, q + 1, Escaped(arg)[1] \o <<Quote>>)
  BY <1>2, <1>3 DEF w, e, u
<1>6. q + 1 \in Nat \ {0}
  OBVIOUS
<1>7. Quoted(text)[q + 1] = [ok |-> TRUE, arg |-> arg, close |-> (q + 1) + Len(e)]
  BY <1>5, <1>6, QuotedReads DEF e
<1>. DEFINE v == Quoted(text)[q + 1]
<1>8. v = [ok |-> TRUE, arg |-> arg, close |-> (q + 1) + Len(e)]
  BY <1>7
<1>. HIDE DEF v
<1>9. v.ok /\ v.arg = arg /\ v.close = (q + 1) + Len(e)
  BY <1>8
<1>10. v.close + 1 = q + Len(InQuotes(arg))
  <2>1. Len(e) \in Nat
    BY <1>1
  <2>. QED
    BY <1>1, <1>9, <2>1
<1>. QED
  BY <1>4, <1>9, <1>10 DEF v

LEMMA WithFirstArgument ==
    ASSUME NEW r \in TokensType, NEW a \in Text
    PROVE  [r EXCEPT !.args = <<a>> \o @] = [ok |-> r.ok, args |-> <<a>> \o r.args]
<1>1. <<a>> \o r.args \in Seq(Text)
  <2>1. <<a>> \in Seq(Text) /\ r.args \in Seq(Text)
    BY DEF TokensType
  <2>. QED
    BY <2>1, ConcatProperties
<1>. DEFINE p == [r EXCEPT !.args = <<a>> \o @]
<1>2. p \in TokensType /\ p.ok = r.ok /\ p.args = <<a>> \o r.args
  BY <1>1 DEF TokensType
<1>3. \A x \in TokensType : x = [ok |-> x.ok, args |-> x.args]
  BY DEF TokensType
<1>. HIDE DEF p
<1>. QED
  BY <1>2, <1>3 DEF p

\* However arguments are written down, tokenize finds them again: any number of them, of
\* any length.
THEOREM ReadBack ==
    ASSUME NEW text \in Text, NEW args \in Seq(Text), text \in Written(args)
    PROVE  Tokenize(text) = [ok |-> TRUE, args |-> args]
<1>. DEFINE n == Len(args)
            N == Len(text)
            Behind(q) == SkipWhitespace(text, q)
<1>1. n \in Nat /\ N \in Nat
  BY DEF Text
<1>2. PICK TF \in [1..(N + 1) -> TokensType] :
         /\ Tokenize(text) = TF[SkipWhitespace(text, 1)]
         /\ \A k \in 1..(N + 1) :
               TF[k] =
                  IF k > N
                  THEN [ok |-> TRUE, args |-> <<>>]
                  ELSE IF text[k] = Quote
                  THEN IF Quoted(text)[k + 1].ok
                       THEN [TF[SkipWhitespace(text, Quoted(text)[k + 1].close + 1)]
                                EXCEPT !.args = <<Quoted(text)[k + 1].arg>> \o @]
                       ELSE [ok |-> FALSE, args |-> <<>>]
                  ELSE [TF[SkipWhitespace(text, NextBlank(text, k) + 1)]
                           EXCEPT !.args = <<SubSeq(text, k, NextBlank(text, k) - 1)>> \o @]
  BY TokenizeIs
<1>3. PICK WF \in [1..(n + 1) -> SUBSET Seq(Wide)] :
         /\ Written(args) = WF[1]
         /\ WF[n + 1] = {<<>>}
         /\ \A k \in 1..n : WF[k] = WrittenBefore(args, k, WF[k + 1])
  BY WrittenIs
<1>. DEFINE Result(k) == [ok |-> TRUE, args |-> SubSeq(args, k, n)]
            Reads(k, q, s) == (StandsAt(text, q, s) /\ q + Len(s) = N + 1) => TF[SkipWhitespace(text, q)] = Result(k)
            S == {k \in 1..(n + 1) : \A q \in Nat \ {0} : \A s \in WF[k] : Reads(k, q, s)}
<1>4. n + 1 \in S
  <2>. SUFFICES ASSUME NEW q \in Nat \ {0}, NEW s \in WF[n + 1], q + Len(s) = N + 1
                PROVE  TF[SkipWhitespace(text, q)] = Result(n + 1)
    <3>1. n + 1 \in 1..(n + 1)
      BY <1>1
    <3>. HIDE DEF n, N, Result
    <3>. QED
      BY <3>1
  <2>1. q > N /\ N + 1 \in 1..(N + 1) /\ N + 1 > N
    <3>1. s = <<>>
      BY <1>3
    <3>2. Len(s) = 0
      BY <3>1
    <3>. QED
      BY <1>1, <3>2
  <2>2. SkipWhitespace(text, q) = N + 1
    BY <2>1, SkipNone
  <2>3. TF[N + 1] = [ok |-> TRUE, args |-> <<>>]
    BY <1>2, <2>1
  <2>4. SubSeq(args, n + 1, n) = <<>>
    <3>. HIDE DEF n
    <3>. QED
      BY <1>1, SubSeqEmpty
  <2>. QED
    BY <2>2, <2>3, <2>4
<1>5. ASSUME NEW k \in 1..n, k + 1 \in S, NEW q \in Nat \ {0}, NEW s \in WF[k],
             StandsAt(text, q, s), q + Len(s) = N + 1
      PROVE  TF[SkipWhitespace(text, q)] = Result(k)
  <2>. DEFINE a == args[k]
              rests == WF[k + 1]
  <2>1. a \in Text /\ k + 1 \in 1..(n + 1)
    BY <1>1
  <2>2. rests \subseteq Seq(Wide)
    BY <1>3, <2>1
  <2>3. s \in WrittenBefore(args, k, rests)
    BY <1>3
  <2>4. \A r \in TokensType : r = Result(k + 1) =>
           [r EXCEPT !.args = <<a>> \o @] = Result(k)
    <3>. SUFFICES ASSUME NEW r \in TokensType, r = Result(k + 1)
                  PROVE  [r EXCEPT !.args = <<a>> \o @] = Result(k)
      OBVIOUS
    <3>1. SubSeq(args, k, n) = <<a>> \o SubSeq(args, k + 1, n)
      <4>1. n \in k..Len(args)
        BY <1>1
      <4>. QED
        BY <4>1, SubSeqRecursiveFirst
    <3>. HIDE DEF a, n
    <3>2. r.ok = TRUE /\ r.args = SubSeq(args, k + 1, n)
      OBVIOUS
    <3>3. [r EXCEPT !.args = <<a>> \o @] = [ok |-> r.ok, args |-> <<a>> \o r.args]
      BY <2>1, WithFirstArgument
    <3>. QED
      BY <3>1, <3>2, <3>3, Zenon
  \* Whatever comes first, behind it and the gap the rest is read.
  <2>5. ASSUME NEW first \in Seq(Wide), NEW gap \in Seq(Whitespace), NEW rest \in rests,
               s = (first \o gap) \o rest
        PROVE  /\ StandsAt(text, q, first) /\ StandsAt(text, q + Len(first), gap)
               /\ Len(first) \in Nat /\ Len(gap) \in Nat /\ Len(rest) \in Nat
               /\ ((q + Len(first)) + Len(gap)) + Len(rest) = N + 1
               /\ TF[SkipWhitespace(text, (q + Len(first)) + Len(gap))] = Result(k + 1)
    <3>. HIDE DEF rests
    <3>1. gap \in Seq(Wide) /\ rest \in Seq(Wide)
      BY <2>2, TextIsWide
    <3>2. /\ first \o gap \in Seq(Wide)
          /\ Len(s) = (Len(first) + Len(gap)) + Len(rest) /\ Len(first \o gap) = Len(first) + Len(gap)
          /\ Len(first) \in Nat /\ Len(gap) \in Nat /\ Len(rest) \in Nat
      BY <2>5, <3>1, ConcatProperties
    <3>3. StandsAt(text, q, first \o gap) /\ StandsAt(text, q + Len(first \o gap), rest)
      <4>1. StandsAt(text, q, (first \o gap) \o rest)
        BY <1>5, <2>5
      <4>. QED
        BY <3>1, <3>2, <4>1, AtBoth
    <3>4. StandsAt(text, q, first) /\ StandsAt(text, q + Len(first), gap)
      BY <3>1, <3>3, AtBoth
    <3>. DEFINE z == (q + Len(first)) + Len(gap)
    <3>5. z \in Nat \ {0} /\ z = q + Len(first \o gap) /\ z + Len(rest) = N + 1
      <4>. HIDE DEF N
      <4>. QED
        BY <1>5, <3>2
    <3>. HIDE DEF z, n, N, Result
    <3>6. TF[SkipWhitespace(text, z)] = Result(k + 1)
      BY <1>5, <3>3, <3>5 DEF rests
    <3>. QED
      BY <3>2, <3>4, <3>5, <3>6 DEF z
  <2>6. CASE BeginsInQuotes(args, k, rests, s)
    <3>1. PICK gap \in GapsBehindQuotes, rest \in rests : s = (InQuotes(a) \o gap) \o rest
      BY <2>6 DEF BeginsInQuotes
    <3>. DEFINE w == InQuotes(a)
    <3>2. Quotable(a) /\ gap \in Seq(Whitespace) /\ w \in Seq(Wide)
      BY <2>1, <2>6, GapsAre, InQuotesIs DEF BeginsInQuotes
    <3>. HIDE DEF a, rests, n, N, Result
    <3>3. /\ StandsAt(text, q, w) /\ StandsAt(text, q + Len(w), gap) /\ Len(w) \in Nat /\ Len(gap) \in Nat
          /\ TF[SkipWhitespace(text, (q + Len(w)) + Len(gap))] = Result(k + 1)
      BY <2>5, <3>1, <3>2
    <3>4. /\ q \in 1..N /\ text[q] = Quote
          /\ Quoted(text)[q + 1].ok /\ Quoted(text)[q + 1].arg = a
          /\ Quoted(text)[q + 1].close + 1 = q + Len(w)
      BY <2>1, <3>2, <3>3, InQuotesReads DEF N
    <3>. HIDE DEF w
    <3>5. SkipWhitespace(text, q) = q
      <4>1. text[q] \notin Whitespace
        BY <3>4 DEF Whitespace, Quote, Blank, Tab
      <4>. QED
        BY <3>4, <4>1, SkipNone DEF N
    <3>6. SkipWhitespace(text, q + Len(w)) = SkipWhitespace(text, (q + Len(w)) + Len(gap))
      <4>1. q + Len(w) \in Nat \ {0} /\ 0 \in 0..Len(gap) /\ (q + Len(w)) + 0 = q + Len(w)
        BY <3>3
      <4>2. SkipWhitespace(text, (q + Len(w)) + 0) = SkipWhitespace(text, (q + Len(w)) + Len(gap))
        BY <3>2, <3>3, <4>1, SkipPast
      <4>. QED
        BY <4>1, <4>2
    <3>7. q \in 1..(N + 1) /\ ~(q > N)
      BY <1>1, <3>4
    <3>8. TF[q] = [TF[SkipWhitespace(text, Quoted(text)[q + 1].close + 1)]
                      EXCEPT !.args = <<Quoted(text)[q + 1].arg>> \o @]
      BY <1>2, <3>4, <3>7
    <3>9. TF[q] = [TF[SkipWhitespace(text, q + Len(w))] EXCEPT !.args = <<a>> \o @]
      BY <3>4, <3>8
    <3>10. SkipWhitespace(text, q + Len(w)) \in 1..(N + 1)
      <4>1. q + Len(w) \in Nat \ {0}
        BY <3>3
      <4>. QED
        BY <4>1, SkipIs DEF N
    <3>11. TF[SkipWhitespace(text, q + Len(w))] \in TokensType
      BY <1>2, <3>10
    <3>12. TF[SkipWhitespace(text, q + Len(w))] = Result(k + 1)
      BY <3>3, <3>6
    <3>13. TF[q] = Result(k)
      BY <2>4, <3>9, <3>11, <3>12
    <3>. QED
      BY <3>5, <3>13
  <2>7. CASE BeginsBare(args, k, rests, s)
    <3>1. PICK gap \in GapsBehindBare(args, k), rest \in rests : s = (a \o gap) \o rest
      BY <2>7 DEF BeginsBare
    <3>2. /\ Bare(a) /\ gap \in Seq(Whitespace) /\ a \in Seq(Wide)
          /\ \/ Len(gap) >= 1 /\ gap[1] = Blank
             \/ gap = <<>> /\ k = n
      <4>1. gap \in Gaps \/ (gap = <<>> /\ ~(k < n))
        BY <3>1 DEF GapsBehindBare
      <4>2. ~(k < n) => k = n
        BY <1>1
      <4>3. <<>> \in Seq(Whitespace)
        OBVIOUS
      <4>4. Bare(a) /\ a \in Seq(Wide)
        BY <2>1, <2>7, TextIsWide DEF BeginsBare
      <4>. HIDE DEF n, a
      <4>. QED
        BY <4>1, <4>2, <4>3, <4>4, GapsAre
    <3>. HIDE DEF a, n, N, Result
    <3>3. /\ StandsAt(text, q, a) /\ StandsAt(text, q + Len(a), gap)
          /\ Len(a) \in Nat /\ Len(gap) \in Nat /\ Len(rest) \in Nat
          /\ ((q + Len(a)) + Len(gap)) + Len(rest) = N + 1
          /\ TF[SkipWhitespace(text, (q + Len(a)) + Len(gap))] = Result(k + 1)
      BY <2>5, <3>1, <3>2
    <3>. DEFINE b == q + Len(a)
    <3>4. b \in Nat \ {0}
      BY <3>3
    <3>5. Len(a) >= 1 /\ a[1] # Quote /\ a[1] \notin Whitespace
      <4>1. a \in Seq(Wide) /\ a # <<>> /\ a[1] # Quote
        BY <3>2 DEF Bare
      <4>2. 1 \in 1..Len(a) /\ Len(a) >= 1
        BY <4>1
      <4>3. a[1] \notin {Blank, Tab}
        BY <3>2, <4>2 DEF Bare
      <4>. QED
        BY <4>1, <4>2, <4>3 DEF Whitespace
    <3>6. q \in 1..N /\ text[q] = a[1]
      BY <3>2, <3>3, <3>5, AtFirst DEF N
    <3>7. SkipWhitespace(text, q) = q
      BY <3>5, <3>6, SkipNone DEF N
    <3>. DEFINE t == SkipWhitespace(text, b + 1)
    <3>8. /\ b <= N => text[b] = Blank
          /\ t = SkipWhitespace(text, b + Len(gap))
      <4>1. CASE Len(gap) >= 1 /\ gap[1] = Blank
        <5>1. gap \in Seq(Wide)
          BY <3>2, TextIsWide
        <5>. HIDE DEF b
        <5>2. text[b] = Blank
          BY <3>3, <3>4, <4>1, <5>1, AtFirst DEF b
        <5>3. 1 \in 0..Len(gap)
          BY <3>3, <4>1
        <5>4. SkipWhitespace(text, b + 1) = SkipWhitespace(text, b + Len(gap))
          BY <3>2, <3>3, <3>4, <5>3, SkipPast DEF b
        <5>. QED
          BY <5>2, <5>4
      <4>2. CASE gap = <<>> /\ k = n
        <5>1. rest = <<>>
          BY <1>3, <3>1, <4>2
        <5>. HIDE DEF b
        <5>2. b = N + 1 /\ Len(gap) = 0
          BY <1>1, <3>3, <3>4, <4>2, <5>1 DEF b
        <5>3. b > N /\ b + 1 > N /\ b + 1 \in Nat \ {0} /\ b + Len(gap) = b /\ ~(b <= N)
          BY <1>1, <3>4, <5>2
        <5>4. SkipWhitespace(text, b) = N + 1 /\ SkipWhitespace(text, b + 1) = N + 1
          BY <3>4, <5>3, SkipNone DEF N
        <5>. QED
          BY <5>3, <5>4
      <4>. QED
        BY <3>2, <4>1, <4>2
    <3>9. NextBlank(text, q) = b /\ SubSeq(text, q, b - 1) = a
      BY <2>1, <3>2, <3>3, <3>8, BareReads DEF N
    <3>. HIDE DEF b
    <3>10. q \in 1..(N + 1) /\ ~(q > N) /\ text[q] # Quote
      BY <1>1, <3>5, <3>6
    <3>11. TF[q] = [TF[SkipWhitespace(text, NextBlank(text, q) + 1)]
                       EXCEPT !.args = <<SubSeq(text, q, NextBlank(text, q) - 1)>> \o @]
      BY <1>2, <3>10
    <3>12. TF[q] = [TF[t] EXCEPT !.args = <<a>> \o @]
      BY <3>9, <3>11
    <3>13. t \in 1..(N + 1)
      <4>1. b + 1 \in Nat \ {0}
        BY <3>4
      <4>. QED
        BY <4>1, SkipIs DEF N
    <3>. HIDE DEF t
    <3>14. TF[t] \in TokensType /\ TF[t] = Result(k + 1)
      BY <1>2, <3>3, <3>8, <3>13 DEF b
    <3>15. TF[q] = Result(k)
      BY <2>4, <3>12, <3>14
    <3>. QED
      BY <3>7, <3>15
  <2>. HIDE DEF rests
  <2>. QED
    BY <2>3, <2>6, <2>7, BeforeIs
<1>6. 1..(n + 1) \subseteq S
  <2>1. \A k \in 1..n : k + 1 \in S => k \in S
    <3>1. \A k \in 1..n : k \in 1..(n + 1)
      BY <1>1
    <3>. HIDE DEF n, N, Result
    <3>. QED
      BY <1>5, <3>1
  <2>. HIDE DEF S
  <2>. QED
    BY <1>1, <1>4, <2>1, AllDownTo
<1>7. TF[SkipWhitespace(text, 1)] = Result(1)
  <2>1. 1 \in 1..(n + 1)
    BY <1>1
  <2>2. text \in WF[1]
    BY <1>3
  <2>3. StandsAt(text, 1, text) /\ 1 + Len(text) = N + 1
    BY <1>1 DEF StandsAt
  <2>4. Reads(1, 1, text)
    <3>. HIDE DEF Reads, n
    <3>. QED
      BY <1>6, <2>1, <2>2
  <2>. QED
    BY <2>3, <2>4
<1>8. SubSeq(args, 1, n) = args
  BY SubSeqFull
<1>. QED
  BY <1>2, <1>7, <1>8

-----------------------------------------------------------------------------
(* The directives *)

FileNames == {"conf", "test"}
TableOf(f) == IF f = "conf" THEN ConfTable ELSE TestTable

\* What the manuals say of a directive is what its parameters say.
DirectiveAsSaid(e, d) ==
    /\ e.minimum = -1 <=> d \in WholeLine
    /\ e.only_once <=> d \notin Repeatable
    /\ e.required <=> d = "return"
    /\ \A n \in Nat :
          n \in Takes(d) <=>
             \/ e.minimum = -1 /\ n = 1
             \/ /\ e.minimum # -1
                /\ n >= e.minimum
                /\ e.maximum # -1 => n <= e.maximum

LEMMA TakesIs ==
    ASSUME NEW d, NEW n \in Nat
    PROVE  n \in Takes(d) <=>
              CASE d = "args" -> TRUE
                [] d \in {"features", "precheck"} -> n >= 1
                [] d = "file" -> n = 2 \/ n = 3
                [] d \in {"file-del", "file-new", "setenv", "stderr-replace"} -> n = 2
                [] d = "file-compare" -> n >= 3
                [] OTHER -> n = 1
<1>1. CASE d = "args"
  BY <1>1 DEF Takes
<1>2. CASE d \in {"features", "precheck"}
  <2>1. Takes(d) = Nat \ {0}
    BY <1>2, Zenon DEF Takes
  <2>. QED
    BY <1>2, <2>1
<1>3. CASE d = "file"
  BY <1>3 DEF Takes
<1>4. CASE d \in {"file-del", "file-new", "setenv", "stderr-replace"}
  BY <1>4 DEF Takes
<1>5. CASE d = "file-compare"
  <2>1. Takes(d) = Nat \ 0..2
    BY <1>5 DEF Takes
  <2>. QED
    BY <1>5, <2>1
<1>6. CASE d \notin {"args", "features", "precheck", "file", "file-del", "file-new", "setenv",
                     "stderr-replace", "file-compare"}
  <2>1. Takes(d) = {1}
    BY <1>6 DEF Takes
  <2>. QED
    BY <1>6, <2>1
<1>. QED
  BY <1>1, <1>2, <1>3, <1>4, <1>5, <1>6

LEMMA TestTableAsSaid ==
    ASSUME NEW d \in TestDirectives
    PROVE  DirectiveAsSaid(TestTable[d], d)
<1>0. \A n \in Nat : n \in Takes(d) <=>
              CASE d = "args" -> TRUE
                [] d \in {"features", "precheck"} -> n >= 1
                [] d = "file" -> n = 2 \/ n = 3
                [] d \in {"file-del", "file-new", "setenv", "stderr-replace"} -> n = 2
                [] d = "file-compare" -> n >= 3
                [] OTHER -> n = 1
  BY TakesIs
<1>1. CASE d \in {"description", "stderr", "stdin", "stdout"}
  BY <1>0, <1>1 DEF TestTable, TestDirectives, Directive, DirectiveAsSaid, WholeLine, Repeatable
<1>2. CASE d = "args"
  BY <1>0, <1>2 DEF TestTable, TestDirectives, Directive, DirectiveAsSaid, WholeLine, Repeatable
<1>3. CASE d \in {"features", "precheck"}
  <2>1. d = "features" => TestTable[d] = Directive(1, TRUE, FALSE, -1)
    BY DEF TestTable
  <2>2. d = "precheck" => TestTable[d] = Directive(1, FALSE, FALSE, -1)
    BY DEF TestTable
  <2>3. \A n \in Nat : n \in Takes(d) <=> n >= 1
    BY <1>0, <1>3
  <2>4. CASE d = "features"
    BY <2>1, <2>3, <2>4 DEF Directive, DirectiveAsSaid, WholeLine, Repeatable
  <2>5. CASE d = "precheck"
    BY <2>2, <2>3, <2>5 DEF Directive, DirectiveAsSaid, WholeLine, Repeatable
  <2>. QED
    BY <1>3, <2>4, <2>5
<1>4. CASE d = "file"
  BY <1>0, <1>4 DEF TestTable, TestDirectives, Directive, DirectiveAsSaid, WholeLine, Repeatable
<1>5. CASE d \in {"preload", "program", "return", "stdin-file"}
  <2>1. \A n \in Nat : n \in Takes(d) <=> n = 1
    BY <1>0, <1>5
  <2>2. CASE d = "return"
    <3>1. TestTable[d] = Directive(1, TRUE, TRUE, 0)
      BY <2>2 DEF TestTable
    <3>. QED
      BY <2>1, <2>2, <3>1 DEF Directive, DirectiveAsSaid, WholeLine, Repeatable
  <2>3. CASE d # "return"
    <3>1. TestTable[d] = Directive(1, TRUE, FALSE, 0)
      BY <1>5, <2>3 DEF TestTable
    <3>. QED
      BY <1>5, <2>1, <2>3, <3>1 DEF Directive, DirectiveAsSaid, WholeLine, Repeatable
  <2>. QED
    BY <2>2, <2>3
<1>6. CASE d \in {"file-del", "file-new", "setenv", "stderr-replace"}
  BY <1>0, <1>6 DEF TestTable, TestDirectives, Directive, DirectiveAsSaid, WholeLine, Repeatable
<1>. QED
  BY <1>1, <1>2, <1>3, <1>4, <1>5, <1>6 DEF TestDirectives

LEMMA ConfTableAsSaid ==
    ASSUME NEW d \in ConfDirectives
    PROVE  DirectiveAsSaid(ConfTable[d], d)
<1>1. CASE d = "file-compare"
  BY <1>1, TakesIs DEF ConfTable, ConfDirectives, Directive, DirectiveAsSaid, WholeLine, Repeatable
<1>2. CASE d # "file-compare"
  BY <1>2, TakesIs DEF ConfTable, ConfDirectives, Directive, DirectiveAsSaid, WholeLine, Repeatable
<1>. QED
  BY <1>1, <1>2

LEMMA TableAsSaid ==
    ASSUME NEW f \in FileNames
    PROVE  /\ DOMAIN TableOf(f) = Known(f)
           /\ \A d \in Known(f) : DirectiveAsSaid(TableOf(f)[d], d)
           /\ "comment" \notin Known(f) /\ "unknown" \notin Known(f)
<1>1. "comment" \notin Known(f) /\ "unknown" \notin Known(f)
  BY DEF Known, TestDirectives, ConfDirectives
<1>2. DOMAIN TableOf(f) = Known(f)
  BY DEF TableOf, Known, TestTable, ConfTable, FileNames
<1>3. \A d \in Known(f) : DirectiveAsSaid(TableOf(f)[d], d)
  BY TestTableAsSaid, ConfTableAsSaid DEF TableOf, Known, FileNames
<1>. QED
  BY <1>1, <1>2, <1>3

-----------------------------------------------------------------------------
(* Types *)

LEMMA ConcatText ==
    ASSUME NEW a \in Text, NEW b \in Text
    PROVE  a \o b \in Text
BY ConcatProperties DEF Text

LEMMA ExtensionsIs ==
    ASSUME NEW a \in Seq(Text), Len(a) >= 2
    PROVE  Extensions(a) \in Text
<1>1. a[1] \in Text /\ a[2] \in Text
  BY ElementOfSeq
<1>2. <<".">> \in Text
  <2>1. "." \in Symbol
    BY DEF Symbol
  <2>. QED
    BY <2>1 DEF Text
<1>. QED
  BY <1>1, <1>2, ConcatText DEF Extensions

LEMMA AppendType ==
    ASSUME NEW S, NEW s \in Seq(S), NEW e \in S
    PROVE  Append(s, e) \in Seq(S)
OBVIOUS

LEMMA ConfTakesType ==
    ASSUME NEW c \in ConfType, NEW d \in ConfDirectives, NEW a \in Seq(Text),
           Len(a) \in Takes(d), ~ConfRefuses(c, d, a)
    PROVE  ConfTakes(c, d, a) \in ConfType
<1>0. Len(a) \in Nat
  OBVIOUS
<1>1. CASE d = "file-compare"
  <2>1. Len(a) >= 3
    BY <1>0, <1>1, TakesIs
  <2>2. Extensions(a) \in Text
    BY <2>1, ExtensionsIs, <1>0
  <2>3. SubSeq(a, 3, Len(a)) \in Seq(Text)
    BY <2>1
  <2>4. ConfTakes(c, d, a) = [c EXCEPT !.file_compare = @ \cup {<<Extensions(a), SubSeq(a, 3, Len(a))>>}]
    BY <1>1 DEF ConfTakes
  <2>5. <<Extensions(a), SubSeq(a, 3, Len(a))>> \in Text \X Seq(Text)
    BY <2>2, <2>3
  <2>. HIDE DEF Text
  <2>6. c.file_compare \cup {<<Extensions(a), SubSeq(a, 3, Len(a))>>} \in SUBSET (Text \X Seq(Text))
    BY <2>5 DEF ConfType
  <2>. HIDE DEF Text
  <2>. QED
    BY <2>4, <2>6 DEF ConfType
<1>2. CASE d # "file-compare"
  <2>1. Len(a) = 1
    BY <1>2 DEF Takes, ConfDirectives
  <2>2. a[1] \in Text
    BY <2>1, ElementOfSeq
  <2>3. d \in {"keep-sandbox", "print-results"} => a[1] \in When
    BY DEF ConfRefuses
  <2>. HIDE DEF Text
  <2>. QED
    BY <1>2, <2>2, <2>3 DEF ConfTakes, ConfType, ConfDirectives
<1>. QED
  BY <1>1, <1>2

LEMMA FileOfType ==
    ASSUME NEW d \in {"file", "file-del", "file-new"}, NEW a \in Seq(Text), Len(a) \in Takes(d)
    PROVE  FileOf(d, a) \in Entry
<1>1. Len(a) \in {2, 3}
  BY DEF Takes
<1>2. a[1] \in Text /\ a[2] \in Text /\ (Len(a) = 3 => a[3] \in Text)
  BY <1>1, ElementOfSeq
<1>3. <<>> \in Text
  BY DEF Text
<1>4. Len(a) = 3 \/ Len(a) = 2
  BY <1>1
<1>. QED
  BY <1>2, <1>3, <1>4, Zenon DEF FileOf, Entry

LEMMA TestTakesType ==
    ASSUME NEW t \in TestType, NEW d \in TestDirectives, NEW a \in Seq(Text),
           Len(a) \in Takes(d)
    PROVE  TestTakes(t, d, a) \in TestType
<1>0. Len(a) \in Nat
  OBVIOUS
<1>1. CASE d \in {"file", "file-del", "file-new"}
  <2>1. Append(t.files, FileOf(d, a)) \in Seq(Entry)
    BY <1>1, FileOfType, AppendType DEF TestType
  <2>2. TestTakes(t, d, a) = [t EXCEPT !.files = Append(@, FileOf(d, a))]
    BY <1>1 DEF TestTakes
  <2>. HIDE DEF Entry, Text
  <2>. QED
    BY <2>1, <2>2 DEF TestType
<1>2. CASE d \in {"args", "description", "features", "precheck"}
  BY <1>2 DEF TestTakes, TestType
<1>3. CASE d \in {"stdin-file", "preload", "program", "return"}
  <2>1. a[1] \in Text
    BY <1>0, <1>3, ElementOfSeq DEF Takes
  <2>. QED
    BY <1>3, <2>1 DEF TestTakes, TestType
<1>4. CASE d \in {"stderr", "stdin", "stdout"}
  <2>1. a[1] \in Text
    BY <1>0, <1>4, ElementOfSeq DEF Takes
  <2>2. /\ Append(t.error_output, a[1]) \in Seq(Text)
        /\ Append(t.input, a[1]) \in Seq(Text)
        /\ Append(t.output, a[1]) \in Seq(Text)
    BY <2>1, AppendType DEF TestType
  <2>. QED
    BY <1>4, <2>2 DEF TestTakes, TestType
<1>5. CASE d \in {"setenv", "stderr-replace"}
  <2>1. a[1] \in Text /\ a[2] \in Text
    BY <1>0, <1>5, ElementOfSeq DEF Takes
  <2>2. <<a[1], a[2]>> \in Text \X Text
    BY <2>1
  <2>3. Append(t.error_output_replace, <<a[1], a[2]>>) \in Seq(Text \X Text)
    BY <2>2, AppendType DEF TestType
  <2>. QED
    BY <1>5, <2>2, <2>3 DEF TestTakes, TestType
<1>. QED
  BY <1>1, <1>2, <1>3, <1>4, <1>5 DEF TestDirectives

-----------------------------------------------------------------------------
(* The lines of a file *)

\* Which files there are changes only before they are read.
LEMMA SameFiles ==
    ASSUME case' = case
    PROVE  /\ \A f : LinesOf(f)' = LinesOf(f)
           /\ \A f, names : Where(f, names)' = Where(f, names)
           /\ \A f, k : /\ Arguments(f, k)' = Arguments(f, k)
                        /\ QuotedWell(f, k)' = QuotedWell(f, k)
                        /\ Numbered(f, k)' = Numbered(f, k)
                        /\ Again(f, k)' = Again(f, k)
                        /\ Clashes(f, k)' = Clashes(f, k)
                        /\ Faults(f, k)' = Faults(f, k)
           /\ \A f, k, names : Accepted(f, k, names)' = Accepted(f, k, names)
<1>1. \A f : LinesOf(f)' = LinesOf(f)
  BY DEF LinesOf
<1>2. \A f, names : Where(f, names)' = Where(f, names)
  BY <1>1 DEF Where
<1>3. \A f, k : Arguments(f, k)' = Arguments(f, k)
  BY <1>1 DEF Arguments
<1>4. \A f, k : QuotedWell(f, k)' = QuotedWell(f, k)
  BY <1>1 DEF QuotedWell
<1>5. \A f, k : Numbered(f, k)' = Numbered(f, k)
  BY <1>1, <1>3 DEF Numbered
<1>6. \A f, k : Again(f, k)' = Again(f, k)
  BY <1>1 DEF Again
<1>7. \A f, k, names : Accepted(f, k, names)' = Accepted(f, k, names)
  BY <1>2, <1>5, <1>6 DEF Accepted
<1>8. \A f, k : Clashes(f, k)' = Clashes(f, k)
  <2>. SUFFICES ASSUME NEW f, NEW k
                PROVE  Clashes(f, k)' = Clashes(f, k)
    OBVIOUS
  <2>. DEFINE name == LinesOf(f)[k].name
  <2>1. name' = name
    BY <1>1
  <2>2. (\E j \in Accepted(f, k, {name}) : Arguments(f, j)[1] = Arguments(f, k)[1])' <=>
           \E j \in Accepted(f, k, {name}) : Arguments(f, j)[1] = Arguments(f, k)[1]
    BY <1>3, <1>7, <2>1
  <2>3. (Accepted(f, k, {"stdin"}) # {})' <=> Accepted(f, k, {"stdin"}) # {}
    BY <1>7
  <2>4. (\E j \in Accepted(f, k, {"stdin-file"}) :
            Arguments(f, j)[1] # <<>> /\ Where(f, {"stdin"}) \cap 1..(j - 1) = {})' <=>
           \E j \in Accepted(f, k, {"stdin-file"}) :
              Arguments(f, j)[1] # <<>> /\ Where(f, {"stdin"}) \cap 1..(j - 1) = {}
    BY <1>2, <1>3, <1>7
  <2>5. (\E j \in Accepted(f, k, {name}) :
            Extensions(Arguments(f, j)) = Extensions(Arguments(f, k)))' <=>
           \E j \in Accepted(f, k, {name}) :
              Extensions(Arguments(f, j)) = Extensions(Arguments(f, k))
    BY <1>3, <1>7, <2>1
  <2>6. (Arguments(f, k)[1] \notin When)' <=> Arguments(f, k)[1] \notin When
    BY <1>3
  <2>. QED
    BY <2>1, <2>2, <2>3, <2>4, <2>5, <2>6, Zenon DEF Clashes
<1>9. \A f, k : Faults(f, k)' = Faults(f, k)
  BY <1>1, <1>4, <1>5, <1>6, <1>8 DEF Faults
<1>. QED
  BY <1>1, <1>2, <1>3, <1>4, <1>5, <1>6, <1>7, <1>8, <1>9

LEMMA LinesAre ==
    ASSUME case \in CaseType, NEW f \in FileNames
    PROVE  /\ LinesOf(f) \in Seq(Line)
           /\ Len(LinesOf(f)) \in Nat
           /\ case[f].exists => LinesOf(f) = case[f].lines
           /\ ~case[f].exists => LinesOf(f) = <<>>
<1>1. case[f] \in File
  BY DEF CaseType, FileNames
<1>2. case[f].lines \in Seq(Line)
  BY <1>1 DEF File
<1>3. <<>> \in Seq(Line)
  OBVIOUS
<1>. QED
  BY <1>2, <1>3, LenProperties DEF LinesOf

LEMMA LineIs ==
    ASSUME case \in CaseType, NEW f \in FileNames, NEW k \in 1..Len(LinesOf(f))
    PROVE  /\ LinesOf(f)[k] \in Line
           /\ LinesOf(f)[k].text \in Text
           /\ Arguments(f, k) \in Seq(Text)
           /\ QuotedWell(f, k) \in BOOLEAN
<1>1. LinesOf(f)[k] \in Line
  BY LinesAre, ElementOfSeq
<1>2. LinesOf(f)[k].text \in Text
  BY <1>1 DEF Line
<1>3. <<LinesOf(f)[k].text>> \in Seq(Text)
  BY <1>2
<1>. QED
  BY <1>1, <1>2, <1>3, Tokens DEF Arguments, QuotedWell

LEMMA AcceptedIs ==
    ASSUME case \in CaseType, NEW f \in FileNames, NEW names, NEW k \in Nat, NEW j
    PROVE  j \in Accepted(f, k, names) <=>
              /\ j \in 1..Len(LinesOf(f)) /\ j < k
              /\ LinesOf(f)[j].name \in names
              /\ Numbered(f, j) /\ ~Again(f, j)
<1>1. Len(LinesOf(f)) \in Nat
  BY LinesAre
<1>2. j \in Where(f, names) \cap 1..(k - 1) <=>
         j \in 1..Len(LinesOf(f)) /\ j < k /\ LinesOf(f)[j].name \in names
  BY <1>1 DEF Where
<1>. QED
  BY <1>2 DEF Accepted

\* The line that is read next.
LEMMA CurrentLine ==
    ASSUME case \in CaseType, reading \in FileNames, case[reading].exists, line_no \in Nat,
           line_no < Len(lines)
    PROVE  /\ lines = LinesOf(reading)
           /\ line_no + 1 \in 1..Len(LinesOf(reading))
           /\ line = LinesOf(reading)[line_no + 1]
           /\ DOMAIN Table = Known(reading)
           /\ line.name \in Known(reading) =>
                 /\ Given.args = Arguments(reading, line_no + 1)
                 /\ QuotingErrors = IF QuotedWell(reading, line_no + 1) THEN {} ELSE {"quoting"}
                 /\ CountOk <=> Numbered(reading, line_no + 1)
                 /\ directive.only_once <=> line.name \notin Repeatable
<1>. DEFINE k == line_no + 1
            d == line.name
<1>1. lines = LinesOf(reading) /\ Len(lines) \in Nat
  BY LinesAre DEF lines
<1>2. k \in 1..Len(LinesOf(reading))
  BY <1>1
<1>3. line = LinesOf(reading)[k]
  BY <1>1 DEF line
<1>4. Table = TableOf(reading)
  BY DEF Table, TableOf
<1>5. DOMAIN Table = Known(reading)
  BY <1>4, TableAsSaid
<1>6. ASSUME d \in Known(reading)
      PROVE  /\ Given.args = Arguments(reading, k)
             /\ QuotingErrors = IF QuotedWell(reading, k) THEN {} ELSE {"quoting"}
             /\ CountOk <=> Numbered(reading, k)
             /\ directive.only_once <=> d \notin Repeatable
  <2>1. DirectiveAsSaid(directive, d)
    BY <1>4, <1>6, TableAsSaid DEF directive
  <2>2. directive.minimum = -1 <=> d \in WholeLine
    BY <2>1 DEF DirectiveAsSaid
  <2>3. Given.args = Arguments(reading, k) /\ (Given.ok <=> QuotedWell(reading, k))
    BY <1>3, <2>2 DEF Given, Arguments, QuotedWell
  <2>4. Arguments(reading, k) \in Seq(Text) /\ Len(Arguments(reading, k)) \in Nat
    BY <1>2, LineIs
  <2>5. directive.minimum = -1 => Len(Arguments(reading, k)) = 1
    BY <1>3, <2>2 DEF Arguments
  <2>6. CountOk <=> Numbered(reading, k)
    <3>. DEFINE n == Len(Arguments(reading, k))
    <3>1. n \in Takes(d) <=>
             \/ directive.minimum = -1 /\ n = 1
             \/ /\ directive.minimum # -1
                /\ n >= directive.minimum
                /\ directive.maximum # -1 => n <= directive.maximum
      <4>. HIDE DEF n, d
      <4>1. n \in Nat
        BY <2>4 DEF n
      <4>. QED
        BY <2>1, <4>1 DEF DirectiveAsSaid
    <3>. QED
      BY <1>3, <2>3, <2>5, <3>1 DEF CountOk, Numbered
  <2>7. directive.only_once <=> d \notin Repeatable
    BY <2>1 DEF DirectiveAsSaid
  <2>. QED
    BY <2>3, <2>6, <2>7 DEF QuotingErrors
<1>. QED
  BY <1>1, <1>2, <1>3, <1>5, <1>6

-----------------------------------------------------------------------------
(* The invariant *)

\* The lines of a file that have been read.
LinesRead(f) ==
    IF f = reading THEN IF open THEN line_no ELSE 0
    ELSE IF f = "conf" THEN Len(LinesOf("conf")) ELSE 0

Faultless(f, n) == \A k \in 1..n : Faults(f, k) = {}
Whole(f) == Len(LinesOf(f))

Settings ==
    /\ keep_sandbox \in {"unset", "failed", "always"}
    /\ print_results \in {"unset", "never", "always"}

\* Which states there are. What the configuration and the test are made of comes later.
Shape ==
    /\ ParserTypeOK
    /\ Settings
    /\ \A f \in files : f.lines \in Seq(Line)
    /\ stage \in {"options", "configuration", "test"}
    /\ open => case[reading].exists
    /\ ~open => outcome \in {"running", "refused"}
    /\ outcome = "refused" /\ ~open => reading = "test" /\ ~case.test.exists
    /\ outcome \in {"loaded", "refused"} /\ open => line_no = Len(lines)
    /\ outcome \in {"loaded", "aborted"} => reading = "test"
    /\ stage = "options" =>
          reading = "conf" /\ ~open /\ outcome = "running" /\ case.conf = NoFile /\ case.test = NoFile
    /\ stage = "configuration" => reading = "conf" \/ (~open /\ outcome = "running")
    /\ stage = "test" => reading = "test"

\* seen_directives are the directives in the lines read.
SeenAreRead ==
    /\ open => \A d : d \in seen <=> d \in Known(reading)
                                       /\ \E k \in 1..line_no : LinesOf(reading)[k].name = d
    /\ outcome = "loaded" => "return" \in seen

\* What was printed are the faults of the lines read, and what is missing in the end.
Missing(f, k, e) ==
    /\ outcome = "refused" /\ open
    /\ f = "test" /\ reading = "test" /\ e = "required"
    /\ k = Whole("test") /\ Where("test", {"return"}) = {}
FaultsTold ==
    \A f \in FileNames, k \in Nat, e \in Error :
        <<f, k, e>> \in messages <=> (k \in 1..LinesRead(f) /\ e \in Faults(f, k)) \/ Missing(f, k, e)

\* Parser::ok, and what became of the files before.
FaultsCount ==
    /\ open /\ outcome = "running" => (ok <=> Faultless(reading, line_no))
    /\ reading = "test" => Faultless("conf", Whole("conf"))
    /\ outcome = "loaded" => Faultless("test", Whole("test"))
    /\ outcome = "refused" /\ reading = "conf" => ~Faultless("conf", Whole("conf"))

\* What later lines may clash with is what the lines before have left.
EnvironmentRead(n) ==
    \A x : (\E e \in test.environment : e[1] = x) <=>
              \E j \in Accepted("test", n + 1, {"setenv"}) : Arguments("test", j)[1] = x
InputBefore(n) == Where("test", {"stdin"}) \cap 1..n # {}
InputRead(n) ==
    /\ test.input_file # <<>> <=>
          \E j \in Accepted("test", n + 1, {"stdin-file"}) :
             Arguments("test", j)[1] # <<>> /\ ~InputBefore(j - 1)
    /\ test.input_file = <<>> => (test.input # <<>> <=> InputBefore(n))
ComparesRead(n) ==
    \A x : (\E c \in configuration.file_compare : c[1] = x) <=>
              \E j \in Accepted("conf", n + 1, {"file-compare"}) : Extensions(Arguments("conf", j)) = x
ClashesKnown ==
    outcome # "aborted" =>
        /\ EnvironmentRead(LinesRead("test"))
        /\ InputRead(LinesRead("test"))
        /\ ComparesRead(LinesRead("conf"))

\* A line that is used.
Accepts(f, k) ==
    LinesOf(f)[k].name \in Known(f) /\ ~Again(f, k) /\ Numbered(f, k) /\ ~Clashes(f, k)

\* Whether a directive's line clashes is what process_directive finds out.
LEMMA RefusesIs ==
    ASSUME Shape, SeenAreRead, ClashesKnown, open, outcome = "running", line_no < Len(lines),
           line.name \in Known(reading), ~Again(reading, line_no + 1),
           Numbered(reading, line_no + 1)
    PROVE  Refuses <=> Clashes(reading, line_no + 1)
<1>. DEFINE k == line_no + 1
            d == line.name
            a == Arguments(reading, k)
<1>1. case \in CaseType /\ reading \in FileNames /\ case[reading].exists /\ line_no \in Nat
  BY DEF Shape, ParserTypeOK, FileNames
<1>2. /\ lines = LinesOf(reading) /\ k \in 1..Len(LinesOf(reading))
      /\ line = LinesOf(reading)[k] /\ Given.args = a
  BY <1>1, CurrentLine
<1>3. \A names, j : j \in Accepted(reading, k, names) <=>
                       /\ j \in 1..Len(LinesOf(reading)) /\ j < k
                       /\ LinesOf(reading)[j].name \in names
                       /\ Numbered(reading, j) /\ ~Again(reading, j)
  BY <1>1, AcceptedIs
<1>4. LinesRead(reading) = line_no
  BY DEF LinesRead
<1>5. CASE reading = "conf"
  <2>1. d \notin {"setenv", "stdin-file", "stdin"}
    BY <1>5 DEF Known, ConfDirectives
  <2>2. ComparesRead(line_no)
    BY <1>4, <1>5 DEF ClashesKnown
  <2>3. Refuses <=> ConfRefuses(configuration, d, a)
    BY <1>2, <1>5 DEF Refuses
  <2>4. (\E c \in configuration.file_compare : c[1] = Extensions(a)) <=>
           \E j \in Accepted("conf", k, {"file-compare"}) : Extensions(Arguments("conf", j)) = Extensions(a)
    BY <2>2 DEF ComparesRead
  <2>. QED
    BY <1>2, <1>5, <2>1, <2>3, <2>4, Zenon DEF Clashes, ConfRefuses
<1>6. CASE reading = "test"
  <2>1. d \notin {"file-compare", "keep-sandbox", "print-results"}
    BY <1>6 DEF Known, TestDirectives
  <2>2. EnvironmentRead(line_no) /\ InputRead(line_no)
    BY <1>4, <1>6 DEF ClashesKnown
  <2>3. Refuses <=> TestRefuses(test, d, a)
    BY <1>2, <1>6, Zenon DEF Refuses
  <2>4. CASE d = "setenv"
    <3>1. (\E e \in test.environment : e[1] = a[1]) <=>
             \E j \in Accepted("test", k, {"setenv"}) : Arguments("test", j)[1] = a[1]
      BY <2>2 DEF EnvironmentRead
    <3>. QED
      BY <1>2, <1>6, <2>3, <2>4, <3>1 DEF Clashes, TestRefuses
  <2>5. CASE d = "stdin-file"
    <3>1. \A j \in 1..line_no : LinesOf("test")[j].name # "stdin-file"
      <4>1. k - 1 = line_no /\ line.name = LinesOf("test")[k].name
        BY <1>1, <1>2, <1>6
      <4>. QED
        BY <1>6, <2>5, <4>1 DEF Again, Repeatable
    <3>2. Accepted("test", k, {"stdin-file"}) = {}
      BY <1>1, <1>3, <1>6, <3>1
    <3>3. test.input_file = <<>>
      BY <2>2, <3>2 DEF InputRead
    <3>4. test.input # <<>> <=> InputBefore(line_no)
      BY <2>2, <3>3 DEF InputRead
    <3>5. \A j \in 1..Len(LinesOf("test")) : LinesOf("test")[j].name = "stdin" =>
              Numbered("test", j) /\ ~Again("test", j)
      <4>1. \A j \in 1..Len(LinesOf("test")) : LinesOf("test")[j].name = "stdin" =>
               Len(Arguments("test", j)) = 1
        BY DEF Arguments, WholeLine
      <4>2. 1 \in Takes("stdin")
        BY TakesIs
      <4>. QED
        BY <4>1, <4>2 DEF Numbered, Again, Repeatable
    <3>6. InputBefore(line_no) <=> Accepted("test", k, {"stdin"}) # {}
      <4>1. \A j : j \in Where("test", {"stdin"}) \cap 1..line_no <=> j \in Accepted("test", k, {"stdin"})
        BY <1>1, <1>2, <1>3, <1>6, <3>5 DEF Where
      <4>. QED
        BY <4>1 DEF InputBefore
    <3>. QED
      BY <1>2, <1>6, <2>3, <2>5, <3>4, <3>6 DEF Clashes, TestRefuses
  <2>6. CASE d = "stdin"
    <3>1. test.input_file # <<>> <=>
             \E j \in Accepted("test", k, {"stdin-file"}) :
                Arguments("test", j)[1] # <<>> /\ Where("test", {"stdin"}) \cap 1..(j - 1) = {}
      BY <2>2 DEF InputRead, InputBefore
    <3>. QED
      BY <1>2, <1>6, <2>3, <2>6, <3>1 DEF Clashes, TestRefuses
  <2>7. CASE d \notin {"setenv", "stdin-file", "stdin"}
    BY <1>2, <1>6, <2>1, <2>3, <2>7 DEF Clashes, TestRefuses
  <2>. QED
    BY <2>4, <2>5, <2>6, <2>7
<1>. QED
  BY <1>1, <1>5, <1>6 DEF FileNames

ReadsLine == SkipLine \/ Unknown \/ Repeated \/ WrongCount \/ Refuse \/ Abort \/ Take

\* What reading a line does, whatever is in it.
LEMMA ReadsLineIs ==
    ASSUME Shape, SeenAreRead, ClashesKnown, ReadsLine
    PROVE  LET k == line_no + 1 IN
           /\ outcome = "running" /\ open /\ case[reading].exists
           /\ reading \in FileNames /\ case \in CaseType /\ line_no \in Nat
           /\ lines = LinesOf(reading) /\ k \in 1..Whole(reading) /\ line = LinesOf(reading)[k]
           /\ UNCHANGED <<case, reading, open>>
           /\ line_no' = k
           /\ seen' = seen \cup ({line.name} \cap Known(reading))
           /\ messages' = messages \cup {<<reading, k, e>> : e \in Faults(reading, k)}
           /\ ok' = (ok /\ Faults(reading, k) = {})
           /\ outcome' \in {"running", "aborted"}
           /\ outcome' = "aborted" => reading = "test"
           /\ outcome' = "running" =>
                 /\ test' = IF reading = "test" /\ Accepts(reading, k)
                            THEN TestTakes(test, line.name, Arguments(reading, k)) ELSE test
                 /\ configuration' = IF reading = "conf" /\ Accepts(reading, k)
                            THEN ConfTakes(configuration, line.name, Arguments(reading, k))
                            ELSE configuration
           /\ outcome' = "aborted" => UNCHANGED <<test, configuration>>
<1>. DEFINE k == line_no + 1
            d == line.name
            a == Arguments(reading, k)
<1>0. case \in CaseType /\ reading \in FileNames /\ line_no \in Nat
  BY DEF Shape, ParserTypeOK, FileNames
<1>1. outcome = "running" /\ open /\ line_no < Len(lines) /\ line_no' = k
  BY DEF ReadsLine, SkipLine, Unknown, Repeated, WrongCount, Refuse, Abort, Take, Directed, ReadLine
<1>2. case[reading].exists
  BY <1>1 DEF Shape
<1>3. /\ lines = LinesOf(reading)
      /\ k \in 1..Whole(reading)
      /\ line = LinesOf(reading)[k]
      /\ DOMAIN Table = Known(reading)
      /\ d \in Known(reading) =>
            /\ Given.args = a
            /\ QuotingErrors = IF QuotedWell(reading, k) THEN {} ELSE {"quoting"}
            /\ CountOk <=> Numbered(reading, k)
            /\ directive.only_once <=> d \notin Repeatable
  BY <1>0, <1>1, <1>2, CurrentLine DEF Whole
<1>4. d \in Known(reading) => (Again(reading, k) <=> directive.only_once /\ d \in seen)
  <2>1. k - 1 = line_no
    BY <1>0
  <2>2. d \in Known(reading) => (d \in seen <=> \E j \in 1..line_no : LinesOf(reading)[j].name = d)
    BY <1>1 DEF SeenAreRead
  <2>. QED
    BY <1>3, <2>1, <2>2 DEF Again
<1>5. d \in Known(reading) /\ ~Again(reading, k) /\ Numbered(reading, k) =>
         (Refuses <=> Clashes(reading, k))
  BY <1>1, <1>3, RefusesIs
<1>6. "comment" \notin Known(reading)
  BY <1>0, TableAsSaid
<1>. DEFINE F == Faults(reading, k)
<1>7. F = IF d = "comment" THEN {}
          ELSE IF d \notin Known(reading) THEN {"unknown"}
          ELSE IF Again(reading, k) THEN {"repeated"}
          ELSE (IF QuotedWell(reading, k) THEN {} ELSE {"quoting"})
                  \cup (IF Numbered(reading, k)
                        THEN IF Clashes(reading, k) THEN {"refused"} ELSE {}
                        ELSE {"count"})
  BY <1>3 DEF Faults
<1>. HIDE DEF F
<1>8. Accepts(reading, k) <=>
         d \in Known(reading) /\ ~Again(reading, k) /\ Numbered(reading, k) /\ ~Clashes(reading, k)
  BY <1>3 DEF Accepts
<1>. DEFINE Result ==
           /\ UNCHANGED <<case, reading, open>>
           /\ seen' = seen \cup ({d} \cap Known(reading))
           /\ messages' = messages \cup {<<reading, k, e>> : e \in F}
           /\ ok' = (ok /\ F = {})
           /\ outcome' \in {"running", "aborted"}
           /\ outcome' = "aborted" => reading = "test"
           /\ outcome' = "running" =>
                 /\ test' = IF reading = "test" /\ Accepts(reading, k)
                            THEN TestTakes(test, d, a) ELSE test
                 /\ configuration' = IF reading = "conf" /\ Accepts(reading, k)
                            THEN ConfTakes(configuration, d, a) ELSE configuration
           /\ outcome' = "aborted" => UNCHANGED <<test, configuration>>
<1>. SUFFICES Result
  BY <1>0, <1>1, <1>2, <1>3 DEF F
<1>9. ok \in BOOLEAN
  BY DEF Shape, ParserTypeOK
<1>. HIDE DEF a, d
<1>. USE DEF k
<1>10. CASE SkipLine
  <2>1. d = "comment" /\ UNCHANGED <<case, reading, open, ok, seen, messages, configuration, test, outcome>>
    BY <1>10 DEF SkipLine, d
  <2>2. F = {} /\ ~Accepts(reading, k) /\ d \notin Known(reading)
    BY <1>6, <1>7, <1>8, <2>1
  <2>3. {<<reading, k, e>> : e \in F} = {} /\ {d} \cap Known(reading) = {}
    BY <2>2
  <2>4. Result
    BY <1>1, <1>9, <2>1, <2>2, <2>3
  <2>. QED
    BY <2>4
<1>11. CASE Unknown
  <2>1. /\ d \notin Known(reading) /\ d # "comment"
        /\ UNCHANGED <<case, reading, open, seen, configuration, test, outcome>>
        /\ messages' = messages \cup {<<reading, k, e>> : e \in {"unknown"}} /\ ok' = FALSE
    BY <1>1, <1>3, <1>11 DEF Unknown, PrintErrors, d
  <2>2. F = {"unknown"} /\ ~Accepts(reading, k) /\ {d} \cap Known(reading) = {}
    BY <1>7, <1>8, <2>1
  <2>3. Result
    BY <1>1, <2>1, <2>2
  <2>. QED
    BY <2>3
<1>12. CASE Repeated
  <2>1. /\ d \in Known(reading) /\ directive.only_once /\ d \in seen
        /\ UNCHANGED <<case, reading, open, seen, configuration, test, outcome>>
        /\ messages' = messages \cup {<<reading, k, e>> : e \in {"repeated"}} /\ ok' = FALSE
    BY <1>1, <1>3, <1>12 DEF Repeated, PrintErrors, d
  <2>2. F = {"repeated"} /\ ~Accepts(reading, k)
    BY <1>4, <1>6, <1>7, <1>8, <2>1 DEF d
  <2>3. seen = seen \cup ({d} \cap Known(reading))
    BY <2>1
  <2>4. Result
    BY <1>1, <2>1, <2>2, <2>3
  <2>. QED
    BY <2>4
<1>. DEFINE Q == IF QuotedWell(reading, k) THEN {} ELSE {"quoting"}
<1>13. ASSUME Directed
       PROVE  /\ d \in Known(reading) /\ ~Again(reading, k) /\ d # "comment"
              /\ seen' = seen \cup ({d} \cap Known(reading))
              /\ Given.args = a /\ QuotingErrors = Q
              /\ CountOk <=> Numbered(reading, k)
  <2>1. d \in Known(reading) /\ (directive.only_once => d \notin seen) /\ seen' = seen \cup {d}
    BY <1>3, <1>13 DEF Directed, d
  <2>2. {d} \cap Known(reading) = {d}
    BY <2>1
  <2>. QED
    BY <1>3, <1>4, <1>6, <2>1, <2>2 DEF d, a
<1>14. CASE WrongCount
  <2>1. /\ Directed /\ ~CountOk
        /\ messages' = messages \cup {<<reading, k, e>> : e \in QuotingErrors \cup {"count"}}
        /\ ok' = FALSE
        /\ UNCHANGED <<case, reading, open, configuration, test, outcome>>
    BY <1>1, <1>14 DEF WrongCount, PrintErrors
  <2>2. F = QuotingErrors \cup {"count"} /\ ~Accepts(reading, k)
    BY <1>7, <1>8, <1>13, <2>1
  <2>3. F # {}
    BY <2>2
  <2>4. Result
    BY <1>1, <1>13, <2>1, <2>2, <2>3
  <2>. QED
    BY <2>4
<1>15. CASE Refuse
  <2>1. /\ Directed /\ CountOk /\ Refuses
        /\ messages' = messages \cup {<<reading, k, e>> : e \in QuotingErrors \cup {"refused"}}
        /\ ok' = FALSE
        /\ UNCHANGED <<case, reading, open, configuration, test, outcome>>
    BY <1>1, <1>15 DEF Refuse, PrintErrors
  <2>2. Clashes(reading, k)
    BY <1>5, <1>13, <2>1 DEF d
  <2>3. F = QuotingErrors \cup {"refused"} /\ ~Accepts(reading, k)
    BY <1>7, <1>8, <1>13, <2>1, <2>2
  <2>4. F # {}
    BY <2>3
  <2>5. Result
    BY <1>1, <1>13, <2>1, <2>3, <2>4
  <2>. QED
    BY <2>5
<1>16. CASE Abort
  <2>1. /\ Directed /\ CountOk /\ d = "stderr-replace"
        /\ messages' = messages \cup {<<reading, k, e>> : e \in QuotingErrors}
        /\ ok' = (ok /\ QuotingErrors = {})
        /\ outcome' = "aborted"
        /\ UNCHANGED <<case, reading, open, configuration, test>>
    BY <1>1, <1>16 DEF Abort, PrintErrors, Aborts, d
  <2>2. reading = "test"
    BY <1>0, <1>13, <2>1 DEF FileNames, Known, ConfDirectives
  <2>3. ~Refuses
    BY <2>1, <2>2 DEF Refuses, TestRefuses, d
  <2>4. F = QuotingErrors
    BY <1>5, <1>7, <1>13, <2>1, <2>3 DEF d
  <2>5. Result
    BY <1>13, <2>1, <2>2, <2>4
  <2>. QED
    BY <2>5
<1>17. CASE Take
  <2>1. /\ Directed /\ CountOk /\ ~Refuses
        /\ messages' = messages \cup {<<reading, k, e>> : e \in QuotingErrors}
        /\ ok' = (ok /\ QuotingErrors = {})
        /\ UNCHANGED <<case, reading, open, outcome>>
        /\ IF reading = "conf"
           THEN configuration' = ConfTakes(configuration, d, Given.args) /\ UNCHANGED test
           ELSE test' = TestTakes(test, d, Given.args) /\ UNCHANGED configuration
    BY <1>1, <1>17 DEF Take, PrintErrors, d
  <2>2. ~Clashes(reading, k)
    BY <1>5, <1>13, <2>1 DEF d
  <2>3. F = QuotingErrors /\ Accepts(reading, k)
    BY <1>7, <1>8, <1>13, <2>1, <2>2
  <2>4. Result
    <3>1. CASE reading = "conf"
      BY <1>1, <1>13, <2>1, <2>3, <3>1
    <3>2. CASE reading = "test"
      BY <1>1, <1>13, <2>1, <2>3, <3>2
    <3>. QED
      BY <1>0, <3>1, <3>2 DEF FileNames
  <2>. QED
    BY <2>4
<1>. HIDE DEF Result
<1>. QED
  BY <1>10, <1>11, <1>12, <1>14, <1>15, <1>16, <1>17 DEF ReadsLine

Inv == Shape /\ SeenAreRead /\ FaultsTold /\ FaultsCount /\ ClashesKnown

LEMMA FaultsAreErrors ==
    ASSUME NEW f, NEW k
    PROVE  Faults(f, k) \subseteq Error /\ "required" \notin Faults(f, k)
BY DEF Faults, Error

\* Reading a line preserves each part of the invariant.
LEMMA LineCounts ==
    ASSUME Shape, SeenAreRead, ClashesKnown, ReadsLine
    PROVE  /\ LinesRead(reading) = line_no
           /\ \A f \in FileNames :
                 LinesRead(f)' = IF f = reading THEN line_no + 1 ELSE LinesRead(f)
           /\ \A f : Whole(f)' = Whole(f)
<1>1. reading' = reading /\ open /\ open' /\ line_no' = line_no + 1 /\ case' = case
  BY ReadsLineIs
<1>2. \A f : Whole(f)' = Whole(f)
  BY <1>1, SameFiles DEF Whole
<1>3. LinesRead(reading) = line_no
  BY <1>1 DEF LinesRead
<1>4. \A f : LinesOf(f)' = LinesOf(f)
  BY <1>1, SameFiles
<1>5. ASSUME NEW f \in FileNames
      PROVE  LinesRead(f)' = IF f = reading THEN line_no + 1 ELSE LinesRead(f)
  BY <1>1, <1>4 DEF LinesRead
<1>. QED
  BY <1>2, <1>3, <1>5

LEMMA LineShape ==
    ASSUME Shape, SeenAreRead, ClashesKnown, ReadsLine, UNCHANGED <<files, stage, optionVars>>,
           stage = "test" \/ (stage = "configuration" /\ reading = "conf")
    PROVE  Shape'
<1>. DEFINE k == line_no + 1
            a == Arguments(reading, k)
<1>1. /\ outcome = "running" /\ open /\ case[reading].exists
      /\ reading \in FileNames /\ case \in CaseType /\ line_no \in Nat
      /\ lines = LinesOf(reading) /\ k \in 1..Whole(reading) /\ line = LinesOf(reading)[k]
      /\ UNCHANGED <<case, reading, open>>
      /\ line_no' = k
      /\ seen' = seen \cup ({line.name} \cap Known(reading))
      /\ messages' = messages \cup {<<reading, k, e>> : e \in Faults(reading, k)}
      /\ ok' = (ok /\ Faults(reading, k) = {})
      /\ outcome' \in {"running", "aborted"}
      /\ outcome' = "aborted" => reading = "test"
      /\ outcome' = "running" =>
            /\ test' = IF reading = "test" /\ Accepts(reading, k)
                       THEN TestTakes(test, line.name, a) ELSE test
            /\ configuration' = IF reading = "conf" /\ Accepts(reading, k)
                       THEN ConfTakes(configuration, line.name, a)
                       ELSE configuration
      /\ outcome' = "aborted" => UNCHANGED <<test, configuration>>
  BY ReadsLineIs, Zenon
<1>2. a \in Seq(Text)
  BY <1>1, LineIs DEF Whole
<1>3. configuration' \in ConfType
  <2>1. configuration \in ConfType
    BY DEF Shape, ParserTypeOK
  <2>2. CASE outcome' = "running" /\ reading = "conf" /\ Accepts(reading, k)
    <3>1. line.name \in ConfDirectives /\ Len(a) \in Takes(line.name)
      BY <1>1, <2>2 DEF Accepts, Known, Numbered
    <3>2. ~Refuses
      BY <1>1, <2>2, RefusesIs DEF Accepts, Whole
    <3>3. Given.args = a
      BY <1>1, <2>2, CurrentLine DEF Accepts, Whole
    <3>4. ~ConfRefuses(configuration, line.name, a)
      BY <2>2, <3>2, <3>3 DEF Refuses
    <3>. QED
      BY <1>1, <1>2, <2>1, <2>2, <3>1, <3>4, ConfTakesType
  <2>. QED
    BY <1>1, <2>1, <2>2
<1>4. test' \in TestType
  <2>1. test \in TestType
    BY DEF Shape, ParserTypeOK
  <2>2. CASE outcome' = "running" /\ reading = "test" /\ Accepts(reading, k)
    <3>1. line.name \in TestDirectives /\ Len(a) \in Takes(line.name)
      BY <1>1, <2>2 DEF Accepts, Known, Numbered
    <3>. QED
      BY <1>1, <1>2, <2>1, <2>2, <3>1, TestTakesType
  <2>. QED
    BY <1>1, <2>1, <2>2
<1>5. seen' \subseteq TestDirectives \cup ConfDirectives
  BY <1>1 DEF Shape, ParserTypeOK, Known
<1>6. messages' \subseteq {"conf", "test"} \X Nat \X Error
  <2>1. \A e \in Faults(reading, k) : <<reading, k, e>> \in {"conf", "test"} \X Nat \X Error
    BY <1>1, FaultsAreErrors DEF FileNames
  <2>2. {<<reading, k, e>> : e \in Faults(reading, k)} \subseteq {"conf", "test"} \X Nat \X Error
    BY <2>1
  <2>. QED
    BY <1>1, <2>2 DEF Shape, ParserTypeOK
<1>7. line_no' \in Nat /\ line_no' <= Len(lines)' /\ lines' = lines
  <2>1. lines' = lines
    BY <1>1 DEF lines
  <2>2. k \in Nat /\ k <= Len(lines)
    BY <1>1 DEF Whole
  <2>. QED
    BY <1>1, <2>1, <2>2
<1>8. ok' \in BOOLEAN
  BY <1>1
<1>9. ParserTypeOK'
  BY <1>1, <1>3, <1>4, <1>5, <1>6, <1>7, <1>8 DEF ParserTypeOK, FileNames, Shape
<1>10. Settings'
  BY DEF Shape, Settings, optionVars, ownVars
<1>. QED
  BY <1>1, <1>9, <1>10 DEF Shape

LEMMA LineSeen ==
    ASSUME Shape, SeenAreRead, ClashesKnown, ReadsLine
    PROVE  SeenAreRead'
<1>. DEFINE k == line_no + 1
<1>1. /\ outcome' # "loaded" /\ open /\ line_no \in Nat /\ line_no' = k
      /\ UNCHANGED <<case, reading>> /\ line = LinesOf(reading)[k]
      /\ seen' = seen \cup ({line.name} \cap Known(reading))
  BY ReadsLineIs
<1>2. \A f : LinesOf(f)' = LinesOf(f)
  BY <1>1, SameFiles
<1>3. ASSUME NEW d
      PROVE  d \in seen' <=> d \in Known(reading)
                                /\ \E j \in 1..k : LinesOf(reading)[j].name = d
  <2>1. d \in seen <=> d \in Known(reading) /\ \E j \in 1..line_no : LinesOf(reading)[j].name = d
    BY <1>1 DEF SeenAreRead
  <2>2. \A j : j \in 1..k <=> j \in 1..line_no \/ j = k
    BY <1>1
  <2>. QED
    BY <1>1, <2>1, <2>2
<1>4. \A f : Known(f)' = Known(f)
  BY DEF Known
<1>. QED
  BY <1>1, <1>2, <1>3, <1>4 DEF SeenAreRead

LEMMA LineTold ==
    ASSUME Shape, SeenAreRead, ClashesKnown, FaultsTold, ReadsLine
    PROVE  FaultsTold'
<1>. DEFINE k == line_no + 1
<1>1. /\ outcome = "running" /\ outcome' \in {"running", "aborted"}
      /\ reading \in FileNames /\ line_no \in Nat /\ UNCHANGED <<case, reading>>
      /\ messages' = messages \cup {<<reading, k, e>> : e \in Faults(reading, k)}
  BY ReadsLineIs
<1>2. \A f, j : Faults(f, j)' = Faults(f, j)
  BY <1>1, SameFiles
<1>3. /\ LinesRead(reading) = line_no
      /\ \A f \in FileNames : LinesRead(f)' = IF f = reading THEN k ELSE LinesRead(f)
  BY LineCounts
<1>4. ASSUME NEW f \in FileNames, NEW j \in Nat, NEW e \in Error
      PROVE  <<f, j, e>> \in messages' <=> j \in 1..(LinesRead(f)') /\ e \in Faults(f, j)
  <2>1. <<f, j, e>> \in messages <=> j \in 1..LinesRead(f) /\ e \in Faults(f, j)
    BY <1>1 DEF FaultsTold, Missing
  <2>2. <<f, j, e>> \in messages' <=>
           <<f, j, e>> \in messages \/ (f = reading /\ j = k /\ e \in Faults(reading, k))
    BY <1>1
  <2>3. CASE f = reading
    <3>1. j \in 1..k <=> j \in 1..line_no \/ j = k
      BY <1>1
    <3>. QED
      BY <1>3, <2>1, <2>2, <2>3, <3>1
  <2>4. CASE f # reading
    BY <1>3, <2>1, <2>2, <2>4
  <2>. QED
    BY <2>3, <2>4
<1>5. \A f, j, e : ~Missing(f, j, e)'
  BY <1>1 DEF Missing
<1>. QED
  BY <1>2, <1>4, <1>5 DEF FaultsTold

LEMMA LineFaults ==
    ASSUME Shape, SeenAreRead, ClashesKnown, FaultsCount, ReadsLine
    PROVE  FaultsCount'
<1>. DEFINE k == line_no + 1
<1>1. /\ outcome = "running" /\ outcome' \in {"running", "aborted"} /\ open
      /\ reading \in FileNames /\ line_no \in Nat /\ UNCHANGED <<case, reading>> /\ line_no' = k
      /\ ok' = (ok /\ Faults(reading, k) = {})
  BY ReadsLineIs
<1>2. \A f, j : Faults(f, j)' = Faults(f, j)
  BY <1>1, SameFiles
<1>3. \A f, n : Faultless(f, n)' = Faultless(f, n)
  BY <1>2 DEF Faultless
<1>4. \A f : Whole(f)' = Whole(f)
  BY LineCounts
<1>5. Faultless(reading, k) <=> Faultless(reading, line_no) /\ Faults(reading, k) = {}
  <2>1. \A j : j \in 1..k <=> j \in 1..line_no \/ j = k
    BY <1>1
  <2>. QED
    BY <2>1 DEF Faultless
<1>6. ok' <=> Faultless(reading, k)
  BY <1>1, <1>5 DEF FaultsCount
<1>7. Faultless(reading, line_no)' <=> Faultless(reading, k)
  BY <1>1, <1>2 DEF Faultless
<1>8. reading' = "test" => Faultless("conf", Whole("conf"))'
  <2>1. reading = "test" => Faultless("conf", Whole("conf"))
    BY DEF FaultsCount
  <2>2. Faultless("conf", Whole("conf"))' <=> Faultless("conf", Whole("conf"))
    BY <1>2, <1>4 DEF Faultless
  <2>. QED
    BY <1>1, <2>1, <2>2
<1>. QED
  BY <1>1, <1>6, <1>7, <1>8 DEF FaultsCount

\* What a directive changes.
LEMMA TestTakesFields ==
    ASSUME NEW t \in TestType, NEW d \in TestDirectives, NEW a, NEW u, u = TestTakes(t, d, a)
    PROVE  /\ u.arguments = IF d = "args" THEN a ELSE t.arguments
           /\ u.required_features = IF d = "features" THEN a ELSE t.required_features
           /\ u.precheck_command = IF d = "precheck" THEN a ELSE t.precheck_command
           /\ u.input_file = IF d = "stdin-file" THEN a[1] ELSE t.input_file
           /\ u.preload_library = IF d = "preload" THEN a[1] ELSE t.preload_library
           /\ u.program = IF d = "program" THEN a[1] ELSE t.program
           /\ u.exit_code = IF d = "return" THEN a[1] ELSE t.exit_code
           /\ u.input = IF d = "stdin" THEN Append(t.input, a[1]) ELSE t.input
           /\ u.output = IF d = "stdout" THEN Append(t.output, a[1]) ELSE t.output
           /\ u.error_output = IF d = "stderr" THEN Append(t.error_output, a[1]) ELSE t.error_output
           /\ u.files = IF d \in {"file", "file-del", "file-new"} THEN Append(t.files, FileOf(d, a))
                        ELSE t.files
<1>. HIDE DEF Text, Entry
<1>1. CASE d \in {"file", "file-del", "file-new"}
  <2>1. TestTakes(t, d, a) = [t EXCEPT !.files = Append(@, FileOf(d, a))]
    BY <1>1 DEF TestTakes
  <2>. QED
    BY <1>1, <2>1 DEF TestType
<1>2. CASE d \in {"args", "description", "features", "precheck"}
  BY <1>2 DEF TestTakes, TestType
<1>3. CASE d \in {"stdin-file", "preload", "program", "return"}
  BY <1>3 DEF TestTakes, TestType
<1>4. CASE d \in {"stderr", "stdin", "stdout"}
  BY <1>4 DEF TestTakes, TestType
<1>5. CASE d \in {"setenv", "stderr-replace"}
  BY <1>5 DEF TestTakes, TestType
<1>. QED
  BY <1>1, <1>2, <1>3, <1>4, <1>5 DEF TestDirectives

LEMMA TestTakesEnvironment ==
    ASSUME NEW t \in TestType, NEW d \in TestDirectives, NEW a, NEW u, u = TestTakes(t, d, a)
    PROVE  u.environment = IF d = "setenv" THEN t.environment \cup {<<a[1], a[2]>>}
                           ELSE t.environment
<1>. HIDE DEF Text, Entry
<1>1. CASE d \in {"file", "file-del", "file-new"}
  BY <1>1 DEF TestTakes, TestType
<1>2. CASE d \in {"args", "description", "features", "precheck"}
  BY <1>2 DEF TestTakes, TestType
<1>3. CASE d \in {"stdin-file", "preload", "program", "return"}
  BY <1>3 DEF TestTakes, TestType
<1>4. CASE d \in {"stderr", "stdin", "stdout"}
  BY <1>4 DEF TestTakes, TestType
<1>5. CASE d \in {"setenv", "stderr-replace"}
  BY <1>5 DEF TestTakes, TestType
<1>. QED
  BY <1>1, <1>2, <1>3, <1>4, <1>5 DEF TestDirectives

LEMMA TestTakesReplace ==
    ASSUME NEW t \in TestType, NEW d \in TestDirectives, NEW a, NEW u, u = TestTakes(t, d, a)
    PROVE  u.error_output_replace = IF d = "stderr-replace"
                                    THEN Append(t.error_output_replace, <<a[1], a[2]>>)
                                    ELSE t.error_output_replace
<1>. HIDE DEF Text, Entry
<1>1. CASE d \in {"file", "file-del", "file-new"}
  BY <1>1 DEF TestTakes, TestType
<1>2. CASE d \in {"args", "description", "features", "precheck"}
  BY <1>2 DEF TestTakes, TestType
<1>3. CASE d \in {"stdin-file", "preload", "program", "return"}
  BY <1>3 DEF TestTakes, TestType
<1>4. CASE d \in {"stderr", "stdin", "stdout"}
  BY <1>4 DEF TestTakes, TestType
<1>5. CASE d \in {"setenv", "stderr-replace"}
  BY <1>5 DEF TestTakes, TestType
<1>. QED
  BY <1>1, <1>2, <1>3, <1>4, <1>5 DEF TestDirectives

LEMMA ConfTakesFields ==
    ASSUME NEW c \in ConfType, NEW d \in ConfDirectives, NEW a, NEW u, u = ConfTakes(c, d, a)
    PROVE  /\ u.default_program = IF d = "default-program" THEN a[1] ELSE c.default_program
           /\ u.keep_sandbox = IF d = "keep-sandbox" THEN a[1] ELSE c.keep_sandbox
           /\ u.print_results = IF d = "print-results" THEN a[1] ELSE c.print_results
<1>. HIDE DEF Text
<1>1. CASE d = "file-compare"
  <2>1. ConfTakes(c, d, a) = [c EXCEPT !.file_compare = @ \cup {<<Extensions(a), SubSeq(a, 3, Len(a))>>}]
    BY <1>1 DEF ConfTakes
  <2>. QED
    BY <1>1, <2>1 DEF ConfType
<1>2. CASE d # "file-compare"
  BY <1>2 DEF ConfTakes, ConfType, ConfDirectives
<1>. QED
  BY <1>1, <1>2

LEMMA ConfTakesCompares ==
    ASSUME NEW c \in ConfType, NEW d \in ConfDirectives, NEW a
    PROVE  ConfTakes(c, d, a).file_compare =
              IF d = "file-compare"
              THEN c.file_compare \cup {<<Extensions(a), SubSeq(a, 3, Len(a))>>}
              ELSE c.file_compare
<1>. HIDE DEF Text
<1>1. CASE d = "file-compare"
  <2>1. ConfTakes(c, d, a) = [c EXCEPT !.file_compare = @ \cup {<<Extensions(a), SubSeq(a, 3, Len(a))>>}]
    BY <1>1 DEF ConfTakes
  <2>. QED
    BY <1>1, <2>1 DEF ConfType
<1>2. CASE d # "file-compare"
  BY <1>2 DEF ConfTakes, ConfType, ConfDirectives
<1>. QED
  BY <1>1, <1>2

LEMMA StdinAccepted ==
    ASSUME case \in CaseType, NEW n \in Nat
    PROVE  /\ \A j \in 1..Whole("test") : LinesOf("test")[j].name = "stdin" =>
                 Numbered("test", j) /\ ~Again("test", j)
           /\ InputBefore(n) <=> Accepted("test", n + 1, {"stdin"}) # {}
<1>1. \A j \in 1..Whole("test") : LinesOf("test")[j].name = "stdin" =>
         Numbered("test", j) /\ ~Again("test", j)
  <2>1. \A j \in 1..Whole("test") : LinesOf("test")[j].name = "stdin" =>
           Len(Arguments("test", j)) = 1
    BY DEF Arguments, WholeLine
  <2>2. 1 \in Takes("stdin")
    BY TakesIs
  <2>. QED
    BY <2>1, <2>2 DEF Numbered, Again, Repeatable
<1>2. \A j : j \in Where("test", {"stdin"}) \cap 1..n <=> j \in Accepted("test", n + 1, {"stdin"})
  <2>1. \A j : j \in Accepted("test", n + 1, {"stdin"}) <=>
                  /\ j \in 1..Len(LinesOf("test")) /\ j < n + 1
                  /\ LinesOf("test")[j].name \in {"stdin"}
                  /\ Numbered("test", j) /\ ~Again("test", j)
    BY AcceptedIs DEF FileNames
  <2>2. Len(LinesOf("test")) \in Nat
    BY LinesAre DEF FileNames
  <2>. QED
    BY <1>1, <2>1, <2>2 DEF Where, Whole
<1>. QED
  BY <1>1, <1>2 DEF InputBefore

\* The lines accepted after one more line.
LEMMA AcceptedNext ==
    ASSUME case \in CaseType, NEW f \in FileNames, NEW k \in 1..Whole(f), NEW names, NEW j
    PROVE  j \in Accepted(f, k + 1, names) <=>
              \/ j \in Accepted(f, k, names)
              \/ j = k /\ LinesOf(f)[k].name \in names /\ Numbered(f, k) /\ ~Again(f, k)
<1>1. Len(LinesOf(f)) \in Nat /\ k \in Nat
  BY LinesAre DEF Whole
<1>2. j \in Accepted(f, k, names) <=>
              /\ j \in 1..Len(LinesOf(f)) /\ j < k
              /\ LinesOf(f)[j].name \in names
              /\ Numbered(f, j) /\ ~Again(f, j)
  BY <1>1, AcceptedIs
<1>3. j \in Accepted(f, k + 1, names) <=>
              /\ j \in 1..Len(LinesOf(f)) /\ j < k + 1
              /\ LinesOf(f)[j].name \in names
              /\ Numbered(f, j) /\ ~Again(f, j)
  BY <1>1, AcceptedIs
<1>4. j \in 1..Len(LinesOf(f)) => (j < k + 1 <=> j < k \/ j = k)
  BY <1>1
<1>. QED
  BY <1>2, <1>3, <1>4 DEF Whole

LEMMA LineClashes ==
    ASSUME Shape, SeenAreRead, ClashesKnown, ReadsLine
    PROVE  ClashesKnown'
<1>. DEFINE k == line_no + 1
            d == line.name
            a == Arguments(reading, k)
<1>. SUFFICES ASSUME outcome' # "aborted"
              PROVE  /\ EnvironmentRead(LinesRead("test"))'
                     /\ InputRead(LinesRead("test"))'
                     /\ ComparesRead(LinesRead("conf"))'
  BY DEF ClashesKnown
<1>1. /\ outcome = "running" /\ open /\ case[reading].exists
      /\ reading \in FileNames /\ case \in CaseType /\ line_no \in Nat
      /\ k \in 1..Whole(reading) /\ line = LinesOf(reading)[k]
      /\ UNCHANGED <<case, reading, open>>
      /\ outcome' = "running"
      /\ test' = IF reading = "test" /\ Accepts(reading, k)
                 THEN TestTakes(test, d, a) ELSE test
      /\ configuration' = IF reading = "conf" /\ Accepts(reading, k)
                          THEN ConfTakes(configuration, d, a)
                          ELSE configuration
  BY ReadsLineIs, Zenon
<1>2. /\ \A f, names : Where(f, names)' = Where(f, names)
      /\ \A f, j : Arguments(f, j)' = Arguments(f, j)
      /\ \A f, j, names : Accepted(f, j, names)' = Accepted(f, j, names)
  BY <1>1, SameFiles
<1>3. LinesRead(reading) = line_no
  BY <1>1 DEF LinesRead
<1>4. \A f \in FileNames : LinesRead(f)' = IF f = reading THEN k ELSE LinesRead(f)
  BY LineCounts
<1>5. test \in TestType /\ configuration \in ConfType
  BY DEF Shape, ParserTypeOK
<1>6. \A names, j : j \in Accepted(reading, k + 1, names) <=>
         \/ j \in Accepted(reading, k, names)
         \/ j = k /\ d \in names /\ Numbered(reading, k) /\ ~Again(reading, k)
  BY <1>1, AcceptedNext
<1>7. Accepts(reading, k) <=>
         d \in Known(reading) /\ ~Again(reading, k) /\ Numbered(reading, k) /\ ~Clashes(reading, k)
  BY <1>1 DEF Accepts
<1>8. /\ EnvironmentRead(LinesRead("test")) /\ InputRead(LinesRead("test"))
      /\ ComparesRead(LinesRead("conf"))
  BY <1>1 DEF ClashesKnown
<1>11. reading = "conf" =>
          configuration'.file_compare =
             IF Accepts(reading, k) /\ d = "file-compare"
             THEN configuration.file_compare \cup {<<Extensions(a), SubSeq(a, 3, Len(a))>>}
             ELSE configuration.file_compare
  <2>. HIDE DEF a, d, k
  <2>1. Accepts(reading, k) /\ reading = "conf" => d \in ConfDirectives
    BY <1>7 DEF Known
  <2>. QED
    <3>1. CASE Accepts(reading, k) /\ reading = "conf"
      <4>1. configuration \in ConfType /\ d \in ConfDirectives
            /\ configuration' = ConfTakes(configuration, d, a)
        BY <1>1, <1>5, <2>1, <3>1
      <4>2. ConfTakes(configuration, d, a).file_compare =
               IF d = "file-compare"
               THEN configuration.file_compare \cup {<<Extensions(a), SubSeq(a, 3, Len(a))>>}
               ELSE configuration.file_compare
        BY ONLY <4>1, ConfTakesCompares
      <4>. QED
        BY <3>1, <4>1, <4>2
    <3>2. CASE ~(Accepts(reading, k) /\ reading = "conf")
      <4>1. reading = "conf" => configuration' = configuration
        BY <1>1, <3>2
      <4>. QED
        BY <3>2, <4>1
    <3>. QED
      BY <3>1, <3>2
<1>12. reading = "test" =>
          /\ test'.environment = IF Accepts(reading, k) /\ d = "setenv"
                                 THEN test.environment \cup {<<a[1], a[2]>>} ELSE test.environment
          /\ test'.input_file = IF Accepts(reading, k) /\ d = "stdin-file" THEN a[1] ELSE test.input_file
          /\ test'.input = IF Accepts(reading, k) /\ d = "stdin" THEN Append(test.input, a[1])
                           ELSE test.input
  <2>. HIDE DEF a, d, k
  <2>1. Accepts(reading, k) /\ reading = "test" => d \in TestDirectives
    BY <1>7, Zenon DEF Known
  <2>2. CASE Accepts(reading, k) /\ reading = "test"
    <3>1. test \in TestType /\ d \in TestDirectives /\ test' = TestTakes(test, d, a)
      BY <1>1, <1>5, <2>1, <2>2
    <3>2. /\ test'.input_file = IF d = "stdin-file" THEN a[1] ELSE test.input_file
          /\ test'.input = IF d = "stdin" THEN Append(test.input, a[1]) ELSE test.input
      BY <3>1, TestTakesFields
    <3>3. test'.environment = IF d = "setenv" THEN test.environment \cup {<<a[1], a[2]>>}
                              ELSE test.environment
      BY ONLY <3>1, TestTakesEnvironment
    <3>. QED
      BY <2>2, <3>2, <3>3
  <2>3. CASE ~(Accepts(reading, k) /\ reading = "test")
    BY <1>1, <2>3
  <2>. QED
    BY <2>2, <2>3
<1>9. CASE reading = "conf"
  <2>1. test' = test /\ LinesRead("test")' = LinesRead("test") /\ LinesRead("conf")' = k
    BY <1>1, <1>4, <1>9 DEF FileNames
  <2>2. EnvironmentRead(LinesRead("test"))'
    BY <1>2, <1>8, <2>1 DEF EnvironmentRead
  <2>3. \A n : InputBefore(n)' <=> InputBefore(n)
    BY <1>2 DEF InputBefore
  <2>4. InputRead(LinesRead("test"))'
    BY <1>2, <1>8, <2>1, <2>3 DEF InputRead
  <2>5. ASSUME NEW x
        PROVE  (\E c \in configuration'.file_compare : c[1] = x) <=>
                  \E j \in Accepted("conf", k + 1, {"file-compare"}) : Extensions(Arguments("conf", j)) = x
    <3>1. (\E c \in configuration.file_compare : c[1] = x) <=>
             \E j \in Accepted("conf", k, {"file-compare"}) : Extensions(Arguments("conf", j)) = x
      BY <1>3, <1>8, <1>9 DEF ComparesRead
    <3>2. CASE d = "file-compare" /\ Numbered("conf", k) /\ ~Again("conf", k)
      <4>1. d \in Known("conf")
        BY <3>2 DEF Known, ConfDirectives
      <4>2. Clashes("conf", k) <=>
               \E j \in Accepted("conf", k, {"file-compare"}) :
                  Extensions(Arguments("conf", j)) = Extensions(Arguments("conf", k))
        BY <1>1, <1>9, <3>2 DEF Clashes
      <4>3. (\E j \in Accepted("conf", k + 1, {"file-compare"}) : Extensions(Arguments("conf", j)) = x) <=>
               \/ \E j \in Accepted("conf", k, {"file-compare"}) : Extensions(Arguments("conf", j)) = x
               \/ Extensions(a) = x
        BY <1>6, <1>9, <3>2
      <4>4. CASE Clashes("conf", k)
        BY <1>1, <1>7, <1>9, <3>1, <4>2, <4>3, <4>4
      <4>5. CASE ~Clashes("conf", k)
        <5>1. configuration'.file_compare =
                 configuration.file_compare \cup {<<Extensions(a), SubSeq(a, 3, Len(a))>>}
          BY <1>1, <1>5, <1>7, <1>9, <3>2, <4>1, <4>5, <1>11
        <5>2. \A c : c \in configuration'.file_compare <=>
                 c \in configuration.file_compare \/ c = <<Extensions(a), SubSeq(a, 3, Len(a))>>
          BY <5>1
        <5>3. <<Extensions(a), SubSeq(a, 3, Len(a))>>[1] = Extensions(a)
          OBVIOUS
        <5>. QED
          BY <3>1, <4>3, <5>2, <5>3, Zenon
      <4>. QED
        BY <4>4, <4>5
    <3>3. CASE ~(d = "file-compare" /\ Numbered("conf", k) /\ ~Again("conf", k))
      <4>1. configuration'.file_compare = configuration.file_compare
        BY <1>1, <1>5, <1>7, <1>9, <3>3, <1>11
      <4>2. \A j : j \in Accepted("conf", k + 1, {"file-compare"}) <=>
                      j \in Accepted("conf", k, {"file-compare"})
        BY <1>6, <1>9, <3>3
      <4>. QED
        BY <3>1, <4>1, <4>2
    <3>. QED
      BY <3>2, <3>3
  <2>6. ComparesRead(LinesRead("conf"))'
    BY <1>2, <2>1, <2>5 DEF ComparesRead
  <2>. QED
    BY <2>2, <2>4, <2>6
<1>10. CASE reading = "test"
  <2>1. /\ configuration' = configuration
        /\ LinesRead("conf")' = LinesRead("conf") /\ LinesRead("test")' = k
    BY <1>1, <1>4, <1>10 DEF FileNames
  <2>2. ComparesRead(LinesRead("conf"))'
    BY <1>2, <1>8, <2>1 DEF ComparesRead
  <2>3. ASSUME NEW x
        PROVE  (\E e \in test'.environment : e[1] = x) <=>
                  \E j \in Accepted("test", k + 1, {"setenv"}) : Arguments("test", j)[1] = x
    <3>1. (\E e \in test.environment : e[1] = x) <=>
             \E j \in Accepted("test", k, {"setenv"}) : Arguments("test", j)[1] = x
      BY <1>3, <1>8, <1>10 DEF EnvironmentRead
    <3>2. CASE d = "setenv" /\ Numbered("test", k) /\ ~Again("test", k)
      <4>1. d \in Known("test")
        BY <3>2 DEF Known, TestDirectives
      <4>2. Clashes("test", k) <=>
               \E j \in Accepted("test", k, {"setenv"}) :
                  Arguments("test", j)[1] = Arguments("test", k)[1]
        BY <1>1, <1>10, <3>2 DEF Clashes
      <4>3. (\E j \in Accepted("test", k + 1, {"setenv"}) : Arguments("test", j)[1] = x) <=>
               \/ \E j \in Accepted("test", k, {"setenv"}) : Arguments("test", j)[1] = x
               \/ a[1] = x
        BY <1>6, <1>10, <3>2
      <4>4. CASE Clashes("test", k)
        BY <1>1, <1>7, <1>10, <3>1, <4>2, <4>3, <4>4
      <4>5. CASE ~Clashes("test", k)
        <5>1. test'.environment = test.environment \cup {<<a[1], a[2]>>}
          BY <1>1, <1>5, <1>7, <1>10, <3>2, <4>1, <4>5, <1>12
        <5>2. \A e : e \in test'.environment <=> e \in test.environment \/ e = <<a[1], a[2]>>
          BY <5>1
        <5>3. <<a[1], a[2]>>[1] = a[1]
          OBVIOUS
        <5>. QED
          BY <3>1, <4>3, <5>2, <5>3, Zenon
      <4>. QED
        BY <4>4, <4>5
    <3>3. CASE ~(d = "setenv" /\ Numbered("test", k) /\ ~Again("test", k))
      <4>1. test'.environment = test.environment
        BY <1>1, <1>5, <1>7, <1>10, <3>3, <1>12
      <4>2. \A j : j \in Accepted("test", k + 1, {"setenv"}) <=>
                      j \in Accepted("test", k, {"setenv"})
        BY <1>6, <1>10, <3>3
      <4>. QED
        BY <3>1, <4>1, <4>2
    <3>. QED
      BY <3>2, <3>3
  <2>4. EnvironmentRead(LinesRead("test"))'
    BY <1>2, <2>1, <2>3 DEF EnvironmentRead
  <2>. DEFINE P(j) == Arguments("test", j)[1] # <<>> /\ ~InputBefore(j - 1)
  <2>5. /\ test.input_file # <<>> <=> \E j \in Accepted("test", k, {"stdin-file"}) : P(j)
        /\ test.input_file = <<>> => (test.input # <<>> <=> InputBefore(line_no))
    BY <1>3, <1>8, <1>10 DEF InputRead
  <2>6. InputBefore(k) <=> InputBefore(line_no) \/ d = "stdin"
    <3>1. \A j : j \in 1..k <=> j \in 1..line_no \/ j = k
      BY <1>1
    <3>2. k \in Where("test", {"stdin"}) <=> d = "stdin"
      BY <1>1, <1>10 DEF Where, Whole
    <3>. QED
      BY <3>1, <3>2 DEF InputBefore
  <2>7. /\ test'.input_file # <<>> <=> \E j \in Accepted("test", k + 1, {"stdin-file"}) : P(j)
        /\ test'.input_file = <<>> => (test'.input # <<>> <=> InputBefore(k))
    <3>1. CASE d = "stdin-file" /\ Numbered("test", k) /\ ~Again("test", k)
      <4>1. d \in Known("test")
        BY <3>1 DEF Known, TestDirectives
      <4>2. Clashes("test", k) <=> InputBefore(line_no)
        <5>1. Clashes("test", k) <=> Accepted("test", k, {"stdin"}) # {}
          BY <1>1, <1>10, <3>1 DEF Clashes
        <5>. QED
          BY <1>1, <5>1, StdinAccepted
      <4>3. Accepted("test", k, {"stdin-file"}) = {}
        <5>1. \A j \in 1..(k - 1) : LinesOf("test")[j].name # "stdin-file"
          BY <1>1, <1>10, <3>1 DEF Again, Repeatable
        <5>2. \A j : j \in Accepted("test", k, {"stdin-file"}) =>
                        j \in 1..Len(LinesOf("test")) /\ j < k /\ LinesOf("test")[j].name = "stdin-file"
          BY <1>1, <1>10, AcceptedIs
        <5>. QED
          BY <1>1, <5>1, <5>2
      <4>4. (\E j \in Accepted("test", k + 1, {"stdin-file"}) : P(j)) <=> P(k)
        BY <1>6, <1>10, <3>1, <4>3
      <4>5. P(k) <=> a[1] # <<>> /\ ~InputBefore(line_no)
        <5>1. k - 1 = line_no
          BY <1>1
        <5>. QED
          BY <1>10, <5>1
      <4>6. test.input_file = <<>>
        BY <2>5, <4>3
      <4>. HIDE DEF P
      <4>7. CASE Clashes("test", k)
        <5>1. test' = test
          BY <1>1, <1>7, <1>10, <4>7
        <5>. QED
          BY <2>5, <2>6, <4>2, <4>4, <4>5, <4>6, <4>7, <5>1
      <4>8. CASE ~Clashes("test", k)
        <5>1. test'.input_file = a[1] /\ test'.input = test.input
          BY <1>1, <1>5, <1>7, <1>10, <3>1, <4>1, <4>8, <1>12
        <5>. QED
          BY <2>5, <2>6, <3>1, <4>2, <4>4, <4>5, <4>6, <4>8, <5>1
      <4>. QED
        BY <4>7, <4>8
    <3>2. CASE ~(d = "stdin-file" /\ Numbered("test", k) /\ ~Again("test", k))
      <4>1. test'.input_file = test.input_file
        BY <1>1, <1>5, <1>7, <1>10, <3>2, <1>12
      <4>2. \A j : j \in Accepted("test", k + 1, {"stdin-file"}) <=>
                      j \in Accepted("test", k, {"stdin-file"})
        BY <1>6, <1>10, <3>2
      <4>3. test'.input_file # <<>> <=> \E j \in Accepted("test", k + 1, {"stdin-file"}) : P(j)
        BY <2>5, <4>1, <4>2
      <4>4. ASSUME test'.input_file = <<>>
            PROVE  test'.input # <<>> <=> InputBefore(k)
        <5>1. CASE d = "stdin"
          <6>1. Numbered("test", k) /\ ~Again("test", k)
            BY <1>1, <1>10, <5>1, StdinAccepted
          <6>2. Clashes("test", k) <=> \E j \in Accepted("test", k, {"stdin-file"}) : P(j)
            BY <1>1, <1>10, <5>1, Zenon DEF Clashes, InputBefore
          <6>3. Accepts("test", k) /\ d \in TestDirectives
            BY <1>7, <1>10, <2>5, <4>1, <4>4, <5>1, <6>1, <6>2 DEF Known, TestDirectives
          <6>4. test'.input = Append(test.input, a[1])
            BY <1>1, <1>5, <1>10, <5>1, <6>3, <1>12
          <6>5. test.input \in Seq(Text)
            BY <1>5 DEF TestType
          <6>6. test'.input # <<>>
            BY <6>4, <6>5
          <6>. QED
            BY <2>6, <5>1, <6>6
        <5>2. CASE d # "stdin"
          <6>1. test'.input = test.input
            BY <1>1, <1>5, <1>7, <1>10, <5>2, <1>12
          <6>. QED
            BY <2>5, <2>6, <4>1, <4>4, <5>2, <6>1
        <5>. QED
          BY <5>1, <5>2
      <4>. QED
        BY <4>3, <4>4
    <3>. QED
      BY <3>1, <3>2
  <2>8. \A n : InputBefore(n)' <=> InputBefore(n)
    BY <1>2 DEF InputBefore
  <2>9. InputRead(LinesRead("test"))'
    BY <1>2, <2>1, <2>7, <2>8 DEF InputRead
  <2>. QED
    BY <2>2, <2>4, <2>9
<1>. QED
  BY <1>1, <1>9, <1>10 DEF FileNames

\* Steps that read no line.
LEMMA ClashesStay ==
    ASSUME case' = case, ClashesKnown, outcome # "aborted",
           \A f \in FileNames : LinesRead(f)' = LinesRead(f),
           test'.environment = test.environment,
           test'.input_file = test.input_file, test'.input = test.input,
           configuration'.file_compare = configuration.file_compare
    PROVE  ClashesKnown'
<1>1. /\ \A f, names : Where(f, names)' = Where(f, names)
      /\ \A f, j : Arguments(f, j)' = Arguments(f, j)
      /\ \A f, j, names : Accepted(f, j, names)' = Accepted(f, j, names)
  BY SameFiles
<1>2. LinesRead("test")' = LinesRead("test") /\ LinesRead("conf")' = LinesRead("conf")
  BY DEF FileNames
<1>3. \A n : InputBefore(n)' <=> InputBefore(n)
  BY <1>1 DEF InputBefore
<1>4. EnvironmentRead(LinesRead("test"))'
  BY <1>1, <1>2 DEF ClashesKnown, EnvironmentRead
<1>5. InputRead(LinesRead("test"))'
  BY <1>1, <1>2, <1>3 DEF ClashesKnown, InputRead
<1>6. ComparesRead(LinesRead("conf"))'
  BY <1>1, <1>2 DEF ClashesKnown, ComparesRead
<1>. QED
  BY <1>4, <1>5, <1>6 DEF ClashesKnown

LEMMA ToldStay ==
    ASSUME case' = case, FaultsTold, messages' = messages, outcome # "refused",
           outcome' # "refused" \/ ~open',
           \A f \in FileNames : LinesRead(f)' = LinesRead(f)
    PROVE  FaultsTold'
<1>1. \A f, k : Faults(f, k)' = Faults(f, k)
  BY SameFiles
<1>2. \A f, k, e : ~Missing(f, k, e) /\ ~Missing(f, k, e)'
  BY DEF Missing
<1>. QED
  BY <1>1, <1>2 DEF FaultsTold

LEMMA FaultlessStays ==
    ASSUME case' = case
    PROVE  /\ \A f, n : Faultless(f, n)' <=> Faultless(f, n)
           /\ \A f : Whole(f)' = Whole(f)
           /\ Faultless("conf", Whole("conf"))' <=> Faultless("conf", Whole("conf"))
           /\ Faultless("test", Whole("test"))' <=> Faultless("test", Whole("test"))
<1>1. \A f, k : Faults(f, k)' = Faults(f, k)
  BY SameFiles
<1>2. \A f : LinesOf(f)' = LinesOf(f)
  BY SameFiles
<1>3. \A f : Whole(f)' = Whole(f)
  BY <1>2 DEF Whole
<1>. QED
  BY <1>1, <1>3 DEF Faultless

LEMMA OpenFileKeeps ==
    ASSUME Inv, OpenFile, UNCHANGED <<files, stage, optionVars>>,
           stage = "test" \/ (stage = "configuration" /\ reading = "conf")
    PROVE  Inv'
<1>1. /\ outcome = "running" /\ ~open /\ case[reading].exists
      /\ open' /\ line_no' = 0 /\ ok' = TRUE /\ seen' = {}
      /\ UNCHANGED <<case, reading, messages, configuration, test, outcome>>
  BY DEF OpenFile
<1>2. reading \in FileNames /\ case \in CaseType
  BY DEF Inv, Shape, ParserTypeOK, FileNames
<1>3. \A f : LinesOf(f)' = LinesOf(f)
  BY <1>1, SameFiles
<1>4. \A f \in FileNames : LinesRead(f)' = LinesRead(f)
  BY <1>1, <1>3 DEF LinesRead
<1>5. Shape'
  <2>1. lines \in Seq(Line)
    BY <1>1, <1>2, LinesAre DEF lines
  <2>2. 0 <= Len(lines) /\ lines' = lines
    BY <1>1, <2>1 DEF lines
  <2>3. ParserTypeOK'
    BY <1>1, <2>2 DEF Inv, Shape, ParserTypeOK
  <2>4. Settings'
    BY DEF Inv, Shape, Settings, optionVars, ownVars
  <2>. QED
    BY <1>1, <2>3, <2>4 DEF Inv, Shape
<1>6. SeenAreRead'
  BY <1>1 DEF SeenAreRead
<1>7. FaultsTold'
  BY <1>1, <1>4, ToldStay DEF Inv
<1>8. FaultsCount'
  <2>1. Faultless(reading, line_no)'
    BY <1>1 DEF Faultless
  <2>. QED
    BY <1>1, <2>1, FaultlessStays DEF Inv, FaultsCount
<1>9. ClashesKnown'
  BY <1>1, <1>4, ClashesStay DEF Inv
<1>. QED
  BY <1>5, <1>6, <1>7, <1>8, <1>9 DEF Inv

LEMMA CannotOpenKeeps ==
    ASSUME Inv, CannotOpen, UNCHANGED <<files, stage, optionVars>>,
           stage = "test" \/ (stage = "configuration" /\ reading = "conf")
    PROVE  Inv'
<1>1. /\ outcome = "running" /\ ~open /\ ~case[reading].exists
      /\ UNCHANGED <<case, open, line_no, ok, seen, messages, configuration, test>>
      /\ reading = "conf" => reading' = "test" /\ outcome' = "running"
      /\ reading = "test" => reading' = "test" /\ outcome' = "refused"
  BY DEF CannotOpen
<1>2. reading \in FileNames /\ case \in CaseType
  BY DEF Inv, Shape, ParserTypeOK, FileNames
<1>3. \A f : LinesOf(f)' = LinesOf(f)
  BY <1>1, SameFiles
<1>4. LinesOf(reading) = <<>> /\ Whole(reading) = 0
  BY <1>1 DEF LinesOf, Whole
<1>5. \A f \in FileNames : LinesRead(f)' = LinesRead(f)
  BY <1>1, <1>2, <1>3, <1>4 DEF LinesRead, FileNames, Whole
<1>6. Shape'
  <2>1. ParserTypeOK'
    BY <1>1, <1>2 DEF Inv, Shape, ParserTypeOK, FileNames
  <2>2. Settings'
    BY DEF Inv, Shape, Settings, optionVars, ownVars
  <2>. QED
    BY <1>1, <1>2, <2>1, <2>2 DEF Inv, Shape, FileNames
<1>7. SeenAreRead'
  BY <1>1, <1>2 DEF SeenAreRead, FileNames
<1>8. FaultsTold'
  BY <1>1, <1>5, ToldStay DEF Inv
<1>9. FaultsCount'
  <2>1. reading = "conf" => Faultless("conf", Whole("conf"))
    BY <1>4 DEF Faultless
  <2>. QED
    BY <1>1, <1>2, <2>1, FaultlessStays DEF Inv, FaultsCount, FileNames
<1>10. ClashesKnown'
  BY <1>1, <1>5, ClashesStay DEF Inv
<1>. QED
  BY <1>6, <1>7, <1>8, <1>9, <1>10 DEF Inv

\* What every file must have.
LEMMA LackingIs ==
    ASSUME Inv, open
    PROVE  /\ lines = LinesOf(reading)
           /\ reading = "conf" => Lacking = {}
           /\ reading = "test" => Lacking = {"return"} \ seen
           /\ reading = "test" /\ line_no = Len(lines) =>
                 ("return" \in seen <=> Where("test", {"return"}) # {})
<1>1. reading \in FileNames /\ case \in CaseType /\ case[reading].exists
  BY DEF Inv, Shape, ParserTypeOK, FileNames
<1>2. lines = LinesOf(reading)
  BY <1>1, LinesAre DEF lines
<1>3. Table = TableOf(reading) /\ DOMAIN Table = Known(reading)
  BY <1>1, TableAsSaid DEF Table, TableOf
<1>4. \A d \in Known(reading) : Table[d].required <=> d = "return"
  BY <1>1, <1>3, TableAsSaid DEF DirectiveAsSaid
<1>5. "return" \in Known("test") /\ "return" \notin Known("conf")
  BY DEF Known, TestDirectives, ConfDirectives
<1>6. Lacking = {d \in Known(reading) : d = "return" /\ d \notin seen}
  BY <1>3, <1>4 DEF Lacking
<1>7. reading = "test" /\ line_no = Len(lines) =>
                 ("return" \in seen <=> Where("test", {"return"}) # {})
  BY <1>2, <1>5 DEF Inv, SeenAreRead, Where
<1>. QED
  BY <1>2, <1>5, <1>6, <1>7

LEMMA RefuseFileKeeps ==
    ASSUME Inv, RefuseFile, UNCHANGED <<files, stage, optionVars>>
    PROVE  Inv'
<1>1. /\ outcome = "running" /\ open /\ line_no = Len(lines)
      /\ ~ok \/ Lacking # {}
      /\ messages' = messages \cup {<<reading, line_no, "required">> : d \in Lacking}
      /\ ok' = FALSE /\ outcome' = "refused"
      /\ UNCHANGED <<case, reading, open, line_no, seen, configuration, test>>
  BY DEF RefuseFile, EndOfFile
<1>2. reading \in FileNames /\ case \in CaseType /\ line_no \in Nat
  BY DEF Inv, Shape, ParserTypeOK, FileNames
<1>3. \A f : LinesOf(f)' = LinesOf(f)
  BY <1>1, SameFiles
<1>4. \A f \in FileNames : LinesRead(f)' = LinesRead(f)
  BY <1>1, <1>3 DEF LinesRead
<1>5. /\ lines = LinesOf(reading)
      /\ reading = "conf" => Lacking = {}
      /\ reading = "test" => Lacking = {"return"} \ seen
      /\ reading = "test" => ("return" \in seen <=> Where("test", {"return"}) # {})
  BY <1>1, LackingIs
<1>6. Shape'
  <2>1. lines' = lines
    BY <1>1 DEF lines
  <2>2. <<reading, line_no, "required">> \in {"conf", "test"} \X Nat \X Error
    BY <1>2 DEF FileNames, Error
  <2>3. messages' \subseteq {"conf", "test"} \X Nat \X Error
    BY <1>1, <2>2 DEF Inv, Shape, ParserTypeOK
  <2>4. ParserTypeOK'
    BY <1>1, <2>1, <2>3 DEF Inv, Shape, ParserTypeOK
  <2>5. Settings'
    BY DEF Inv, Shape, Settings, optionVars, ownVars
  <2>. QED
    BY <1>1, <2>1, <2>4, <2>5 DEF Inv, Shape
<1>7. SeenAreRead'
  <2>1. \A f : Known(f)' = Known(f)
    BY DEF Known
  <2>. QED
    BY <1>1, <1>3, <2>1 DEF Inv, SeenAreRead
<1>8. FaultsTold'
  <2>1. \A f, k : Faults(f, k)' = Faults(f, k)
    BY <1>1, SameFiles
  <2>2. Where("test", {"return"})' = Where("test", {"return"}) /\ Whole("test")' = Whole("test")
    BY <1>1, SameFiles DEF Whole
  <2>3. ASSUME NEW f \in FileNames, NEW k \in Nat, NEW e \in Error
        PROVE  <<f, k, e>> \in messages' <=>
                  (k \in 1..LinesRead(f) /\ e \in Faults(f, k)) \/ Missing(f, k, e)'
    <3>1. <<f, k, e>> \in messages <=> k \in 1..LinesRead(f) /\ e \in Faults(f, k)
      BY <1>1 DEF Inv, FaultsTold, Missing
    <3>2. <<f, k, e>> \in messages' <=>
             \/ <<f, k, e>> \in messages
             \/ f = reading /\ k = line_no /\ e = "required" /\ Lacking # {}
      BY <1>1
    <3>3. Lacking # {} <=> reading = "test" /\ Where("test", {"return"}) = {}
      BY <1>2, <1>5 DEF FileNames
    <3>4. Missing(f, k, e)' <=>
             /\ f = "test" /\ reading = "test" /\ e = "required"
             /\ k = Whole("test") /\ Where("test", {"return"}) = {}
      BY <1>1, <2>2 DEF Missing
    <3>5. reading = "test" => line_no = Whole("test")
      BY <1>1, <1>5 DEF Whole
    <3>. QED
      BY <3>1, <3>2, <3>3, <3>4, <3>5
  <2>. QED
    BY <1>4, <2>1, <2>3 DEF FaultsTold
<1>9. FaultsCount'
  <2>1. reading = "conf" => ~Faultless("conf", Whole("conf"))
    BY <1>1, <1>5 DEF Inv, FaultsCount, Whole
  <2>. QED
    BY <1>1, <2>1, FaultlessStays DEF Inv, FaultsCount
<1>10. ClashesKnown'
  BY <1>1, <1>4, ClashesStay DEF Inv
<1>. QED
  BY <1>6, <1>7, <1>8, <1>9, <1>10 DEF Inv

LEMMA ConfigurationReadKeeps ==
    ASSUME Inv, ConfigurationRead, UNCHANGED <<files, stage, optionVars>>,
           stage = "test" \/ (stage = "configuration" /\ reading = "conf")
    PROVE  Inv'
<1>1. /\ outcome = "running" /\ open /\ line_no = Len(lines) /\ ok /\ reading = "conf"
      /\ reading' = "test" /\ open' = FALSE
      /\ UNCHANGED <<case, line_no, ok, seen, messages, configuration, test, outcome>>
  BY DEF ConfigurationRead, EndOfFile
<1>2. case \in CaseType /\ line_no \in Nat
  BY DEF Inv, Shape, ParserTypeOK
<1>3. \A f : LinesOf(f)' = LinesOf(f)
  BY <1>1, SameFiles
<1>4. lines = LinesOf(reading) /\ line_no = Whole("conf")
  BY <1>1, LackingIs DEF Whole
<1>5. \A f \in FileNames : LinesRead(f)' = LinesRead(f)
  BY <1>1, <1>3, <1>4 DEF LinesRead, Whole, FileNames
<1>6. Shape'
  <2>1. ParserTypeOK'
    BY <1>1 DEF Inv, Shape, ParserTypeOK
  <2>2. Settings'
    BY DEF Inv, Shape, Settings, optionVars, ownVars
  <2>3. stage = "configuration"
    BY <1>1 DEF Inv, Shape
  <2>. QED
    BY <1>1, <2>1, <2>2, <2>3 DEF Inv, Shape
<1>7. SeenAreRead'
  BY <1>1 DEF SeenAreRead
<1>8. FaultsTold'
  BY <1>1, <1>5, ToldStay DEF Inv
<1>9. FaultsCount'
  <2>1. Faultless("conf", Whole("conf"))
    BY <1>1, <1>4 DEF Inv, FaultsCount
  <2>. QED
    BY <1>1, <2>1, FaultlessStays DEF FaultsCount
<1>10. ClashesKnown'
  BY <1>1, <1>5, ClashesStay DEF Inv
<1>. QED
  BY <1>6, <1>7, <1>8, <1>9, <1>10 DEF Inv

LEMMA TestReadIs ==
    ASSUME Inv, TestRead
    PROVE  /\ outcome = "running" /\ open /\ ok /\ reading = "test" /\ "return" \in seen
           /\ line_no = Len(lines) /\ lines = LinesOf("test") /\ line_no = Whole("test")
           /\ outcome' \in {"loaded", "refused"}
           /\ UNCHANGED <<case, reading, open, line_no, ok, seen, messages, configuration>>
           /\ test' \in TestType
           /\ test'.environment = test.environment
           /\ test'.input_file = test.input_file /\ test'.input = test.input
<1>1. /\ outcome = "running" /\ open /\ line_no = Len(lines) /\ ok /\ Lacking = {}
      /\ reading = "test"
      /\ UNCHANGED <<case, reading, open, line_no, ok, seen, messages, configuration>>
  BY DEF TestRead, EndOfFile
<1>2. "return" \in seen /\ lines = LinesOf("test") /\ line_no = Whole("test")
  BY <1>1, LackingIs DEF Whole
<1>. DEFINE program == IF test.program = <<>> THEN configuration.default_program ELSE test.program
<1>3. \/ outcome' = "refused" /\ UNCHANGED test
      \/ /\ outcome' = "loaded"
         /\ \E sorted \in [1..Len(test.files) -> ToSet(test.files)] :
               test' = [test EXCEPT !.program = program, !.files = sorted]
  BY DEF TestRead
<1>4. test \in TestType /\ configuration \in ConfType
  BY DEF Inv, Shape, ParserTypeOK
<1>5. program \in Text
  BY <1>4 DEF TestType, ConfType
<1>6. CASE outcome' = "refused" /\ UNCHANGED test
  BY <1>1, <1>2, <1>4, <1>6
<1>7. CASE outcome' = "loaded" /\ ~UNCHANGED test
  <2>1. PICK sorted \in [1..Len(test.files) -> ToSet(test.files)] :
               test' = [test EXCEPT !.program = program, !.files = sorted]
    BY <1>3, <1>7
  <2>2. test.files \in Seq(Entry) /\ Len(test.files) \in Nat
    BY <1>4 DEF TestType
  <2>3. ToSet(test.files) \subseteq Entry
    BY <2>2 DEF ToSet
  <2>4. sorted \in Seq(Entry)
    <3>1. sorted \in [1..Len(test.files) -> Entry]
      BY <2>1, <2>3
    <3>. QED
      BY <2>2, <3>1
  <2>. HIDE DEF program, Text, Entry
  <2>5. test' \in TestType
    BY <1>4, <1>5, <2>1, <2>4 DEF TestType
  <2>6. /\ test'.environment = test.environment
        /\ test'.input_file = test.input_file /\ test'.input = test.input
    BY <1>4, <2>1 DEF TestType
  <2>. QED
    BY <1>1, <1>2, <1>7, <2>5, <2>6
<1>8. CASE outcome' = "loaded" /\ UNCHANGED test
  BY <1>1, <1>2, <1>4, <1>8
<1>. QED
  BY <1>3, <1>6, <1>7, <1>8

LEMMA TestReadKeeps ==
    ASSUME Inv, TestRead, UNCHANGED <<files, stage, optionVars>>,
           stage = "test" \/ (stage = "configuration" /\ reading = "conf")
    PROVE  Inv'
<1>1. /\ outcome = "running" /\ open /\ ok /\ reading = "test" /\ "return" \in seen
      /\ line_no = Len(lines) /\ lines = LinesOf("test") /\ line_no = Whole("test")
      /\ outcome' \in {"loaded", "refused"}
      /\ UNCHANGED <<case, reading, open, line_no, ok, seen, messages, configuration>>
      /\ test' \in TestType
      /\ test'.environment = test.environment
      /\ test'.input_file = test.input_file /\ test'.input = test.input
  BY TestReadIs
<1>2. \A f : LinesOf(f)' = LinesOf(f)
  BY <1>1, SameFiles
<1>3. \A f \in FileNames : LinesRead(f)' = LinesRead(f)
  BY <1>1, <1>2 DEF LinesRead
<1>4. lines' = lines
  BY <1>1 DEF lines
<1>5. Shape'
  <2>1. ParserTypeOK'
    BY <1>1, <1>4 DEF Inv, Shape, ParserTypeOK
  <2>2. Settings'
    BY DEF Inv, Shape, Settings, optionVars, ownVars
  <2>. QED
    BY <1>1, <1>4, <2>1, <2>2 DEF Inv, Shape
<1>6. SeenAreRead'
  <2>1. \A f : Known(f)' = Known(f)
    BY DEF Known
  <2>. QED
    BY <1>1, <1>2, <2>1 DEF Inv, SeenAreRead
<1>7. FaultsTold'
  <2>1. Where("test", {"return"}) # {}
    BY <1>1, LackingIs DEF Inv
  <2>2. Where("test", {"return"})' = Where("test", {"return"})
    BY <1>1, SameFiles
  <2>3. \A f, k, e : ~Missing(f, k, e) /\ ~Missing(f, k, e)'
    BY <1>1, <2>1, <2>2 DEF Missing
  <2>4. \A f, k : Faults(f, k)' = Faults(f, k)
    BY <1>1, SameFiles
  <2>. QED
    BY <1>1, <1>3, <2>3, <2>4 DEF Inv, FaultsTold
<1>8. FaultsCount'
  <2>1. Faultless("test", Whole("test")) /\ Faultless("conf", Whole("conf"))
    BY <1>1 DEF Inv, FaultsCount
  <2>. QED
    BY <1>1, <2>1, FaultlessStays DEF Inv, FaultsCount
<1>9. ClashesKnown'
  BY <1>1, <1>3, ClashesStay DEF Inv
<1>. QED
  BY <1>5, <1>6, <1>7, <1>8, <1>9 DEF Inv

LEMMA ReadFilesKeeps ==
    ASSUME Inv, ReadFiles
    PROVE  Inv'
<1>1. /\ stage = "test" \/ (stage = "configuration" /\ reading = "conf")
      /\ ParserNext
      /\ UNCHANGED <<files, stage, optionVars>>
  BY DEF ReadFiles
<1>2. ASSUME ReadsLine
      PROVE  Inv'
  BY <1>1, <1>2, LineShape, LineSeen, LineTold, LineFaults, LineClashes DEF Inv
<1>. QED
  BY <1>1, <1>2, OpenFileKeeps, CannotOpenKeeps, RefuseFileKeeps, ConfigurationReadKeeps, TestReadKeeps
     DEF ParserNext, ReadsLine

LEMMA ChooseFilesKeeps ==
    ASSUME Inv, ChooseFiles
    PROVE  Inv'
<1>1. /\ stage = "options" /\ stage' = "configuration"
      /\ case' = [case EXCEPT !.conf = Named(configuration_file), !.test = Named(TestFile(argv[optind]))]
      /\ UNCHANGED <<reading, open, line_no, ok, seen, messages, configuration, test, outcome,
                     optionVars, files>>
  BY DEF ChooseFiles
<1>2. reading = "conf" /\ ~open /\ outcome = "running"
  BY <1>1 DEF Inv, Shape
<1>3. \A name : Named(name) \in File
  <2>. TAKE name
  <2>1. NoFile \in File
    BY DEF NoFile, File
  <2>. DEFINE named == {f \in files : f.name = name}
  <2>2. CASE named # {}
    <3>1. (CHOOSE f \in named : TRUE) \in named
      BY <2>2
    <3>2. (CHOOSE f \in named : TRUE).lines \in Seq(Line)
      BY <3>1 DEF Inv, Shape
    <3>. QED
      BY <2>2, <3>2 DEF Named, File
  <2>. QED
    BY <2>1, <2>2 DEF Named
<1>4. case' \in CaseType
  BY <1>1, <1>3 DEF Inv, Shape, ParserTypeOK, CaseType
<1>5. Shape'
  <2>1. ParserTypeOK'
    BY <1>1, <1>2, <1>4 DEF Inv, Shape, ParserTypeOK
  <2>2. Settings'
    BY <1>1 DEF Inv, Shape, Settings, optionVars, ownVars
  <2>. QED
    BY <1>1, <1>2, <2>1, <2>2 DEF Inv, Shape
<1>6. /\ LinesRead("conf") = 0 /\ LinesRead("test") = 0
      /\ LinesRead("conf")' = 0 /\ LinesRead("test")' = 0
  BY <1>1, <1>2 DEF LinesRead
<1>7. SeenAreRead'
  BY <1>1, <1>2 DEF SeenAreRead
<1>8. FaultsTold'
  <2>1. \A f, k, e : ~Missing(f, k, e) /\ ~Missing(f, k, e)'
    BY <1>1, <1>2 DEF Missing
  <2>2. \A f \in FileNames : 1..LinesRead(f) = {} /\ (1..LinesRead(f))' = {}
    BY <1>6 DEF FileNames
  <2>3. \A f \in FileNames, k \in Nat, e \in Error : <<f, k, e>> \notin messages'
    BY <1>1, <2>1, <2>2 DEF Inv, FaultsTold
  <2>. QED
    BY <2>1, <2>2, <2>3 DEF FaultsTold
<1>9. FaultsCount'
  BY <1>1, <1>2 DEF FaultsCount
<1>10. ClashesKnown'
  <2>1. /\ \A f, names : Accepted(f, 1, names) = {} /\ Accepted(f, 1, names)' = {}
        /\ ~InputBefore(0) /\ ~InputBefore(0)'
    BY DEF Accepted, InputBefore
  <2>2. EnvironmentRead(0) /\ InputRead(0) /\ ComparesRead(0)
    BY <1>2, <1>6 DEF Inv, ClashesKnown
  <2>3. EnvironmentRead(0)' /\ InputRead(0)' /\ ComparesRead(0)'
    BY <1>1, <2>1, <2>2 DEF EnvironmentRead, InputRead, ComparesRead
  <2>. QED
    BY <1>6, <2>3 DEF ClashesKnown, EnvironmentRead, InputRead, ComparesRead
<1>. QED
  BY <1>5, <1>7, <1>8, <1>9, <1>10 DEF Inv

LEMMA OverrideKeeps ==
    ASSUME Inv, Override
    PROVE  Inv'
<1>1. /\ stage' = "test" /\ reading = "test" /\ outcome = "running"
      /\ configuration' =
            [configuration EXCEPT
                !.keep_sandbox = IF keep_sandbox = "unset" THEN @ ELSE <<keep_sandbox>>,
                !.print_results = IF print_results = "unset" THEN @ ELSE <<print_results>>]
      /\ UNCHANGED <<case, reading, open, line_no, ok, seen, messages, test, outcome,
                     optionVars, files>>
  BY DEF Override
<1>2. configuration \in ConfType
  BY DEF Inv, Shape, ParserTypeOK
<1>3. /\ configuration.keep_sandbox \in When /\ configuration.print_results \in When
      /\ keep_sandbox # "unset" => <<keep_sandbox>> \in When
      /\ print_results # "unset" => <<print_results>> \in When
  BY <1>2 DEF Inv, Shape, Settings, ConfType, When
<1>4. configuration' \in ConfType
  <2>. HIDE DEF Text, When
  <2>. QED
    BY <1>1, <1>2, <1>3 DEF ConfType
<1>5. configuration'.file_compare = configuration.file_compare
  BY <1>1, <1>2 DEF ConfType
<1>6. \A f : LinesOf(f)' = LinesOf(f)
  BY <1>1, SameFiles
<1>7. \A f \in FileNames : LinesRead(f)' = LinesRead(f)
  BY <1>1, <1>6 DEF LinesRead
<1>8. Shape'
  <2>1. lines' = lines
    BY <1>1 DEF lines
  <2>2. ParserTypeOK'
    BY <1>1, <1>4, <2>1 DEF Inv, Shape, ParserTypeOK
  <2>3. Settings'
    BY <1>1 DEF Inv, Shape, Settings, optionVars, ownVars
  <2>. QED
    BY <1>1, <2>1, <2>2, <2>3 DEF Inv, Shape
<1>9. SeenAreRead'
  <2>1. \A f : Known(f)' = Known(f)
    BY DEF Known
  <2>. QED
    BY <1>1, <1>6, <2>1 DEF Inv, SeenAreRead
<1>10. FaultsTold'
  BY <1>1, <1>7, ToldStay DEF Inv
<1>11. FaultsCount'
  <2>1. Faultless(reading, line_no)' <=> Faultless(reading, line_no)
    <3>1. \A f, k : Faults(f, k)' = Faults(f, k)
      BY <1>1, SameFiles
    <3>. QED
      BY <1>1, <3>1 DEF Faultless
  <2>. QED
    BY <1>1, <2>1, FaultlessStays DEF Inv, FaultsCount
<1>12. ClashesKnown'
  BY <1>1, <1>5, <1>7, ClashesStay DEF Inv
<1>. QED
  BY <1>8, <1>9, <1>10, <1>11, <1>12 DEF Inv

LEMMA OptionsKeep ==
    ASSUME Inv, UNCHANGED <<parserVars, files, stage>>, Settings'
    PROVE  Inv'
<1>1. UNCHANGED <<case, reading, open, line_no, ok, seen, messages, configuration, test, outcome,
                  files, stage>>
  BY DEF parserVars
<1>2. \A f : LinesOf(f)' = LinesOf(f)
  BY <1>1, SameFiles
<1>3. \A f \in FileNames : LinesRead(f)' = LinesRead(f)
  BY <1>1, <1>2 DEF LinesRead
<1>4. Shape'
  <2>1. lines' = lines
    BY <1>1 DEF lines
  <2>2. ParserTypeOK'
    BY <1>1, <2>1 DEF Inv, Shape, ParserTypeOK
  <2>. QED
    BY <1>1, <2>1, <2>2 DEF Inv, Shape
<1>5. SeenAreRead'
  <2>1. \A f : Known(f)' = Known(f)
    BY DEF Known
  <2>. QED
    BY <1>1, <1>2, <2>1 DEF Inv, SeenAreRead
<1>6. FaultsTold'
  <2>1. \A f, k : Faults(f, k)' = Faults(f, k)
    BY <1>1, SameFiles
  <2>2. Where("test", {"return"})' = Where("test", {"return"}) /\ Whole("test")' = Whole("test")
    BY <1>1, SameFiles DEF Whole
  <2>3. \A f, k, e : Missing(f, k, e)' <=> Missing(f, k, e)
    BY <1>1, <2>2 DEF Missing
  <2>. QED
    BY <1>1, <1>3, <2>1, <2>3 DEF Inv, FaultsTold
<1>7. FaultsCount'
  <2>1. Faultless(reading, line_no)' <=> Faultless(reading, line_no)
    <3>1. \A f, k : Faults(f, k)' = Faults(f, k)
      BY <1>1, SameFiles
    <3>. QED
      BY <1>1, <3>1 DEF Faultless
  <2>. QED
    BY <1>1, <2>1, FaultlessStays DEF Inv, FaultsCount
<1>8. ClashesKnown'
  <2>1. CASE outcome = "aborted"
    BY <1>1, <2>1 DEF ClashesKnown
  <2>2. CASE outcome # "aborted"
    BY <1>1, <1>3, <2>2, ClashesStay DEF Inv
  <2>. QED
    BY <2>1, <2>2
<1>. QED
  BY <1>4, <1>5, <1>6, <1>7, <1>8 DEF Inv

LEMMA SettingsKept ==
    ASSUME Settings, OptionsNext \/ UNCHANGED optionVars
    PROVE  Settings'
<1>1. CASE Parsing \/ HelpOrVersion \/ ConfigFile \/ Usage \/ UNCHANGED optionVars
  BY <1>1 DEF Settings, Parsing, HelpOrVersion, ConfigFile, Usage, optionVars, ownVars
<1>2. CASE Results("q", "never") \/ Results("v", "always")
  BY <1>2 DEF Settings, Results
<1>3. CASE \/ Sandbox("keep-broken", "failed") \/ Sandbox("no-cleanup", "always")
           \/ Sandbox("setup-only", "always")
  BY <1>3 DEF Settings, Sandbox
<1>4. CASE FinishOptions
  BY <1>4 DEF Settings, FinishOptions
<1>. QED
  BY <1>1, <1>2, <1>3, <1>4 DEF OptionsNext

LEMMA Begins ==
    ASSUME Init
    PROVE  Inv
<1>1. PICK i : /\ files = i.files
               /\ case = [conf |-> NoFile, test |-> NoFile, written |-> i.written]
               /\ \E group \in Invocations : i \in group
  BY DEF Init
<1>2. i.written \in Seq(Text) /\ \A f \in i.files : f.lines \in Seq(Line)
  BY <1>1, StartupAssumption
<1>3. /\ reading = "conf" /\ open = FALSE /\ line_no = 0 /\ ok = TRUE /\ seen = {}
      /\ messages = {} /\ configuration = Defaults /\ test = EmptyTest
      /\ outcome = "running" /\ stage = "options"
      /\ keep_sandbox = "unset" /\ print_results = "unset"
  BY DEF Init, ParserInit, OptionsInit
<1>4. Shape
  <2>1. NoFile \in File
    BY DEF NoFile, File
  <2>2. case \in CaseType
    BY <1>1, <1>2, <2>1 DEF CaseType
  <2>3. configuration \in ConfType /\ test \in TestType
    <3>1. <<>> \in Text /\ {} \in SUBSET (Text \X Seq(Text)) /\ {} \in SUBSET (Text \X Text)
      BY DEF Text
    <3>2. <<"never">> \in When /\ <<"failed">> \in When
      BY DEF When
    <3>3. Defaults \in ConfType
      <4>. HIDE DEF Text, When
      <4>. QED
        BY <3>1, <3>2 DEF Defaults, ConfType
    <3>4. EmptyTest \in TestType
      <4>. HIDE DEF Text, Entry
      <4>. QED
        BY <3>1 DEF EmptyTest, TestType
    <3>. QED
      BY <1>3, <3>3, <3>4
  <2>4. ParserTypeOK
    BY <1>3, <2>2, <2>3 DEF ParserTypeOK
  <2>. QED
    BY <1>1, <1>2, <1>3, <2>4 DEF Shape, Settings
<1>5. SeenAreRead
  BY <1>3 DEF SeenAreRead
<1>6. FaultsTold
  BY <1>3 DEF FaultsTold, Missing, LinesRead, FileNames
<1>7. FaultsCount
  BY <1>3 DEF FaultsCount
<1>8. ClashesKnown
  <2>1. LinesRead("test") = 0 /\ LinesRead("conf") = 0
    BY <1>3 DEF LinesRead
  <2>2. /\ \A f, names : Accepted(f, 1, names) = {}
        /\ ~InputBefore(0)
    BY DEF Accepted, InputBefore
  <2>3. /\ test.environment = {} /\ test.input_file = <<>> /\ test.input = <<>>
        /\ configuration.file_compare = {}
    BY <1>3 DEF EmptyTest, Defaults
  <2>. QED
    BY <2>1, <2>2, <2>3 DEF ClashesKnown, EnvironmentRead, InputRead, ComparesRead
<1>. QED
  BY <1>4, <1>5, <1>6, <1>7, <1>8 DEF Inv

LEMMA Keeps ==
    ASSUME Inv, [Next]_vars
    PROVE  Inv'
<1>1. CASE OptionsNext /\ UNCHANGED <<parserVars, files, stage>>
  BY <1>1, SettingsKept, OptionsKeep DEF Inv, Shape
<1>2. CASE UNCHANGED vars
  <2>1. UNCHANGED <<parserVars, files, stage>> /\ UNCHANGED optionVars
    BY <1>2 DEF vars
  <2>. QED
    BY <2>1, SettingsKept, OptionsKeep DEF Inv, Shape
<1>. QED
  BY <1>1, <1>2, ChooseFilesKeeps, ReadFilesKeeps, OverrideKeeps DEF Next, Terminated

\* The invariant holds in every state nihtest reaches before the test.
THEOREM Invariance == Spec => []Inv
BY Begins, Keeps, PTL DEF Spec

-----------------------------------------------------------------------------
(* What was printed when a file is given up *)

LEMMA WholeIsRead ==
    ASSUME Inv, outcome \in {"loaded", "refused"}, NEW f \in FileNames, f = reading \/ f = "conf"
    PROVE  /\ LinesRead(f) = Whole(f)
           /\ \A k, e : Missing(f, k, e) <=>
                 /\ f = "test" /\ case.test.exists /\ Where("test", {"return"}) = {}
                 /\ k = Whole("test") /\ e = "required"
<1>1. reading \in FileNames /\ case \in CaseType
  BY DEF Inv, Shape, ParserTypeOK, FileNames
<1>2. LinesRead(f) = Whole(f)
  <2>1. CASE f = reading /\ open
    <3>1. lines = LinesOf(reading) /\ line_no = Len(lines)
      BY <2>1, LackingIs DEF Inv, Shape
    <3>. QED
      BY <2>1, <3>1 DEF LinesRead, Whole
  <2>2. CASE f = reading /\ ~open
    <3>1. reading = "test" /\ ~case.test.exists
      BY <2>2 DEF Inv, Shape
    <3>2. Whole(f) = 0
      BY <2>2, <3>1 DEF Whole, LinesOf
    <3>. QED
      BY <2>2, <3>2 DEF LinesRead
  <2>3. CASE f # reading
    BY <2>3 DEF LinesRead, Whole
  <2>. QED
    BY <2>1, <2>2, <2>3
<1>3. f = "test" => reading = "test"
  OBVIOUS
<1>4. reading = "test" => (open <=> case.test.exists)
  BY DEF Inv, Shape
<1>5. outcome = "loaded" => open /\ "return" \in seen /\ Where("test", {"return"}) # {}
  <2>1. outcome = "loaded" => open /\ reading = "test" /\ line_no = Len(lines) /\ "return" \in seen
    BY DEF Inv, Shape, SeenAreRead
  <2>. QED
    BY <2>1, LackingIs
<1>. QED
  BY <1>2, <1>3, <1>4, <1>5 DEF Missing

LEMMA InvTells == Inv => EveryMistakeTold
<1>. SUFFICES ASSUME Inv, outcome \in {"loaded", "refused"}, NEW f \in FileNames,
                     f = reading \/ f = "conf"
              PROVE  {m \in messages : m[1] = f} =
                        AllFaults(f) \cup
                           (IF f = "test" /\ case.test.exists /\ Where(f, {"return"}) = {}
                            THEN {<<f, Len(LinesOf(f)), "required">>} ELSE {})
  BY DEF EveryMistakeTold, FileNames
<1>. DEFINE R == IF f = "test" /\ case.test.exists /\ Where(f, {"return"}) = {}
                 THEN {<<f, Len(LinesOf(f)), "required">>} ELSE {}
<1>1. messages \subseteq FileNames \X Nat \X Error /\ case \in CaseType
  BY DEF Inv, Shape, ParserTypeOK, FileNames
<1>2. LinesRead(f) = Whole(f) /\ Whole(f) \in Nat
  BY <1>1, WholeIsRead, LinesAre DEF Whole
<1>3. \A k \in Nat, e \in Error :
         <<f, k, e>> \in messages <=> (k \in 1..Whole(f) /\ e \in Faults(f, k)) \/ Missing(f, k, e)
  BY <1>2 DEF Inv, FaultsTold
<1>4. \A k, e : Missing(f, k, e) <=> <<f, k, e>> \in R
  <2>1. \A k, e : Missing(f, k, e) <=>
                 /\ f = "test" /\ case.test.exists /\ Where("test", {"return"}) = {}
                 /\ k = Whole("test") /\ e = "required"
    BY WholeIsRead
  <2>. QED
    BY <2>1 DEF Whole
<1>5. \A k, e : <<f, k, e>> \in AllFaults(f) <=> k \in 1..Whole(f) /\ e \in Faults(f, k)
  BY DEF AllFaults, Whole
<1>6. \A k, e : k \in 1..Whole(f) /\ e \in Faults(f, k) => k \in Nat /\ e \in Error
  BY <1>2, FaultsAreErrors
<1>7. \A m \in AllFaults(f) \cup R : \E k \in Nat, e \in Error : m = <<f, k, e>>
  <2>1. ASSUME NEW m \in AllFaults(f)
        PROVE  \E k \in Nat, e \in Error : m = <<f, k, e>>
    <3>1. PICK k \in 1..Whole(f) : m \in {<<f, k, e>> : e \in Faults(f, k)}
      BY DEF AllFaults, Whole
    <3>2. PICK e \in Faults(f, k) : m = <<f, k, e>>
      BY <3>1
    <3>. QED
      BY <1>6, <3>1, <3>2
  <2>2. ASSUME NEW m \in R
        PROVE  \E k \in Nat, e \in Error : m = <<f, k, e>>
    <3>1. m = <<f, Whole(f), "required">>
      BY DEF Whole
    <3>. QED
      BY <1>2, <3>1 DEF Error
  <2>. QED
    BY <2>1, <2>2
<1>. HIDE DEF R
<1>8. \A m \in messages : m[1] = f => \E k \in Nat, e \in Error : m = <<f, k, e>>
  <2>1. ASSUME NEW m \in messages, m[1] = f
        PROVE  \E k \in Nat, e \in Error : m = <<f, k, e>>
    <3>1. PICK g \in FileNames, k \in Nat, e \in Error : m = <<g, k, e>>
      BY <1>1
    <3>. QED
      BY <2>1, <3>1
  <2>. QED
    BY <2>1
<1>9. \A k \in Nat, e \in Error : <<f, k, e>> \in messages <=> <<f, k, e>> \in AllFaults(f) \cup R
  BY <1>3, <1>4, <1>5
<1>10. \A k, e : <<f, k, e>>[1] = f
  OBVIOUS
<1>11. ASSUME NEW m
       PROVE  m \in messages /\ m[1] = f <=> m \in AllFaults(f) \cup R
  <2>1. ASSUME NEW k \in Nat, NEW e \in Error, m = <<f, k, e>>
        PROVE  m \in messages /\ m[1] = f <=> m \in AllFaults(f) \cup R
    <3>1. m \in messages <=> m \in AllFaults(f) \cup R
      BY <1>9, <2>1, Zenon
    <3>2. m[1] = f
      BY <1>10, <2>1, Zenon
    <3>. QED
      BY <3>1, <3>2, Zenon
  <2>. QED
    BY <1>7, <1>8, <2>1, Zenon
<1>12. {m \in messages : m[1] = f} = AllFaults(f) \cup R
  BY <1>11, Zenon
<1>. QED
  BY <1>12 DEF R

\* When nihtest gives up a file, or starts the test, it has printed all mistakes in the
\* files it read and nothing else: whatever is in them, and however long they are.
THEOREM MistakesAreTold == Spec => []EveryMistakeTold
BY Invariance, InvTells, PTL

-----------------------------------------------------------------------------
(* Files without mistakes *)

LEMMA AtMostOne ==
    ASSUME NEW S, IsFiniteSet(S)
    PROVE  /\ Cardinality(S) <= 1 <=> \A j, k \in S : j = k
           /\ Cardinality(S) = 1 <=> S # {} /\ \A j, k \in S : j = k
<1>1. Cardinality(S) \in Nat
  BY FS_CardinalityType
<1>2. CASE S = {}
  BY <1>2, FS_EmptySet
<1>3. CASE S # {} /\ \A j, k \in S : j = k
  <2>1. PICK j \in S : TRUE
    BY <1>3
  <2>2. S = {j}
    BY <1>3, <2>1
  <2>3. Cardinality(S) = 1
    BY <2>2, FS_Singleton
  <2>. QED
    BY <1>3, <2>3
<1>4. CASE \E j, k \in S : j # k
  <2>1. PICK j \in S, k \in S : j # k
    BY <1>4
  <2>2. IsFiniteSet(S \ {j}) /\ Cardinality(S \ {j}) = Cardinality(S) - 1
    BY FS_RemoveElement
  <2>3. Cardinality(S \ {j}) # 0
    BY <2>1, <2>2, FS_EmptySet
  <2>4. Cardinality(S \ {j}) \in Nat
    BY <2>2, FS_CardinalityType
  <2>5. ~(Cardinality(S) <= 1) /\ Cardinality(S) # 1
    BY <1>1, <2>2, <2>3, <2>4
  <2>. QED
    BY <1>4, <2>5
<1>. QED
  BY <1>2, <1>3, <1>4

LEMMA WhereIs ==
    ASSUME case \in CaseType, NEW f \in FileNames, NEW names
    PROVE  /\ Where(f, names) \in SUBSET Nat /\ IsFiniteSet(Where(f, names))
           /\ \A k : k \in Where(f, names) <=> k \in 1..Whole(f) /\ LinesOf(f)[k].name \in names
<1>1. Whole(f) \in Nat
  BY LinesAre DEF Whole
<1>2. \A k : k \in Where(f, names) <=> k \in 1..Whole(f) /\ LinesOf(f)[k].name \in names
  BY DEF Where, Whole
<1>3. IsFiniteSet(1..Whole(f))
  BY <1>1, FS_Interval
<1>4. Where(f, names) \subseteq 1..Whole(f)
  BY <1>2
<1>. QED
  BY <1>1, <1>2, <1>3, <1>4, FS_Subset

\* A file without mistakes is what its author calls sound, whatever the order of its lines.
LEMMA FaultlessIsSound ==
    ASSUME case \in CaseType, NEW f \in FileNames
    PROVE  Faultless(f, Whole(f)) <=> Sound(f)
<1>. DEFINE n == Whole(f)
            name(k) == LinesOf(f)[k].name
            arg(k) == Arguments(f, k)[1]
            Good == \A k \in 1..n : name(k) = "comment" \/
                       (name(k) \in Known(f) /\ ~Again(f, k) /\ QuotedWell(f, k) /\ Numbered(f, k)
                           /\ ~Clashes(f, k))
            C1 == \A k \in 1..n : name(k) = "comment" \/ name(k) \in Known(f)
            C2 == \A k \in 1..n : name(k) # "comment" => QuotedWell(f, k) /\ Numbered(f, k)
            C3 == \A d \in Known(f) \ Repeatable : \A j, k \in 1..n :
                     name(j) = d /\ name(k) = d => j = k
            C4 == \A j, k \in 1..n : name(j) = "setenv" /\ name(k) = "setenv" /\ arg(j) = arg(k) => j = k
            C5 == \A j, k \in 1..n : name(j) = "stdin-file" /\ name(k) = "stdin" => j < k /\ arg(j) = <<>>
            C6 == \A j, k \in 1..n : name(j) = "file-compare" /\ name(k) = "file-compare" /\
                     Extensions(Arguments(f, j)) = Extensions(Arguments(f, k)) => j = k
            C7 == \A k \in 1..n : name(k) \in {"keep-sandbox", "print-results"} => arg(k) \in When
<1>1. n \in Nat /\ \A k \in 1..n : k \in Nat
  BY LinesAre DEF Whole
<1>2. "comment" \notin Known(f)
  BY TableAsSaid
<1>3. Faultless(f, n) <=> Good
  BY <1>2 DEF Faultless, Faults
<1>4. \A k \in 1..n : Again(f, k) <=>
         name(k) \notin Repeatable /\ \E j \in 1..n : j < k /\ name(j) = name(k)
  BY <1>1 DEF Again
<1>5. \A names : \A j : j \in Where(f, names) <=> j \in 1..n /\ name(j) \in names
  BY WhereIs
<1>6. \A names : \A k \in 1..n : \A j :
         j \in Accepted(f, k, names) <=>
              j \in 1..n /\ j < k /\ name(j) \in names /\ Numbered(f, j) /\ ~Again(f, j)
  BY <1>1, AcceptedIs DEF Whole
<1>7. Sound(f) <=> C1 /\ C2 /\ C3 /\ C4 /\ C5 /\ C6 /\ C7
  <2>1. (\A k \in Where(f, {"comment"}) \cup Where(f, Known(f)) :
            name(k) # "comment" => QuotedWell(f, k) /\ Numbered(f, k)) <=>
        \A k \in 1..n : name(k) \in Known(f) => QuotedWell(f, k) /\ Numbered(f, k)
    BY <1>2, <1>5
  <2>2. Where(f, {"comment"} \cup Known(f)) = 1..Len(LinesOf(f)) <=> C1
    BY <1>5 DEF Whole
  <2>3. (\A d \in Known(f) \ Repeatable : Cardinality(Where(f, {d})) <= 1) <=> C3
    <3>1. \A d : Cardinality(Where(f, {d})) <= 1 <=> \A j, k \in Where(f, {d}) : j = k
      BY WhereIs, AtMostOne
    <3>2. \A d, j : j \in Where(f, {d}) <=> j \in 1..n /\ name(j) = d
      BY <1>5
    <3>. QED
      BY <3>1, <3>2, Zenon
  <2>4. (\A j, k \in Where(f, {"setenv"}) : Arguments(f, j)[1] = Arguments(f, k)[1] => j = k) <=> C4
    <3>1. \A j : j \in Where(f, {"setenv"}) <=> j \in 1..n /\ name(j) = "setenv"
      BY <1>5
    <3>. QED
      BY <3>1, Zenon
  <2>5. (\A j \in Where(f, {"stdin-file"}), k \in Where(f, {"stdin"}) :
            j < k /\ Arguments(f, j)[1] = <<>>) <=> C5
    BY <1>5
  <2>6. (\A j, k \in Where(f, {"file-compare"}) :
            Extensions(Arguments(f, j)) = Extensions(Arguments(f, k)) => j = k) <=> C6
    <3>1. \A j : j \in Where(f, {"file-compare"}) <=> j \in 1..n /\ name(j) = "file-compare"
      BY <1>5
    <3>. QED
      BY <3>1, Zenon
  <2>7. (\A k \in Where(f, {"keep-sandbox", "print-results"}) : Arguments(f, k)[1] \in When) <=> C7
    BY <1>5, Zenon
  <2>. HIDE DEF C3, C4, C5, C6, C7
  <2>. QED
    BY <1>2, <2>1, <2>2, <2>3, <2>4, <2>5, <2>6, <2>7 DEF Sound
<1>8. ASSUME C1, C2, C3
      PROVE  /\ \A k \in 1..n : name(k) \in Known(f) => ~Again(f, k)
             /\ \A names : "comment" \notin names => \A k \in 1..n : \A j :
                   j \in Accepted(f, k, names) <=> j \in 1..n /\ j < k /\ name(j) \in names
  <2>1. \A k \in 1..n : name(k) \in Known(f) => ~Again(f, k)
    BY <1>1, <1>4, <1>8
  <2>. QED
    BY <1>6, <1>8, <2>1
<1>9. ASSUME Good
      PROVE  C1 /\ C2 /\ C3
  <2>1. C1 /\ C2
    BY <1>9
  <2>2. ASSUME NEW d \in Known(f) \ Repeatable, NEW j \in 1..n, NEW k \in 1..n,
               name(j) = d, name(k) = d, j # k
        PROVE  FALSE
    <3>1. ~Again(f, j) /\ ~Again(f, k)
      BY <1>2, <1>9, <2>2
    <3>2. j < k \/ k < j
      BY <1>1, <2>2
    <3>. QED
      BY <1>4, <2>2, <3>1, <3>2
  <2>. QED
    BY <2>1, <2>2
<1>10. ASSUME C1, C2, C3, NEW k \in 1..n, name(k) # "comment"
       PROVE  Clashes(f, k) <=>
                \/ name(k) = "setenv" /\ \E j \in 1..n : j < k /\ name(j) = "setenv" /\ arg(j) = arg(k)
                \/ name(k) = "stdin-file" /\ \E j \in 1..n : j < k /\ name(j) = "stdin"
                \/ /\ name(k) = "stdin"
                   /\ \E j \in 1..n : /\ j < k /\ name(j) = "stdin-file" /\ arg(j) # <<>>
                                      /\ ~\E i \in 1..n : i < j /\ name(i) = "stdin"
                \/ /\ name(k) = "file-compare"
                   /\ \E j \in 1..n : /\ j < k /\ name(j) = "file-compare"
                                      /\ Extensions(Arguments(f, j)) = Extensions(Arguments(f, k))
                \/ name(k) \in {"keep-sandbox", "print-results"} /\ arg(k) \notin When
  <2>1. \A names : "comment" \notin names =>
           \A j : j \in Accepted(f, k, names) <=> j \in 1..n /\ j < k /\ name(j) \in names
    BY <1>8, <1>10
  <2>2. \A j \in 1..n : Where(f, {"stdin"}) \cap 1..(j - 1) = {} <=>
                           ~\E i \in 1..n : i < j /\ name(i) = "stdin"
    BY <1>1, <1>5
  <2>3. (\E j \in Accepted(f, k, {name(k)}) : arg(j) = arg(k)) <=>
           \E j \in 1..n : j < k /\ name(j) = name(k) /\ arg(j) = arg(k)
    BY <1>10, <2>1
  <2>4. Accepted(f, k, {"stdin"}) # {} <=> \E j \in 1..n : j < k /\ name(j) = "stdin"
    BY <2>1
  <2>5. (\E j \in Accepted(f, k, {"stdin-file"}) :
            arg(j) # <<>> /\ Where(f, {"stdin"}) \cap 1..(j - 1) = {}) <=>
           \E j \in 1..n : /\ j < k /\ name(j) = "stdin-file" /\ arg(j) # <<>>
                           /\ ~\E i \in 1..n : i < j /\ name(i) = "stdin"
    BY <2>1, <2>2
  <2>6. (\E j \in Accepted(f, k, {name(k)}) :
            Extensions(Arguments(f, j)) = Extensions(Arguments(f, k))) <=>
           \E j \in 1..n : /\ j < k /\ name(j) = name(k)
                           /\ Extensions(Arguments(f, j)) = Extensions(Arguments(f, k))
    BY <1>10, <2>1
  <2>. QED
    BY <2>3, <2>4, <2>5, <2>6, Zenon DEF Clashes
<1>11. ASSUME C1, C2, C3
       PROVE  (\A k \in 1..n : name(k) # "comment" => ~Clashes(f, k)) <=> C4 /\ C5 /\ C6 /\ C7
  <2>1. ASSUME \A k \in 1..n : name(k) # "comment" => ~Clashes(f, k)
        PROVE  C4 /\ C5 /\ C6 /\ C7
    <3>1. C4
      <4>. SUFFICES ASSUME NEW j \in 1..n, NEW k \in 1..n, name(j) = "setenv", name(k) = "setenv",
                           arg(j) = arg(k), j # k
                    PROVE  FALSE
        OBVIOUS
      <4>1. ~Clashes(f, j) /\ ~Clashes(f, k)
        BY <2>1
      <4>2. j < k \/ k < j
        BY <1>1
      <4>. HIDE DEF n, arg
      <4>. QED
        BY <1>10, <1>11, <4>1, <4>2
    <3>2. C6
      <4>. SUFFICES ASSUME NEW j \in 1..n, NEW k \in 1..n, name(j) = "file-compare",
                           name(k) = "file-compare",
                           Extensions(Arguments(f, j)) = Extensions(Arguments(f, k)), j # k
                    PROVE  FALSE
        OBVIOUS
      <4>1. ~Clashes(f, j) /\ ~Clashes(f, k)
        BY <2>1
      <4>2. j < k \/ k < j
        BY <1>1
      <4>. HIDE DEF n, arg
      <4>. QED
        BY <1>10, <1>11, <4>1, <4>2
    <3>3. C7
      <4>. HIDE DEF n, arg
      <4>. QED
        BY <1>10, <1>11, <2>1
    <3>4. C5
      <4>. SUFFICES ASSUME NEW j \in 1..n, NEW k \in 1..n, name(j) = "stdin-file", name(k) = "stdin"
                    PROVE  j < k /\ arg(j) = <<>>
        OBVIOUS
      <4>1. ~Clashes(f, j) /\ ~Clashes(f, k)
        BY <2>1
      <4>2. ~\E i \in 1..n : i < j /\ name(i) = "stdin"
        BY <1>10, <1>11, <4>1
      <4>3. j < k
        <5>1. ~(k < j)
          BY <4>2
        <5>2. j # k
          OBVIOUS
        <5>. QED
          BY <1>1, <5>1, <5>2
      <4>4. arg(j) = <<>>
        BY <1>10, <1>11, <4>1, <4>2, <4>3
      <4>. QED
        BY <4>3, <4>4
    <3>. QED
      BY <3>1, <3>2, <3>3, <3>4
  <2>2. ASSUME C4, C5, C6, C7, NEW k \in 1..n, name(k) # "comment", Clashes(f, k)
        PROVE  FALSE
    <3>1. \A j \in 1..n : j < k => j # k /\ ~(k < j)
      BY <1>1
    <3>. HIDE DEF n, arg
    <3>2. CASE name(k) = "setenv" /\ \E j \in 1..n : j < k /\ name(j) = "setenv" /\ arg(j) = arg(k)
      BY <2>2, <3>1, <3>2
    <3>3. CASE name(k) = "stdin-file" /\ \E j \in 1..n : j < k /\ name(j) = "stdin"
      BY <2>2, <3>1, <3>3
    <3>4. CASE /\ name(k) = "stdin"
               /\ \E j \in 1..n : j < k /\ name(j) = "stdin-file" /\ arg(j) # <<>>
      BY <2>2, <3>1, <3>4
    <3>5. CASE /\ name(k) = "file-compare"
               /\ \E j \in 1..n : /\ j < k /\ name(j) = "file-compare"
                                  /\ Extensions(Arguments(f, j)) = Extensions(Arguments(f, k))
      BY <2>2, <3>1, <3>5
    <3>6. CASE name(k) \in {"keep-sandbox", "print-results"} /\ arg(k) \notin When
      BY <2>2, <3>6
    <3>. QED
      BY <1>10, <1>11, <2>2, <3>2, <3>3, <3>4, <3>5, <3>6
  <2>. QED
    BY <2>1, <2>2
<1>12. ASSUME Good
       PROVE  Sound(f)
  <2>1. C1 /\ C2 /\ C3
    BY <1>9, <1>12
  <2>2. \A k \in 1..n : name(k) # "comment" => ~Clashes(f, k)
    BY <1>12
  <2>. HIDE DEF n, C1, C2, C3, C4, C5, C6, C7, name
  <2>. QED
    BY <1>7, <1>11, <2>1, <2>2
<1>13. ASSUME Sound(f)
       PROVE  Good
  <2>1. C1 /\ C2 /\ C3 /\ C4 /\ C5 /\ C6 /\ C7
    BY <1>7, <1>13
  <2>2. \A k \in 1..n : name(k) # "comment" => ~Clashes(f, k)
    <3>. HIDE DEF n, C1, C2, C3, C4, C5, C6, C7, name
    <3>. QED
      BY <1>11, <2>1
  <2>3. \A k \in 1..n : name(k) \in Known(f) => ~Again(f, k)
    <3>. HIDE DEF n, C1, C2, C3, name
    <3>. QED
      BY <1>8, <2>1
  <2>. QED
    BY <2>1, <2>2, <2>3
<1>. QED
  BY <1>3, <1>12, <1>13

=============================================================================
