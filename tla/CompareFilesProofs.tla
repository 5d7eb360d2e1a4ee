------------------------- MODULE CompareFilesProofs -------------------------
(***************************************************************************)
(* Proofs about CompareFiles for lists of any length and any names.        *)
(***************************************************************************)
EXTENDS CompareFiles, ListFiles, Induction, SequenceTheorems, FiniteSetTheorems

-----------------------------------------------------------------------------
(* The inductive invariant *)

WantedBefore(n) == \E j \in 1..(e - 1) : expected[j].name = n /\ expected[j].output
PresentBefore(n) == \E j \in 1..(g - 1) : got[j] = n

\* What is done with is smaller than what is left of the other list.
Apart ==
    /\ \A j \in 1..(e - 1), k \in g..Len(got) :
          expected[j].output => expected[j].name < got[k]
    /\ \A j \in e..Len(expected), k \in 1..(g - 1) :
          expected[j].output => got[k] < expected[j].name

DoneWith(kind, n) ==
    CASE kind = "-" -> WantedBefore(n) /\ ~Present(n)
      [] kind = "+" -> PresentBefore(n) /\ ~Wanted(n)
      [] kind = "=" -> WantedBefore(n) /\ Present(n)

Counted ==
    \A n \in Names, kind \in Kind :
        times[<<kind, n>>] = IF DoneWith(kind, n) THEN 1 ELSE 0

Fine(n) == /\ WantedBefore(n) => Present(n) /\ Judgement(n) = "same"
           /\ PresentBefore(n) => Wanted(n)

Judged == ok <=> \A n \in Names : Fine(n)

AtEnd == outcome = "returned" => e > Len(expected) /\ g > Len(got)

Merging == Sorted /\ outcome # "threw" => Apart /\ Counted /\ Judged

IInv == TypeOK /\ AtEnd /\ Merging

-----------------------------------------------------------------------------
(* Type correctness *)

LEMMA CaseTyped ==
    ASSUME TypeOK
    PROVE  /\ expected \in Seq(Entry) /\ got \in Seq(Names)
           /\ \A j \in 1..Len(expected) : /\ expected[j].name \in Names
                                          /\ expected[j].name \in Int
                                          /\ expected[j].output \in BOOLEAN
           /\ \A j \in 1..Len(got) : got[j] \in Names /\ got[j] \in Int
           /\ Len(expected) \in Nat /\ Len(got) \in Nat
  <1>1. expected \in Seq(Entry) /\ got \in Seq(Names)
    BY DEF TypeOK, CaseType, expected, got
  <1>2. \A j \in 1..Len(expected) : expected[j] \in Entry
    BY <1>1
  <1>3. \A j \in 1..Len(got) : got[j] \in Names
    BY <1>1
  <1>4. Len(expected) \in Nat /\ Len(got) \in Nat
    BY <1>1
  <1>. QED
    BY <1>1, <1>2, <1>3, <1>4, CompareFilesAssumption DEF Entry

LEMMA JudgementStays ==
    ASSUME case' = case
    PROVE  \A n : Judgement(n)' = Judgement(n)
  BY DEF Judgement, Found

LEMMA DoTyped ==
    ASSUME TypeOK, NEW kind \in Kind, NEW n \in Names, Do(kind, n)
    PROVE  /\ times' \in [Kind \X Names -> Nat]
           /\ times'[<<kind, n>>] = times[<<kind, n>>] + 1
           /\ \A k \in Kind, m \in Names :
                 <<k, m>> # <<kind, n>> => times'[<<k, m>>] = times[<<k, m>>]
  <1>1. <<kind, n>> \in Kind \X Names
    OBVIOUS
  <1>. QED
    BY <1>1 DEF TypeOK, Do

LEMMA InitInv == Init => IInv
  <1> SUFFICES ASSUME Init PROVE IInv
    OBVIOUS
  <1>1. TypeOK
    <2>1. case \in CaseType
      BY CompareFilesAssumption DEF Init
    <2>2. Len(expected) \in Nat /\ Len(got) \in Nat
      BY <2>1 DEF CaseType, expected, got
    <2>. QED
      BY <2>1, <2>2 DEF Init, TypeOK
  <1>2. AtEnd
    BY DEF Init, AtEnd
  <1>3. Merging
    BY CaseTyped, <1>1
       DEF Init, Merging, Apart, Counted, Judged, Fine, DoneWith, WantedBefore,
           PresentBefore, Kind
  <1>. QED
    BY <1>1, <1>2, <1>3 DEF IInv

LEMMA TypeStep == IInv /\ [Next]_vars => TypeOK' /\ AtEnd'
  <1> SUFFICES ASSUME IInv, [Next]_vars PROVE TypeOK' /\ AtEnd'
    OBVIOUS
  <1>0. TypeOK /\ AtEnd
    BY DEF IInv
  <1>1. CASE SkipDeleted
    BY <1>0, <1>1, CaseTyped DEF SkipDeleted, InBoth, TypeOK, AtEnd, expected, got
  <1>2. CASE Compare
    <2>1. got[g] \in Names
      BY <1>0, <1>2, CaseTyped DEF Compare, InBoth, TypeOK
    <2>2. times' \in [Kind \X Names -> Nat]
      BY <1>0, <1>2, <2>1, DoTyped DEF Compare, Kind
    <2>3. ok' \in BOOLEAN
      <3>1. CASE Judgement(got[g]) = "throws"
        BY <1>0, <1>2, <3>1 DEF Compare, TypeOK
      <3>2. CASE Judgement(got[g]) # "throws"
        BY <1>2, <3>2 DEF Compare
      <3>. QED
        BY <3>1, <3>2
    <2>. QED
      BY <1>0, <1>2, <2>2, <2>3, CaseTyped
         DEF Compare, InBoth, TypeOK, AtEnd, expected, got
  <1>3. CASE Missing
    <2>1. expected[e].name \in Names
      BY <1>0, <1>3, CaseTyped DEF Missing, InBoth, TypeOK
    <2>2. times' \in [Kind \X Names -> Nat]
      BY <1>0, <1>3, <2>1, DoTyped DEF Missing, Report, Kind
    <2>3. ok' \in BOOLEAN
      BY <1>3 DEF Missing, Report
    <2>. QED
      BY <1>0, <1>3, <2>2, <2>3, CaseTyped
         DEF Missing, InBoth, TypeOK, AtEnd, expected, got
  <1>4. CASE Unexpected
    <2>1. got[g] \in Names
      BY <1>0, <1>4, CaseTyped DEF Unexpected, InBoth, TypeOK
    <2>2. times' \in [Kind \X Names -> Nat]
      BY <1>0, <1>4, <2>1, DoTyped DEF Unexpected, Report, Kind
    <2>3. ok' \in BOOLEAN
      BY <1>4 DEF Unexpected, Report
    <2>. QED
      BY <1>0, <1>4, <2>2, <2>3, CaseTyped
         DEF Unexpected, InBoth, TypeOK, AtEnd, expected, got
  <1>5. CASE RestMissing
    <2>1. expected[e].name \in Names
      BY <1>0, <1>5, CaseTyped DEF RestMissing, TypeOK
    <2>2. times' \in [Kind \X Names -> Nat] /\ ok' \in BOOLEAN
      <3>1. CASE expected[e].output
        BY <1>0, <1>5, <2>1, <3>1, DoTyped DEF RestMissing, Report, Kind
      <3>2. CASE ~expected[e].output
        BY <1>0, <1>5, <3>2 DEF RestMissing, TypeOK
      <3>. QED
        BY <3>1, <3>2
    <2>. QED
      BY <1>0, <1>5, <2>2, CaseTyped DEF RestMissing, TypeOK, AtEnd, expected, got
  <1>6. CASE RestUnexpected
    <2>1. got[g] \in Names
      BY <1>0, <1>6, CaseTyped DEF RestUnexpected, TypeOK
    <2>2. times' \in [Kind \X Names -> Nat]
      BY <1>0, <1>6, <2>1, DoTyped DEF RestUnexpected, Report, Kind
    <2>3. ok' \in BOOLEAN
      BY <1>6 DEF RestUnexpected, Report
    <2>. QED
      BY <1>0, <1>6, <2>2, <2>3, CaseTyped
         DEF RestUnexpected, TypeOK, AtEnd, expected, got
  <1>7. CASE Return
    BY <1>0, <1>7 DEF Return, TypeOK, AtEnd, expected, got
  <1>8. CASE UNCHANGED vars
    BY <1>0, <1>8 DEF vars, TypeOK, AtEnd, expected, got
  <1>. QED
    BY <1>1, <1>2, <1>3, <1>4, <1>5, <1>6, <1>7, <1>8 DEF Next, Step

-----------------------------------------------------------------------------
(* Where the iterators are, and what moving them changes *)

\* On sorted lists, what one iterator is at is not in the other list if it is
\* smaller than what is left there, and neither iterator was there before.
LEMMA Position ==
    ASSUME TypeOK, Sorted, Apart
    PROVE  /\ e <= Len(expected) => ~WantedBefore(expected[e].name)
           /\ g <= Len(got) => ~PresentBefore(got[g])
           /\ /\ e <= Len(expected) /\ expected[e].output
              /\ g <= Len(got) => expected[e].name < got[g]
              => ~Present(expected[e].name)
           /\ /\ g <= Len(got)
              /\ e <= Len(expected) => expected[e].name > got[g]
              => ~Wanted(got[g])
  <1>0. /\ \A j \in 1..Len(expected) : expected[j].name \in Int
        /\ \A j \in 1..Len(got) : got[j] \in Int
        /\ Len(expected) \in Nat /\ Len(got) \in Nat
        /\ e \in 1..(Len(expected) + 1) /\ g \in 1..(Len(got) + 1)
    BY CaseTyped DEF TypeOK
  <1>1. ASSUME e <= Len(expected) PROVE ~WantedBefore(expected[e].name)
    BY <1>0, <1>1 DEF WantedBefore, Sorted
  <1>2. ASSUME g <= Len(got) PROVE ~PresentBefore(got[g])
    BY <1>0, <1>2 DEF PresentBefore, Sorted
  <1>3. ASSUME e <= Len(expected), expected[e].output,
               g <= Len(got) => expected[e].name < got[g],
               NEW j \in 1..Len(got)
        PROVE  got[j] # expected[e].name
    <2>1. CASE j < g
      <3>1. e \in e..Len(expected) /\ j \in 1..(g - 1)
        BY <1>0, <1>3, <2>1
      <3>2. got[j] < expected[e].name
        BY <1>3, <3>1 DEF Apart
      <3>. QED
        BY <1>0, <1>3, <3>2
    <2>2. CASE j >= g
      <3>1. g <= Len(got) /\ got[g] <= got[j]
        BY <1>0, <1>3, <2>2 DEF Sorted
      <3>. QED
        BY <1>0, <1>3, <3>1
    <2>. QED
      BY <1>0, <2>1, <2>2
  <1>4. ASSUME g <= Len(got), e <= Len(expected) => expected[e].name > got[g],
               NEW j \in 1..Len(expected), expected[j].output
        PROVE  expected[j].name # got[g]
    <2>1. CASE j < e
      BY <1>0, <1>4, <2>1 DEF Apart
    <2>2. CASE j >= e
      <3>1. e <= Len(expected) /\ expected[e].name <= expected[j].name
        BY <1>0, <1>4, <2>2 DEF Sorted
      <3>. QED
        BY <1>0, <1>4, <3>1
    <2>. QED
      BY <1>0, <2>1, <2>2
  <1>. QED
    BY <1>1, <1>2, <1>3, <1>4 DEF Present, Wanted

LEMMA Moving ==
    ASSUME TypeOK, case' = case, NEW n
    PROVE  /\ Wanted(n)' <=> Wanted(n)
           /\ Present(n)' <=> Present(n)
           /\ e' = e => (WantedBefore(n)' <=> WantedBefore(n))
           /\ g' = g => (PresentBefore(n)' <=> PresentBefore(n))
           /\ e' = e + 1 => (WantedBefore(n)' <=> \/ WantedBefore(n)
                                                  \/ expected[e].name = n /\ expected[e].output)
           /\ g' = g + 1 => (PresentBefore(n)' <=> PresentBefore(n) \/ got[g] = n)
  <1>1. expected' = expected /\ got' = got
    BY DEF expected, got
  <1>2. e \in Nat \ {0} /\ g \in Nat \ {0}
    BY CaseTyped DEF TypeOK
  <1>. QED
    BY <1>1, <1>2 DEF Wanted, Present, WantedBefore, PresentBefore

\* Apart survives if what an iterator leaves behind is smaller than the rest.
LEMMA StaysApart ==
    ASSUME TypeOK, Sorted, Apart, case' = case,
           \/ e' = e
           \/ /\ e' = e + 1 /\ e <= Len(expected)
              /\ expected[e].output => \A k \in g'..Len(got) : expected[e].name < got[k],
           \/ g' = g
           \/ /\ g' = g + 1 /\ g <= Len(got)
              /\ \A j \in e'..Len(expected) :
                    expected[j].output => got[g] < expected[j].name
    PROVE  Apart' /\ Sorted'
  <1>1. expected' = expected /\ got' = got
    BY DEF expected, got
  <1>2. Len(expected) \in Nat /\ Len(got) \in Nat /\ e \in Nat \ {0} /\ g \in Nat \ {0}
    BY CaseTyped DEF TypeOK
  <1>3. Sorted'
    BY <1>1 DEF Sorted
  <1>4. ASSUME NEW j \in 1..(e' - 1), NEW k \in g'..Len(got), expected[j].output
        PROVE  expected[j].name < got[k]
    <2>1. k \in g..Len(got)
      BY <1>2
    <2>2. CASE j \in 1..(e - 1)
      BY <1>4, <2>1, <2>2 DEF Apart
    <2>3. CASE e' = e + 1 /\ j = e
      BY <1>2, <1>4, <2>3
    <2>. QED
      BY <1>2, <2>2, <2>3
  <1>5. ASSUME NEW j \in e'..Len(expected), NEW k \in 1..(g' - 1), expected[j].output
        PROVE  got[k] < expected[j].name
    <2>1. j \in e..Len(expected)
      BY <1>2
    <2>2. CASE k \in 1..(g - 1)
      BY <1>5, <2>1, <2>2 DEF Apart
    <2>3. CASE g' = g + 1 /\ k = g
      BY <1>2, <1>5, <2>3
    <2>. QED
      BY <1>2, <2>2, <2>3
  <1>. QED
    BY <1>1, <1>3, <1>4, <1>5 DEF Apart

\* Counted survives if what becomes done is what is counted.
LEMMA StaysCounted ==
    ASSUME TypeOK, Counted, NEW kind \in Kind, NEW m \in Names, Do(kind, m),
           ~DoneWith(kind, m), DoneWith(kind, m)',
           \A k \in Kind, n \in Names :
              <<k, n>> # <<kind, m>> => (DoneWith(k, n)' <=> DoneWith(k, n))
    PROVE  Counted'
  <1> SUFFICES ASSUME NEW n \in Names, NEW k \in Kind
               PROVE  times'[<<k, n>>] = IF DoneWith(k, n)' THEN 1 ELSE 0
    BY DEF Counted
  <1>1. CASE <<k, n>> = <<kind, m>>
    <2>1. times[<<kind, m>>] = 0
      BY DEF Counted
    <2>2. times'[<<kind, m>>] = times[<<kind, m>>] + 1
      BY DoTyped
    <2>3. k = kind /\ n = m
      BY <1>1
    <2>. QED
      BY <2>1, <2>2, <2>3
  <1>2. CASE <<k, n>> # <<kind, m>>
    <2>1. times'[<<k, n>>] = times[<<k, n>>]
      BY <1>2, DoTyped
    <2>2. DoneWith(k, n)' <=> DoneWith(k, n)
      BY <1>2
    <2>3. times[<<k, n>>] = IF DoneWith(k, n) THEN 1 ELSE 0
      BY DEF Counted
    <2>. QED
      BY <2>1, <2>2, <2>3
  <1>. QED
    BY <1>1, <1>2

LEMMA StaysJudged ==
    ASSUME Judged, NEW m \in Names, Fine(m),
           \A n \in Names : n # m => (Fine(n)' <=> Fine(n)),
           ok' <=> ok /\ Fine(m)'
    PROVE  Judged'
  <1>1. (\A n \in Names : Fine(n)') <=> Fine(m)' /\ \A n \in Names : Fine(n)
    OBVIOUS
  <1>. QED
    BY <1>1 DEF Judged

-----------------------------------------------------------------------------
(* The steps that do something with a name *)

LEMMA CompareStep ==
    ASSUME TypeOK, Sorted, Apart, Counted, Judged, Compare, outcome' # "threw"
    PROVE  Apart' /\ Counted' /\ Judged'
  <1>0. got[g] \in Names
    BY CaseTyped DEF Compare, InBoth, TypeOK
  <1>1. PICK m \in Names :
        /\ got[g] = m /\ expected[e].name = m /\ expected[e].output
        /\ case' = case /\ e' = e + 1 /\ g' = g + 1
        /\ e <= Len(expected) /\ g <= Len(got) /\ Do("=", m)
        /\ ok' <=> ok /\ Judgement(m) = "same"
    BY <1>0 DEF Compare, InBoth
  <1>2. /\ \A j \in 1..Len(expected) : expected[j].name \in Int
        /\ \A j \in 1..Len(got) : got[j] \in Int
        /\ Len(expected) \in Nat /\ Len(got) \in Nat
        /\ e \in 1..(Len(expected) + 1) /\ g \in 1..(Len(got) + 1)
    BY CaseTyped DEF TypeOK
  <1>3. Apart'
    <2>1. \A k \in g'..Len(got) : expected[e].name < got[k]
      BY <1>1, <1>2 DEF Sorted
    <2>2. \A j \in e'..Len(expected) : got[g] < expected[j].name
      BY <1>1, <1>2 DEF Sorted
    <2>. QED
      BY <1>1, <2>1, <2>2, StaysApart
  <1>4. Wanted(m) /\ Present(m) /\ ~WantedBefore(m) /\ ~PresentBefore(m)
    <2>1. Wanted(m) /\ Present(m)
      BY <1>1, <1>2 DEF Wanted, Present
    <2>. QED
      BY <1>1, <2>1, Position
  <1>5. \A n : /\ Wanted(n)' <=> Wanted(n)
               /\ Present(n)' <=> Present(n)
               /\ WantedBefore(n)' <=> WantedBefore(n) \/ n = m
               /\ PresentBefore(n)' <=> PresentBefore(n) \/ n = m
    BY <1>1, Moving
  <1>6. Counted'
    <2>1. ~DoneWith("=", m) /\ DoneWith("=", m)'
      BY <1>4, <1>5 DEF DoneWith
    <2>2. ASSUME NEW k \in Kind, NEW n \in Names, <<k, n>> # <<"=", m>>
          PROVE  DoneWith(k, n)' <=> DoneWith(k, n)
      BY <1>4, <1>5, <2>2 DEF DoneWith, Kind
    <2>. QED
      BY <1>1, <2>1, <2>2, StaysCounted DEF Kind
  <1>7. Judged'
    <2>1. \A n : Judgement(n)' = Judgement(n)
      BY <1>1, JudgementStays
    <2>2. Fine(m)
      BY <1>4 DEF Fine
    <2>3. Fine(m)' <=> Judgement(m) = "same"
      BY <1>4, <1>5, <2>1 DEF Fine
    <2>4. ASSUME NEW n \in Names, n # m PROVE Fine(n)' <=> Fine(n)
      BY <1>1, <1>5, <2>1, <2>4 DEF Fine
    <2>. QED
      BY <1>1, <2>2, <2>3, <2>4, StaysJudged
  <1>. QED
    BY <1>3, <1>6, <1>7

\* Missing, and RestMissing of a file that should be there.
LEMMA MissingStep ==
    ASSUME TypeOK, Sorted, Apart, Counted, Judged,
           e <= Len(expected), expected[e].output,
           g <= Len(got) => expected[e].name < got[g],
           case' = case, e' = e + 1, g' = g, Report("-", expected[e].name)
    PROVE  Apart' /\ Counted' /\ Judged'
  <1>2. /\ \A j \in 1..Len(expected) : expected[j].name \in Int
        /\ \A j \in 1..Len(got) : got[j] \in Int
        /\ Len(expected) \in Nat /\ Len(got) \in Nat
        /\ e \in 1..(Len(expected) + 1) /\ g \in 1..(Len(got) + 1)
    BY CaseTyped DEF TypeOK
  <1>0. expected[e].name \in Names
    BY <1>2, CaseTyped
  <1>1. PICK m \in Names : expected[e].name = m /\ Do("-", m) /\ ~ok'
    BY <1>0 DEF Report
  <1>3. Apart'
    <2>1. \A k \in g'..Len(got) : expected[e].name < got[k]
      BY <1>2 DEF Sorted
    <2>. QED
      BY <2>1, StaysApart
  <1>4. ~Present(m) /\ ~WantedBefore(m) /\ ~PresentBefore(m)
    <2>1. ~Present(m) /\ ~WantedBefore(m)
      BY <1>1, Position
    <2>. QED
      BY <1>2, <2>1 DEF Present, PresentBefore
  <1>5. \A n : /\ Wanted(n)' <=> Wanted(n)
               /\ Present(n)' <=> Present(n)
               /\ WantedBefore(n)' <=> WantedBefore(n) \/ n = m
               /\ PresentBefore(n)' <=> PresentBefore(n)
    BY <1>1, Moving
  <1>6. Counted'
    <2>1. ~DoneWith("-", m) /\ DoneWith("-", m)'
      BY <1>4, <1>5 DEF DoneWith
    <2>2. ASSUME NEW k \in Kind, NEW n \in Names, <<k, n>> # <<"-", m>>
          PROVE  DoneWith(k, n)' <=> DoneWith(k, n)
      BY <1>4, <1>5, <2>2 DEF DoneWith, Kind
    <2>. QED
      BY <1>1, <2>1, <2>2, StaysCounted DEF Kind
  <1>7. Judged'
    <2>2. Fine(m) /\ ~Fine(m)'
      BY <1>4, <1>5 DEF Fine
    <2>4. ASSUME NEW n \in Names, n # m PROVE Fine(n)' <=> Fine(n)
      BY <1>1, <1>5, <2>4, JudgementStays DEF Fine
    <2>. QED
      BY <1>1, <2>2, <2>4, StaysJudged
  <1>. QED
    BY <1>3, <1>6, <1>7

\* Unexpected and RestUnexpected.
LEMMA UnexpectedStep ==
    ASSUME TypeOK, Sorted, Apart, Counted, Judged, g <= Len(got),
           e <= Len(expected) => expected[e].name > got[g],
           case' = case, e' = e, g' = g + 1, Report("+", got[g])
    PROVE  Apart' /\ Counted' /\ Judged'
  <1>2. /\ \A j \in 1..Len(expected) : expected[j].name \in Int
        /\ \A j \in 1..Len(got) : got[j] \in Int
        /\ Len(expected) \in Nat /\ Len(got) \in Nat
        /\ e \in 1..(Len(expected) + 1) /\ g \in 1..(Len(got) + 1)
    BY CaseTyped DEF TypeOK
  <1>0. got[g] \in Names
    BY <1>2, CaseTyped
  <1>1. PICK m \in Names : got[g] = m /\ Do("+", m) /\ ~ok'
    BY <1>0 DEF Report
  <1>3. Apart'
    <2>1. \A j \in e'..Len(expected) : got[g] < expected[j].name
      <3>1. ASSUME NEW j \in e..Len(expected) PROVE expected[e].name <= expected[j].name
        BY <1>2 DEF Sorted
      <3>. QED
        BY <1>2, <3>1
    <2>. QED
      BY <2>1, StaysApart
  <1>4. ~Wanted(m) /\ ~WantedBefore(m) /\ ~PresentBefore(m)
    <2>1. ~Wanted(m) /\ ~PresentBefore(m)
      BY <1>1, Position
    <2>. QED
      BY <1>2, <2>1 DEF Wanted, WantedBefore
  <1>5. \A n : /\ Wanted(n)' <=> Wanted(n)
               /\ Present(n)' <=> Present(n)
               /\ WantedBefore(n)' <=> WantedBefore(n)
               /\ PresentBefore(n)' <=> PresentBefore(n) \/ n = m
    BY <1>1, Moving
  <1>6. Counted'
    <2>1. ~DoneWith("+", m) /\ DoneWith("+", m)'
      BY <1>4, <1>5 DEF DoneWith
    <2>2. ASSUME NEW k \in Kind, NEW n \in Names, <<k, n>> # <<"+", m>>
          PROVE  DoneWith(k, n)' <=> DoneWith(k, n)
      BY <1>4, <1>5, <2>2 DEF DoneWith, Kind
    <2>. QED
      BY <1>1, <2>1, <2>2, StaysCounted DEF Kind
  <1>7. Judged'
    <2>2. Fine(m) /\ ~Fine(m)'
      BY <1>4, <1>5 DEF Fine
    <2>4. ASSUME NEW n \in Names, n # m PROVE Fine(n)' <=> Fine(n)
      BY <1>1, <1>5, <2>4, JudgementStays DEF Fine
    <2>. QED
      BY <1>1, <2>2, <2>4, StaysJudged
  <1>. QED
    BY <1>3, <1>6, <1>7

\* Passing a file that is to be deleted.
LEMMA PassStep ==
    ASSUME TypeOK, Sorted, Apart, Counted, Judged, ~expected[e].output,
           e <= Len(expected), case' = case, e' = e + 1, g' = g, UNCHANGED <<ok, times>>
    PROVE  Apart' /\ Counted' /\ Judged'
  <1>1. Apart'
    BY StaysApart
  <1>2. \A n : /\ Wanted(n)' <=> Wanted(n)
               /\ Present(n)' <=> Present(n)
               /\ WantedBefore(n)' <=> WantedBefore(n)
               /\ PresentBefore(n)' <=> PresentBefore(n)
    BY Moving
  <1>3. \A n \in Names, k \in Kind : DoneWith(k, n)' <=> DoneWith(k, n)
    BY <1>2 DEF DoneWith, Kind
  <1>4. Counted'
    BY <1>3 DEF Counted
  <1>5. \A n \in Names : Fine(n)' <=> Fine(n)
    BY <1>2, JudgementStays DEF Fine
  <1>6. Judged'
    BY <1>5 DEF Judged
  <1>. QED
    BY <1>1, <1>4, <1>6

LEMMA MergingStep == IInv /\ [Next]_vars => Merging'
  <1> SUFFICES ASSUME IInv, [Next]_vars, Sorted', outcome' # "threw"
               PROVE  Apart' /\ Counted' /\ Judged'
    BY DEF Merging
  <1>1. case' = case /\ expected' = expected /\ got' = got
    BY DEF Next, Step, vars, SkipDeleted, Compare, Missing, Unexpected, RestMissing,
           RestUnexpected, Return, expected, got
  <1>2. Sorted
    BY <1>1 DEF Sorted
  <1>3. outcome # "threw"
    BY DEF Next, Step, vars, SkipDeleted, InBoth, Compare, Missing, Unexpected,
           RestMissing, RestUnexpected, Return
  <1>4. TypeOK /\ Apart /\ Counted /\ Judged
    BY <1>2, <1>3 DEF IInv, Merging
  <1>5. CASE SkipDeleted
    BY <1>2, <1>4, <1>5, PassStep DEF SkipDeleted, InBoth
  <1>6. CASE Compare
    BY <1>2, <1>4, <1>6, CompareStep
  <1>7. CASE Missing
    BY <1>2, <1>4, <1>7, MissingStep DEF Missing, InBoth
  <1>8. CASE Unexpected
    BY <1>2, <1>4, <1>8, UnexpectedStep DEF Unexpected, InBoth
  <1>9. CASE RestMissing
    <2>1. Len(got) \in Nat /\ g \in 1..(Len(got) + 1)
      BY <1>4, CaseTyped DEF TypeOK
    <2>2. CASE expected[e].output
      BY <1>2, <1>4, <1>9, <2>1, <2>2, MissingStep DEF RestMissing
    <2>3. CASE ~expected[e].output
      BY <1>2, <1>4, <1>9, <2>3, PassStep DEF RestMissing
    <2>. QED
      BY <2>2, <2>3
  <1>10. CASE RestUnexpected
    <2>1. Len(expected) \in Nat /\ e \in 1..(Len(expected) + 1)
      BY <1>4, CaseTyped DEF TypeOK
    <2>. QED
      BY <1>2, <1>4, <1>10, <2>1, UnexpectedStep DEF RestUnexpected
  <1>11. CASE UNCHANGED <<case, e, g, ok, times>>
    <2>1. Apart'
      BY <1>1, <1>4, <1>11 DEF Apart
    <2>2. \A n : /\ Wanted(n)' <=> Wanted(n)
                 /\ Present(n)' <=> Present(n)
                 /\ WantedBefore(n)' <=> WantedBefore(n)
                 /\ PresentBefore(n)' <=> PresentBefore(n)
      BY <1>4, <1>11, Moving
    <2>3. \A n \in Names, k \in Kind : DoneWith(k, n)' <=> DoneWith(k, n)
      BY <2>2 DEF DoneWith, Kind
    <2>4. Counted'
      BY <1>4, <1>11, <2>3 DEF Counted
    <2>5. \A n \in Names : Fine(n)' <=> Fine(n)
      BY <1>11, <2>2, JudgementStays DEF Fine
    <2>. QED
      BY <1>4, <1>11, <2>1, <2>4, <2>5 DEF Judged
  <1>. QED
    BY <1>5, <1>6, <1>7, <1>8, <1>9, <1>10, <1>11 DEF Next, Step, Return, vars

-----------------------------------------------------------------------------
(* The theorems *)

LEMMA Invariance == Spec => []IInv
  <1>1. IInv /\ [Next]_vars => IInv'
    BY TypeStep, MergingStep DEF IInv
  <1>. QED
    BY InitInv, <1>1, PTL DEF Spec

\* The iterators never pass the end of their lists.
THEOREM TypeCorrect == Spec => []TypeOK
  <1>1. IInv => TypeOK
    BY DEF IInv
  <1>. QED
    BY Invariance, <1>1, PTL

LEMMA AtTheEnd ==
    ASSUME IInv, outcome = "returned"
    PROVE  \A n : (WantedBefore(n) <=> Wanted(n)) /\ (PresentBefore(n) <=> Present(n))
  <1>1. TypeOK /\ e > Len(expected) /\ g > Len(got)
    BY DEF IInv, AtEnd
  <1>2. e - 1 = Len(expected) /\ g - 1 = Len(got)
    BY <1>1, CaseTyped DEF TypeOK
  <1>. QED
    BY <1>2 DEF WantedBefore, Wanted, PresentBefore, Present

\* Sorted lists of any length, of files wanted, to be deleted and found: each file
\* only one side has is reported once, every other one is compared once, and
\* nothing else is done.
THEOREM MergeIsExact == Spec => []MergeExact
  <1>1. ASSUME IInv PROVE MergeExact
    <2> SUFFICES ASSUME outcome = "returned", Sorted, NEW n \in Names, NEW kind \in Kind
                 PROVE  times[<<kind, n>>] = IF Due(kind, n) THEN 1 ELSE 0
      BY DEF MergeExact, Exact
    <2>1. times[<<kind, n>>] = IF DoneWith(kind, n) THEN 1 ELSE 0
      BY <1>1 DEF IInv, Merging, Counted
    <2>2. DoneWith(kind, n) <=> Due(kind, n)
      BY <1>1, AtTheEnd DEF DoneWith, Due, Kind
    <2>. QED
      BY <2>1, <2>2
  <1>. QED
    BY Invariance, <1>1, PTL

\* The verdict is yes exactly if both sides have the same names and every pair
\* compares equal.
THEOREM VerdictIsRight == Spec => []VerdictRight
  <1>1. ASSUME IInv PROVE VerdictRight
    <2> SUFFICES ASSUME outcome = "returned", Sorted
                 PROVE  ok <=> \A n \in Names : /\ Wanted(n) <=> Present(n)
                                                /\ Present(n) => Judgement(n) = "same"
      BY DEF VerdictRight
    <2>1. ok <=> \A n \in Names : Fine(n)
      BY <1>1 DEF IInv, Merging, Judged
    <2>2. \A n \in Names : Fine(n) <=> /\ Wanted(n) <=> Present(n)
                                       /\ Present(n) => Judgement(n) = "same"
      BY <1>1, AtTheEnd DEF Fine
    <2>. QED
      BY <2>1, <2>2
  <1>. QED
    BY Invariance, <1>1, PTL

-----------------------------------------------------------------------------
(* What holds in whatever order the lists are *)

\* Each entry passed was compared or reported, and each file passed too.
FineIfOk == ok => \A n \in Names : Fine(n)

LEMMA PassedFiles ==
    ASSUME TypeOK
    PROVE  /\ \A n : (e' = e + 1 /\ case' = case /\ e <= Len(expected)) =>
                        (WantedBefore(n)' <=> \/ WantedBefore(n)
                                              \/ expected[e].output /\ n = expected[e].name)
           /\ \A n : (g' = g + 1 /\ case' = case /\ g <= Len(got)) =>
                        (PresentBefore(n)' <=> PresentBefore(n) \/ n = got[g])
           /\ \A n : (e' = e /\ case' = case) => (WantedBefore(n)' <=> WantedBefore(n))
           /\ \A n : (g' = g /\ case' = case) => (PresentBefore(n)' <=> PresentBefore(n))
           /\ \A n : case' = case => (Present(n)' <=> Present(n)) /\ (Wanted(n)' <=> Wanted(n))
  <1>. e \in 1..(Len(expected) + 1) /\ g \in 1..(Len(got) + 1)
    BY DEF TypeOK
  <1>. Len(expected) \in Nat /\ Len(got) \in Nat
    BY CaseTyped
  <1>1. ASSUME e' = e + 1, case' = case, e <= Len(expected), NEW n
        PROVE  WantedBefore(n)' <=> WantedBefore(n) \/ (expected[e].output /\ n = expected[e].name)
    <2>1. 1..(e' - 1) = 1..(e - 1) \cup {e}
      BY <1>1
    <2>. QED
      BY <1>1, <2>1 DEF WantedBefore, expected
  <1>2. ASSUME g' = g + 1, case' = case, g <= Len(got), NEW n
        PROVE  PresentBefore(n)' <=> PresentBefore(n) \/ n = got[g]
    <2>1. 1..(g' - 1) = 1..(g - 1) \cup {g}
      BY <1>2
    <2>. QED
      BY <1>2, <2>1 DEF PresentBefore, got
  <1>. QED
    BY <1>1, <1>2 DEF WantedBefore, PresentBefore, Wanted, Present, expected, got

LEMMA FineStep == TypeOK /\ FineIfOk /\ [Next]_vars => FineIfOk'
  <1> SUFFICES ASSUME TypeOK, FineIfOk, [Next]_vars, ok', NEW n \in Names
               PROVE  Fine(n)'
    BY DEF FineIfOk
  <1>0. case' = case
    BY DEF Next, Step, SkipDeleted, Compare, Missing, Unexpected, RestMissing, RestUnexpected,
           Return, vars
  <1>1. Judgement(n)' = Judgement(n)
    BY <1>0, JudgementStays
  <1>2. CASE SkipDeleted
    BY <1>0, <1>1, <1>2, PassedFiles DEF FineIfOk, SkipDeleted, InBoth, Fine
  <1>6. CASE Compare /\ Judgement(got[g]) = "throws"
    BY <1>0, <1>1, <1>6, PassedFiles DEF FineIfOk, Compare, Fine
  <1>3. CASE Compare /\ Judgement(got[g]) # "throws"
    <2>1. ok /\ Judgement(got[g]) = "same" /\ e' = e + 1 /\ g' = g + 1
      BY <1>3 DEF Compare
    <2>2. Wanted(got[g]) /\ Present(got[g])
      BY <1>3, CaseTyped DEF Compare, InBoth, Wanted, Present, TypeOK
    <2>3. /\ WantedBefore(n)' => WantedBefore(n) \/ n = got[g]
          /\ PresentBefore(n)' => PresentBefore(n) \/ n = got[g]
      BY <1>0, <1>3, <2>1, PassedFiles DEF Compare, InBoth
    <2>. QED
      BY <1>0, <1>1, <2>1, <2>2, <2>3, PassedFiles DEF FineIfOk, Fine
  <1>4. CASE RestMissing
    <2>1. ok /\ ~expected[e].output /\ e' = e + 1 /\ g' = g /\ e <= Len(expected)
      BY <1>4 DEF RestMissing, Report
    <2>. QED
      BY <1>0, <1>1, <2>1, PassedFiles DEF FineIfOk, Fine
  <1>5. CASE Return \/ UNCHANGED vars
    BY <1>0, <1>1, <1>5, PassedFiles DEF FineIfOk, Return, vars, Fine
  <1>. QED
    BY <1>2, <1>3, <1>4, <1>5, <1>6 DEF Next, Step, Missing, Unexpected, RestUnexpected, Report

\* Nor has a file been compared twice, if none is found twice.
TwiceIfOk ==
    ok => /\ \A n \in Names : WantedBefore(n) => PresentBefore(n)
          /\ ~FoundTwice => \A j, k \in 1..(e - 1) :
                expected[j].output /\ expected[k].output /\ expected[j].name = expected[k].name
                    => j = k

LEMMA TwiceStep == TypeOK /\ TwiceIfOk /\ [Next]_vars => TwiceIfOk'
  <1> SUFFICES ASSUME TypeOK, TwiceIfOk, [Next]_vars, ok'
               PROVE  TwiceIfOk'
    BY DEF TwiceIfOk
  <1>0. case' = case
    BY DEF Next, Step, SkipDeleted, Compare, Missing, Unexpected, RestMissing, RestUnexpected,
           Return, vars
  <1>1. (FoundTwice' <=> FoundTwice) /\ expected' = expected
    BY <1>0 DEF FoundTwice, expected, got
  <1>. e \in 1..(Len(expected) + 1) /\ g \in 1..(Len(got) + 1)
    BY DEF TypeOK
  <1>. Len(expected) \in Nat /\ Len(got) \in Nat
    BY CaseTyped
  <1>2. CASE ok /\ e' = e + 1 /\ e <= Len(expected) /\ ~expected[e].output /\ g' = g
    <2>1. \A n \in Names : WantedBefore(n)' => PresentBefore(n)'
      BY <1>0, <1>2, PassedFiles DEF TwiceIfOk
    <2>2. \A j \in 1..(e' - 1) : j \in 1..(e - 1) \/ j = e
      BY <1>2
    <2>. QED
      BY <1>1, <1>2, <2>1, <2>2 DEF TwiceIfOk
  <1>3. CASE Compare /\ Judgement(got[g]) # "throws"
    <2>1. /\ ok /\ e' = e + 1 /\ g' = g + 1 /\ e <= Len(expected) /\ g <= Len(got)
          /\ expected[e].output /\ expected[e].name = got[g]
      BY <1>3 DEF Compare, InBoth
    <2>7. got[g] \in Names
      BY <2>1, CaseTyped
    <2>2. \A n \in Names : WantedBefore(n)' => PresentBefore(n)'
      BY <1>0, <2>1, PassedFiles DEF TwiceIfOk
    <2>3. ~FoundTwice => ~PresentBefore(got[g])
      BY <2>1 DEF FoundTwice, PresentBefore
    <2>4. ~FoundTwice => ~WantedBefore(got[g])
      BY <2>1, <2>3, <2>7 DEF TwiceIfOk
    <2>5. \A j \in 1..(e' - 1) : j \in 1..(e - 1) \/ j = e
      BY <2>1
    <2>6. ~FoundTwice => \A j \in 1..(e - 1) : expected[j].output => expected[j].name # expected[e].name
      BY <2>1, <2>4 DEF WantedBefore
    <2>. QED
      BY <1>1, <2>1, <2>2, <2>5, <2>6 DEF TwiceIfOk
  <1>4. CASE UNCHANGED <<e, g, ok>>
    <2>1. \A n \in Names : WantedBefore(n)' => PresentBefore(n)'
      BY <1>0, <1>4, PassedFiles DEF TwiceIfOk
    <2>. QED
      BY <1>1, <1>4, <2>1 DEF TwiceIfOk
  <1>5. CASE SkipDeleted \/ RestMissing
    BY <1>2, <1>5 DEF SkipDeleted, InBoth, RestMissing, Report
  <1>6. CASE (Compare /\ Judgement(got[g]) = "throws") \/ Return \/ UNCHANGED vars
    BY <1>4, <1>6 DEF Compare, Return, vars
  <1>. QED
    BY <1>3, <1>5, <1>6 DEF Next, Step, Missing, Unexpected, RestUnexpected, Report

\* A verdict of yes is never wrong in what is wanted, even if the lists are not sorted or a
\* file is named more than once.
THEOREM PassIsSame == Spec => []PassMeansSame
  <1>1. Init => FineIfOk
    BY DEF Init, FineIfOk, Fine, WantedBefore, PresentBefore
  <1>2. Init => TwiceIfOk
    BY DEF Init, TwiceIfOk, WantedBefore
  <1>3. IInv /\ FineIfOk /\ TwiceIfOk => PassMeansSame
    <2> SUFFICES ASSUME TypeOK, AtEnd, FineIfOk, TwiceIfOk, outcome = "returned", ok
                 PROVE  /\ \A n \in Names : /\ Wanted(n) <=> Present(n)
                                            /\ Present(n) => Judgement(n) = "same"
                        /\ WantedTwice => FoundTwice
      BY DEF IInv, PassMeansSame
    <2>1. e = Len(expected) + 1 /\ g = Len(got) + 1
      BY CaseTyped DEF TypeOK, AtEnd
    <2>2. \A n \in Names : (WantedBefore(n) <=> Wanted(n)) /\ (PresentBefore(n) <=> Present(n))
      BY <2>1, CaseTyped DEF WantedBefore, PresentBefore, Wanted, Present
    <2>3. 1..(e - 1) = 1..Len(expected)
      BY <2>1, CaseTyped
    <2>4. WantedTwice => FoundTwice
      BY <2>3 DEF TwiceIfOk, WantedTwice
    <2>. QED
      BY <2>2, <2>4 DEF FineIfOk, Fine
  <1>. QED
    BY Invariance, <1>1, <1>2, <1>3, FineStep, TwiceStep, PTL DEF IInv, Spec

-----------------------------------------------------------------------------
(* Files compared and copied block by block *)

LEMMA ChunkIs ==
    ASSUME NEW file \in Content, NEW at \in Nat, at <= Len(file)
    PROVE  /\ Chunk(file, at) \in Content
           /\ Len(Chunk(file, at)) = IF Short(file, at) THEN Len(file) - at ELSE BufferSize
           /\ \A k \in 1..Len(Chunk(file, at)) : Chunk(file, at)[k] = file[at + k]
  <1>. BufferSize \in Nat /\ BufferSize > 0 /\ Len(file) \in Nat
    BY BufferAssumption DEF Content
  <1>1. CASE Short(file, at)
    BY <1>1 DEF Chunk, Short, Content
  <1>2. CASE ~Short(file, at)
    BY <1>2 DEF Chunk, Short, Content
  <1>. QED
    BY <1>1, <1>2

\* The recursion over the blocks ends, for what is left of the file gets shorter.
LEMMA ComparesBlocks ==
    ASSUME NEW left \in Content, NEW right \in Content
    PROVE  \E From \in [Nat -> BOOLEAN] :
              /\ compare_files(left, right) = From[0]
              /\ \A at \in Nat :
                    From[at] = (/\ SameChunk(Chunk(left, at), Chunk(right, at))
                                /\ IF Short(left, at) THEN Short(right, at)
                                   ELSE From[at + BufferSize])
  <1>. DEFINE E(f, at) == /\ SameChunk(Chunk(left, at), Chunk(right, at))
                          /\ IF Short(left, at) THEN Short(right, at) ELSE f[at + BufferSize]
              rank == [at \in Nat |-> IF at <= Len(left) THEN Len(left) - at ELSE 0]
              D == [at \in Nat |-> [f \in [Nat -> BOOLEAN] |-> E(f, at)]]
  <1>. BufferSize \in Nat /\ BufferSize > 0 /\ Len(left) \in Nat
    BY BufferAssumption DEF Content
  <1>1. rank \in [Nat -> Nat]
    OBVIOUS
  <1>2. \A at \in Nat : \A f \in [Nat -> BOOLEAN] : D[at][f] = E(f, at) /\ D[at][f] \in BOOLEAN
    BY DEF SameChunk, Short
  <1>3. ASSUME NEW at \in Nat, NEW f \in [Nat -> BOOLEAN], NEW h \in [Nat -> BOOLEAN],
               \A b \in Nat : rank[b] < rank[at] => f[b] = h[b]
        PROVE  D[at][f] = D[at][h]
    <2>1. CASE Short(left, at)
      <3>1. E(f, at) = E(h, at)
        BY <2>1
      <3>. QED
        BY <1>2, <3>1
    <2>2. CASE ~Short(left, at)
      <3>1. at + BufferSize \in Nat /\ rank[at + BufferSize] < rank[at]
        BY <2>2 DEF Short
      <3>2. E(f, at) = E(h, at)
        BY <1>3, <3>1
      <3>. QED
        BY <1>2, <3>2
    <2>. QED
      BY <2>1, <2>2
  <1>4. PICK From \in [Nat -> BOOLEAN] : \A at \in Nat : From[at] = D[at][From]
    <2>. HIDE DEF D, rank, E
    <2>1. DependsBelow(Nat, BOOLEAN, rank, D)
      BY <1>1, <1>2, <1>3 DEF DependsBelow
    <2>2. \E solution : Satisfies(solution, Nat, BOOLEAN, D)
      BY ONLY <2>1, Recursion, Zenon
    <2>. QED
      BY <2>2 DEF Satisfies
  <1>5. From = [at \in Nat |-> E(From, at)]
    <2>. HIDE DEF D, E
    <2>. QED
      BY <1>2, <1>4
  <1>. DEFINE F == CHOOSE f : f = [at \in Nat |-> E(f, at)]
  <1>6. F = [at \in Nat |-> E(F, at)]
    <2>. HIDE DEF E
    <2>. QED
      BY <1>5
  <1>7. F \in [Nat -> BOOLEAN]
    <2>1. \A at \in Nat : E(F, at) \in BOOLEAN
      BY DEF SameChunk
    <2>. HIDE DEF E, F
    <2>. QED
      BY <1>6, <2>1
  <1>8. compare_files(left, right) = F[0]
    BY DEF compare_files
  <1>. QED
    BY <1>6, <1>7, <1>8

\* Comparing block by block comes to comparing the files.
LEMMA ComparedIsSame ==
    ASSUME NEW left \in Content, NEW right \in Content
    PROVE  compare_files(left, right) <=> left = right
  <1>. BufferSize \in Nat /\ BufferSize > 0 /\ Len(left) \in Nat /\ Len(right) \in Nat
    BY BufferAssumption DEF Content
  <1>. DEFINE Rest(at) == /\ Len(left) = Len(right)
                          /\ \A k \in (at + 1)..Len(left) : left[k] = right[k]
  <1>1. PICK From \in [Nat -> BOOLEAN] :
          /\ compare_files(left, right) = From[0]
          /\ \A at \in Nat :
                From[at] = (/\ SameChunk(Chunk(left, at), Chunk(right, at))
                            /\ IF Short(left, at) THEN Short(right, at)
                               ELSE From[at + BufferSize])
    BY ComparesBlocks
  <1>2. ASSUME NEW at \in Nat, at <= Len(left), at <= Len(right), Short(left, at)
        PROVE  From[at] <=> Rest(at)
    <2>1. Len(Chunk(left, at)) = Len(left) - at
      BY <1>2, ChunkIs
    <2>2. ASSUME From[at]
          PROVE  Rest(at)
      <3>1. Len(Chunk(right, at)) = Len(right) - at /\ Len(left) = Len(right)
        <4>1. Len(Chunk(right, at)) = Len(left) - at /\ Short(right, at)
          BY <1>1, <1>2, <2>1, <2>2 DEF SameChunk
        <4>2. Len(Chunk(right, at)) = Len(right) - at
          BY <1>2, <4>1, ChunkIs
        <4>. QED
          BY <4>1, <4>2
      <3>2. ASSUME NEW k \in (at + 1)..Len(left)
            PROVE  left[k] = right[k]
        <4>1. k - at \in 1..Len(Chunk(left, at)) /\ at + (k - at) = k
          BY <2>1
        <4>2. Chunk(left, at)[k - at] = Chunk(right, at)[k - at]
          BY <1>1, <2>2, <4>1 DEF SameChunk
        <4>3. Chunk(left, at)[k - at] = left[k]
          BY <1>2, <4>1, ChunkIs
        <4>4. Chunk(right, at)[k - at] = right[k]
          BY <1>2, <2>1, <3>1, <4>1, ChunkIs
        <4>. QED
          BY <4>2, <4>3, <4>4
      <3>. QED
        BY <3>1, <3>2
    <2>3. ASSUME Rest(at)
          PROVE  From[at]
      <3>1. Short(right, at) /\ Len(Chunk(right, at)) = Len(left) - at
        BY <1>2, <2>3, ChunkIs DEF Short
      <3>2. ASSUME NEW k \in 1..Len(Chunk(left, at))
            PROVE  Chunk(left, at)[k] = Chunk(right, at)[k]
        <4>1. k \in 1..Len(Chunk(right, at)) /\ at + k \in (at + 1)..Len(left)
          BY <2>1, <3>1
        <4>. QED
          BY <1>2, <2>3, <4>1, ChunkIs
      <3>. QED
        BY <1>1, <1>2, <2>1, <3>1, <3>2 DEF SameChunk
    <2>. QED
      BY <2>2, <2>3
  <1>3. ASSUME NEW at \in Nat, at <= Len(left), at <= Len(right), ~Short(left, at),
               at + BufferSize <= Len(right) => (From[at + BufferSize] <=> Rest(at + BufferSize))
        PROVE  From[at] <=> Rest(at)
    <2>1. Len(Chunk(left, at)) = BufferSize
      BY <1>3, ChunkIs
    <2>2. ASSUME From[at]
          PROVE  Rest(at)
      <3>1. Len(Chunk(right, at)) = BufferSize /\ From[at + BufferSize]
        BY <1>1, <1>3, <2>1, <2>2 DEF SameChunk
      <3>2. at + BufferSize <= Len(right)
        BY <1>3, <3>1, ChunkIs DEF Short
      <3>3. Rest(at + BufferSize)
        BY <1>3, <3>1, <3>2
      <3>4. ASSUME NEW k \in (at + 1)..(at + BufferSize)
            PROVE  left[k] = right[k]
        <4>1. k - at \in 1..BufferSize /\ at + (k - at) = k
          OBVIOUS
        <4>2. Chunk(left, at)[k - at] = Chunk(right, at)[k - at]
          BY <1>1, <2>1, <2>2, <4>1 DEF SameChunk
        <4>3. Chunk(left, at)[k - at] = left[k]
          BY <1>3, <2>1, <4>1, ChunkIs
        <4>4. Chunk(right, at)[k - at] = right[k]
          BY <1>3, <3>1, <4>1, ChunkIs
        <4>. QED
          BY <4>2, <4>3, <4>4
      <3>. QED
        BY <3>3, <3>4
    <2>3. ASSUME Rest(at)
          PROVE  From[at]
      <3>1. at + BufferSize <= Len(left) /\ at + BufferSize <= Len(right)
        BY <1>3, <2>3 DEF Short
      <3>2. Len(Chunk(right, at)) = BufferSize
        BY <1>3, <3>1, ChunkIs DEF Short
      <3>3. Rest(at + BufferSize)
        BY <2>3
      <3>4. ASSUME NEW k \in 1..BufferSize
            PROVE  Chunk(left, at)[k] = Chunk(right, at)[k]
        <4>1. at + k \in (at + 1)..Len(left)
          BY <3>1
        <4>. QED
          BY <1>3, <2>1, <2>3, <3>2, <4>1, ChunkIs
      <3>. QED
        BY <1>1, <1>3, <2>1, <3>1, <3>2, <3>3, <3>4 DEF SameChunk
    <2>. QED
      BY <2>2, <2>3
  <1>4. \A n \in Nat : \A at \in Nat :
          at <= Len(left) /\ at <= Len(right) /\ Len(left) - at <= n => (From[at] <=> Rest(at))
    <2>. DEFINE T == {n \in Nat : \A at \in Nat :
                         at <= Len(left) /\ at <= Len(right) /\ Len(left) - at <= n
                            => (From[at] <=> Rest(at))}
    <2>. HIDE DEF Rest
    <2>1. 0 \in T
      BY <1>2 DEF Short
    <2>2. ASSUME NEW n \in Nat, n \in T
          PROVE  n + 1 \in T
      <3>. SUFFICES ASSUME NEW at \in Nat, at <= Len(left), at <= Len(right),
                           Len(left) - at <= n + 1
                    PROVE  From[at] <=> Rest(at)
        OBVIOUS
      <3>1. CASE Short(left, at)
        BY <1>2, <3>1
      <3>2. CASE ~Short(left, at)
        <4>1. at + BufferSize \in Nat /\ at + BufferSize <= Len(left)
              /\ Len(left) - (at + BufferSize) <= n
          BY <3>2 DEF Short
        <4>2. at + BufferSize <= Len(right) => (From[at + BufferSize] <=> Rest(at + BufferSize))
          BY <2>2, <4>1
        <4>. QED
          BY <1>3, <3>2, <4>2
      <3>. QED
        BY <3>1, <3>2
    <2>3. Nat \subseteq T
      <3>. HIDE DEF T
      <3>. QED
        BY <2>1, <2>2, AllNumbers
    <2>. QED
      BY <2>3
  <1>5. From[0] <=> Rest(0)
    <2>. HIDE DEF Rest
    <2>. QED
      BY <1>4
  <1>6. Rest(0) <=> left = right
    BY DEF Content
  <1>. QED
    BY <1>1, <1>5, <1>6

LEMMA CopiesBlocks ==
    ASSUME NEW from \in Content
    PROVE  \E From :
              /\ copy_file(from) = From[0]
              /\ \A at \in Nat :
                    From[at] = Chunk(from, at) \o (IF Short(from, at) THEN <<>>
                                                   ELSE From[at + BufferSize])
  <1>. DEFINE E(f, at) == Chunk(from, at) \o (IF Short(from, at) THEN <<>>
                                              ELSE f[at + BufferSize])
              rank == [at \in Nat |-> IF at <= Len(from) THEN Len(from) - at ELSE 0]
              D == [at \in Nat |-> [f \in [Nat -> Content] |-> E(f, at)]]
  <1>. BufferSize \in Nat /\ BufferSize > 0 /\ Len(from) \in Nat
    BY BufferAssumption DEF Content
  <1>1. rank \in [Nat -> Nat] /\ Content # {}
    BY DEF Content
  <1>2. \A at \in Nat : Chunk(from, at) \in Content
    <2>1. ASSUME NEW at \in Nat, Short(from, at)
          PROVE  Chunk(from, at) \in Content
      BY <2>1 DEF Chunk, Content
    <2>2. ASSUME NEW at \in Nat, ~Short(from, at)
          PROVE  Chunk(from, at) \in Content
      BY <2>2 DEF Chunk, Content, Short
    <2>. QED
      BY <2>1, <2>2
  <1>3. \A at \in Nat : \A f \in [Nat -> Content] : D[at][f] = E(f, at) /\ D[at][f] \in Content
    <2>1. ASSUME NEW at \in Nat, NEW f \in [Nat -> Content]
          PROVE  E(f, at) \in Content
      <3>. DEFINE rest == IF Short(from, at) THEN <<>> ELSE f[at + BufferSize]
      <3>1. rest \in Seq(Byte) /\ Chunk(from, at) \in Seq(Byte)
        <4>1. at + BufferSize \in Nat
          OBVIOUS
        <4>2. f[at + BufferSize] \in Seq(Byte)
          BY <4>1 DEF Content
        <4>. QED
          BY <1>2, <4>2 DEF Content
      <3>. HIDE DEF rest
      <3>2. Chunk(from, at) \o rest \in Seq(Byte)
        BY <3>1
      <3>. QED
        BY <3>2 DEF rest, Content
    <2>. HIDE DEF E
    <2>. QED
      BY <2>1
  <1>4. ASSUME NEW at \in Nat, NEW f \in [Nat -> Content], NEW h \in [Nat -> Content],
               \A b \in Nat : rank[b] < rank[at] => f[b] = h[b]
        PROVE  D[at][f] = D[at][h]
    <2>1. CASE Short(from, at)
      <3>1. E(f, at) = E(h, at)
        BY <2>1
      <3>. QED
        BY <1>3, <3>1
    <2>2. CASE ~Short(from, at)
      <3>1. at + BufferSize \in Nat /\ rank[at + BufferSize] < rank[at]
        BY <2>2 DEF Short
      <3>2. E(f, at) = E(h, at)
        BY <1>4, <3>1
      <3>. QED
        BY <1>3, <3>2
    <2>. QED
      BY <2>1, <2>2
  <1>5. PICK From \in [Nat -> Content] : \A at \in Nat : From[at] = D[at][From]
    <2>. HIDE DEF D, rank, E
    <2>1. DependsBelow(Nat, Content, rank, D)
      BY <1>1, <1>3, <1>4 DEF DependsBelow
    <2>2. \E solution : Satisfies(solution, Nat, Content, D)
      BY ONLY <2>1, Recursion, Zenon
    <2>. QED
      BY <2>2 DEF Satisfies
  <1>6. From = [at \in Nat |-> E(From, at)]
    <2>. HIDE DEF D, E
    <2>. QED
      BY <1>3, <1>5
  <1>. DEFINE F == CHOOSE f : f = [at \in Nat |-> E(f, at)]
  <1>7. F = [at \in Nat |-> E(F, at)]
    <2>. HIDE DEF E
    <2>. QED
      BY <1>6
  <1>8. copy_file(from) = F[0]
    BY DEF copy_file
  <1>. QED
    <2>. HIDE DEF F
    <2>1. \A at \in Nat : F[at] = E(F, at)
      <3>. HIDE DEF E
      <3>. QED
        BY <1>7
    <2>. QED
      BY <1>8, <2>1

\* A copy is the file copied.
LEMMA CopiedIsSame ==
    ASSUME NEW from \in Content
    PROVE  copy_file(from) = from
  <1>. BufferSize \in Nat /\ BufferSize > 0 /\ Len(from) \in Nat
    BY BufferAssumption DEF Content
  <1>. DEFINE Rest(at) == SubSeq(from, at + 1, Len(from))
  <1>1. PICK From :
          /\ copy_file(from) = From[0]
          /\ \A at \in Nat :
                From[at] = Chunk(from, at) \o (IF Short(from, at) THEN <<>>
                                               ELSE From[at + BufferSize])
    BY CopiesBlocks
  <1>2. ASSUME NEW at \in Nat, at <= Len(from), Short(from, at)
        PROVE  From[at] = Rest(at)
    <2>1. Chunk(from, at) = Rest(at)
      BY <1>2 DEF Chunk
    <2>2. Rest(at) \o <<>> = Rest(at)
      <3>1. Rest(at) \in Seq(Byte)
        BY <1>2 DEF Content
      <3>. QED
        BY <3>1
    <2>. QED
      BY <1>1, <1>2, <2>1, <2>2
  <1>3. ASSUME NEW at \in Nat, at <= Len(from), ~Short(from, at),
               From[at + BufferSize] = Rest(at + BufferSize)
        PROVE  From[at] = Rest(at)
    <2>1. Chunk(from, at) = SubSeq(from, at + 1, at + BufferSize)
      BY <1>3 DEF Chunk
    <2>2. at + BufferSize <= Len(from)
      BY <1>3 DEF Short
    <2>3. SubSeq(from, at + 1, at + BufferSize) \o Rest(at + BufferSize) = Rest(at)
      <3>. DEFINE m == at + 1
                  k == at + BufferSize
      <3>1. from \in Seq(Byte) /\ m \in 1..(Len(from) + 1) /\ k \in (m - 1)..Len(from)
            /\ Len(from) \in k..Len(from)
        BY <2>2 DEF Content
      <3>2. SubSeq(from, m, k) \o SubSeq(from, k + 1, Len(from)) = SubSeq(from, m, Len(from))
        <4>. HIDE DEF m, k
        <4>. QED
          BY <3>1, ConcatAdjacentSubSeq
      <3>. QED
        BY <3>2
    <2>4. From[at] = Chunk(from, at) \o From[at + BufferSize]
      BY <1>1, <1>3
    <2>. QED
      BY <1>3, <2>1, <2>3, <2>4
  <1>4. \A n \in Nat : \A at \in Nat :
          at <= Len(from) /\ Len(from) - at <= n => From[at] = Rest(at)
    <2>. DEFINE T == {n \in Nat : \A at \in Nat :
                         at <= Len(from) /\ Len(from) - at <= n => From[at] = Rest(at)}
    <2>. HIDE DEF Rest
    <2>1. 0 \in T
      BY <1>2 DEF Short
    <2>2. ASSUME NEW n \in Nat, n \in T
          PROVE  n + 1 \in T
      <3>. SUFFICES ASSUME NEW at \in Nat, at <= Len(from), Len(from) - at <= n + 1
                    PROVE  From[at] = Rest(at)
        OBVIOUS
      <3>1. CASE Short(from, at)
        BY <1>2, <3>1
      <3>2. CASE ~Short(from, at)
        <4>1. at + BufferSize \in Nat /\ at + BufferSize <= Len(from)
              /\ Len(from) - (at + BufferSize) <= n
          BY <3>2 DEF Short
        <4>2. From[at + BufferSize] = Rest(at + BufferSize)
          BY <2>2, <4>1
        <4>. QED
          BY <1>3, <3>2, <4>2
      <3>. QED
        BY <3>1, <3>2
    <2>3. Nat \subseteq T
      <3>. HIDE DEF T
      <3>. QED
        BY <2>1, <2>2, AllNumbers
    <2>. QED
      BY <2>3
  <1>5. From[0] = Rest(0)
    <2>. HIDE DEF Rest
    <2>. QED
      BY <1>4
  <1>6. Rest(0) = from
    BY DEF Content
  <1>. QED
    BY <1>1, <1>5, <1>6

\* Where bytes decide, a file passes exactly if it is the one expected, byte by byte,
\* whatever its length and the buffer's; one that was copied is still the one it was.
THEOREM ContentsAreCompared == Spec => []ContentsDecide
  <1>1. TypeOK /\ VerdictRight => ContentsDecide
    <2>. SUFFICES ASSUME TypeOK, VerdictRight, outcome = "returned", Sorted,
                         \A n \in Names : Wanted(n) <=> Present(n),
                         \A n \in Names : Wanted(n) => case.judge[n] = "bytes"
                  PROVE  ok <=> \A n \in Names : Wanted(n) => case.left[n] = case.right[n]
      BY DEF ContentsDecide
    <2>1. \A n \in Names : case.left[n] \in Content /\ case.right[n] \in Content
      BY DEF TypeOK, CaseType
    <2>2. ASSUME NEW n \in Names, Wanted(n)
          PROVE  Judgement(n) = "same" <=> case.left[n] = case.right[n]
      <3>1. Found(n) = case.right[n]
        BY <2>1, CopiedIsSame DEF Found
      <3>. QED
        BY <2>1, <2>2, <3>1, ComparedIsSame DEF Judgement
    <2>3. ok <=> \A n \in Names : Wanted(n) => Judgement(n) = "same"
      BY DEF VerdictRight
    <2>. QED
      BY <2>2, <2>3
  <1>. QED
    BY TypeCorrect, VerdictIsRight, <1>1, PTL

-----------------------------------------------------------------------------
(* list_files: the order of strings *)

\* s is before t because of what stands at k + 1.
DifferAt(s, t, k) ==
    /\ k \in 0..Len(s) /\ k < Len(t)
    /\ \A i \in 1..k : s[i] = t[i]
    /\ k = Len(s) \/ s[k + 1] < t[k + 1]

LEMMA LessIs ==
    ASSUME NEW s, NEW t
    PROVE  StringLess(s, t) <=> \E k : DifferAt(s, t, k)
  BY DEF StringLess, DifferAt

LEMMA LessIrreflexive ==
    ASSUME NEW s \in Text
    PROVE  ~StringLess(s, s)
  <1>1. ASSUME NEW k, DifferAt(s, s, k)
        PROVE  FALSE
    <2>1. k < Len(s) /\ k \in Nat /\ Len(s) \in Nat
      BY <1>1 DEF DifferAt, Text
    <2>2. s[k + 1] \in Nat
      BY <2>1 DEF Text
    <2>. QED
      BY <1>1, <2>1, <2>2 DEF DifferAt
  <1>. QED
    BY <1>1, LessIs

LEMMA LessTransitive ==
    ASSUME NEW s \in Text, NEW t \in Text, NEW u \in Text, StringLess(s, t), StringLess(t, u)
    PROVE  StringLess(s, u)
  <1>1. PICK j : DifferAt(s, t, j)
    BY LessIs
  <1>2. PICK k : DifferAt(t, u, k)
    BY LessIs
  <1>3. /\ Len(s) \in Nat /\ Len(t) \in Nat /\ Len(u) \in Nat /\ j \in Nat /\ k \in Nat
        /\ \A i \in 1..Len(s) : s[i] \in Nat
        /\ \A i \in 1..Len(t) : t[i] \in Nat
        /\ \A i \in 1..Len(u) : u[i] \in Nat
    <2>1. /\ Len(s) \in Nat /\ Len(t) \in Nat /\ Len(u) \in Nat
          /\ \A i \in 1..Len(s) : s[i] \in Nat
          /\ \A i \in 1..Len(t) : t[i] \in Nat
          /\ \A i \in 1..Len(u) : u[i] \in Nat
      BY DEF Text
    <2>2. j \in Nat /\ k \in Nat
      BY <1>1, <1>2, <2>1 DEF DifferAt
    <2>. QED
      BY <2>1, <2>2
  <1>4. CASE j <= k
    <2>1. DifferAt(s, u, j)
      <3>1. j < Len(u) /\ j \in 0..Len(s)
        BY <1>1, <1>2, <1>3, <1>4 DEF DifferAt
      <3>2. \A i \in 1..j : s[i] = u[i]
        BY <1>1, <1>2, <1>3, <1>4 DEF DifferAt
      <3>3. j < Len(s) => s[j + 1] < u[j + 1]
        <4>1. CASE j < k
          BY <1>1, <1>2, <1>3, <4>1 DEF DifferAt
        <4>2. CASE j = k
          <5>. SUFFICES ASSUME j < Len(s)
                        PROVE  s[j + 1] < u[j + 1]
            OBVIOUS
          <5>1. j < Len(t) /\ s[j + 1] < t[j + 1] /\ t[j + 1] < u[j + 1]
            BY <1>1, <1>2, <1>3, <4>2 DEF DifferAt
          <5>2. s[j + 1] \in Nat /\ t[j + 1] \in Nat /\ u[j + 1] \in Nat
            BY <1>3, <3>1, <5>1
          <5>. QED
            BY <5>1, <5>2
        <4>. QED
          BY <1>3, <1>4, <4>1, <4>2
      <3>. QED
        BY <1>3, <3>1, <3>2, <3>3 DEF DifferAt
    <2>. QED
      BY <2>1, LessIs
  <1>5. CASE k < j
    <2>1. DifferAt(s, u, k)
      <3>1. k < Len(s) /\ k < Len(t) /\ k < Len(u)
        BY <1>1, <1>2, <1>3, <1>5 DEF DifferAt
      <3>2. \A i \in 1..k : s[i] = u[i]
        BY <1>1, <1>2, <1>3, <1>5 DEF DifferAt
      <3>3. s[k + 1] = t[k + 1] /\ t[k + 1] < u[k + 1]
        BY <1>1, <1>2, <1>3, <1>5, <3>1 DEF DifferAt
      <3>. QED
        BY <1>3, <3>1, <3>2, <3>3 DEF DifferAt
    <2>. QED
      BY <2>1, LessIs
  <1>. QED
    BY <1>3, <1>4, <1>5

LEMMA LessTotal ==
    ASSUME NEW s \in Text, NEW t \in Text, s # t
    PROVE  StringLess(s, t) \/ StringLess(t, s)
  <1>1. /\ Len(s) \in Nat /\ Len(t) \in Nat
        /\ \A i \in 1..Len(s) : s[i] \in Nat
        /\ \A i \in 1..Len(t) : t[i] \in Nat
    BY DEF Text
  <1>. DEFINE Ends == {k \in Nat : \/ k = Len(s) \/ k = Len(t)
                                   \/ k < Len(s) /\ k < Len(t) /\ s[k + 1] # t[k + 1]}
  <1>2. PICK k \in Ends : \A m \in Ends : k <= m
    <2>1. Len(s) \in Ends
      BY <1>1
    <2>2. Ends \in SUBSET Nat /\ Ends # {}
      BY <2>1
    <2>. HIDE DEF Ends
    <2>. QED
      BY <2>2, LeastNumber
  <1>3. k \in Nat /\ k <= Len(s) /\ k <= Len(t)
    <2>1. Len(s) \in Ends /\ Len(t) \in Ends
      BY <1>1
    <2>. QED
      BY <1>2, <2>1
  <1>4. \A i \in 1..k : s[i] = t[i]
    <2>. SUFFICES ASSUME NEW i \in 1..k, s[i] # t[i]
                  PROVE  FALSE
      OBVIOUS
    <2>1. i - 1 \in Ends
      BY <1>1, <1>3
    <2>2. k <= i - 1
      <3>. HIDE DEF Ends
      <3>. QED
        BY <1>2, <2>1
    <2>. QED
      BY <1>3, <2>2
  <1>5. CASE k = Len(s) /\ k = Len(t)
    <2>1. s = t
      BY <1>4, <1>5, SeqEqual DEF Text
    <2>. QED
      BY <2>1
  <1>6. CASE k = Len(s) /\ k < Len(t)
    <2>1. DifferAt(s, t, k)
      BY <1>1, <1>3, <1>4, <1>6 DEF DifferAt
    <2>. QED
      BY <2>1, LessIs
  <1>7. CASE k < Len(s) /\ k = Len(t)
    <2>1. DifferAt(t, s, k)
      BY <1>1, <1>3, <1>4, <1>7 DEF DifferAt
    <2>. QED
      BY <2>1, LessIs
  <1>8. CASE k < Len(s) /\ k < Len(t)
    <2>1. s[k + 1] \in Nat /\ t[k + 1] \in Nat /\ s[k + 1] # t[k + 1]
      BY <1>1, <1>2, <1>3, <1>8
    <2>2. DifferAt(s, t, k) \/ DifferAt(t, s, k)
      BY <1>1, <1>3, <1>4, <1>8, <2>1 DEF DifferAt
    <2>. QED
      BY <2>2, LessIs
  <1>. QED
    BY <1>1, <1>3, <1>5, <1>6, <1>7, <1>8

-----------------------------------------------------------------------------
(* Sorting *)

\* Each pair of strings of the list, in this order, is in R.
Along(list, R) == \A j, k \in 1..Len(list) : j < k => <<list[j], list[k]>> \in R
Before == {pair \in Text \X Text : StringLess(pair[1], pair[2])}
Members(list) == {list[k] : k \in 1..Len(list)}

Sorts(seq, n, S) == seq \in [1..n -> S] /\ \A j, k \in 1..n : j < k => StringLess(seq[j], seq[k])

LEMMA SortedIsOnto ==
    ASSUME NEW S \in SUBSET Text, IsFiniteSet(S), NEW n, n = Cardinality(S),
           NEW seq, Sorts(seq, n, S)
    PROVE  \A s \in S : \E k \in 1..n : seq[k] = s
  <1>1. n \in Nat
    BY FS_CardinalityType
  <1>2. \A j, k \in 1..n : seq[j] = seq[k] => j = k
    <2>. SUFFICES ASSUME NEW j \in 1..n, NEW k \in 1..n, seq[j] = seq[k], j # k
                  PROVE  FALSE
      OBVIOUS
    <2>1. j < k \/ k < j
      BY <1>1
    <2>2. StringLess(seq[j], seq[j]) /\ seq[j] \in Text
      BY <2>1 DEF Sorts
    <2>. QED
      BY <2>2, LessIrreflexive
  <1>3. seq \in Injection(1..n, S)
    BY <1>2 DEF Sorts, Injection, IsInjective
  <1>4. IsFiniteSet(1..n) /\ Cardinality(1..n) = n
    BY <1>1, FS_Interval
  <1>5. seq \in Surjection(1..n, S)
    BY <1>3, <1>4, FS_Injection
  <1>. QED
    BY <1>5 DEF Surjection

LEMMA CanBeSorted ==
    ASSUME NEW S \in SUBSET Text, IsFiniteSet(S)
    PROVE  \E seq : Sorts(seq, Cardinality(S), S)
  <1>. DEFINE Sortable == {n \in Nat : \A T \in SUBSET Text : 
                             IsFiniteSet(T) /\ Cardinality(T) = n => \E seq : Sorts(seq, n, T)}
  <1>1. 0 \in Sortable
    <2>1. ASSUME NEW T \in SUBSET Text, IsFiniteSet(T), Cardinality(T) = 0
          PROVE  \E seq : Sorts(seq, 0, T)
      <3>1. Sorts([k \in 1..0 |-> 0], 0, T)
        BY DEF Sorts
      <3>. QED
        BY <3>1
    <2>. QED
      BY <2>1
  <1>2. ASSUME NEW n \in Nat, n \in Sortable
        PROVE  n + 1 \in Sortable
    <2>. SUFFICES ASSUME NEW T \in SUBSET Text, IsFiniteSet(T), Cardinality(T) = n + 1
                  PROVE  \E seq : Sorts(seq, n + 1, T)
      OBVIOUS
    \* Without one element, the rest has a last one.
    <2>1. ASSUME NEW x \in T
          PROVE  /\ IsFiniteSet(T \ {x}) /\ Cardinality(T \ {x}) = n
                 /\ \E seq : Sorts(seq, n, T \ {x})
      <3>1. IsFiniteSet(T \ {x}) /\ Cardinality(T \ {x}) = n
        <4>1. IsFiniteSet(T \ {x}) /\ Cardinality(T \ {x}) = Cardinality(T) - 1
          BY ONLY IsFiniteSet(T), x \in T, FS_RemoveElement
        <4>. QED
          BY <4>1
      <3>. QED
        BY <3>1, <1>2
    <2>2. ASSUME NEW x \in T, \A y \in T \ {x} : StringLess(y, x)
          PROVE  \E seq : Sorts(seq, n + 1, T)
      <3>1. PICK front : Sorts(front, n, T \ {x})
        BY <2>1
      <3>. DEFINE seq == [k \in 1..(n + 1) |-> IF k = n + 1 THEN x ELSE front[k]]
      <3>2. \A k \in 1..n : front[k] \in T \ {x}
        BY <3>1 DEF Sorts
      <3>3. seq \in [1..(n + 1) -> T]
        BY <3>2
      <3>4. \A j, k \in 1..(n + 1) : j < k => StringLess(seq[j], seq[k])
        <4>. SUFFICES ASSUME NEW j \in 1..(n + 1), NEW k \in 1..(n + 1), j < k
                      PROVE  StringLess(seq[j], seq[k])
          OBVIOUS
        <4>1. j \in 1..n /\ seq[j] = front[j]
          OBVIOUS
        <4>2. CASE k = n + 1
          BY <2>2, <3>2, <4>1, <4>2
        <4>3. CASE k \in 1..n
          <5>1. seq[k] = front[k]
            BY <4>3
          <5>. QED
            BY <3>1, <4>1, <4>3, <5>1 DEF Sorts
        <4>. QED
          BY <4>2, <4>3
      <3>. HIDE DEF seq
      <3>5. Sorts(seq, n + 1, T)
        BY <3>3, <3>4 DEF Sorts
      <3>. QED
        BY <3>5
    <2>3. PICK x : x \in T
      BY FS_EmptySet
    <2>4. PICK others : Sorts(others, n, T \ {x})
      BY <2>1, <2>3
    <2>5. CASE \A y \in T \ {x} : StringLess(y, x)
      BY <2>2, <2>3, <2>5
    <2>6. CASE \E y \in T \ {x} : ~StringLess(y, x)
      <3>1. \A y \in T \ {x} : \E k \in 1..n : others[k] = y
        BY <2>1, <2>3, <2>4, SortedIsOnto
      <3>2. PICK y \in T \ {x} : ~StringLess(y, x)
        BY <2>6
      <3>3. n \in 1..n
        BY <3>1, <3>2
      <3>. DEFINE last == others[n]
      <3>4. last \in T \ {x} /\ \A k \in 1..n : others[k] \in T \ {x}
        BY <2>4, <3>3 DEF Sorts
      <3>5. \A z \in T \ {x} : z = last \/ StringLess(z, last)
        <4>. SUFFICES ASSUME NEW z \in T \ {x}
                      PROVE  z = last \/ StringLess(z, last)
          OBVIOUS
        <4>1. PICK k \in 1..n : others[k] = z
          BY <3>1
        <4>. QED
          BY <2>4, <3>3, <4>1 DEF Sorts
      <3>. HIDE DEF last
      <3>6. x \in Text /\ y \in Text /\ last \in Text /\ x # y
        BY <2>3, <3>2, <3>4
      <3>7. StringLess(x, y)
        BY <3>2, <3>6, LessTotal
      <3>8. StringLess(x, last)
        BY <3>2, <3>5, <3>6, <3>7, LessTransitive
      <3>9. \A z \in T \ {last} : StringLess(z, last)
        BY <3>5, <3>8
      <3>. QED
        BY <2>2, <3>4, <3>9
    <2>. QED
      BY <2>5, <2>6
  <1>3. Nat \subseteq Sortable
    <2>. HIDE DEF Sortable
    <2>. QED
      BY <1>1, <1>2, AllNumbers
  <1>4. Cardinality(S) \in Nat
    BY FS_CardinalityType
  <1>. QED
    BY <1>3, <1>4

\* Sorting a finite set of strings gives each of them once, in order.
LEMMA StringsAreSorted ==
    ASSUME NEW S \in SUBSET Text, IsFiniteSet(S)
    PROVE  /\ SortStrings(S) \in Seq(S)
           /\ Members(SortStrings(S)) = S
           /\ Along(SortStrings(S), Before)
  <1>. DEFINE n == Cardinality(S)
              list == SortStrings(S)
  <1>1. n \in Nat
    BY FS_CardinalityType
  <1>2. list = CHOOSE seq \in [1..n -> S] :
                   \A j, k \in DOMAIN seq : j < k => StringLess(seq[j], seq[k])
    BY DEF SortStrings, Ordered
  <1>3. \E seq \in [1..n -> S] : \A j, k \in DOMAIN seq : j < k => StringLess(seq[j], seq[k])
    BY CanBeSorted DEF Sorts
  <1>. HIDE DEF list, n
  <1>4. Sorts(list, n, S)
    BY <1>2, <1>3 DEF Sorts
  <1>5. \A s \in S : \E k \in 1..n : list[k] = s
    BY <1>4, SortedIsOnto DEF n
  <1>6. list \in Seq(S) /\ Len(list) = n
    BY <1>1, <1>4 DEF Sorts
  <1>7. Members(list) = S
    BY <1>4, <1>5, <1>6 DEF Members, Sorts
  <1>8. Along(list, Before)
    BY <1>4, <1>6 DEF Along, Before, Sorts
  <1>. QED
    BY <1>6, <1>7, <1>8 DEF list

-----------------------------------------------------------------------------
(* Lists behind one another *)

Across(list, other, R) == \A x \in Members(list), y \in Members(other) : <<x, y>> \in R

LEMMA BehindOneAnother ==
    ASSUME NEW V, NEW list \in Seq(V), NEW other \in Seq(V), NEW R,
           Along(list, R), Along(other, R), Across(list, other, R)
    PROVE  /\ list \o other \in Seq(V)
           /\ Members(list \o other) = Members(list) \cup Members(other)
           /\ Along(list \o other, R)
  <1>. DEFINE m == Len(list)
              both == list \o other
  <1>1. /\ both \in Seq(V) /\ Len(both) = m + Len(other) /\ m \in Nat /\ Len(other) \in Nat
        /\ \A k \in 1..(m + Len(other)) : both[k] = IF k <= m THEN list[k] ELSE other[k - m]
    BY ConcatProperties
  <1>. HIDE DEF both
  <1>2. \A k \in 1..m : both[k] = list[k] /\ k \in 1..Len(both)
    BY <1>1
  <1>3. \A k \in 1..Len(other) : both[k + m] = other[k] /\ k + m \in 1..Len(both)
    BY <1>1
  <1>4. \A k \in 1..Len(both) : k \in 1..m \/ \E j \in 1..Len(other) : k = j + m
    <2>. SUFFICES ASSUME NEW k \in 1..Len(both), k > m
                  PROVE  \E j \in 1..Len(other) : k = j + m
      BY <1>1
    <2>1. k - m \in 1..Len(other) /\ k = (k - m) + m
      BY <1>1
    <2>. QED
      BY <2>1
  <1>5. Members(both) = Members(list) \cup Members(other)
    <2>1. ASSUME NEW x \in Members(both)
          PROVE  x \in Members(list) \cup Members(other)
      <3>1. PICK k \in 1..Len(both) : x = both[k]
        BY DEF Members
      <3>. QED
        BY <1>2, <1>3, <1>4, <3>1 DEF Members
    <2>2. ASSUME NEW x \in Members(list) \cup Members(other)
          PROVE  x \in Members(both)
      BY <1>2, <1>3 DEF Members
    <2>. QED
      BY <2>1, <2>2
  <1>6. ASSUME NEW j \in 1..Len(both), NEW k \in 1..Len(both), j < k
        PROVE  <<both[j], both[k]>> \in R
    <2>1. CASE k \in 1..m
      <3>1. j \in 1..m
        BY <1>1, <1>6, <2>1
      <3>. QED
        BY <1>2, <1>6, <2>1, <3>1 DEF Along
    <2>2. CASE \E i \in 1..Len(other) : k = i + m
      <3>1. PICK i \in 1..Len(other) : k = i + m
        BY <2>2
      <3>2. CASE j \in 1..m
        BY <1>2, <1>3, <3>1, <3>2 DEF Across, Members
      <3>3. CASE \E h \in 1..Len(other) : j = h + m
        <4>1. PICK h \in 1..Len(other) : j = h + m
          BY <3>3
        <4>2. h < i
          BY <1>1, <1>6, <3>1, <4>1
        <4>3. both[j] = other[h] /\ both[k] = other[i]
          BY <1>3, <3>1, <4>1
        <4>. QED
          BY <4>2, <4>3 DEF Along
      <3>. QED
        BY <1>4, <3>2, <3>3
    <2>. QED
      BY <1>4, <2>1, <2>2
  <1>7. Along(both, R)
    BY <1>6 DEF Along
  <1>. QED
    BY <1>1, <1>5, <1>7 DEF both

\* The recursive function in FlattenSeq.
Flattens(f, blocks, n, W) ==
    /\ f[1] = blocks[1]
    /\ \A k \in 1..(n - 1) : f[k + 1] = f[k] \o blocks[k + 1]
    /\ \A k \in 1..n : f[k] \in W
    /\ FlattenSeq(blocks) = f[n]

LEMMA FlattenIs ==
    ASSUME NEW W, \A a, b \in W : a \o b \in W,
           NEW blocks, NEW n \in Nat, n # 0, n = Len(blocks), \A k \in 1..n : blocks[k] \in W
    PROVE  \E f : Flattens(f, blocks, n, W)
  <1>. DEFINE E(f, k) == IF k = 1 THEN blocks[k] ELSE f[k - 1] \o blocks[k]
              step == [k \in 1..(n - 1) |-> [a \in W |-> a \o blocks[k + 1]]]
  <1>1. step \in [1..(n - 1) -> [W -> W]] /\ blocks[1] \in W /\ n - 1 \in Nat
    OBVIOUS
  <1>2. PICK f : Iterates(f, n - 1, W, blocks[1], step)
    <2>. HIDE DEF step
    <2>. QED
      BY <1>1, Iteration
  <1>3. f \in [0..(n - 1) -> W] /\ f[0] = blocks[1] /\ \A k \in 1..(n - 1) : f[k] = step[k][f[k - 1]]
    BY <1>2 DEF Iterates
  <1>. DEFINE h == [k \in 1..n |-> f[k - 1]]
  <1>4. ASSUME NEW k \in 1..n
        PROVE  h[k] = E(h, k)
    <2>1. CASE k = 1
      BY <1>3, <2>1
    <2>2. CASE k # 1
      <3>1. k - 1 \in 1..(n - 1) /\ k - 1 \in 1..n /\ (k - 1) - 1 \in 0..(n - 1) /\ (k - 1) + 1 = k
        BY <2>2
      <3>2. h[k] = f[k - 1] /\ h[k - 1] = f[(k - 1) - 1] /\ f[(k - 1) - 1] \in W
        <4>. HIDE DEF step
        <4>. QED
          BY <1>3, <3>1
      <3>3. f[k - 1] = step[k - 1][f[(k - 1) - 1]]
        <4>. HIDE DEF step
        <4>. QED
          BY <1>3, <3>1
      <3>4. step[k - 1][f[(k - 1) - 1]] = f[(k - 1) - 1] \o blocks[k]
        BY <3>1, <3>2
      <3>. HIDE DEF step, h
      <3>. QED
        BY <2>2, <3>2, <3>3, <3>4
    <2>. QED
      BY <2>1, <2>2
  <1>5. h = [k \in 1..n |-> E(h, k)]
    <2>. HIDE DEF E
    <2>. QED
      BY <1>4
  <1>. DEFINE F == CHOOSE flatten : flatten = [k \in 1..n |-> E(flatten, k)]
  <1>6. F = [k \in 1..n |-> E(F, k)]
    <2>. HIDE DEF E, h
    <2>. QED
      BY <1>5
  <1>7. FlattenSeq(blocks) = F[n]
    BY DEF FlattenSeq
  <1>8. \A k \in 1..n : F[k] = E(F, k)
    <2>. HIDE DEF E, F
    <2>. QED
      BY <1>6
  <1>. HIDE DEF F
  <1>9. F[1] = blocks[1] /\ \A k \in 1..(n - 1) : F[k + 1] = F[k] \o blocks[k + 1]
    <2>1. F[1] = blocks[1]
      BY <1>8
    <2>2. ASSUME NEW k \in 1..(n - 1)
          PROVE  F[k + 1] = F[k] \o blocks[k + 1]
      <3>1. k + 1 \in 1..n /\ k + 1 # 1 /\ (k + 1) - 1 = k
        OBVIOUS
      <3>. QED
        BY <1>8, <3>1
    <2>. QED
      BY <2>1, <2>2
  <1>10. \A k \in 1..n : F[k] \in W
    <2>. DEFINE T == {k \in 1..n : F[k] \in W}
    <2>1. 1 \in T
      BY <1>1, <1>9
    <2>2. ASSUME NEW k \in 1..(n - 1), k \in T
          PROVE  k + 1 \in T
      <3>1. k + 1 \in 1..n /\ F[k] \in W /\ blocks[k + 1] \in W
        BY <2>2
      <3>. QED
        BY <1>9, <3>1
    <2>3. 1..n \subseteq T
      <3>. HIDE DEF T
      <3>. QED
        BY ONLY n \in Nat, <2>1, <2>2, AllUpTo
    <2>. QED
      BY <2>3
  <1>11. Flattens(F, blocks, n, W)
    BY <1>7, <1>9, <1>10 DEF Flattens
  <1>. QED
    BY <1>11

\* Flattening keeps all members, and an order in which they are within the blocks and from
\* block to block.
LEMMA Flattened ==
    ASSUME NEW V, NEW blocks, NEW n \in Nat, n = Len(blocks), n = 0 => blocks = <<>>,
           \A k \in 1..n : blocks[k] \in Seq(V),
           NEW R, \A k \in 1..n : Along(blocks[k], R),
           \A j, k \in 1..n : j < k => Across(blocks[j], blocks[k], R)
    PROVE  /\ FlattenSeq(blocks) \in Seq(V)
           /\ \A x : x \in Members(FlattenSeq(blocks)) <=> \E k \in 1..n : x \in Members(blocks[k])
           /\ Along(FlattenSeq(blocks), R)
  <1>2. CASE n = 0
    <2>1. FlattenSeq(blocks) = <<>>
      BY <1>2 DEF FlattenSeq
    <2>2. Members(<<>>) = {} /\ Along(<<>>, R) /\ <<>> \in Seq(V)
      BY DEF Members, Along
    <2>3. 1..n = {}
      BY <1>2
    <2>. QED
      BY <2>1, <2>2, <2>3
  <1>3. CASE n # 0
    <2>0. \A a, b \in Seq(V) : a \o b \in Seq(V)
      OBVIOUS
    <2>1. PICK f : Flattens(f, blocks, n, Seq(V))
      <3>. DEFINE W == Seq(V)
      <3>. HIDE DEF W
      <3>1. \A a, b \in W : a \o b \in W
        BY <2>0 DEF W
      <3>2. \A k \in 1..n : blocks[k] \in W
        BY DEF W
      <3>3. \E f : Flattens(f, blocks, n, W)
        BY <1>3, <3>1, <3>2, FlattenIs
      <3>. QED
        BY <3>3 DEF W
    <2>. DEFINE Good(k) == /\ Along(f[k], R)
                           /\ \A x : x \in Members(f[k]) <=> \E j \in 1..k : x \in Members(blocks[j])
                Done == {k \in 1..n : Good(k)}
    <2>2. 1 \in Done
      <3>1. f[1] = blocks[1] /\ 1 \in 1..n
        BY <1>3, <2>1 DEF Flattens
      <3>2. Good(1)
        BY <3>1
      <3>. QED
        BY <3>1, <3>2
    <2>3. ASSUME NEW k \in 1..(n - 1), k \in Done
          PROVE  k + 1 \in Done
      <3>1. k \in 1..n /\ k + 1 \in 1..n
        OBVIOUS
      <3>2. f[k + 1] = f[k] \o blocks[k + 1] /\ f[k] \in Seq(V)
        BY <2>1, <3>1 DEF Flattens
      <3>3. Good(k)
        BY <2>3
      <3>4. Across(f[k], blocks[k + 1], R)
        <4>. SUFFICES ASSUME NEW x \in Members(f[k]), NEW y \in Members(blocks[k + 1])
                      PROVE  <<x, y>> \in R
          BY DEF Across
        <4>1. PICK j \in 1..k : x \in Members(blocks[j])
          BY <3>3
        <4>2. j \in 1..n /\ j < k + 1
          OBVIOUS
        <4>. QED
          BY <3>1, <4>1, <4>2 DEF Across
      <3>5. blocks[k + 1] \in Seq(V) /\ Along(blocks[k + 1], R) /\ Along(f[k], R)
        BY <3>1, <3>3
      <3>6. /\ Members(f[k + 1]) = Members(f[k]) \cup Members(blocks[k + 1])
            /\ Along(f[k + 1], R)
        BY <3>2, <3>4, <3>5, BehindOneAnother
      <3>7. \A x : x \in Members(f[k + 1]) <=> \E j \in 1..(k + 1) : x \in Members(blocks[j])
        <4>1. \A j : j \in 1..(k + 1) <=> (j \in 1..k \/ j = k + 1)
          BY <3>1
        <4>. QED
          BY <3>3, <3>6, <4>1
      <3>. QED
        BY <3>1, <3>6, <3>7
    <2>4. n \in Done
      <3>1. 1..n \subseteq Done
        <4>. HIDE DEF Done
        <4>. QED
          BY ONLY n \in Nat, <2>2, <2>3, AllUpTo
      <3>. HIDE DEF Done
      <3>. QED
        BY <1>3, <3>1
    <2>5. FlattenSeq(blocks) = f[n] /\ f[n] \in Seq(V)
      BY <1>3, <2>1 DEF Flattens
    <2>. QED
      BY <2>4, <2>5
  <1>. QED
    BY <1>2, <1>3

-----------------------------------------------------------------------------
(* The names of paths *)

LEMMA JoinIs ==
    /\ \A path \in Path : Join[path] \in Text
    /\ \A path \in Path : Join[path] = IF path = <<>> THEN <<>>
                                       ELSE append_path_component(Join[Front(path)], Last(path))
  <1>. DEFINE E(f, path) == IF path = <<>> THEN <<>>
                            ELSE append_path_component(f[Front(path)], Last(path))
              rank == [path \in Path |-> Len(path)]
              D == [path \in Path |-> [f \in [Path -> Text] |-> E(f, path)]]
  <1>1. ASSUME NEW path \in Path, path # <<>>
        PROVE  Front(path) \in Path /\ Len(Front(path)) = Len(path) - 1 /\ Last(path) \in Text
               /\ Len(path) \in Nat
    <2>1. Len(path) \in Nat /\ Len(path) > 0
      BY <1>1 DEF Path
    <2>2. \A i \in 1..(Len(path) - 1) : path[i] \in Text
      BY <2>1 DEF Path
    <2>3. Front(path) \in Seq(Text) /\ Len(Front(path)) = Len(path) - 1
      <3>. DEFINE m == Len(path) - 1
      <3>1. m \in Nat /\ \A i \in 1..m : path[i] \in Text
        BY <2>1, <2>2
      <3>. HIDE DEF m
      <3>2. SubSeq(path, 1, m) \in Seq(Text) /\ Len(SubSeq(path, 1, m)) = m
        BY <3>1, SubSeqProperties
      <3>. QED
        BY <3>2 DEF Front, m
    <2>4. Last(path) \in Text
      BY <2>1 DEF Last, Path
    <2>. QED
      BY <2>1, <2>3, <2>4 DEF Path
  <1>2. rank \in [Path -> Nat]
    BY DEF Path
  <1>3. \A d, n \in Text : append_path_component(d, n) \in Text
    <2>1. <<Slash>> \in Seq(Nat)
      BY DEF Slash
    <2>2. \A d, n \in Seq(Nat) : d \o <<Slash>> \o n \in Seq(Nat)
      BY <2>1
    <2>. QED
      BY <2>2 DEF append_path_component, Text
  <1>4. \A path \in Path : \A f \in [Path -> Text] : E(f, path) \in Text
    <2>. SUFFICES ASSUME NEW path \in Path, NEW f \in [Path -> Text]
                  PROVE  E(f, path) \in Text
      OBVIOUS
    <2>1. CASE path = <<>>
      BY <2>1 DEF Text
    <2>2. CASE path # <<>>
      BY <1>1, <1>3, <2>2
    <2>. QED
      BY <2>1, <2>2
  <1>5. \A path \in Path : \A f \in [Path -> Text] : D[path][f] = E(f, path) /\ D[path][f] \in Text
    <2>. HIDE DEF E
    <2>. QED
      BY <1>4
  <1>6. \A path \in Path : \A f, h \in [Path -> Text] :
          (\A p \in Path : rank[p] < rank[path] => f[p] = h[p]) => E(f, path) = E(h, path)
    <2>. SUFFICES ASSUME NEW path \in Path, NEW f \in [Path -> Text], NEW h \in [Path -> Text],
                         \A p \in Path : rank[p] < rank[path] => f[p] = h[p], path # <<>>
                  PROVE  f[Front(path)] = h[Front(path)]
      OBVIOUS
    <2>1. Front(path) \in Path /\ rank[Front(path)] < rank[path]
      BY <1>1
    <2>. QED
      BY <2>1
  <1>7. \A path \in Path : \A f, h \in [Path -> Text] :
          (\A p \in Path : rank[p] < rank[path] => f[p] = h[p]) => D[path][f] = D[path][h]
    <2>. HIDE DEF E, D, rank
    <2>. QED
      BY <1>5, <1>6
  <1>8. PICK f \in [Path -> Text] : \A path \in Path : f[path] = D[path][f]
    <2>. HIDE DEF rank, D, E
    <2>1. Text # {}
      <3>1. <<>> \in Seq(Nat)
        OBVIOUS
      <3>. QED
        BY <3>1 DEF Text
    <2>2. DependsBelow(Path, Text, rank, D)
      BY <1>2, <1>5, <1>7, <2>1 DEF DependsBelow
    <2>3. \E solution : Satisfies(solution, Path, Text, D)
      BY ONLY <2>2, Recursion, Zenon
    <2>. QED
      BY <2>3 DEF Satisfies
  <1>9. f = [path \in Path |-> E(f, path)]
    <2>. HIDE DEF D, E
    <2>. QED
      BY <1>5, <1>8
  <1>10. Join = CHOOSE h : h = [path \in Path |-> E(h, path)]
    BY DEF Join
  <1>11. Join = [path \in Path |-> E(Join, path)]
    <2>. HIDE DEF E
    <2>. QED
      BY <1>9, <1>10
  <1>12. \A path \in Path : Join[path] = E(Join, path)
    <2>. HIDE DEF E
    <2>. QED
      BY <1>11
  <1>13. \A path \in Path : Join[path] \in Text
    <2>. DEFINE Typed == {p \in Path : Join[p] \in Text}
    <2>1. \A path \in Path : (\A p \in Path : rank[p] < rank[path] => p \in Typed) => path \in Typed
      <3>. SUFFICES ASSUME NEW path \in Path, \A p \in Path : rank[p] < rank[path] => p \in Typed
                    PROVE  Join[path] \in Text
        OBVIOUS
      <3>1. CASE path = <<>>
        <4>1. Join[path] = <<>>
          BY <1>12, <3>1
        <4>2. <<>> \in Seq(Nat)
          OBVIOUS
        <4>. QED
          BY <4>1, <4>2 DEF Text
      <3>2. CASE path # <<>>
        <4>1. Front(path) \in Path /\ rank[Front(path)] < rank[path] /\ Last(path) \in Text
          BY <1>1, <3>2
        <4>. QED
          BY <1>3, <1>12, <3>2, <4>1
      <3>. QED
        BY <3>1, <3>2
    <2>2. Path \subseteq Typed
      <3>. HIDE DEF Typed, rank
      <3>. QED
        BY <1>2, <2>1, ByRank
    <2>. QED
      BY <2>2
  <1>. QED
    BY <1>12, <1>13

\* What can stand behind a name in a longer path.
Continues(t) == t \in Text /\ (t = <<>> \/ t[1] = Slash)

Named(path) == path \in Path /\ \A i \in 1..Len(path) : path[i] # <<>>
NameTo(path, k) == Join[SubSeq(path, 1, k)]

LEMMA NameToIs ==
    ASSUME NEW path \in Path
    PROVE  /\ Len(path) \in Nat
           /\ \A k \in 0..Len(path) : NameTo(path, k) \in Text
           /\ NameTo(path, 0) = <<>>
           /\ NameTo(path, Len(path)) = Join[path]
           /\ \A k \in 0..(Len(path) - 1) :
                 NameTo(path, k + 1) = append_path_component(NameTo(path, k), path[k + 1])
  <1>1. Len(path) \in Nat /\ \A k \in 1..Len(path) : path[k] \in Text
    BY DEF Path
  <1>2. \A k \in 0..Len(path) : SubSeq(path, 1, k) \in Path /\ Len(SubSeq(path, 1, k)) = k
    BY <1>1 DEF Path
  <1>3. \A k \in 0..Len(path) : NameTo(path, k) \in Text
    BY <1>2, JoinIs DEF NameTo
  <1>4. NameTo(path, 0) = <<>>
    <2>1. SubSeq(path, 1, 0) = <<>>
      OBVIOUS
    <2>2. <<>> \in Path
      BY DEF Path
    <2>. QED
      BY <2>1, <2>2, JoinIs DEF NameTo
  <1>5. NameTo(path, Len(path)) = Join[path]
    <2>1. SubSeq(path, 1, Len(path)) = path
      BY SubSeqFull DEF Path
    <2>. QED
      BY <2>1 DEF NameTo
  <1>6. ASSUME NEW k \in 0..(Len(path) - 1)
        PROVE  NameTo(path, k + 1) = append_path_component(NameTo(path, k), path[k + 1])
    <2>. DEFINE p == SubSeq(path, 1, k + 1)
    <2>1. k + 1 \in 1..Len(path) /\ p \in Path /\ Len(p) = k + 1 /\ k + 1 # 0
      BY <1>1, <1>2
    <2>2. p # <<>>
      BY <2>1
    <2>3. p[k + 1] = path[k + 1]
      BY <1>1, <2>1
    <2>4. SubSeq(p, 1, k) = SubSeq(path, 1, k)
      BY <1>1, <2>1 DEF Path
    <2>. HIDE DEF p
    <2>5. Last(p) = path[k + 1] /\ Front(p) = SubSeq(path, 1, k)
      BY <2>1, <2>3, <2>4 DEF Last, Front
    <2>. QED
      BY <2>1, <2>2, <2>5, JoinIs DEF NameTo, p
  <1>. QED
    BY <1>1, <1>3, <1>4, <1>5, <1>6

\* t is what stands in the name of the first k parts of a path behind that of the first m.
Behind(path, m, k, t) == Continues(t) /\ NameTo(path, k) = NameTo(path, m) \o t

LEMMA TextsAssociate ==
    ASSUME NEW x \in Seq(Nat), NEW y \in Seq(Nat), NEW z \in Seq(Nat)
    PROVE  (x \o y) \o z = x \o (y \o z)
  BY ConcatAssociative

LEMMA ContinuesOn ==
    ASSUME NEW path, Named(path), NEW m \in 1..Len(path)
    PROVE  /\ NameTo(path, m) # <<>>
           /\ \E t : Behind(path, m, Len(path), t)
  <1>. DEFINE n == Len(path)
  <1>1. n \in Nat /\ m \in Nat /\ 1 <= m /\ m <= n /\ path \in Path
    BY NameToIs DEF Named
  <1>2. /\ \A k \in 0..n : NameTo(path, k) \in Seq(Nat)
        /\ NameTo(path, n) = Join[path]
        /\ \A k \in 0..(n - 1) :
              NameTo(path, k + 1) = append_path_component(NameTo(path, k), path[k + 1])
    BY <1>1, NameToIs DEF Text
  <1>3. \A k \in 1..n : path[k] \in Seq(Nat) /\ path[k] # <<>>
    BY DEF Named, Path, Text
  <1>4. <<Slash>> \in Seq(Nat) /\ Len(<<Slash>>) = 1 /\ <<Slash>>[1] = Slash
    BY DEF Slash
  <1>. HIDE DEF n
  <1>5. ASSUME NEW k \in 0..(n - 1)
        PROVE  NameTo(path, k + 1) # <<>>
    <2>. DEFINE d == NameTo(path, k)
                a == path[k + 1]
    <2>1. d \in Seq(Nat) /\ a \in Seq(Nat) /\ a # <<>>
      <3>1. k \in 0..n /\ k + 1 \in 1..n
        BY <1>1
      <3>. QED
        BY <1>2, <1>3, <3>1
    <2>2. NameTo(path, k + 1) = append_path_component(d, a)
      BY <1>2
    <2>. HIDE DEF d, a
    <2>3. d \o <<Slash>> \in Seq(Nat)
      BY <1>4, <2>1
    <2>4. d \o <<Slash>> \o a # <<>>
      BY <2>1, <2>3, ConcatEqualIffEmpty
    <2>. QED
      BY <2>1, <2>2, <2>4 DEF append_path_component
  <1>6. \A k \in 1..n : NameTo(path, k) # <<>>
    <2>. SUFFICES ASSUME NEW k \in 1..n
                  PROVE  NameTo(path, k) # <<>>
      OBVIOUS
    <2>1. k - 1 \in 0..(n - 1) /\ (k - 1) + 1 = k
      BY <1>1
    <2>. QED
      BY <1>5, <2>1
  <1>. DEFINE T == {k \in m..n : \E t : Behind(path, m, k, t)}
  <1>7. m \in T
    <2>1. Continues(<<>>)
      <3>1. <<>> \in Seq(Nat)
        OBVIOUS
      <3>. QED
        BY <3>1 DEF Continues, Text
    <2>2. NameTo(path, m) \in Seq(Nat)
      BY <1>1, <1>2
    <2>3. Behind(path, m, m, <<>>)
      BY <2>1, <2>2, ConcatEmptySeq DEF Behind
    <2>. QED
      BY <1>1, <2>3
  <1>8. ASSUME NEW k \in m..(n - 1), k \in T
        PROVE  k + 1 \in T
    <2>1. PICK t : Behind(path, m, k, t)
      BY <1>8
    <2>. DEFINE d == NameTo(path, m)
                a == path[k + 1]
                u == t \o (<<Slash>> \o a)
    <2>2. /\ k \in 0..(n - 1) /\ k \in 1..n /\ k + 1 \in 1..n /\ k + 1 \in m..n /\ m \in 0..n
      BY <1>1
    <2>3. d \in Seq(Nat) /\ a \in Seq(Nat) /\ t \in Seq(Nat)
      BY <1>2, <1>3, <2>1, <2>2 DEF Behind, Continues, Text
    <2>4. NameTo(path, k + 1) = NameTo(path, k) \o <<Slash>> \o a
      BY <1>2, <1>6, <2>2 DEF append_path_component
    <2>5. NameTo(path, k) = d \o t
      BY <2>1 DEF Behind
    <2>. HIDE DEF d, a
    <2>6. <<Slash>> \o a \in Seq(Nat) /\ u \in Seq(Nat)
      BY <1>4, <2>3
    <2>7. (d \o t) \o <<Slash>> \o a = d \o u
      <3>1. (d \o t) \o <<Slash>> \o a = (d \o t) \o (<<Slash>> \o a)
        BY <1>4, <2>3, ConcatAssociative
      <3>. DEFINE b == <<Slash>> \o a
      <3>2. b \in Seq(Nat)
        BY <2>6
      <3>3. (d \o t) \o b = d \o (t \o b)
        <4>. HIDE DEF b
        <4>. QED
          BY ONLY <2>3, <3>2, TextsAssociate
      <3>. QED
        BY <3>1, <3>3
    <2>8. u[1] = Slash
      <3>. DEFINE b == <<Slash>> \o a
      <3>1. b \in Seq(Nat) /\ Len(b) = 1 + Len(a) /\ b[1] = Slash /\ Len(a) \in Nat
        BY <1>4, <2>3, ConcatProperties
      <3>. HIDE DEF b
      <3>2. CASE t = <<>>
        BY <2>3, <3>1, <3>2, ConcatEmptySeq DEF b
      <3>3. CASE t # <<>>
        <4>1. Len(t) \in Nat /\ Len(t) > 0 /\ t[1] = Slash
          BY <2>1, <2>3, <3>3 DEF Behind, Continues
        <4>2. (t \o b)[1] = t[1]
          BY <2>3, <3>1, <4>1, ConcatProperties
        <4>. QED
          BY <4>1, <4>2 DEF b
      <3>. QED
        BY <3>2, <3>3
    <2>. HIDE DEF u
    <2>9. Behind(path, m, k + 1, u)
      BY <2>4, <2>5, <2>6, <2>7, <2>8 DEF Behind, Continues, Text, d
    <2>. QED
      BY <2>2, <2>9
  <1>9. n \in T
    <2>1. m..n \subseteq T
      <3>. HIDE DEF T
      <3>. QED
        BY ONLY <1>1, <1>7, <1>8, AllUpTo
    <2>. HIDE DEF T
    <2>. QED
      BY <1>1, <2>1
  <1>10. \E t : Behind(path, m, n, t)
    BY <1>9
  <1>. QED
    BY <1>1, <1>6, <1>10 DEF n

\* Paths that part in a directory have names that part behind the name of that directory.
Parts(x, y, pre, a, b, t, u) ==
    /\ pre \in Text /\ Continues(t) /\ Continues(u)
    /\ x = (pre \o a) \o t
    /\ y = (pre \o b) \o u

LEMMA NamesPart ==
    ASSUME NEW p, NEW q, Named(p), Named(q), NEW k \in Nat, k < Len(p), k < Len(q),
           SubSeq(p, 1, k) = SubSeq(q, 1, k)
    PROVE  \E pre, t, u : Parts(Join[p], Join[q], pre, p[k + 1], q[k + 1], t, u)
  <1>. DEFINE d == NameTo(p, k)
              pre == IF d = <<>> THEN <<>> ELSE d \o <<Slash>>
  <1>1. p \in Path /\ q \in Path /\ Len(p) \in Nat /\ Len(q) \in Nat
    BY NameToIs DEF Named
  <1>2. d = NameTo(q, k) /\ d \in Seq(Nat)
    <2>1. k \in 0..Len(p)
      BY <1>1
    <2>. QED
      BY <1>1, <2>1, NameToIs DEF NameTo, Text
  <1>3. k \in 0..(Len(p) - 1) /\ k \in 0..(Len(q) - 1) /\ k + 1 \in 1..Len(p) /\ k + 1 \in 1..Len(q)
    BY <1>1
  <1>4. p[k + 1] \in Seq(Nat) /\ q[k + 1] \in Seq(Nat)
    BY <1>1, <1>3 DEF Path, Text
  <1>5. <<Slash>> \in Seq(Nat)
    BY DEF Slash
  <1>6. \A a \in Seq(Nat) : append_path_component(d, a) = pre \o a
    <2>. SUFFICES ASSUME NEW a \in Seq(Nat)
                  PROVE  append_path_component(d, a) = pre \o a
      OBVIOUS
    <2>. HIDE DEF d
    <2>1. CASE d = <<>>
      BY <2>1, ConcatEmptySeq DEF append_path_component
    <2>2. CASE d # <<>>
      BY <1>2, <1>5, <2>2, ConcatAssociative DEF append_path_component
    <2>. QED
      BY <2>1, <2>2
  <1>7. pre \in Text
    <2>. HIDE DEF d
    <2>1. d \o <<Slash>> \in Seq(Nat) /\ <<>> \in Seq(Nat)
      BY <1>2, <1>5
    <2>. QED
      BY <2>1 DEF Text
  <1>. HIDE DEF d, pre
  <1>8. NameTo(p, k + 1) = pre \o p[k + 1]
    BY <1>1, <1>3, <1>4, <1>6, NameToIs DEF d
  <1>9. NameTo(q, k + 1) = pre \o q[k + 1]
    BY <1>1, <1>2, <1>3, <1>4, <1>6, NameToIs
  <1>10. PICK t : Continues(t) /\ Join[p] = NameTo(p, k + 1) \o t
    BY <1>1, <1>3, ContinuesOn, NameToIs DEF Behind
  <1>11. PICK u : Continues(u) /\ Join[q] = NameTo(q, k + 1) \o u
    BY <1>1, <1>3, ContinuesOn, NameToIs DEF Behind
  <1>12. Parts(Join[p], Join[q], pre, p[k + 1], q[k + 1], t, u)
    BY <1>7, <1>8, <1>9, <1>10, <1>11 DEF Parts
  <1>. QED
    BY <1>12

\* Where the elements of s and t stand in s \o t.
LEMMA ConcatIs ==
    ASSUME NEW s \in Seq(Nat), NEW t \in Seq(Nat)
    PROVE  /\ s \o t \in Seq(Nat)
           /\ Len(s) \in Nat /\ Len(t) \in Nat
           /\ Len(s \o t) = Len(s) + Len(t)
           /\ \A i \in 1..Len(s) : (s \o t)[i] = s[i]
           /\ \A i \in 1..Len(t) : (s \o t)[Len(s) + i] = t[i]
  <1>1. /\ s \o t \in Seq(Nat) /\ Len(s \o t) = Len(s) + Len(t) /\ Len(s) \in Nat /\ Len(t) \in Nat
        /\ \A i \in 1..(Len(s) + Len(t)) : (s \o t)[i] = IF i <= Len(s) THEN s[i] ELSE t[i - Len(s)]
    BY ConcatProperties
  <1>. DEFINE m == Len(s)
              n == Len(t)
              st == s \o t
  <1>. HIDE DEF m, n, st
  <1>2. m \in Nat /\ n \in Nat /\ \A i \in 1..(m + n) : st[i] = IF i <= m THEN s[i] ELSE t[i - m]
    BY <1>1 DEF m, n, st
  <1>3. \A i \in 1..m : st[i] = s[i]
    BY <1>2
  <1>4. ASSUME NEW i \in 1..n
        PROVE  st[m + i] = t[i]
    <2>1. m + i \in 1..(m + n) /\ ~(m + i <= m) /\ (m + i) - m = i
      BY <1>2
    <2>. QED
      BY <1>2, <2>1
  <1>. QED
    BY <1>1, <1>3, <1>4 DEF m, n, st

\* Where those of its parts stand in x.
Composed(x, pre, m, a, n, t) ==
    /\ x \in Seq(Nat) /\ m \in Nat /\ n \in Nat /\ Len(t) \in Nat
    /\ Len(x) = (m + n) + Len(t)
    /\ \A i \in 1..m : x[i] = pre[i]
    /\ \A i \in 1..n : x[m + i] = a[i]
    /\ t # <<>> => Len(t) > 0 /\ x[(m + n) + 1] = t[1]

LEMMA PartsAre ==
    ASSUME NEW pre \in Text, NEW a \in Text, NEW t \in Text, NEW x, x = (pre \o a) \o t,
           NEW m, m = Len(pre), NEW n, n = Len(a)
    PROVE  Composed(x, pre, m, a, n, t)
  <1>0. pre \in Seq(Nat) /\ a \in Seq(Nat) /\ t \in Seq(Nat)
    BY DEF Text
  <1>. DEFINE xa == pre \o a
  <1>1. /\ xa \in Seq(Nat) /\ m \in Nat /\ n \in Nat /\ Len(xa) = m + n
        /\ \A i \in 1..m : xa[i] = pre[i]
        /\ \A i \in 1..n : xa[m + i] = a[i]
    BY <1>0, ConcatIs
  <1>. HIDE DEF xa
  <1>2. x = xa \o t
    BY DEF xa
  <1>3. /\ x \in Seq(Nat) /\ Len(t) \in Nat /\ Len(x) = (m + n) + Len(t)
        /\ \A i \in 1..Len(xa) : x[i] = xa[i]
        /\ \A i \in 1..Len(t) : x[Len(xa) + i] = t[i]
    <2>1. t \in Seq(Nat) /\ xa \in Seq(Nat)
      BY <1>0, <1>1
    <2>2. /\ xa \o t \in Seq(Nat) /\ Len(t) \in Nat /\ Len(xa \o t) = Len(xa) + Len(t)
          /\ \A i \in 1..Len(xa) : (xa \o t)[i] = xa[i]
          /\ \A i \in 1..Len(t) : (xa \o t)[Len(xa) + i] = t[i]
      BY ONLY <2>1, ConcatIs
    <2>. QED
      BY <1>1, <1>2, <2>2
  <1>4. ASSUME NEW i \in 1..m
        PROVE  x[i] = pre[i]
    <2>1. i \in 1..Len(xa)
      BY <1>1
    <2>. QED
      BY <1>1, <1>3, <2>1
  <1>5. ASSUME NEW i \in 1..n
        PROVE  x[m + i] = a[i]
    <2>1. m + i \in 1..Len(xa)
      BY <1>1
    <2>. QED
      BY <1>1, <1>3, <2>1
  <1>6. t # <<>> => Len(t) > 0 /\ x[(m + n) + 1] = t[1]
    <2>. SUFFICES ASSUME t # <<>>
                  PROVE  Len(t) > 0 /\ x[(m + n) + 1] = t[1]
      OBVIOUS
    <2>1. 1 \in 1..Len(t)
      BY <1>0
    <2>. QED
      BY <1>1, <1>3, <2>1
  <1>. QED
    BY <1>1, <1>3, <1>4, <1>5, <1>6 DEF Composed

\* Whatever comes behind, names that differ are followed by different strings, as a name
\* holds no slash, and by strings in the order of the names if a slash is smaller than
\* what they hold.
LEMMA PartedDiffer ==
    ASSUME NEW x, NEW y, NEW pre, NEW a \in Text, NEW b \in Text, NEW t, NEW u,
           Parts(x, y, pre, a, b, t, u), StringLess(a, b), \A i \in 1..Len(b) : b[i] # Slash
    PROVE  /\ x \in Text /\ y \in Text
           /\ x # y
           /\ (\A i \in 1..Len(b) : b[i] > Slash) => StringLess(x, y)
  <1>1. PICK k : DifferAt(a, b, k)
    BY LessIs
  <1>. DEFINE P == Len(pre)
              A == Len(a)
              B == Len(b)
  <1>0. P = Len(pre) /\ A = Len(a) /\ B = Len(b) /\ a \in Text /\ b \in Text
    OBVIOUS
  <1>. HIDE DEF P, A, B
  <1>2. pre \in Text /\ t \in Text /\ u \in Text /\ x = (pre \o a) \o t /\ y = (pre \o b) \o u
        /\ (t # <<>> => t[1] = Slash)
    BY DEF Parts, Continues
  <1>3. /\ x \in Seq(Nat) /\ P \in Nat /\ A \in Nat /\ Len(t) \in Nat /\ Len(x) = (P + A) + Len(t)
        /\ \A i \in 1..P : x[i] = pre[i]
        /\ \A i \in 1..A : x[P + i] = a[i]
        /\ t # <<>> => Len(t) > 0 /\ x[(P + A) + 1] = t[1]
    <2>1. Composed(x, pre, P, a, A, t)
      BY ONLY <1>0, <1>2, PartsAre
    <2>. QED
      BY <2>1 DEF Composed
  <1>4. /\ y \in Seq(Nat) /\ B \in Nat /\ Len(u) \in Nat /\ Len(y) = (P + B) + Len(u)
        /\ \A i \in 1..P : y[i] = pre[i]
        /\ \A i \in 1..B : y[P + i] = b[i]
    <2>1. Composed(y, pre, P, b, B, u)
      BY ONLY <1>0, <1>2, PartsAre
    <2>. QED
      BY <2>1 DEF Composed
  <1>5. k \in Nat /\ k <= A /\ k < B
    BY <1>0, <1>1, <1>3, <1>4 DEF DifferAt
  <1>6. P + k <= Len(x) /\ P + k < Len(y) /\ P + k \in Nat /\ k + 1 \in 1..B /\ P + (k + 1) = (P + k) + 1
    <2>1. /\ P \in Nat /\ A \in Nat /\ B \in Nat /\ Len(t) \in Nat /\ Len(u) \in Nat
          /\ Len(x) = (P + A) + Len(t) /\ Len(y) = (P + B) + Len(u)
      BY <1>3, <1>4
    <2>. QED
      BY ONLY <1>5, <2>1
  <1>7. \A i \in 1..(P + k) : x[i] = y[i]
    <2>. SUFFICES ASSUME NEW i \in 1..(P + k)
                  PROVE  x[i] = y[i]
      OBVIOUS
    <2>1. CASE i <= P
      <3>1. i \in 1..P
        BY <1>3, <1>5, <2>1
      <3>. QED
        BY <1>3, <1>4, <3>1
    <2>2. CASE ~(i <= P)
      <3>1. i - P \in 1..k /\ i - P \in 1..A /\ i - P \in 1..B /\ P + (i - P) = i
        <4>1. P \in Nat /\ A \in Nat /\ B \in Nat /\ k \in Nat /\ k <= A /\ k < B /\ i \in 1..(P + k)
          BY <1>3, <1>4, <1>5
        <4>. QED
          BY ONLY <4>1, <2>2
      <3>2. a[i - P] = b[i - P]
        BY <1>1, <3>1 DEF DifferAt
      <3>3. x[P + (i - P)] = a[i - P] /\ y[P + (i - P)] = b[i - P]
        BY <1>3, <1>4, <3>1
      <3>. QED
        BY <3>1, <3>2, <3>3
    <2>. QED
      BY <2>1, <2>2
  <1>. DEFINE K == P + k
  <1>8. y[K + 1] = b[k + 1] /\ b[k + 1] \in Nat
    <2>1. y[P + (k + 1)] = b[k + 1]
      BY <1>4, <1>6
    <2>2. b[k + 1] \in Nat
      BY <1>6 DEF B, Text
    <2>. QED
      BY <1>6, <2>1, <2>2
  <1>9. (K < Len(x) => x[K + 1] < y[K + 1]) => StringLess(x, y)
    <2>. SUFFICES ASSUME K < Len(x) => x[K + 1] < y[K + 1]
                  PROVE  StringLess(x, y)
      OBVIOUS
    <2>1. K \in 0..Len(x) /\ (K = Len(x) \/ K < Len(x))
      BY <1>3, <1>6
    <2>2. DifferAt(x, y, K)
      BY <1>6, <1>7, <2>1 DEF DifferAt
    <2>. QED
      BY <2>2, LessIs
  <1>10. x \in Text /\ y \in Text
    BY <1>3, <1>4 DEF Text
  <1>11. CASE k < A
    <2>1. k + 1 \in 1..A
      BY <1>3, <1>5, <1>11
    <2>2. x[K + 1] = a[k + 1]
      BY <1>3, <1>6, <2>1
    <2>3. a[k + 1] \in Nat
      BY <2>1 DEF A, Text
    <2>4. a[k + 1] < b[k + 1]
      BY <1>1, <1>3, <1>5, <1>11 DEF DifferAt, A
    <2>. QED
      BY <1>8, <1>9, <1>10, <2>2, <2>3, <2>4
  <1>12. CASE k = A /\ t = <<>>
    <2>1. Len(x) = K
      BY <1>3, <1>12
    <2>. QED
      BY <1>3, <1>6, <1>9, <1>10, <2>1
  <1>13. CASE k = A /\ t # <<>>
    <2>1. x[K + 1] = Slash
      BY <1>2, <1>3, <1>13
    <2>2. b[k + 1] # Slash /\ ((\A i \in 1..Len(b) : b[i] > Slash) => b[k + 1] > Slash)
      BY <1>6 DEF B
    <2>. QED
      BY <1>8, <1>9, <1>10, <2>1, <2>2 DEF Slash
  <1>. QED
    BY <1>3, <1>5, <1>11, <1>12, <1>13

-----------------------------------------------------------------------------
(* The files below a directory *)

LEMMA PrefixIs ==
    ASSUME NEW path \in Path, NEW file \in Path
    PROVE  /\ Len(path) \in Nat /\ Len(file) \in Nat
           /\ IsPrefix(path, file) <=> Len(path) <= Len(file) /\ SubSeq(file, 1, Len(path)) = path
           /\ IsStrictPrefix(path, file) <=> Len(path) < Len(file) /\ IsPrefix(path, file)
  <1>1. Len(path) \in Nat /\ Len(file) \in Nat
    BY DEF Path
  <1>2. SubSeq(path, 1, Len(path)) = path /\ SubSeq(file, 1, Len(file)) = file
    BY SubSeqFull DEF Path
  <1>3. IsPrefix(path, file) <=> Len(path) <= Len(file) /\ SubSeq(file, 1, Len(path)) = path
    BY <1>2 DEF IsPrefix
  <1>. QED
    BY <1>1, <1>2, <1>3 DEF IsStrictPrefix

\* The files below a directory are those below what is in it.
LEMMA StepDown ==
    ASSUME NEW path \in Path, NEW file \in Path, IsStrictPrefix(path, file)
    PROVE  /\ Len(path) + 1 \in 1..Len(file)
           /\ file[Len(path) + 1] \in Text
           /\ Append(path, file[Len(path) + 1]) = SubSeq(file, 1, Len(path) + 1)
           /\ IsPrefix(Append(path, file[Len(path) + 1]), file)
  <1>. DEFINE n == Len(path)
              down == Append(path, file[n + 1])
  <1>1. n \in Nat /\ Len(file) \in Nat /\ n < Len(file) /\ SubSeq(file, 1, n) = path
    BY PrefixIs
  <1>2. n + 1 \in 1..Len(file) /\ file[n + 1] \in Text
    BY <1>1 DEF Path
  <1>3. down = SubSeq(file, 1, n + 1)
    <2>. HIDE DEF n
    <2>. QED
      BY <1>1, <1>2 DEF Path
  <1>4. down \in Path /\ Len(down) = n + 1
    BY <1>2 DEF Path
  <1>. HIDE DEF down
  <1>5. IsPrefix(down, file)
    <2>1. IsPrefix(down, file) <=> Len(down) <= Len(file) /\ SubSeq(file, 1, Len(down)) = down
      BY ONLY <1>4, file \in Path, PrefixIs
    <2>. QED
      BY <1>1, <1>3, <1>4, <2>1
  <1>. QED
    BY <1>2, <1>3, <1>5 DEF down

LEMMA StepUp ==
    ASSUME NEW path \in Path, NEW a \in Text, NEW file \in Path, IsPrefix(Append(path, a), file)
    PROVE  IsStrictPrefix(path, file) /\ file[Len(path) + 1] = a
  <1>. DEFINE n == Len(path)
              down == Append(path, a)
  <1>1. down \in Path /\ Len(down) = n + 1 /\ n \in Nat /\ down[n + 1] = a
    BY DEF Path
  <1>2. SubSeq(down, 1, n) = path
    BY DEF Path
  <1>. HIDE DEF down, n
  <1>3. Len(file) \in Nat /\ n + 1 <= Len(file) /\ SubSeq(file, 1, n + 1) = down
    BY <1>1, PrefixIs DEF down
  <1>4. file \in Seq(Text)
    BY DEF Path
  <1>5. file[n + 1] = a
    <2>1. SubSeq(file, 1, n + 1)[n + 1] = file[n + 1]
      BY <1>1, <1>3, <1>4
    <2>. QED
      BY <1>1, <1>3, <2>1
  <1>6. SubSeq(file, 1, n) = path
    <2>1. SubSeq(SubSeq(file, 1, n + 1), 1, n) = SubSeq(file, 1, n)
      BY <1>1, <1>3, <1>4
    <2>. QED
      BY <1>2, <1>3, <2>1
  <1>. QED
    BY <1>1, <1>3, <1>5, <1>6, PrefixIs DEF n

\* The directories list_files comes to, and the files.
Places(tree) == {<<>>} \cup UNION {Prefixes(file) : file \in tree}

LEMMA PlacesAre ==
    ASSUME NEW tree, tree \subseteq Path
    PROVE  /\ Places(tree) \subseteq Path
           /\ <<>> \in Places(tree)
           /\ \A path \in Path : \A file \in tree : IsPrefix(path, file) => path \in Places(tree)
  <1>0. <<>> \in Path
    BY DEF Path
  <1>1. ASSUME NEW file \in tree, NEW k \in 0..Len(file)
        PROVE  SubSeq(file, 1, k) \in Path
    <2>1. file \in Seq(Text)
      BY DEF Path
    <2>2. \A i \in 1..k : file[i] \in Text
      BY <2>1
    <2>. QED
      BY <2>1, <2>2, SubSeqProperties DEF Path
  <1>2. ASSUME NEW path \in Places(tree)
        PROVE  path \in Path
    <2>1. CASE path = <<>>
      BY <1>0, <2>1
    <2>2. CASE path # <<>>
      <3>1. PICK file \in tree : path \in Prefixes(file)
        BY <2>2 DEF Places
      <3>2. PICK k \in 0..Len(file) : path = SubSeq(file, 1, k)
        BY <3>1 DEF Prefixes
      <3>. QED
        BY <1>1, <3>2
    <2>. QED
      BY <2>1, <2>2
  <1>3. ASSUME NEW path \in Path, NEW file \in tree, IsPrefix(path, file)
        PROVE  path \in Places(tree)
    <2>1. Len(path) \in 0..Len(file) /\ SubSeq(file, 1, Len(path)) = path
      BY <1>3, PrefixIs
    <2>2. path \in Prefixes(file)
      BY <2>1 DEF Prefixes
    <2>. QED
      BY <2>2 DEF Places
  <1>. QED
    BY <1>2, <1>3 DEF Places

LEMMA ReadDirIs ==
    ASSUME NEW tree, IsFiniteSet(tree), tree \subseteq Path, NEW path \in Path
    PROVE  /\ ReadDir(tree, path) \in Seq(Text)
           /\ Along(ReadDir(tree, path), Before)
           /\ \A a : a \in Members(ReadDir(tree, path)) <=>
                        \E file \in tree : IsStrictPrefix(path, file) /\ a = file[Len(path) + 1]
  <1>. DEFINE below == {f \in tree : IsStrictPrefix(path, f)}
              S == {file[Len(path) + 1] : file \in below}
              pick == [file \in below |-> file[Len(path) + 1]]
  <1>1. S \subseteq Text
    BY StepDown
  <1>2. IsFiniteSet(S)
    <2>1. IsFiniteSet(below)
      BY FS_Subset
    <2>2. pick \in Surjection(below, S)
      BY DEF Surjection
    <2>. HIDE DEF below, S, pick
    <2>. QED
      BY <2>1, <2>2, FS_Surjection
  <1>3. ReadDir(tree, path) = SortStrings(S)
    BY DEF ReadDir, SortEntries
  <1>4. \A a : a \in S <=> \E file \in tree : IsStrictPrefix(path, file) /\ a = file[Len(path) + 1]
    OBVIOUS
  <1>. HIDE DEF S
  <1>5. /\ SortStrings(S) \in Seq(S) /\ Members(SortStrings(S)) = S
        /\ Along(SortStrings(S), Before)
    BY <1>1, <1>2, StringsAreSorted
  <1>6. SortStrings(S) \in Seq(Text)
    BY <1>1, <1>5, SeqMonotonic
  <1>. QED
    BY <1>3, <1>4, <1>5, <1>6

\* A finite tree has a depth.
LEMMA Depth ==
    ASSUME NEW tree, IsFiniteSet(tree), tree \subseteq Path
    PROVE  \E n \in Nat : \A file \in tree : Len(file) <= n
  <1>. DEFINE Deep(T, n) == \A file \in T : Len(file) <= n
              Bounded == {c \in Nat : \A T \in SUBSET Path :
                            IsFiniteSet(T) /\ Cardinality(T) = c => \E n \in Nat : Deep(T, n)}
  <1>1. 0 \in Bounded
    <2>1. \A T \in SUBSET Path : IsFiniteSet(T) /\ Cardinality(T) = 0 => Deep(T, 0)
      BY FS_EmptySet
    <2>. QED
      BY <2>1
  <1>2. ASSUME NEW c \in Nat, c \in Bounded
        PROVE  c + 1 \in Bounded
    <2>. SUFFICES ASSUME NEW T \in SUBSET Path, IsFiniteSet(T), Cardinality(T) = c + 1
                  PROVE  \E n \in Nat : Deep(T, n)
      OBVIOUS
    <2>1. PICK x : x \in T
      BY FS_EmptySet
    <2>2. IsFiniteSet(T \ {x}) /\ Cardinality(T \ {x}) = c
      <3>1. IsFiniteSet(T \ {x}) /\ Cardinality(T \ {x}) = Cardinality(T) - 1
        BY ONLY IsFiniteSet(T), <2>1, FS_RemoveElement
      <3>. QED
        BY <3>1
    <2>3. PICK n \in Nat : Deep(T \ {x}, n)
      BY <1>2, <2>2
    <2>4. Len(x) \in Nat /\ \A file \in T : Len(file) \in Nat
      BY <2>1 DEF Path
    <2>5. Deep(T, n + Len(x)) /\ n + Len(x) \in Nat
      BY <2>3, <2>4
    <2>. QED
      BY <2>5
  <1>3. Nat \subseteq Bounded
    <2>. HIDE DEF Bounded
    <2>. QED
      BY <1>1, <1>2, AllNumbers
  <1>4. Cardinality(tree) \in Nat
    BY FS_CardinalityType
  <1>. QED
    BY <1>3, <1>4

\* Ways down from each place in the tree, to others, end.
Ranks(rank, tree) ==
    /\ rank \in [Places(tree) -> Nat]
    /\ \A path \in Places(tree) : \A a \in Members(ReadDir(tree, path)) :
          Append(path, a) \in Places(tree) /\ rank[Append(path, a)] < rank[path]

LEMMA CanBeRanked ==
    ASSUME NEW tree, IsFiniteSet(tree), tree \subseteq Path
    PROVE  \E rank : Ranks(rank, tree)
  <1>1. PICK n \in Nat : \A file \in tree : Len(file) <= n
    BY Depth
  <1>2. ASSUME NEW path \in Places(tree)
        PROVE  path \in Path /\ Len(path) \in Nat /\ Len(path) <= n
    <2>1. path \in Path /\ Len(path) \in Nat
      BY PlacesAre DEF Path
    <2>2. CASE path = <<>>
      BY <2>1, <2>2
    <2>3. CASE path # <<>>
      <3>1. PICK file \in tree : path \in Prefixes(file)
        BY <2>3 DEF Places
      <3>2. PICK k \in 0..Len(file) : path = SubSeq(file, 1, k)
        BY <3>1 DEF Prefixes
      <3>3. Len(file) \in Nat /\ Len(path) = k
        BY <3>2 DEF Path
      <3>. QED
        BY <1>1, <2>1, <3>3
    <2>. QED
      BY <2>1, <2>2, <2>3
  <1>. DEFINE rank == [path \in Places(tree) |-> n - Len(path)]
  <1>3. rank \in [Places(tree) -> Nat]
    BY <1>2
  <1>4. ASSUME NEW path \in Places(tree), NEW a \in Members(ReadDir(tree, path))
        PROVE  Append(path, a) \in Places(tree) /\ rank[Append(path, a)] < rank[path]
    <2>1. path \in Path
      BY <1>2
    <2>2. PICK file \in tree : IsStrictPrefix(path, file) /\ a = file[Len(path) + 1]
      BY <2>1, ReadDirIs
    <2>3. a \in Text /\ IsPrefix(Append(path, a), file)
      BY <2>1, <2>2, StepDown
    <2>4. Append(path, a) \in Path /\ Len(Append(path, a)) = Len(path) + 1
      BY <2>1, <2>3 DEF Path
    <2>5. Append(path, a) \in Places(tree)
      BY <2>3, <2>4, PlacesAre
    <2>. QED
      BY <1>2, <2>4, <2>5
  <1>5. Ranks(rank, tree)
    BY <1>3, <1>4 DEF Ranks
  <1>. QED
    BY <1>5

\* What list_files_recurse returns at path if it returns f for what is below.
Value(tree, f, path) ==
    IF path \in tree THEN <<Join[path]>>
    ELSE FlattenSeq([k \in 1..Len(ReadDir(tree, path)) |-> f[Append(path, ReadDir(tree, path)[k])]])

Lists(f, tree) ==
    /\ \A path \in Places(tree) : f[path] = Value(tree, f, path)
    /\ list_files(tree) = f[<<>>]

LEMMA ListsExists ==
    ASSUME NEW tree, IsFiniteSet(tree), tree \subseteq Path
    PROVE  \E f : Lists(f, tree)
  <1>. DEFINE S == Places(tree)
              V == Seq(Text)
              D == [path \in S |-> [f \in [S -> V] |-> Value(tree, f, path)]]
  <1>1. PICK rank : Ranks(rank, tree)
    BY CanBeRanked
  <1>2. S \subseteq Path
    BY PlacesAre
  <1>3. ASSUME NEW path \in S, NEW k \in 1..Len(ReadDir(tree, path))
        PROVE  Append(path, ReadDir(tree, path)[k]) \in S /\ rank[Append(path, ReadDir(tree, path)[k])] < rank[path]
    <2>1. ReadDir(tree, path)[k] \in Members(ReadDir(tree, path))
      BY DEF Members
    <2>. QED
      BY <1>1, <2>1 DEF Ranks
  <1>. HIDE DEF S
  <1>4. \A list \in Seq(Text) : Along(list, Text \X Text)
    BY DEF Along
  <1>5. \A list, other \in Seq(Text) : Across(list, other, Text \X Text)
    BY DEF Across, Members
  <1>6. ASSUME NEW path \in S, NEW f \in [S -> V]
        PROVE  Value(tree, f, path) \in V
    <2>1. CASE path \in tree
      <3>1. Join[path] \in Text
        BY <1>2, JoinIs
      <3>. QED
        BY <2>1, <3>1 DEF Value
    <2>2. CASE path \notin tree
      <3>. DEFINE n == Len(ReadDir(tree, path))
                  blocks == [k \in 1..n |-> f[Append(path, ReadDir(tree, path)[k])]]
      <3>1. ReadDir(tree, path) \in Seq(Text)
        BY <1>2, ReadDirIs
      <3>2. n \in Nat
        BY <3>1
      <3>3. \A k \in 1..n : blocks[k] \in V
        BY <1>3
      <3>. HIDE DEF n
      <3>4. n = Len(blocks) /\ (n = 0 => blocks = <<>>)
        BY <3>2
      <3>. HIDE DEF blocks
      <3>5. \A k \in 1..n : Along(blocks[k], Text \X Text)
        BY <1>4, <3>3
      <3>6. \A j, k \in 1..n : j < k => Across(blocks[j], blocks[k], Text \X Text)
        BY <1>5, <3>3
      <3>7. FlattenSeq(blocks) \in Seq(Text)
        BY ONLY <3>2, <3>3, <3>4, <3>5, <3>6, Flattened
      <3>. QED
        BY <2>2, <3>7 DEF Value, blocks, n
    <2>. QED
      BY <2>1, <2>2
  <1>7. ASSUME NEW path \in S, NEW f \in [S -> V], NEW h \in [S -> V],
               \A t \in S : rank[t] < rank[path] => f[t] = h[t]
        PROVE  Value(tree, f, path) = Value(tree, h, path)
    <2>. DEFINE n == Len(ReadDir(tree, path))
    <2>1. \A k \in 1..n : f[Append(path, ReadDir(tree, path)[k])] = h[Append(path, ReadDir(tree, path)[k])]
      BY <1>3, <1>7
    <2>2. [k \in 1..n |-> f[Append(path, ReadDir(tree, path)[k])]]
             = [k \in 1..n |-> h[Append(path, ReadDir(tree, path)[k])]]
      <3>. HIDE DEF n
      <3>. QED
        BY <2>1
    <2>. QED
      BY <2>2, Zenon DEF Value
  <1>8. V # {}
    <2>1. <<>> \in V
      OBVIOUS
    <2>. QED
      BY <2>1
  <1>9. \A path \in S : \A f \in [S -> V] : D[path][f] = Value(tree, f, path)
    OBVIOUS
  <1>10. rank \in [S -> Nat]
    BY <1>1 DEF Ranks, S
  <1>. HIDE DEF V, D
  <1>11. DependsBelow(S, V, rank, D)
    <2>1. \A path \in S : \A f, h \in [S -> V] :
             (\A t \in S : rank[t] < rank[path] => f[t] = h[t]) => D[path][f] = D[path][h]
      BY <1>7, <1>9
    <2>2. \A path \in S : \A f \in [S -> V] : D[path][f] \in V
      BY <1>6, <1>9
    <2>. QED
      BY <1>8, <1>10, <2>1, <2>2 DEF DependsBelow
  <1>12. PICK f : Satisfies(f, S, V, D)
    BY ONLY <1>11, Recursion
  <1>13. f = [path \in S |-> Value(tree, f, path)]
    BY <1>9, <1>12 DEF Satisfies
  <1>. DEFINE F == CHOOSE h : h = [path \in S |-> Value(tree, h, path)]
  <1>14. F = [path \in S |-> Value(tree, F, path)]
    BY <1>13
  <1>15. list_files(tree) = F[<<>>]
    BY DEF list_files, Value, S, Places
  <1>. HIDE DEF F
  <1>16. \A path \in S : F[path] = Value(tree, F, path)
    BY <1>14
  <1>17. Lists(F, tree)
    BY <1>15, <1>16 DEF Lists, S
  <1>. QED
    BY <1>17

-----------------------------------------------------------------------------
(* What is listed *)

NamesUnder(tree, path) == {Join[file] : file \in {p \in tree : IsPrefix(path, p)}}

\* R holds between the names of two files that part in a directory, in the order there.
Respects(tree, R) ==
    \A p, q \in tree : \A k \in Nat :
        /\ k < Len(p) /\ k < Len(q) /\ SubSeq(p, 1, k) = SubSeq(q, 1, k)
        /\ StringLess(p[k + 1], q[k + 1])
        => <<Join[p], Join[q]>> \in R

Listing(list, tree, path, R) ==
    /\ list \in Seq(Text)
    /\ Members(list) = NamesUnder(tree, path)
    /\ Along(list, R)

\* A path that is a file's is listed alone: no other lies below it.
LEMMA FileListed ==
    ASSUME NEW tree, IsTree(tree), NEW path \in tree, NEW R
    PROVE  Listing(<<Join[path]>>, tree, path, R)
  <1>1. path \in Path /\ tree \subseteq Path
    BY DEF IsTree
  <1>. DEFINE list == <<Join[path]>>
  <1>2. list \in Seq(Text) /\ Len(list) = 1 /\ list[1] = Join[path]
    BY <1>1, JoinIs
  <1>3. Members(list) = {Join[path]}
    BY <1>2 DEF Members
  <1>4. Along(list, R)
    BY <1>2 DEF Along
  <1>5. \A p \in tree : IsPrefix(path, p) <=> p = path
    <2>1. ASSUME NEW p \in tree, IsPrefix(path, p), p # path
          PROVE  FALSE
      <3>1. IsStrictPrefix(path, p)
        BY <2>1 DEF IsStrictPrefix
      <3>. QED
        BY <3>1 DEF IsTree
    <2>2. IsPrefix(path, path)
      BY <1>1, PrefixIs, SubSeqFull DEF Path
    <2>. QED
      BY <2>1, <2>2
  <1>6. NamesUnder(tree, path) = {Join[path]}
    BY <1>5 DEF NamesUnder
  <1>. HIDE DEF list
  <1>. QED
    BY <1>2, <1>3, <1>4, <1>6 DEF Listing, list

\* One that is not lists what is in it, one after another.
LEMMA DirectoryListed ==
    ASSUME NEW tree, IsTree(tree), NEW path \in Path, path \notin tree, NEW R, Respects(tree, R),
           NEW f, \A a \in Members(ReadDir(tree, path)) :
                     Listing(f[Append(path, a)], tree, Append(path, a), R)
    PROVE  Listing(Value(tree, f, path), tree, path, R)
  <1>. DEFINE entries == ReadDir(tree, path)
              n == Len(entries)
              blocks == [k \in 1..n |-> f[Append(path, entries[k])]]
              m == Len(path)
  <1>1. IsFiniteSet(tree) /\ tree \subseteq Path /\ m \in Nat
    BY DEF IsTree, Path
  <1>2. /\ entries \in Seq(Text) /\ Along(entries, Before)
        /\ \A a : a \in Members(entries) <=> \E file \in tree : IsStrictPrefix(path, file) /\ a = file[m + 1]
    BY <1>1, ReadDirIs
  <1>3. Value(tree, f, path) = FlattenSeq(blocks)
    BY DEF Value
  <1>4. \A k \in 1..n : entries[k] \in Members(entries) /\ entries[k] \in Text
    BY <1>2 DEF Members
  <1>5. \A k \in 1..n : Listing(blocks[k], tree, Append(path, entries[k]), R)
    BY <1>4
  <1>6. n \in Nat /\ n = Len(blocks) /\ (n = 0 => blocks = <<>>)
    <2>1. n \in Nat
      BY <1>2
    <2>. HIDE DEF n
    <2>. QED
      BY <2>1
  <1>. HIDE DEF entries, n, blocks
  <1>7. ASSUME NEW k \in 1..n, NEW file \in tree, IsPrefix(Append(path, entries[k]), file)
        PROVE  IsStrictPrefix(path, file) /\ file[m + 1] = entries[k] /\ file \in Path
    BY <1>1, <1>4, <1>7, StepUp
  <1>8. \A k \in 1..n : blocks[k] \in Seq(Text)
    BY <1>5 DEF Listing
  <1>9. \A k \in 1..n : Along(blocks[k], R) /\ Members(blocks[k]) = NamesUnder(tree, Append(path, entries[k]))
    BY <1>5 DEF Listing
  <1>10. ASSUME NEW j \in 1..n, NEW k \in 1..n, j < k
         PROVE  Across(blocks[j], blocks[k], R)
    <2>. SUFFICES ASSUME NEW x \in Members(blocks[j]), NEW y \in Members(blocks[k])
                  PROVE  <<x, y>> \in R
      BY DEF Across
    <2>1. PICK p \in tree : IsPrefix(Append(path, entries[j]), p) /\ x = Join[p]
      BY <1>9 DEF NamesUnder
    <2>2. PICK q \in tree : IsPrefix(Append(path, entries[k]), q) /\ y = Join[q]
      BY <1>9 DEF NamesUnder
    <2>3. IsStrictPrefix(path, p) /\ p[m + 1] = entries[j] /\ p \in Path
      BY <1>7, <2>1
    <2>4. IsStrictPrefix(path, q) /\ q[m + 1] = entries[k] /\ q \in Path
      BY <1>7, <2>2
    <2>5. m < Len(p) /\ SubSeq(p, 1, m) = path
      BY <2>3, PrefixIs
    <2>6. m < Len(q) /\ SubSeq(q, 1, m) = path
      BY <2>4, PrefixIs
    <2>7. StringLess(entries[j], entries[k])
      BY <1>2, <1>6, <1>10 DEF Along, Before, n
    <2>. QED
      BY <1>1, <2>1, <2>2, <2>3, <2>4, <2>5, <2>6, <2>7 DEF Respects
  <1>11. /\ FlattenSeq(blocks) \in Seq(Text)
         /\ \A x : x \in Members(FlattenSeq(blocks)) <=> \E k \in 1..n : x \in Members(blocks[k])
         /\ Along(FlattenSeq(blocks), R)
    BY ONLY <1>6, <1>8, <1>9, <1>10, Flattened
  <1>12. ASSUME NEW x \in Members(FlattenSeq(blocks))
         PROVE  x \in NamesUnder(tree, path)
    <2>1. PICK k \in 1..n : x \in Members(blocks[k])
      BY <1>11
    <2>2. PICK file \in tree : IsPrefix(Append(path, entries[k]), file) /\ x = Join[file]
      BY <1>9, <2>1 DEF NamesUnder
    <2>3. IsPrefix(path, file)
      BY <1>7, <2>2 DEF IsStrictPrefix
    <2>. QED
      BY <2>2, <2>3 DEF NamesUnder
  <1>13. ASSUME NEW x \in NamesUnder(tree, path)
         PROVE  x \in Members(FlattenSeq(blocks))
    <2>1. PICK file \in tree : IsPrefix(path, file) /\ x = Join[file]
      BY DEF NamesUnder
    <2>2. IsStrictPrefix(path, file) /\ file \in Path
      BY <1>1, <2>1 DEF IsStrictPrefix
    <2>3. PICK k \in 1..n : entries[k] = file[m + 1]
      BY <1>2, <2>2 DEF Members, n
    <2>4. IsPrefix(Append(path, entries[k]), file)
      BY <2>2, <2>3, StepDown
    <2>5. x \in Members(blocks[k])
      BY <1>9, <2>1, <2>4 DEF NamesUnder
    <2>. QED
      BY <1>11, <2>5
  <1>. QED
    BY <1>3, <1>11, <1>12, <1>13 DEF Listing

LEMMA AllListed ==
    ASSUME NEW tree, IsTree(tree), NEW R, Respects(tree, R)
    PROVE  Listing(list_files(tree), tree, <<>>, R)
  <1>1. IsFiniteSet(tree) /\ tree \subseteq Path
    BY DEF IsTree
  <1>2. PICK f : Lists(f, tree)
    BY <1>1, ListsExists
  <1>3. PICK rank : Ranks(rank, tree)
    BY <1>1, CanBeRanked
  <1>. DEFINE S == Places(tree)
              T == {path \in S : Listing(f[path], tree, path, R)}
  <1>4. S \subseteq Path /\ <<>> \in S
    BY <1>1, PlacesAre
  <1>5. rank \in [S -> Nat]
    BY <1>3 DEF Ranks
  <1>6. ASSUME NEW path \in S, \A t \in S : rank[t] < rank[path] => t \in T
        PROVE  path \in T
    <2>1. f[path] = Value(tree, f, path)
      BY <1>2 DEF Lists
    <2>2. CASE path \in tree
      <3>1. Listing(<<Join[path]>>, tree, path, R)
        BY <2>2, FileListed
      <3>. QED
        BY <2>1, <2>2, <3>1 DEF Value
    <2>3. CASE path \notin tree
      <3>1. \A a \in Members(ReadDir(tree, path)) : Listing(f[Append(path, a)], tree, Append(path, a), R)
        BY <1>3, <1>6 DEF Ranks
      <3>2. path \in Path
        BY <1>4
      <3>3. Listing(Value(tree, f, path), tree, path, R)
        BY <2>3, <3>1, <3>2, DirectoryListed
      <3>. QED
        BY <2>1, <3>3
    <2>. QED
      BY <2>2, <2>3
  <1>7. S \subseteq T
    <2>. HIDE DEF S, T
    <2>. QED
      BY <1>5, <1>6, ByRank
  <1>8. Listing(f[<<>>], tree, <<>>, R)
    BY <1>4, <1>7
  <1>. QED
    BY <1>2, <1>8 DEF Lists

LEMMA FilesAreNamed ==
    ASSUME NEW tree, IsTree(tree), NEW file \in tree
    PROVE  /\ Named(file)
           /\ \A i \in 1..Len(file) : file[i] \in Text /\ \A j \in 1..Len(file[i]) : file[i][j] # Slash
  BY DEF IsTree, Named, Path

\* Files that part in a directory have different names, in their order there if no character
\* sorts before the slash.
LEMMA PartingFiles ==
    ASSUME NEW tree, IsTree(tree), NEW p \in tree, NEW q \in tree, NEW k \in Nat,
           k < Len(p), k < Len(q), SubSeq(p, 1, k) = SubSeq(q, 1, k), StringLess(p[k + 1], q[k + 1])
    PROVE  /\ Join[p] \in Text /\ Join[q] \in Text
           /\ Join[p] # Join[q]
           /\ IsPlain(tree) => StringLess(Join[p], Join[q])
  <1>. DEFINE a == p[k + 1]
              b == q[k + 1]
  <1>1. Named(p) /\ Named(q) /\ Len(p) \in Nat /\ Len(q) \in Nat
    BY FilesAreNamed, NameToIs DEF Named
  <1>2. k + 1 \in 1..Len(p) /\ k + 1 \in 1..Len(q)
    BY <1>1
  <1>3. a \in Text /\ b \in Text /\ \A i \in 1..Len(b) : b[i] # Slash
    BY <1>2, FilesAreNamed
  <1>4. IsPlain(tree) => \A i \in 1..Len(b) : b[i] > Slash
    BY <1>2 DEF IsPlain
  <1>5. PICK pre, t, u : Parts(Join[p], Join[q], pre, a, b, t, u)
    BY <1>1, NamesPart
  <1>6. StringLess(a, b)
    OBVIOUS
  <1>. HIDE DEF a, b
  <1>7. /\ Join[p] \in Text /\ Join[q] \in Text
        /\ Join[p] # Join[q]
        /\ (\A i \in 1..Len(b) : b[i] > Slash) => StringLess(Join[p], Join[q])
    BY ONLY <1>3, <1>5, <1>6, PartedDiffer
  <1>. QED
    BY <1>4, <1>7

\* Any two files part in a directory.
LEMMA FilesPart ==
    ASSUME NEW tree, IsTree(tree), NEW p \in tree, NEW q \in tree, p # q
    PROVE  \E k \in Nat : /\ k < Len(p) /\ k < Len(q) /\ SubSeq(p, 1, k) = SubSeq(q, 1, k)
                          /\ p[k + 1] \in Text /\ q[k + 1] \in Text /\ p[k + 1] # q[k + 1]
  <1>. DEFINE m == Len(p)
              n == Len(q)
              Ends == {k \in Nat : k = m \/ k = n \/ p[k + 1] # q[k + 1]}
  <1>1. /\ p \in Path /\ q \in Path /\ m \in Nat /\ n \in Nat
        /\ \A i \in 1..m : p[i] \in Text
        /\ \A i \in 1..n : q[i] \in Text
    BY DEF IsTree, Path
  <1>. HIDE DEF m, n
  <1>2. PICK k \in Ends : \A j \in Ends : k <= j
    <2>1. Ends \in SUBSET Nat /\ Ends # {}
      BY <1>1
    <2>. HIDE DEF Ends
    <2>. QED
      BY <2>1, LeastNumber
  <1>3. k \in Nat /\ k <= m /\ k <= n
    <2>1. m \in Ends /\ n \in Ends
      BY <1>1
    <2>. QED
      BY <1>2, <2>1
  <1>4. ASSUME NEW i \in 1..k
        PROVE  p[i] = q[i] /\ p[i] \in Text
    <2>1. i - 1 \in Nat /\ ~(k <= i - 1) /\ (i - 1) + 1 = i
      BY <1>3
    <2>2. i - 1 \notin Ends
      <3>. HIDE DEF Ends
      <3>. QED
        BY <1>2, <2>1
    <2>. QED
      BY <1>1, <1>3, <2>1, <2>2
  <1>5. SubSeq(p, 1, k) = SubSeq(q, 1, k)
    <2>1. /\ SubSeq(p, 1, k) = [i \in 1..k |-> p[i]]
          /\ SubSeq(q, 1, k) = [i \in 1..k |-> q[i]]
      BY <1>1, <1>3 DEF m, n, Path
    <2>2. [i \in 1..k |-> p[i]] = [i \in 1..k |-> q[i]]
      BY <1>4
    <2>. QED
      BY <2>1, <2>2
  <1>6. ~IsPrefix(p, q) /\ ~IsPrefix(q, p)
    BY DEF IsTree, IsStrictPrefix
  <1>7. k # m
    <2>. SUFFICES ASSUME k = m
                  PROVE  FALSE
      OBVIOUS
    <2>1. SubSeq(p, 1, m) = p
      BY <1>1, SubSeqFull DEF m, Path
    <2>. QED
      BY <1>1, <1>3, <1>5, <1>6, <2>1, PrefixIs DEF m, n
  <1>8. k # n
    <2>. SUFFICES ASSUME k = n
                  PROVE  FALSE
      OBVIOUS
    <2>1. SubSeq(q, 1, n) = q
      BY <1>1, SubSeqFull DEF n, Path
    <2>. QED
      BY <1>1, <1>3, <1>5, <1>6, <2>1, PrefixIs DEF m, n
  <1>9. k < m /\ k < n /\ p[k + 1] # q[k + 1]
    BY <1>1, <1>2, <1>3, <1>7, <1>8
  <1>10. k + 1 \in 1..m /\ k + 1 \in 1..n
    BY <1>1, <1>3, <1>9
  <1>. QED
    BY <1>1, <1>3, <1>5, <1>9, <1>10 DEF m, n

\* Different files have different names.
LEMMA NamesTellApart ==
    ASSUME NEW tree, IsTree(tree), NEW p \in tree, NEW q \in tree, p # q
    PROVE  Join[p] # Join[q]
  <1>1. PICK k \in Nat : /\ k < Len(p) /\ k < Len(q) /\ SubSeq(p, 1, k) = SubSeq(q, 1, k)
                         /\ p[k + 1] \in Text /\ q[k + 1] \in Text /\ p[k + 1] # q[k + 1]
    BY FilesPart
  <1>2. StringLess(p[k + 1], q[k + 1]) \/ StringLess(q[k + 1], p[k + 1])
    BY <1>1, LessTotal
  <1>3. CASE StringLess(p[k + 1], q[k + 1])
    BY ONLY <1>1, <1>3, IsTree(tree), p \in tree, q \in tree, PartingFiles
  <1>4. CASE StringLess(q[k + 1], p[k + 1])
    <2>1. Join[q] # Join[p]
      BY ONLY <1>1, <1>4, IsTree(tree), p \in tree, q \in tree, PartingFiles
    <2>. QED
      BY <2>1
  <1>. QED
    BY <1>2, <1>3, <1>4

\* The names of the files below the directory are listed, all of them and nothing else, and
\* each once; different files have different names (OS-Unix.cc:127-164).
THEOREM FilesAreListedOnce ==
    ASSUME NEW tree, IsTree(tree)
    PROVE  /\ list_files(tree) \in Seq(Text)
           /\ Members(list_files(tree)) = {Join[file] : file \in tree}
           /\ \A j, k \in 1..Len(list_files(tree)) : list_files(tree)[j] = list_files(tree)[k] => j = k
           /\ \A p, q \in tree : Join[p] = Join[q] => p = q
  <1>. DEFINE list == list_files(tree)
              R == {pair \in Text \X Text : pair[1] # pair[2]}
  <1>1. Respects(tree, R)
    BY PartingFiles DEF Respects
  <1>2. Listing(list, tree, <<>>, R)
    BY <1>1, AllListed
  <1>3. list \in Seq(Text) /\ Members(list) = NamesUnder(tree, <<>>) /\ Along(list, R)
    BY <1>2 DEF Listing
  <1>4. NamesUnder(tree, <<>>) = {Join[file] : file \in tree}
    <2>1. ASSUME NEW p \in tree
          PROVE  IsPrefix(<<>>, p)
      <3>1. <<>> \in Path /\ p \in Path
        BY DEF IsTree, Path
      <3>. DEFINE root == <<>>
      <3>2. SubSeq(p, 1, 0) = root /\ Len(root) = 0 /\ root \in Path
        BY <3>1
      <3>. HIDE DEF root
      <3>3. /\ Len(p) \in Nat
            /\ IsPrefix(root, p) <=> Len(root) <= Len(p) /\ SubSeq(p, 1, Len(root)) = root
        BY ONLY <3>1, <3>2, PrefixIs
      <3>4. IsPrefix(root, p)
        BY <3>2, <3>3
      <3>. QED
        BY <3>4 DEF root
    <2>. QED
      BY <2>1 DEF NamesUnder
  <1>. HIDE DEF list
  <1>5. ASSUME NEW j \in 1..Len(list), NEW k \in 1..Len(list), list[j] = list[k], j # k
        PROVE  FALSE
    <2>1. j < k \/ k < j
      BY <1>5
    <2>. QED
      BY <1>3, <1>5, <2>1 DEF Along
  <1>. QED
    BY <1>3, <1>4, <1>5, NamesTellApart DEF list

\* They are in the order of their names, if no character in them sorts before the slash.
THEOREM FilesAreListedInOrder ==
    ASSUME NEW tree, IsTree(tree), IsPlain(tree)
    PROVE  \A j, k \in 1..Len(list_files(tree)) : j < k => StringLess(list_files(tree)[j], list_files(tree)[k])
  <1>1. Respects(tree, Before)
    BY PartingFiles DEF Respects, Before
  <1>2. Listing(list_files(tree), tree, <<>>, Before)
    BY <1>1, AllListed
  <1>. QED
    BY <1>2 DEF Listing, Along, Before

-----------------------------------------------------------------------------
(* The merge of what list_files lists *)

\* numbers gives the strings of list the numbers they have in the order of strings.
Numbered(numbers, list) ==
    /\ Len(numbers) = Len(list)
    /\ \A j, k \in 1..Len(list) : StringLess(list[j], list[k]) <=> numbers[j] < numbers[k]

\* If the files found are those list_files lists, of a tree in whose names no character sorts
\* before the slash, each file only one side has is reported once and every other one compared
\* once: the order of list_files is then the one the merge relies on.
THEOREM ListingIsExact ==
    ASSUME \A c \in Cases : \E tree : IsTree(tree) /\ IsPlain(tree) /\ Numbered(c.got, list_files(tree))
    PROVE  Spec => []ListingExact
  <1>1. TypeOK /\ MergeExact /\ case \in Cases => ListingExact
    <2>. SUFFICES ASSUME MergeExact, case \in Cases, outcome = "returned",
                         \A j, k \in 1..Len(expected) : j < k => expected[j].name < expected[k].name
                  PROVE  Exact
      BY DEF ListingExact
    <2>1. PICK tree : IsTree(tree) /\ IsPlain(tree) /\ Numbered(got, list_files(tree))
      BY DEF got
    <2>2. \A j, k \in 1..Len(list_files(tree)) :
             j < k => StringLess(list_files(tree)[j], list_files(tree)[k])
      BY <2>1, FilesAreListedInOrder
    <2>3. \A j, k \in 1..Len(got) : j < k => got[j] < got[k]
      BY <2>1, <2>2 DEF Numbered
    <2>4. Sorted
      BY <2>3 DEF Sorted
    <2>. QED
      BY <2>4 DEF MergeExact
  <1>2. Init => case \in Cases
    BY DEF Init
  <1>3. case \in Cases /\ [Next]_vars => (case \in Cases)'
    BY DEF Next, Step, vars, SkipDeleted, Compare, Missing, Unexpected, RestMissing,
           RestUnexpected, Return
  <1>. QED
    BY TypeCorrect, MergeIsExact, <1>1, <1>2, <1>3, PTL DEF Spec

-----------------------------------------------------------------------------
(* CompareContract *)

\* On sorted lists what is ahead is what has not been passed.
NotPassed(n) == \/ Wanted(n) /\ ~WantedBefore(n)
                \/ Present(n) /\ ~PresentBefore(n)

LEMMA AheadIs == TypeOK /\ Sorted => \A n \in Names : n \in Ahead <=> NotPassed(n)
  <1>. SUFFICES ASSUME TypeOK, Sorted
                PROVE  \A n \in Names : n \in Ahead <=> NotPassed(n)
    OBVIOUS
  <1>1. /\ \A j \in 1..Len(expected) : expected[j].name \in Int
        /\ \A j \in 1..Len(got) : got[j] \in Int
        /\ Len(expected) \in Nat /\ Len(got) \in Nat
        /\ e \in 1..(Len(expected) + 1) /\ g \in 1..(Len(got) + 1)
    BY CaseTyped DEF TypeOK
  <1>2. ASSUME NEW n
        PROVE  (\E j \in e..Len(expected) : expected[j].name = n /\ expected[j].output)
                  <=> Wanted(n) /\ ~WantedBefore(n)
    <2>1. Wanted(n) <=> \E j \in 1..Len(expected) : expected[j].name = n /\ expected[j].output
      BY DEF Wanted
    <2>2. WantedBefore(n) <=> \E j \in 1..(e - 1) : expected[j].name = n /\ expected[j].output
      BY DEF WantedBefore
    <2>3. \A j, k \in 1..Len(expected) : j < k => expected[j].name < expected[k].name
      BY DEF Sorted
    <2>4. \A j, k \in 1..Len(expected) : j < k => expected[j].name # expected[k].name
      BY <1>1, <2>3
    <2>5. \A j \in 1..Len(expected) : j \in 1..(e - 1) \/ j \in e..Len(expected)
      BY <1>1
    <2>6. \A j \in 1..(e - 1), k \in e..Len(expected) :
            j \in 1..Len(expected) /\ k \in 1..Len(expected) /\ j < k
      BY <1>1
    <2>7. \A j \in 1..(e - 1), k \in e..Len(expected) : expected[j].name # expected[k].name
      BY <2>4, <2>6
    <2>8. \A k \in e..Len(expected) : k \in 1..Len(expected)
      BY <1>1
    <2>9. \A j \in 1..(e - 1) : j \in 1..Len(expected)
      BY <1>1
    <2>. QED
      BY ONLY <2>1, <2>2, <2>5, <2>7, <2>8, <2>9
  <1>3. ASSUME NEW n
        PROVE  (\E j \in g..Len(got) : got[j] = n) <=> Present(n) /\ ~PresentBefore(n)
    <2>1. Present(n) <=> \E j \in 1..Len(got) : got[j] = n
      BY DEF Present
    <2>2. PresentBefore(n) <=> \E j \in 1..(g - 1) : got[j] = n
      BY DEF PresentBefore
    <2>3. \A j, k \in 1..Len(got) : j < k => got[j] < got[k]
      BY DEF Sorted
    <2>4. \A j, k \in 1..Len(got) : j < k => got[j] # got[k]
      BY <1>1, <2>3
    <2>5. \A j \in 1..Len(got) : j \in 1..(g - 1) \/ j \in g..Len(got)
      BY <1>1
    <2>6. \A j \in 1..(g - 1), k \in g..Len(got) :
            j \in 1..Len(got) /\ k \in 1..Len(got) /\ j < k
      BY <1>1
    <2>7. \A j \in 1..(g - 1), k \in g..Len(got) : got[j] # got[k]
      BY <2>4, <2>6
    <2>8. \A k \in g..Len(got) : k \in 1..Len(got)
      BY <1>1
    <2>9. \A j \in 1..(g - 1) : j \in 1..Len(got)
      BY <1>1
    <2>. QED
      BY ONLY <2>1, <2>2, <2>5, <2>7, <2>8, <2>9
  <1>. QED
    BY <1>2, <1>3 DEF Ahead, NotPassed

SettledAsIs(kind, n) ==
    CASE kind = "-" -> "wrong"
      [] kind = "+" -> "wrong"
      [] kind = "=" -> [same |-> "right", differ |-> "wrong", throws |-> "unseen"][Judgement(n)]

\* What is done with a name settles it, if it is done once; comparing another does not matter.
LEMMA DoSettles ==
    ASSUME TypeOK, Counted, case' = case, NEW kind \in Kind, NEW m \in Names, Do(kind, m),
           kind # "=" => ~DoneWith("=", m)
    PROVE  [n \in Names |-> SettledAs(n)]' =
             [[n \in Names |-> SettledAs(n)] EXCEPT ![m] = SettledAsIs(kind, m)]
  <1>1. /\ times \in [Kind \X Names -> Nat]
        /\ times' \in [Kind \X Names -> Nat]
        /\ times'[<<kind, m>>] = times[<<kind, m>>] + 1
        /\ \A k \in Kind, n \in Names : <<k, n>> # <<kind, m>> => times'[<<k, n>>] = times[<<k, n>>]
    BY DoTyped DEF TypeOK
  <1>2. \A n \in Names : /\ times[<<"=", n>>] \in Nat /\ times'[<<"=", n>>] \in Nat
                         /\ times[<<"-", n>>] \in Nat /\ times'[<<"-", n>>] \in Nat
                         /\ times[<<"+", n>>] \in Nat /\ times'[<<"+", n>>] \in Nat
    BY <1>1 DEF Kind
  <1>3. ASSUME NEW n \in Names, n # m
        PROVE  SettledAs(n)' = SettledAs(n)
    <2>1. \A k \in Kind : times'[<<k, n>>] = times[<<k, n>>]
      BY <1>1, <1>3
    <2>2. /\ times'[<<"=", n>>] = times[<<"=", n>>]
          /\ times'[<<"-", n>>] = times[<<"-", n>>]
          /\ times'[<<"+", n>>] = times[<<"+", n>>]
      BY <2>1 DEF Kind
    <2>3. Judgement(n)' = Judgement(n)
      BY JudgementStays
    <2>. QED
      BY <2>2, <2>3 DEF SettledAs
  <1>4. SettledAs(m)' = SettledAsIs(kind, m)
    <2>1. Judgement(m)' = Judgement(m)
      BY JudgementStays
    <2>2. CASE kind = "="
      BY <1>1, <1>2, <2>1, <2>2 DEF SettledAs, SettledAsIs
    <2>3. CASE kind # "="
      <3>1. times[<<"=", m>>] = 0
        BY <2>3 DEF Counted, Kind
      <3>2. <<"=", m>> # <<kind, m>>
        BY <2>3
      <3>3. times'[<<"=", m>>] = 0
        BY <1>1, <3>1, <3>2 DEF Kind
      <3>4. times'[<<kind, m>>] > 0 /\ kind \in {"-", "+"}
        BY <1>1, <2>3 DEF Kind
      <3>5. times'[<<"-", m>>] + times'[<<"+", m>>] > 0
        <4>1. times'[<<"-", m>>] > 0 \/ times'[<<"+", m>>] > 0
          BY <3>4
        <4>2. times'[<<"-", m>>] \in Nat /\ times'[<<"+", m>>] \in Nat
          BY <1>2
        <4>. QED
          BY ONLY <4>1, <4>2
      <3>6. SettledAs(m)' = "wrong"
        BY <3>3, <3>5 DEF SettledAs
      <3>. QED
        BY <3>4, <3>6 DEF SettledAsIs
    <2>. QED
      BY <2>2, <2>3
  <1>. QED
    BY <1>3, <1>4

Apartness == TypeOK /\ Sorted /\ Apart /\ Counted /\ outcome = "running"

\* A step that does with a name what is due, and passes it in each list that has it.
LEMMA SettleStep ==
    ASSUME Apartness, TypeOK', Sorted', case' = case, UNCHANGED outcome,
           NEW kind \in Kind, NEW m \in Names, Do(kind, m),
           Due(kind, m), ~DoneWith(kind, m),
           Wanted(m) => WantedBefore(m)', Present(m) => PresentBefore(m)',
           \A n \in Names : n # m => /\ WantedBefore(n)' <=> WantedBefore(n)
                                     /\ PresentBefore(n)' <=> PresentBefore(n),
           SettledAsIs(kind, m) \in {"right", "wrong"}
    PROVE  Loop!Next
  <1>. USE DEF Apartness
  <1>1. \A n : (Wanted(n)' <=> Wanted(n)) /\ (Present(n)' <=> Present(n))
    BY Moving
  <1>2. m \in Ahead
    BY AheadIs DEF NotPassed, Due, DoneWith, Kind
  <1>3. \A n \in Names : n \in Ahead' <=> NotPassed(n)'
    <2>1. (TypeOK /\ Sorted => \A n \in Names : n \in Ahead <=> NotPassed(n))'
      BY AheadIs, PTL
    <2>. QED
      BY <2>1
  <1>4. \A n \in Names : n \in Ahead' <=> n \in Ahead \ {m}
    BY <1>1, <1>3, AheadIs DEF NotPassed
  <1>5. Ahead' = Ahead \ {m}
    <2>1. Ahead \subseteq Names /\ Ahead' \subseteq Names
      BY DEF Ahead
    <2>. QED
      BY <1>4, <2>1
  <1>6. kind # "=" => ~DoneWith("=", m)
    <2>1. WantedBefore(m) => Wanted(m)
      BY CaseTyped DEF TypeOK, WantedBefore, Wanted
    <2>. QED
      BY <2>1 DEF Due, DoneWith, Kind
  <1>. DEFINE judged == [n \in Names |-> SettledAs(n)]
              verdict == SettledAsIs(kind, m)
  <1>7. judged' = [judged EXCEPT ![m] = verdict]
    BY <1>6, DoSettles
  <1>8. verdict = "right" => Wanted(m) /\ Present(m)
    BY DEF Due, SettledAsIs, Kind
  <1>9. {n \in Names : Wanted(n)}' = {n \in Names : Wanted(n)}
        /\ {n \in Names : Present(n)}' = {n \in Names : Present(n)}
    BY <1>1
  <1>10. Answer = "none" /\ Answer' = Answer
    BY DEF Answer
  <1>. HIDE DEF judged, verdict
  <1>11. Loop!Settle(m, verdict)
    BY <1>2, <1>5, <1>7, <1>8 DEF Loop!Settle, judged
  <1>12. verdict \in {"right", "wrong"}
    BY DEF verdict
  <1>. QED
    BY <1>9, <1>10, <1>11, <1>12 DEF Loop!Next

\* One that does nothing, and passes nothing that is wanted or was found.
LEMMA QuietStep ==
    ASSUME TypeOK, TypeOK', Sorted, Sorted', case' = case, UNCHANGED times,
           \A n \in Names : /\ WantedBefore(n)' <=> WantedBefore(n)
                            /\ PresentBefore(n)' <=> PresentBefore(n)
    PROVE  /\ Ahead' = Ahead
           /\ [n \in Names |-> SettledAs(n)]' = [n \in Names |-> SettledAs(n)]
           /\ {n \in Names : Wanted(n)}' = {n \in Names : Wanted(n)}
           /\ {n \in Names : Present(n)}' = {n \in Names : Present(n)}
  <1>1. \A n : (Wanted(n)' <=> Wanted(n)) /\ (Present(n)' <=> Present(n))
    BY Moving
  <1>2. Ahead' = Ahead
    <2>1. (TypeOK /\ Sorted => \A n \in Names : n \in Ahead <=> NotPassed(n))'
      BY AheadIs, PTL
    <2>2. \A n \in Names : n \in Ahead' <=> n \in Ahead
      BY <1>1, <2>1, AheadIs DEF NotPassed
    <2>3. Ahead \subseteq Names /\ Ahead' \subseteq Names
      BY DEF Ahead
    <2>. QED
      BY <2>2, <2>3
  <1>3. \A n \in Names : SettledAs(n)' = SettledAs(n)
    BY JudgementStays DEF SettledAs
  <1>. QED
    BY <1>1, <1>2, <1>3

\* When both lists are passed, all files are settled, and ok says that all are right.
LEMMA AllSettled ==
    ASSUME Apartness, Judged, e > Len(expected), g > Len(got)
    PROVE  Ahead = {} /\ (ok <=> Loop!AllRight)
  <1>. USE DEF Apartness
  <1>1. \A n : (WantedBefore(n) <=> Wanted(n)) /\ (PresentBefore(n) <=> Present(n))
    <2>1. e - 1 = Len(expected) /\ g - 1 = Len(got)
      BY CaseTyped DEF TypeOK
    <2>. QED
      BY <2>1 DEF WantedBefore, Wanted, PresentBefore, Present
  <1>2. Ahead = {}
    <2>1. Ahead \subseteq Names
      BY DEF Ahead
    <2>. QED
      BY <1>1, <2>1, AheadIs DEF NotPassed
  <1>3. ASSUME NEW n \in Names
        PROVE  SettledAs(n) = "right" <=> Wanted(n) /\ Present(n) /\ Judgement(n) = "same"
    <2>1. /\ times[<<"=", n>>] = IF Wanted(n) /\ Present(n) THEN 1 ELSE 0
      BY <1>1 DEF Counted, DoneWith, Kind
    <2>2. Judgement(n) \in Verdict
      BY DEF Judgement, TypeOK, CaseType, Verdict
    <2>. QED
      BY <2>1, <2>2 DEF SettledAs, Verdict
  <1>4. ok <=> \A n \in Names : /\ Wanted(n) => Present(n) /\ Judgement(n) = "same"
                                /\ Present(n) => Wanted(n)
    BY <1>1 DEF Judged, Fine
  <1>5. Loop!AllRight <=> \A n \in Names : Wanted(n) \/ Present(n) => SettledAs(n) = "right"
    BY DEF Loop!AllRight
  <1>. QED
    BY <1>2, <1>3, <1>4, <1>5

LEMMA ContractStep ==
    ASSUME IInv, IInv', Sorted, [Next]_vars
    PROVE  [Loop!Next]_(Loop!vars)
  <1>1. case' = case /\ expected' = expected /\ got' = got
    BY DEF Next, Step, vars, SkipDeleted, Compare, Missing, Unexpected, RestMissing,
           RestUnexpected, Return, expected, got
  <1>2. Sorted' /\ TypeOK /\ TypeOK'
    BY <1>1 DEF Sorted, IInv
  <1>3. CASE UNCHANGED vars
    <2>1. \A n \in Names : /\ WantedBefore(n)' <=> WantedBefore(n)
                           /\ PresentBefore(n)' <=> PresentBefore(n)
      BY <1>2, <1>3, Moving DEF vars
    <2>2. Answer' = Answer /\ UNCHANGED times
      BY <1>3 DEF Answer, vars
    <2>3. UNCHANGED Loop!vars
      BY <1>1, <1>2, <2>1, <2>2, QuietStep DEF Loop!vars
    <2>. QED
      BY <2>3
  <1>4. CASE Step
    <2>1. outcome = "running"
      BY <1>4 DEF Step, SkipDeleted, Compare, Missing, Unexpected, RestMissing, RestUnexpected,
                  Return, InBoth
    <2>2. Apartness /\ Judged
      BY <1>2, <2>1 DEF IInv, Merging, Apartness
    <2>3. /\ Len(expected) \in Nat /\ Len(got) \in Nat
          /\ e \in 1..(Len(expected) + 1) /\ g \in 1..(Len(got) + 1)
          /\ \A j \in 1..Len(expected) : expected[j].name \in Names /\ expected[j].name \in Int
          /\ \A j \in 1..Len(got) : got[j] \in Names /\ got[j] \in Int
      BY <1>2, CaseTyped DEF TypeOK
    <2>4. \A n : /\ e' = e => (WantedBefore(n)' <=> WantedBefore(n))
                 /\ g' = g => (PresentBefore(n)' <=> PresentBefore(n))
                 /\ e' = e + 1 => (WantedBefore(n)' <=> \/ WantedBefore(n)
                                                        \/ expected[e].name = n /\ expected[e].output)
                 /\ g' = g + 1 => (PresentBefore(n)' <=> PresentBefore(n) \/ got[g] = n)
      BY <1>1, <1>2, Moving
    <2>5. ASSUME e <= Len(expected), expected[e].output,
                 g <= Len(got) => expected[e].name < got[g],
                 Do("-", expected[e].name), e' = e + 1, g' = g, UNCHANGED outcome
          PROVE  Loop!Next
      <3>0. PICK m \in Names : m = expected[e].name
        BY <2>3, <2>5
      <3>1. m \in Names /\ Wanted(m) /\ ~Present(m) /\ ~WantedBefore(m)
        BY <1>2, <2>2, <2>3, <2>5, <3>0, Position DEF Apartness, Wanted
      <3>2. Due("-", m) /\ ~DoneWith("-", m)
        BY <3>1 DEF Due, DoneWith
      <3>3. /\ WantedBefore(m)'
            /\ \A n \in Names : n # m => /\ WantedBefore(n)' <=> WantedBefore(n)
                                         /\ PresentBefore(n)' <=> PresentBefore(n)
        BY <2>4, <2>5, <3>0, <3>1
      <3>4. SettledAsIs("-", m) \in {"right", "wrong"} /\ "-" \in Kind /\ Do("-", m)
            /\ UNCHANGED outcome
        BY <2>5, <3>0 DEF SettledAsIs, Kind
      <3>5. (Wanted(m) => WantedBefore(m)') /\ (Present(m) => PresentBefore(m)')
        BY <3>1, <3>3
      <3>. QED
        BY ONLY <1>1, <1>2, <2>2, <3>1, <3>2, <3>3, <3>4, <3>5, SettleStep
    <2>6. ASSUME g <= Len(got), e <= Len(expected) => expected[e].name > got[g],
                 Do("+", got[g]), e' = e, g' = g + 1, UNCHANGED outcome
          PROVE  Loop!Next
      <3>0. PICK m \in Names : m = got[g]
        BY <2>3, <2>6
      <3>1. m \in Names /\ Present(m) /\ ~Wanted(m) /\ ~PresentBefore(m)
        BY <1>2, <2>2, <2>3, <2>6, <3>0, Position DEF Apartness, Present
      <3>2. Due("+", m) /\ ~DoneWith("+", m)
        BY <3>1 DEF Due, DoneWith
      <3>3. /\ PresentBefore(m)'
            /\ \A n \in Names : n # m => /\ WantedBefore(n)' <=> WantedBefore(n)
                                         /\ PresentBefore(n)' <=> PresentBefore(n)
        BY <2>4, <2>6, <3>0, <3>1
      <3>4. SettledAsIs("+", m) \in {"right", "wrong"} /\ "+" \in Kind /\ Do("+", m)
            /\ UNCHANGED outcome
        BY <2>6, <3>0 DEF SettledAsIs, Kind
      <3>5. (Wanted(m) => WantedBefore(m)') /\ (Present(m) => PresentBefore(m)')
        BY <3>1, <3>3
      <3>. QED
        BY ONLY <1>1, <1>2, <2>2, <3>1, <3>2, <3>3, <3>4, <3>5, SettleStep
    <2>7. ASSUME e <= Len(expected), ~expected[e].output, e' = e + 1, g' = g,
                 UNCHANGED <<ok, times, outcome>>
          PROVE  UNCHANGED Loop!vars
      <3>1. \A n \in Names : /\ WantedBefore(n)' <=> WantedBefore(n)
                             /\ PresentBefore(n)' <=> PresentBefore(n)
        BY <2>4, <2>7
      <3>2. Answer' = Answer
        BY <2>7 DEF Answer
      <3>. QED
        BY <1>1, <1>2, <2>2, <2>7, <3>1, <3>2, QuietStep DEF Loop!vars
    <2>8. CASE SkipDeleted
      BY <2>7, <2>8 DEF SkipDeleted, InBoth
    <2>9. CASE Missing
      BY <2>5, <2>9 DEF Missing, InBoth, Report
    <2>10. CASE Unexpected
      BY <2>6, <2>10 DEF Unexpected, InBoth, Report
    <2>11. CASE RestMissing
      <3>1. CASE expected[e].output
        BY <2>3, <2>5, <2>11, <3>1 DEF RestMissing, Report
      <3>2. CASE ~expected[e].output
        BY <2>7, <2>11, <3>2 DEF RestMissing
      <3>. QED
        BY <3>1, <3>2
    <2>12. CASE RestUnexpected
      BY <2>3, <2>6, <2>12 DEF RestUnexpected, Report
    <2>13. CASE Compare
      <3>0. PICK m \in Names : m = got[g]
        BY <2>3, <2>13 DEF Compare, InBoth
      <3>1. /\ m \in Names /\ Wanted(m) /\ Present(m) /\ ~WantedBefore(m) /\ ~PresentBefore(m)
            /\ expected[e].name = m /\ expected[e].output
        BY <1>2, <2>2, <2>3, <2>13, <3>0, Position DEF Apartness, Present, Wanted, Compare, InBoth
      <3>2. Due("=", m) /\ ~DoneWith("=", m) /\ Do("=", m) /\ "=" \in Kind
        BY <2>13, <3>0, <3>1 DEF Due, DoneWith, Compare, Kind
      <3>3. Judgement(m) \in Verdict
        BY <1>2, <3>1 DEF Judgement, TypeOK, CaseType, Verdict
      <3>4. CASE Judgement(m) = "throws"
        <4>1. e' = e /\ g' = g /\ outcome' = "threw"
          BY <2>13, <3>0, <3>4 DEF Compare
        <4>2. [n \in Names |-> SettledAs(n)]' =
                [[n \in Names |-> SettledAs(n)] EXCEPT ![m] = SettledAsIs("=", m)]
          <5>. QED
            BY ONLY <1>1, <1>2, <2>2, <3>1, <3>2, DoSettles DEF Apartness
        <4>3. SettledAsIs("=", m) = "unseen"
          BY <3>4 DEF SettledAsIs
        <4>4. SettledAs(m) = "unseen"
          <5>1. times[<<"=", m>>] = 0 /\ times[<<"-", m>>] = 0 /\ times[<<"+", m>>] = 0
            BY <2>2, <3>1 DEF Apartness, Counted, DoneWith, Kind
          <5>. QED
            BY <5>1 DEF SettledAs
        <4>. DEFINE judged == [n \in Names |-> SettledAs(n)]
        <4>5. judged' = judged
          BY <3>1, <4>2, <4>3, <4>4
        <4>6. Ahead' = Ahead /\ \A n : (Wanted(n)' <=> Wanted(n)) /\ (Present(n)' <=> Present(n))
          BY <1>1, <4>1 DEF Ahead, Wanted, Present
        <4>7. {n \in Names : Wanted(n)}' = {n \in Names : Wanted(n)}
              /\ {n \in Names : Present(n)}' = {n \in Names : Present(n)}
          BY <4>6
        <4>8. Answer = "none" /\ Answer' = "threw"
          BY <2>1, <4>1 DEF Answer
        <4>9. Loop!Throw
          BY <4>5, <4>6, <4>7, <4>8 DEF Loop!Throw
        <4>. QED
          BY <4>8, <4>9 DEF Loop!Next
      <3>5. CASE Judgement(m) # "throws"
        <4>1. e' = e + 1 /\ g' = g + 1 /\ UNCHANGED outcome
          BY <2>13, <3>0, <3>5 DEF Compare
        <4>2. WantedBefore(m)' /\ PresentBefore(m)'
              /\ \A n \in Names : n # m => /\ WantedBefore(n)' <=> WantedBefore(n)
                                           /\ PresentBefore(n)' <=> PresentBefore(n)
          BY <2>4, <3>0, <3>1, <4>1
        <4>3. SettledAsIs("=", m) \in {"right", "wrong"}
          BY <3>3, <3>5 DEF SettledAsIs, Verdict
        <4>4. Loop!Next
          <5>. QED
            BY ONLY <1>1, <1>2, <2>2, <3>1, <3>2, <4>1, <4>2, <4>3, SettleStep
        <4>. QED
          BY <4>4
      <3>. QED
        BY <3>4, <3>5
    <2>14. CASE Return
      <3>1. e > Len(expected) /\ g > Len(got) /\ UNCHANGED <<case, e, g, ok, times>>
            /\ outcome' = "returned"
        BY <2>14 DEF Return
      <3>2. Ahead = {} /\ (ok <=> Loop!AllRight)
        BY <2>2, <3>1, AllSettled
      <3>3. \A n \in Names : /\ WantedBefore(n)' <=> WantedBefore(n)
                             /\ PresentBefore(n)' <=> PresentBefore(n)
        BY <2>4, <3>1
      <3>4. Answer = "none" /\ Answer' = IF ok THEN "same" ELSE "differ"
        BY <2>1, <3>1 DEF Answer
      <3>5. /\ Ahead' = Ahead
            /\ [n \in Names |-> SettledAs(n)]' = [n \in Names |-> SettledAs(n)]
            /\ {n \in Names : Wanted(n)}' = {n \in Names : Wanted(n)}
            /\ {n \in Names : Present(n)}' = {n \in Names : Present(n)}
        BY <1>1, <1>2, <3>1, <3>3, QuietStep
      <3>6. Loop!Return
        BY <3>2, <3>4, <3>5 DEF Loop!Return
      <3>. QED
        BY <3>4, <3>6 DEF Loop!Next
    <2>. QED
      BY <1>4, <2>8, <2>9, <2>10, <2>11, <2>12, <2>13, <2>14 DEF Step
  <1>. QED
    BY <1>3, <1>4 DEF Next

LEMMA ContractInit ==
    ASSUME Init, TypeOK
    PROVE  Loop!Init
  <1>1. \A n \in Names : SettledAs(n) = "unseen"
    BY DEF Init, SettledAs, Kind
  <1>2. Ahead = {n \in Names : Wanted(n)} \cup {n \in Names : Present(n)}
    BY DEF Init, Ahead, Wanted, Present
  <1>3. Answer = "none"
    BY DEF Init, Answer
  <1>. QED
    BY <1>1, <1>2, <1>3 DEF Loop!Init

\* The merge of sorted lists of any length implements CompareContract: each file is settled
\* once, the answer comes when all are, and is yes exactly if all are right.
THEOREM ContractIsKept == Spec => KeepsContract
  <1>1. Init /\ IInv => (Sorted => Loop!Init)
    BY ContractInit DEF IInv
  <1>2. IInv /\ IInv' /\ [Next]_vars => [Sorted => [Loop!Next]_(Loop!vars)]_vars
    BY ContractStep
  <1>. QED
    BY Invariance, <1>1, <1>2, PTL DEF Spec, KeepsContract

\* So it implements it whenever it is called with sorted lists.
THEOREM SortedImplements ==
    ASSUME \A c \in Cases :
              /\ \A j, k \in 1..Len(c.expected) : j < k => c.expected[j].name < c.expected[k].name
              /\ \A j, k \in 1..Len(c.got) : j < k => c.got[j] < c.got[k]
    PROVE  Spec => Loop!Spec
  <1>1. Init => Sorted
    BY DEF Init, Sorted, expected, got
  <1>2. Sorted /\ [Next]_vars => Sorted'
    <2>1. [Next]_vars => case' = case
      BY DEF Next, Step, vars, SkipDeleted, Compare, Missing, Unexpected, RestMissing,
             RestUnexpected, Return
    <2>. QED
      BY <2>1 DEF Sorted, expected, got
  <1>3. Init /\ IInv => Loop!Init
    BY ContractInit DEF IInv
  <1>4. IInv /\ IInv' /\ Sorted /\ [Next]_vars => [Loop!Next]_(Loop!vars)
    BY ContractStep
  <1>. QED
    BY Invariance, <1>1, <1>2, <1>3, <1>4, PTL DEF Spec, Loop!Spec

=============================================================================
