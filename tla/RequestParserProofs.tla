-------------------------- MODULE RequestParserProofs --------------------------
(***************************************************************************)
(* Theorems about the parser and the serializer, for texts of any length.  *)
(***************************************************************************)
EXTENDS RequestParser, SequenceTheorems, FiniteSetTheorems, WellFoundedInduction,
        TLAPS

USE DEF Text
------------------------------------------------------------------------------
(***************************************************************************)
(* The least number of a set, in place of an induction.                    *)
(***************************************************************************)
\* A set of naturals that is not empty has a least element.
LEMMA LeastNatural ==
    ASSUME NEW T \in SUBSET Nat, T # {}
    PROVE  \E n \in T : \A m \in T : n <= m
  <1> DEFINE Below == {0..n : n \in T}
  <1>1. ASSUME NEW n \in T PROVE 0..n \in FiniteSubsetsOf(Nat)
    <2>1. 0 \in Int /\ n \in Int /\ 0..n \subseteq Nat
      OBVIOUS
    <2>2. IsFiniteSet(0..n)
      BY <2>1, FS_Interval
    <2> QED BY <2>1, <2>2 DEF FiniteSubsetsOf
  <1>2. IsWellFoundedOn(StrictSubsetOrdering(Nat), FiniteSubsetsOf(Nat))
    BY FS_StrictSubsetOrderingWellFounded
  <1>3. Below # {}
    OBVIOUS
  <1>4. \E s \in Below : \A t \in Below : ~(<<t, s>> \in StrictSubsetOrdering(Nat))
    <2>1. Below \subseteq FiniteSubsetsOf(Nat)
      BY <1>1
    <2> HIDE DEF Below
    <2> QED BY <1>2, <1>3, <2>1, WFMin
  <1>5. PICK n \in T : \A t \in Below : ~(<<t, 0..n>> \in StrictSubsetOrdering(Nat))
    BY <1>4
  <1>6. ASSUME NEW m \in T, m < n PROVE FALSE
    <2>1. 0..m \subseteq 0..n /\ n \in 0..n /\ n \notin 0..m
      BY <1>6
    <2>2. <<0..m, 0..n>> \in StrictSubsetOrdering(Nat)
      BY <2>1 DEF StrictSubsetOrdering
    <2> QED BY <2>2, <1>5
  <1> QED BY <1>6

\* A sequence over a set is one over any larger set.
LEMMA SeqOfMore ==
    ASSUME NEW S, NEW T, S \subseteq T, NEW s \in Seq(S)
    PROVE  s \in Seq(T)
  <1>1. Len(s) \in Nat /\ DOMAIN s = 1..Len(s) /\ \A i \in 1..Len(s) : s[i] \in S
    BY LenProperties, ElementOfSeq
  <1>2. s = [i \in 1..Len(s) |-> s[i]]
    BY <1>1, LenProperties
  <1>3. [i \in 1..Len(s) |-> s[i]] \in Seq(T)
    BY <1>1
  <1> QED BY <1>2, <1>3

\* The least element is what Min returns.
LEMMA LeastElement ==
    ASSUME NEW I \in SUBSET Nat, I # {}
    PROVE  Min(I) \in I /\ \A j \in I : Min(I) <= j
  BY LeastNatural DEF Min
------------------------------------------------------------------------------
(***************************************************************************)
(* Where the parser finds what it looks for.                               *)
(***************************************************************************)
\* i is the first position from p on where the text holds what V holds.
FirstIn(text, p, i, V) ==
    i \in p..Len(text) /\ text[i] \in V /\ \A j \in p..(i - 1) : text[j] \notin V

\* Find returns the first occurrence, or 0 when there is none.
LEMMA Found ==
    ASSUME NEW text \in Text, NEW x, NEW p \in Nat \ {0}
    PROVE  \/ Find(text, x, p) = 0 /\ \A j \in p..Len(text) : text[j] # x
           \/ FirstIn(text, p, Find(text, x, p), {x})
  <1> DEFINE I == {i \in p..Len(text) : text[i] = x}
  <1>1. Len(text) \in Nat
    BY LenProperties
  <1>2. Find(text, x, p) = IF I # {} THEN Min(I) ELSE 0
    BY DEF Find, SelectInSubSeq
  <1>3. I \in SUBSET Nat
    BY <1>1
  <1>4. CASE I = {}
    BY <1>2, <1>4
  <1>5. CASE I # {}
    <2>1. Min(I) \in I /\ \A j \in I : Min(I) <= j
      <3> HIDE DEF I
      <3> QED BY <1>3, <1>5, LeastElement
    <2>2. \A j \in p..(Min(I) - 1) : text[j] # x
      BY <1>1, <2>1
    <2>3. FirstIn(text, p, Min(I), {x})
      BY <2>1, <2>2 DEF FirstIn
    <2> QED BY <1>2, <1>5, <2>3
  <1> QED BY <1>4, <1>5

\* SkipSpaces returns the first position that is no space, or 0.
LEMMA Skipped ==
    ASSUME NEW text \in Text, NEW p \in Nat \ {0}
    PROVE  \/ SkipSpaces(text, p) = 0 /\ \A j \in p..Len(text) : text[j] = "sp"
           \/ FirstIn(text, p, SkipSpaces(text, p), Symbols \ {"sp"})
  <1> DEFINE I == {i \in p..Len(text) : text[i] # "sp"}
  <1>1. Len(text) \in Nat /\ \A i \in 1..Len(text) : text[i] \in Symbols
    BY LenProperties, ElementOfSeq
  <1>2. SkipSpaces(text, p) = IF I # {} THEN Min(I) ELSE 0
    BY DEF SkipSpaces, SelectInSubSeq
  <1>3. I \in SUBSET Nat
    BY <1>1
  <1>4. CASE I = {}
    BY <1>2, <1>4
  <1>5. CASE I # {}
    <2>1. Min(I) \in I /\ \A j \in I : Min(I) <= j
      <3> HIDE DEF I
      <3> QED BY <1>3, <1>5, LeastElement
    <2>2. \A j \in p..(Min(I) - 1) : text[j] \notin Symbols \ {"sp"}
      BY <1>1, <2>1
    <2>3. text[Min(I)] \in Symbols \ {"sp"} /\ Min(I) \in p..Len(text)
      BY <1>1, <2>1
    <2>4. FirstIn(text, p, Min(I), Symbols \ {"sp"})
      BY <2>2, <2>3 DEF FirstIn
    <2> QED BY <1>2, <1>5, <2>4
  <1> QED BY <1>4, <1>5

\* The first one is one only.
LEMMA FirstIsFind ==
    ASSUME NEW text \in Text, NEW x, NEW p \in Nat \ {0}, NEW i \in Nat,
           FirstIn(text, p, i, {x})
    PROVE  Find(text, x, p) = i
  <1>1. Len(text) \in Nat
    BY LenProperties
  <1>2. CASE Find(text, x, p) = 0 /\ \A j \in p..Len(text) : text[j] # x
    BY <1>2 DEF FirstIn
  <1>3. CASE FirstIn(text, p, Find(text, x, p), {x})
    BY <1>1, <1>3 DEF FirstIn
  <1> QED BY <1>2, <1>3, Found

\* The same for SkipSpaces: the number First gives is where the text goes on
\* after the spaces.
LEMMA FirstIsSkip ==
    ASSUME NEW text \in Text, NEW p \in Nat \ {0}, NEW i \in Nat,
           FirstIn(text, p, i, Symbols \ {"sp"})
    PROVE  SkipSpaces(text, p) = i
  <1>1. Len(text) \in Nat
    BY LenProperties
  <1>2. CASE SkipSpaces(text, p) = 0 /\ \A j \in p..Len(text) : text[j] = "sp"
    BY <1>2 DEF FirstIn
  <1>3. CASE FirstIn(text, p, SkipSpaces(text, p), Symbols \ {"sp"})
    BY <1>1, <1>3 DEF FirstIn
  <1> QED BY <1>2, <1>3, Skipped

\* The two bytes that end a line.
LEMMA CrlfIs ==
    Len(Crlf) = 2 /\ Crlf[1] = "cr" /\ Crlf[2] = "lf" /\ Crlf \in Text
  <1>1. "cr" \in Symbols /\ "lf" \in Symbols
    BY DEF Symbols, Delimiters
  <1>2. \A a, b \in Symbols : <<a, b>> \in Seq(Symbols)
    OBVIOUS
  <1>3. Crlf \in Text
    BY <1>1, <1>2 DEF Crlf, Text
  <1> QED BY <1>3 DEF Crlf

\* A line ends where the two stand.
LEMMA EndOfLine ==
    ASSUME NEW text \in Text, NEW p \in Nat \ {0}
    PROVE  StartsAt(text, p, Crlf) <=>
             /\ p + 1 <= Len(text)
             /\ text[p] = "cr" /\ text[p + 1] = "lf"
  <1>1. Len(text) \in Nat /\ \A i \in 1..Len(text) : text[i] \in Symbols
    BY LenProperties, ElementOfSeq
  <1>2. Len(Crlf) = 2 /\ Crlf[1] = "cr" /\ Crlf[2] = "lf" /\ Crlf \in Text
    BY CrlfIs
  <1>3. CASE p + 1 > Len(text)
    BY <1>1, <1>2, <1>3 DEF StartsAt
  <1>4. CASE p + 1 <= Len(text)
    <2> DEFINE two == SubSeq(text, p, p + 1)
    <2>1. p \in Int /\ p + 1 \in Int /\ \A i \in p..(p + 1) : text[i] \in Symbols
      BY <1>1, <1>4
    <2>2. /\ two \in Text
          /\ Len(two) = IF p <= p + 1 THEN (p + 1) - p + 1 ELSE 0
          /\ \A i \in 1..((p + 1) - p + 1) : two[i] = text[p + i - 1]
      BY <2>1, SubSeqProperties
    <2>3. Len(two) = 2 /\ two[1] = text[p] /\ two[2] = text[p + 1]
      <3>1. 1 \in 1..((p + 1) - p + 1) /\ 2 \in 1..((p + 1) - p + 1)
        OBVIOUS
      <3>2. p + 1 - 1 = p /\ p + 2 - 1 = p + 1
        OBVIOUS
      <3> QED BY <2>2, <3>1, <3>2
    <2>4. StartsAt(text, p, Crlf) <=> two = Crlf
      <3>1. p + 2 - 1 = p + 1
        OBVIOUS
      <3> QED BY <1>2, <1>4, <3>1 DEF StartsAt
    <2> HIDE DEF two
    <2>5. two = Crlf <=> two[1] = "cr" /\ two[2] = "lf"
      <3>1. ASSUME two[1] = "cr", two[2] = "lf" PROVE two = Crlf
        <4>1. \A i \in 1..Len(two) : two[i] = Crlf[i]
          BY <1>2, <2>3, <3>1
        <4> QED BY <4>1, <1>2, <2>2, <2>3, SeqEqual
      <3> QED BY <3>1, <1>2
    <2> QED BY <1>4, <2>3, <2>4, <2>5
  <1> QED BY <1>1, <1>3, <1>4

\* What lies between two positions of a text, the first included.
LEMMA Between ==
    ASSUME NEW text \in Text, NEW p \in Nat \ {0}, NEW q \in Nat,
           p <= q, q - 1 <= Len(text)
    PROVE  /\ SubSeq(text, p, q - 1) \in Text
           /\ Len(SubSeq(text, p, q - 1)) = q - p
           /\ \A i \in 1..(q - p) : SubSeq(text, p, q - 1)[i] = text[p + i - 1]
  <1>1. Len(text) \in Nat /\ \A i \in 1..Len(text) : text[i] \in Symbols
    BY LenProperties, ElementOfSeq
  <1>2. p \in Int /\ q - 1 \in Int /\ \A i \in p..(q - 1) : text[i] \in Symbols
    BY <1>1
  <1>3. /\ SubSeq(text, p, q - 1) \in Text
        /\ Len(SubSeq(text, p, q - 1)) = IF p <= q - 1 THEN (q - 1) - p + 1 ELSE 0
        /\ \A i \in 1..((q - 1) - p + 1) : SubSeq(text, p, q - 1)[i] = text[p + i - 1]
    BY <1>2, SubSeqProperties
  <1>4. (q - 1) - p + 1 = q - p
    OBVIOUS
  <1> QED BY <1>3, <1>4

\* Nothing lies between a position and itself.
LEMMA NotEmptyBetween ==
    ASSUME NEW text \in Text, NEW p \in Nat \ {0}, NEW q \in Nat,
           p <= q, q - 1 <= Len(text)
    PROVE  SubSeq(text, p, q - 1) # <<>> <=> p < q
  BY Between, EmptySeq

\* t is the beginning of text.
Begins(t, text) ==
    /\ t \in Text /\ text \in Text
    /\ Len(t) <= Len(text)
    /\ \A i \in 1..Len(t) : t[i] = text[i]

\* What is found in the beginning of a text is found in the text.
LEMMA FirstInMore ==
    ASSUME NEW t, NEW text, Begins(t, text), NEW p \in Nat \ {0}, NEW i, NEW V,
           FirstIn(t, p, i, V)
    PROVE  FirstIn(text, p, i, V)
  <1>1. Len(t) \in Nat /\ Len(text) \in Nat
    BY LenProperties DEF Begins
  <1> QED BY <1>1 DEF Begins, FirstIn

\* What lies between two positions of the beginning is the same in the text.
LEMMA BetweenInMore ==
    ASSUME NEW t, NEW text, Begins(t, text), NEW p \in Nat \ {0}, NEW q \in Nat,
           p <= q, q - 1 <= Len(t)
    PROVE  SubSeq(t, p, q - 1) = SubSeq(text, p, q - 1)
  <1>1. Len(t) \in Nat /\ Len(text) \in Nat /\ Len(t) <= Len(text)
        /\ t \in Text /\ text \in Text
    BY LenProperties DEF Begins
  <1>2. /\ SubSeq(t, p, q - 1) \in Text
        /\ Len(SubSeq(t, p, q - 1)) = q - p
        /\ \A i \in 1..(q - p) : SubSeq(t, p, q - 1)[i] = t[p + i - 1]
    BY <1>1, Between
  <1>3. /\ SubSeq(text, p, q - 1) \in Text
        /\ Len(SubSeq(text, p, q - 1)) = q - p
        /\ \A i \in 1..(q - p) : SubSeq(text, p, q - 1)[i] = text[p + i - 1]
    BY <1>1, Between
  <1>4. \A i \in 1..(q - p) : t[p + i - 1] = text[p + i - 1]
    <2>1. \A i \in 1..(q - p) : p + i - 1 \in 1..Len(t)
      BY <1>1
    <2> QED BY <2>1 DEF Begins
  <1> QED BY <1>2, <1>3, <1>4, SeqEqual

\* An end of a line in the beginning is one in the text; the converse needs one
\* more symbol.
LEMMA EndOfLineInMore ==
    ASSUME NEW t, NEW text, Begins(t, text), NEW p \in Nat \ {0}
    PROVE  /\ StartsAt(t, p, Crlf) => StartsAt(text, p, Crlf)
           /\ p < Len(t) /\ StartsAt(text, p, Crlf) => StartsAt(t, p, Crlf)
  <1>1. Len(t) \in Nat /\ Len(text) \in Nat /\ Len(t) <= Len(text)
        /\ t \in Text /\ text \in Text
    BY LenProperties DEF Begins
  <1>2. p < Len(t) => p \in 1..Len(t) /\ p + 1 \in 1..Len(t)
    BY <1>1
  <1>3. p < Len(t) => t[p] = text[p] /\ t[p + 1] = text[p + 1]
    BY <1>2 DEF Begins
  <1> QED BY <1>1, <1>3, EndOfLine
------------------------------------------------------------------------------
(***************************************************************************)
(* One line of a request.                                                  *)
(***************************************************************************)
\* A header lies in text from p on: its colon, the first symbol of its value and
\* the end of its line.
HeaderAt(text, p, colon, v, cr) ==
    /\ FirstIn(text, p, colon, {":"}) /\ p < colon
    /\ FirstIn(text, colon + 1, v, Symbols \ {"sp"})
    /\ FirstIn(text, colon + 1, cr, {"cr"}) /\ StartsAt(text, cr, Crlf)
    /\ Fits(SubSeq(text, p, colon - 1)) /\ Fits(SubSeq(text, v, cr - 1))

HeaderRead(text, p, colon, v, cr) ==
    [ok |-> TRUE,
     header |-> [name |-> SubSeq(text, p, colon - 1), value |-> SubSeq(text, v, cr - 1)],
     position |-> cr + 2]

\* The value begins before the end of the line.
LEMMA HeaderOrder ==
    ASSUME NEW text \in Text, NEW p \in Nat \ {0}, NEW colon, NEW v, NEW cr,
           HeaderAt(text, p, colon, v, cr)
    PROVE  /\ colon \in Nat /\ v \in Nat /\ cr \in Nat
           /\ p < colon /\ colon < v /\ v <= cr /\ cr < Len(text)
           /\ text[cr] = "cr" /\ text[colon] = ":"
           /\ \A j \in p..(colon - 1) : text[j] # ":"
           /\ \A j \in (colon + 1)..(cr - 1) : text[j] # "cr"
           /\ \A j \in (colon + 1)..(v - 1) : text[j] = "sp"
           /\ text[v] # "sp"
  <1>1. Len(text) \in Nat /\ \A i \in 1..Len(text) : text[i] \in Symbols
    BY LenProperties, ElementOfSeq
  <1>2. /\ colon \in p..Len(text) /\ text[colon] = ":" /\ p < colon
        /\ v \in (colon + 1)..Len(text) /\ text[v] # "sp"
        /\ \A j \in (colon + 1)..(v - 1) : text[j] \notin Symbols \ {"sp"}
        /\ cr \in (colon + 1)..Len(text) /\ text[cr] = "cr"
        /\ \A j \in p..(colon - 1) : text[j] # ":"
        /\ \A j \in (colon + 1)..(cr - 1) : text[j] # "cr"
        /\ StartsAt(text, cr, Crlf)
    BY DEF HeaderAt, FirstIn
  <1>3. colon \in Nat /\ v \in Nat /\ cr \in Nat \ {0} /\ p < colon /\ colon < v
    BY <1>1, <1>2
  <1>4. cr + 1 <= Len(text)
    BY <1>2, <1>3, EndOfLine
  <1>5. v <= cr
    <2>1. SUFFICES ASSUME cr < v PROVE FALSE
      BY <1>3
    <2>2. cr \in (colon + 1)..(v - 1) /\ cr \in 1..Len(text)
      BY <1>1, <1>2, <1>3, <2>1
    <2>3. text[cr] \in Symbols /\ text[cr] = "cr"
      BY <1>1, <1>2, <2>2
    <2> QED BY <1>2, <2>2, <2>3
  <1>6. \A j \in (colon + 1)..(v - 1) : j \in 1..Len(text)
    BY <1>1, <1>2, <1>3
  <1>7. \A j \in (colon + 1)..(v - 1) : text[j] = "sp"
    BY <1>1, <1>2, <1>6
  <1> QED BY <1>1, <1>2, <1>3, <1>4, <1>5, <1>7

\* parseHeaders takes a header where there is one.
LEMMA HeaderThere ==
    ASSUME NEW text \in Text, NEW p \in Nat \ {0}, NEW colon, NEW v, NEW cr,
           HeaderAt(text, p, colon, v, cr)
    PROVE  ParseHeader(text, p) = HeaderRead(text, p, colon, v, cr)
  <1>1. /\ colon \in Nat /\ v \in Nat /\ cr \in Nat
        /\ p < colon /\ colon < v /\ v <= cr /\ cr < Len(text)
    BY HeaderOrder
  <1>2. Find(text, ":", p) = colon
    BY <1>1, FirstIsFind DEF HeaderAt
  <1>3. colon + 1 \in Nat \ {0}
    BY <1>1
  <1>4. Find(text, "cr", colon + 1) = cr /\ SkipSpaces(text, colon + 1) = v
    BY <1>1, <1>3, FirstIsFind, FirstIsSkip DEF HeaderAt
  <1>5. Len(text) \in Nat
    BY LenProperties
  <1>6. SubSeq(text, p, colon - 1) # <<>> /\ colon # 0 /\ cr # 0
    BY <1>1, <1>5, NotEmptyBetween
  <1> QED BY <1>2, <1>4, <1>6 DEF ParseHeader, HeaderLine, HeaderRead, HeaderAt

\* And only there.
LEMMA HeaderNotThere ==
    ASSUME NEW text \in Text, NEW p \in Nat \ {0}, ParseHeader(text, p).ok
    PROVE  \E colon, v, cr \in Nat : HeaderAt(text, p, colon, v, cr)
  <1> DEFINE colon == Find(text, ":", p)
             cr == Find(text, "cr", colon + 1)
             v == SkipSpaces(text, colon + 1)
  <1>1. Len(text) \in Nat /\ \A i \in 1..Len(text) : text[i] \in Symbols
    BY LenProperties, ElementOfSeq
  <1>2. /\ colon # 0 /\ cr # 0
        /\ SubSeq(text, p, colon - 1) # <<>>
        /\ Fits(SubSeq(text, p, colon - 1)) /\ Fits(SubSeq(text, v, cr - 1))
        /\ StartsAt(text, cr, Crlf)
    BY DEF ParseHeader, HeaderLine, Failed
  <1>3. FirstIn(text, p, colon, {":"})
    BY <1>2, Found
  <1> HIDE DEF colon
  <1>4. colon \in Nat /\ p <= colon /\ colon <= Len(text) /\ colon + 1 \in Nat \ {0}
    BY <1>1, <1>3 DEF FirstIn
  <1>5. FirstIn(text, colon + 1, cr, {"cr"})
    BY <1>2, <1>4, Found
  <1>6. cr \in (colon + 1)..Len(text) /\ text[cr] = "cr"
    BY <1>5 DEF FirstIn
  <1> HIDE DEF cr
  <1>7. FirstIn(text, colon + 1, v, Symbols \ {"sp"})
    BY <1>4, <1>6, Skipped
  <1>8. v \in Nat /\ cr \in Nat
    BY <1>1, <1>4, <1>6, <1>7 DEF FirstIn
  <1>9. p < colon
    BY <1>1, <1>2, <1>4, NotEmptyBetween
  <1> HIDE DEF v
  <1>10. HeaderAt(text, p, colon, v, cr)
    BY <1>2, <1>3, <1>5, <1>7, <1>9 DEF HeaderAt
  <1> QED BY <1>4, <1>8, <1>10

\* The request line: its two spaces and its end.
LineAt(text, first, second, cr) ==
    /\ FirstIn(text, 1, first, {"sp"}) /\ 1 < first
    /\ FirstIn(text, first + 1, second, {"sp"}) /\ first + 1 < second
    /\ FirstIn(text, second + 1, cr, {"cr"}) /\ second + 1 < cr
    /\ StartsAt(text, cr, Crlf)
    /\ Fits(SubSeq(text, 1, first - 1))
    /\ Fits(SubSeq(text, first + 1, second - 1))
    /\ Fits(SubSeq(text, second + 1, cr - 1))

LineRead(text, first, second, cr) ==
    [ok |-> TRUE, method |-> GetHTTPMethod(SubSeq(text, 1, first - 1)),
     uri |-> SubSeq(text, first + 1, second - 1),
     version |-> GetHTTPVersion(SubSeq(text, second + 1, cr - 1)),
     position |-> cr + 2]

\* The parts of the line follow each other.
LEMMA LineOrder ==
    ASSUME NEW text \in Text, NEW first, NEW second, NEW cr,
           LineAt(text, first, second, cr)
    PROVE  /\ first \in Nat /\ second \in Nat /\ cr \in Nat
           /\ 1 < first /\ first + 1 < second /\ second + 1 < cr /\ cr < Len(text)
           /\ \A j \in (first + 1)..(second - 1) : text[j] # "sp"
  <1>1. Len(text) \in Nat
    BY LenProperties
  <1>2. /\ first \in 1..Len(text) /\ second \in (first + 1)..Len(text)
        /\ cr \in (second + 1)..Len(text) /\ StartsAt(text, cr, Crlf)
        /\ 1 < first /\ first + 1 < second /\ second + 1 < cr
        /\ \A j \in (first + 1)..(second - 1) : text[j] # "sp"
    BY DEF LineAt, FirstIn
  <1>3. first \in Nat /\ second \in Nat /\ cr \in Nat \ {0}
    BY <1>1, <1>2
  <1>4. cr + 1 <= Len(text)
    BY <1>2, <1>3, EndOfLine
  <1> QED BY <1>1, <1>2, <1>3, <1>4

\* parseRequestLine takes a line where there is one.
LEMMA LineThere ==
    ASSUME NEW text \in Text, NEW first, NEW second, NEW cr,
           LineAt(text, first, second, cr)
    PROVE  ParseRequestLine(text) = LineRead(text, first, second, cr)
  <1>1. /\ first \in Nat /\ second \in Nat /\ cr \in Nat
        /\ 1 < first /\ first + 1 < second /\ second + 1 < cr /\ cr < Len(text)
    BY LineOrder
  <1>2. Find(text, "sp", 1) = first
    BY <1>1, FirstIsFind DEF LineAt
  <1>3. first + 1 \in Nat \ {0} /\ second + 1 \in Nat \ {0}
    BY <1>1
  <1>4. Find(text, "sp", first + 1) = second
    BY <1>1, <1>3, FirstIsFind DEF LineAt
  <1>5. Find(text, "cr", second + 1) = cr
    BY <1>1, <1>3, FirstIsFind DEF LineAt
  <1>6. Len(text) \in Nat
    BY LenProperties
  <1>7. SubSeq(text, 1, first - 1) # <<>>
    BY <1>1, <1>6, NotEmptyBetween
  <1>8. SubSeq(text, first + 1, second - 1) # <<>>
    BY <1>1, <1>3, <1>6, NotEmptyBetween
  <1>9. SubSeq(text, second + 1, cr - 1) # <<>>
    BY <1>1, <1>3, <1>6, NotEmptyBetween
  <1>10. 0 \notin {first, second, cr}
    BY <1>1
  <1>11. ParseRequestLine(text) = RequestLine(text, first, second, cr)
    BY <1>2, <1>4, <1>5 DEF ParseRequestLine
  <1> QED BY <1>7, <1>8, <1>9, <1>10, <1>11 DEF RequestLine, LineRead, LineAt

\* And only there.
LEMMA LineNotThere ==
    ASSUME NEW text \in Text, ParseRequestLine(text).ok
    PROVE  \E first, second, cr \in Nat : LineAt(text, first, second, cr)
  <1> DEFINE first == Find(text, "sp", 1)
             second == Find(text, "sp", first + 1)
             cr == Find(text, "cr", second + 1)
  <1>1. Len(text) \in Nat
    BY LenProperties
  <1>2. /\ first # 0 /\ second # 0 /\ cr # 0
        /\ SubSeq(text, 1, first - 1) # <<>>
        /\ SubSeq(text, first + 1, second - 1) # <<>>
        /\ SubSeq(text, second + 1, cr - 1) # <<>>
        /\ Fits(SubSeq(text, 1, first - 1))
        /\ Fits(SubSeq(text, first + 1, second - 1))
        /\ Fits(SubSeq(text, second + 1, cr - 1))
        /\ StartsAt(text, cr, Crlf)
    BY DEF ParseRequestLine, RequestLine, Failed
  <1>3. FirstIn(text, 1, first, {"sp"})
    BY <1>2, Found
  <1> HIDE DEF first
  <1>4. first \in 1..Len(text)
    BY <1>3 DEF FirstIn
  <1>5. first \in Nat /\ first + 1 \in Nat \ {0}
    BY <1>1, <1>4
  <1>6. FirstIn(text, first + 1, second, {"sp"})
    BY <1>2, <1>5, Found
  <1> HIDE DEF second
  <1>7. second \in (first + 1)..Len(text)
    BY <1>6 DEF FirstIn
  <1>8. second \in Nat /\ second + 1 \in Nat \ {0}
    BY <1>1, <1>5, <1>7
  <1>9. FirstIn(text, second + 1, cr, {"cr"})
    BY <1>2, <1>8, Found
  <1> HIDE DEF cr
  <1>10. cr \in (second + 1)..Len(text)
    BY <1>9 DEF FirstIn
  <1>11. cr \in Nat
    BY <1>1, <1>8, <1>10
  <1>12. 1 < first
    BY <1>1, <1>2, <1>4, NotEmptyBetween
  <1>13. first + 1 < second
    BY <1>1, <1>2, <1>5, <1>7, <1>8, NotEmptyBetween
  <1>14. second + 1 < cr
    BY <1>1, <1>2, <1>8, <1>10, <1>11, NotEmptyBetween
  <1>15. LineAt(text, first, second, cr)
    BY <1>2, <1>3, <1>6, <1>9, <1>12, <1>13, <1>14 DEF LineAt
  <1> QED BY <1>5, <1>8, <1>11, <1>15
------------------------------------------------------------------------------
(***************************************************************************)
(* All headers.                                                            *)
(***************************************************************************)
\* The body of the recursion of HeadersIn.
FromHere(text, from, p) ==
    LET line == ParseHeader(text, p)
    IN IF ~line.ok THEN Failed
       ELSE IF StartsAt(text, line.position, Crlf) THEN LastHeader(line)
       ELSE MoreHeaders(line, from[line.position])

\* The parser only goes forward, and not beyond the end.
LEMMA Further ==
    ASSUME NEW text \in Text, NEW p \in Nat \ {0}, ParseHeader(text, p).ok
    PROVE  /\ ParseHeader(text, p).position \in Nat
           /\ p + 3 <= ParseHeader(text, p).position
           /\ ParseHeader(text, p).position <= Len(text) + 1
  <1>1. PICK colon \in Nat, v \in Nat, cr \in Nat : HeaderAt(text, p, colon, v, cr)
    BY HeaderNotThere
  <1>2. ParseHeader(text, p).position = cr + 2
    BY <1>1, HeaderThere DEF HeaderRead
  <1>3. p < colon /\ colon < v /\ v <= cr /\ cr < Len(text) /\ Len(text) \in Nat
    BY <1>1, HeaderOrder, LenProperties
  <1> QED BY <1>2, <1>3

\* HeadersIn satisfies the equation that defines it.
LEMMA HeadersEquation ==
    ASSUME NEW text \in Text
    PROVE  HeadersIn(text) = [p \in 1..(Len(text) + 1) |-> FromHere(text, HeadersIn(text), p)]
  <1> DEFINE N == Len(text)
             Solves(g, d) == \A p \in (N + 1 - d)..(N + 1) : g[p] = FromHere(text, g, p)
             Unsolved == {d \in 0..N : ~\E g : Solves(g, d)}
  <1>1. N \in Nat
    BY LenProperties
  <1> HIDE DEF N
  <1>2. ASSUME NEW p \in Nat \ {0}, p <= N + 1, NEW g, NEW h,
               \A i \in (p + 1)..(N + 1) : g[i] = h[i]
        PROVE  FromHere(text, g, p) = FromHere(text, h, p)
    <2>1. ParseHeader(text, p).ok => ParseHeader(text, p).position \in (p + 1)..(N + 1)
      BY <1>1, Further DEF N
    <2> QED BY <1>2, <2>1 DEF FromHere
  <1>3. Unsolved = {}
    <2> SUFFICES ASSUME Unsolved # {} PROVE FALSE
      OBVIOUS
    <2>1. Unsolved \in SUBSET Nat
      BY <1>1
    <2>2. PICK d \in Unsolved : \A e \in Unsolved : d <= e
      <3> HIDE DEF Unsolved
      <3> QED BY <2>1, LeastNatural
    <2>3. d \in 0..N /\ ~\E g : Solves(g, d)
      OBVIOUS
    <2>4. CASE d = 0
      <3> DEFINE g == [p \in 1..(N + 1) |-> Failed]
      <3>1. ~ParseHeader(text, N + 1).ok
        <4>1. SUFFICES ASSUME ParseHeader(text, N + 1).ok PROVE FALSE
          OBVIOUS
        <4>2. N + 1 \in Nat \ {0}
          BY <1>1
        <4>3. /\ ParseHeader(text, N + 1).position \in Nat
              /\ (N + 1) + 3 <= ParseHeader(text, N + 1).position
              /\ ParseHeader(text, N + 1).position <= Len(text) + 1
          BY <4>1, <4>2, Further
        <4> QED BY <1>1, <4>3 DEF N
      <3>2. FromHere(text, g, N + 1) = Failed
        BY <3>1 DEF FromHere
      <3>3. \A p \in (N + 1 - 0)..(N + 1) : p = N + 1 /\ p \in 1..(N + 1)
        BY <1>1
      <3>4. Solves(g, 0)
        BY <3>2, <3>3
      <3> QED BY <2>3, <2>4, <3>4
    <2>5. CASE d # 0
      <3>1. d - 1 \in 0..N /\ d - 1 \notin Unsolved
        <4>1. d - 1 \in 0..N /\ ~(d <= d - 1)
          BY <1>1, <2>3, <2>5
        <4> HIDE DEF Unsolved
        <4> QED BY <2>2, <4>1
      <3>2. PICK g : Solves(g, d - 1)
        BY <3>1
      <3> DEFINE q == N + 1 - d
                 h == [p \in 1..(N + 1) |-> IF p = q THEN FromHere(text, g, q) ELSE g[p]]
      <3>3. q \in Nat \ {0} /\ q <= N /\ N + 1 - (d - 1) = q + 1
        BY <1>1, <2>3, <2>5
      <3>4. h[q] = FromHere(text, g, q) /\ \A i \in (q + 1)..(N + 1) : h[i] = g[i]
        BY <1>1, <3>3
      <3> HIDE DEF h
      <3>5. ASSUME NEW p \in q..(N + 1) PROVE h[p] = FromHere(text, h, p)
        <4>1. p \in Nat \ {0} /\ p <= N + 1 /\ q <= p
          BY <1>1, <3>3
        <4>2. \A i \in (p + 1)..(N + 1) : g[i] = h[i]
          BY SMTT(30), <3>3, <3>4, <4>1
        <4>3. FromHere(text, g, p) = FromHere(text, h, p)
          <5> HIDE DEF q
          <5> QED BY <1>2, <4>1, <4>2
        <4>4. CASE p = q
          BY <3>4, <4>3, <4>4
        <4>5. CASE p # q
          <5>1. p \in (q + 1)..(N + 1)
            BY <3>3, <4>1, <4>5, <1>1
          <5>2. g[p] = FromHere(text, g, p)
            BY <3>2, <3>3, <5>1
          <5> QED BY <3>4, <4>3, <5>1, <5>2
        <4> QED BY <4>4, <4>5
      <3>6. Solves(h, d)
        BY <3>5
      <3> QED BY <2>3, <3>6
    <2> QED BY <2>4, <2>5
  <1>4. PICK g : Solves(g, N)
    <2>1. N \in 0..N
      BY <1>1
    <2>2. N \notin Unsolved
      BY <1>3
    <2>3. \E g : Solves(g, N)
      <3> HIDE DEF Solves
      <3> QED BY <2>1, <2>2
    <2> QED BY <2>3
  <1> DEFINE f == [p \in 1..(N + 1) |-> g[p]]
  <1>5. ASSUME NEW p \in 1..(N + 1) PROVE f[p] = FromHere(text, f, p)
    <2>1. p \in Nat \ {0} /\ p <= N + 1 /\ p \in (N + 1 - N)..(N + 1)
      BY <1>1
    <2>2. \A i \in (p + 1)..(N + 1) : g[i] = f[i]
      BY <1>1, <2>1
    <2>3. FromHere(text, g, p) = FromHere(text, f, p)
      <3> HIDE DEF f
      <3> QED BY <1>2, <2>1, <2>2
    <2> QED BY <1>4, <2>1, <2>3
  <1>6. f = [p \in 1..(N + 1) |-> FromHere(text, f, p)]
    BY <1>5
  <1>7. \E e : e = [p \in 1..(N + 1) |-> FromHere(text, e, p)]
    <2> HIDE DEF f
    <2> QED BY <1>6
  <1>8. HeadersIn(text) = CHOOSE e : e = [p \in 1..(N + 1) |-> FromHere(text, e, p)]
    BY DEF HeadersIn, FromHere, N
  <1>9. HeadersIn(text) = [p \in 1..(N + 1) |-> FromHere(text, HeadersIn(text), p)]
    BY <1>7, <1>8
  <1> QED BY <1>9 DEF N

\* The same for one position.
LEMMA HeadersFrom ==
    ASSUME NEW text \in Text, NEW p \in Nat \ {0}, p <= Len(text) + 1
    PROVE  HeadersIn(text)[p] = FromHere(text, HeadersIn(text), p)
  <1>1. Len(text) \in Nat
    BY LenProperties
  <1>2. p \in 1..(Len(text) + 1)
    BY <1>1
  <1> QED BY <1>2, HeadersEquation

\* What the parser reads in the beginning of a text it reads in the text.
LEMMA HeaderInMore ==
    ASSUME NEW t, NEW text, Begins(t, text), NEW p \in Nat \ {0}, ParseHeader(t, p).ok
    PROVE  ParseHeader(text, p) = ParseHeader(t, p)
  <1>1. t \in Text /\ text \in Text /\ Len(t) \in Nat
    BY LenProperties DEF Begins
  <1>2. PICK colon \in Nat, v \in Nat, cr \in Nat : HeaderAt(t, p, colon, v, cr)
    BY <1>1, HeaderNotThere
  <1>3. p < colon /\ colon < v /\ v <= cr /\ cr < Len(t)
    BY <1>1, <1>2, HeaderOrder
  <1>4. SubSeq(t, p, colon - 1) = SubSeq(text, p, colon - 1)
    BY <1>1, <1>3, BetweenInMore
  <1>5. v \in Nat \ {0} /\ colon + 1 \in Nat \ {0} /\ cr \in Nat \ {0}
    BY <1>3
  <1>6. SubSeq(t, v, cr - 1) = SubSeq(text, v, cr - 1)
    BY <1>1, <1>3, <1>5, BetweenInMore
  <1>7. FirstIn(text, p, colon, {":"})
    BY <1>2, FirstInMore DEF HeaderAt
  <1>8. FirstIn(text, colon + 1, v, Symbols \ {"sp"}) /\ FirstIn(text, colon + 1, cr, {"cr"})
    BY <1>2, <1>5, FirstInMore DEF HeaderAt
  <1>9. StartsAt(text, cr, Crlf)
    BY <1>2, <1>5, EndOfLineInMore DEF HeaderAt
  <1>10. HeaderAt(text, p, colon, v, cr)
    BY <1>2, <1>4, <1>6, <1>7, <1>8, <1>9 DEF HeaderAt
  <1>11. HeaderRead(text, p, colon, v, cr) = HeaderRead(t, p, colon, v, cr)
    BY <1>4, <1>6 DEF HeaderRead
  <1> QED BY <1>1, <1>2, <1>10, <1>11, HeaderThere

\* So it does with the request line, and the headers begin in both at the same
\* place.
LEMMA LineInMore ==
    ASSUME NEW t, NEW text, Begins(t, text), ParseRequestLine(t).ok
    PROVE  /\ ParseRequestLine(text) = ParseRequestLine(t)
           /\ ParseRequestLine(t).position \in Nat \ {0}
           /\ ParseRequestLine(t).position <= Len(t) + 1
  <1>1. t \in Text /\ text \in Text /\ Len(t) \in Nat
    BY LenProperties DEF Begins
  <1>2. PICK first \in Nat, second \in Nat, cr \in Nat : LineAt(t, first, second, cr)
    BY <1>1, LineNotThere
  <1>3. 1 < first /\ first + 1 < second /\ second + 1 < cr /\ cr < Len(t)
    BY <1>1, <1>2, LineOrder
  <1>4. first + 1 \in Nat \ {0} /\ second + 1 \in Nat \ {0} /\ cr \in Nat \ {0}
    BY <1>3
  <1>5. SubSeq(t, 1, first - 1) = SubSeq(text, 1, first - 1)
    BY <1>1, <1>3, BetweenInMore
  <1>6. SubSeq(t, first + 1, second - 1) = SubSeq(text, first + 1, second - 1)
    BY <1>1, <1>3, <1>4, BetweenInMore
  <1>7. SubSeq(t, second + 1, cr - 1) = SubSeq(text, second + 1, cr - 1)
    BY <1>1, <1>3, <1>4, BetweenInMore
  <1>8. FirstIn(text, 1, first, {"sp"}) /\ FirstIn(text, first + 1, second, {"sp"})
        /\ FirstIn(text, second + 1, cr, {"cr"})
    BY <1>2, <1>4, FirstInMore DEF LineAt
  <1>9. StartsAt(text, cr, Crlf)
    BY <1>2, <1>4, EndOfLineInMore DEF LineAt
  <1>10. LineAt(text, first, second, cr)
    BY <1>2, <1>5, <1>6, <1>7, <1>8, <1>9 DEF LineAt
  <1>11. LineRead(text, first, second, cr) = LineRead(t, first, second, cr)
    BY <1>5, <1>6, <1>7 DEF LineRead
  <1>12. ParseRequestLine(t) = LineRead(t, first, second, cr)
         /\ ParseRequestLine(text) = LineRead(text, first, second, cr)
    BY <1>1, <1>2, <1>10, LineThere
  <1>13. ParseRequestLine(t).position = cr + 2
    BY <1>12 DEF LineRead
  <1> QED BY <1>1, <1>3, <1>11, <1>12, <1>13

\* And with all headers, from any position.
LEMMA HeadersInMore ==
    ASSUME NEW t, NEW text, Begins(t, text), NEW p \in Nat \ {0}, p <= Len(t) + 1,
           HeadersIn(t)[p].ok
    PROVE  HeadersIn(text)[p] = HeadersIn(t)[p]
  <1> DEFINE M == Len(t)
             Differs == {d \in 0..M : /\ HeadersIn(t)[M + 1 - d].ok
                                      /\ HeadersIn(text)[M + 1 - d] # HeadersIn(t)[M + 1 - d]}
  <1>1. t \in Text /\ text \in Text /\ M \in Nat /\ Len(text) \in Nat /\ M <= Len(text)
    BY LenProperties DEF Begins
  <1>2. Differs = {}
    <2> SUFFICES ASSUME Differs # {} PROVE FALSE
      OBVIOUS
    <2>1. Differs \in SUBSET Nat
      BY <1>1
    <2>2. PICK d \in Differs : \A e \in Differs : d <= e
      <3> HIDE DEF Differs
      <3> QED BY <2>1, LeastNatural
    <2> DEFINE q == M + 1 - d
               line == ParseHeader(t, q)
               next == line.position
    <2>3. d \in 0..M /\ HeadersIn(t)[q].ok /\ HeadersIn(text)[q] # HeadersIn(t)[q]
      OBVIOUS
    <2>4. q \in Nat \ {0} /\ q <= M + 1 /\ q <= Len(text) + 1
      BY <1>1, <2>3
    <2> HIDE DEF q
    <2>5. /\ HeadersIn(t)[q] = FromHere(t, HeadersIn(t), q)
          /\ HeadersIn(text)[q] = FromHere(text, HeadersIn(text), q)
      BY <1>1, <2>4, HeadersFrom
    <2>6. line.ok
      BY <2>3, <2>5 DEF FromHere, Failed
    <2>7. ParseHeader(text, q) = line
      BY <2>4, <2>6, HeaderInMore
    <2>8. next \in Nat \ {0} /\ q < next /\ next <= M + 1
      BY <1>1, <2>4, <2>6, Further
    <2> HIDE DEF next
    <2>9. CASE StartsAt(t, next, Crlf)
      <3>1. StartsAt(text, next, Crlf)
        BY <2>8, <2>9, EndOfLineInMore
      <3> QED BY <2>3, <2>5, <2>6, <2>7, <2>9, <3>1 DEF FromHere, next
    <2>10. CASE ~StartsAt(t, next, Crlf)
      <3>1. HeadersIn(t)[q] = MoreHeaders(line, HeadersIn(t)[next])
        BY <2>5, <2>6, <2>10 DEF FromHere, next
      <3>2. HeadersIn(t)[next].ok
        BY <2>3, <3>1 DEF MoreHeaders, Failed
      <3>3. HeadersIn(t)[next] = FromHere(t, HeadersIn(t), next)
        BY <1>1, <2>8, HeadersFrom
      <3>4. ParseHeader(t, next).ok
        BY <3>2, <3>3 DEF FromHere, Failed
      <3>5. next < M
        <4>1. /\ ParseHeader(t, next).position \in Nat
              /\ next + 3 <= ParseHeader(t, next).position
              /\ ParseHeader(t, next).position <= M + 1
          BY <1>1, <2>8, <3>4, Further
        <4> QED BY <1>1, <2>8, <4>1
      <3>6. ~StartsAt(text, next, Crlf)
        BY <2>8, <2>10, <3>5, EndOfLineInMore
      <3>7. HeadersIn(text)[q] = MoreHeaders(line, HeadersIn(text)[next])
        BY <2>5, <2>6, <2>7, <3>6 DEF FromHere, next
      <3>8. HeadersIn(text)[next] = HeadersIn(t)[next]
        <4>1. M + 1 - next \in 0..M /\ M + 1 - (M + 1 - next) = next
          BY <1>1, <2>8
        <4>2. M + 1 - next < d
          BY <1>1, <2>3, <2>8 DEF q
        <4>3. M + 1 - next \notin Differs
          <5> HIDE DEF Differs
          <5>1. ~(d <= M + 1 - next)
            BY <1>1, <2>3, <2>8, <4>2
          <5> QED BY <2>2, <5>1
        <4> QED BY <3>2, <4>1, <4>3
      <3> QED BY <2>3, <3>1, <3>7, <3>8
    <2> QED BY <2>9, <2>10
  <1>3. M + 1 - p \in 0..M /\ M + 1 - (M + 1 - p) = p
    BY <1>1
  <1>4. M + 1 - p \notin Differs
    BY <1>2
  <1> QED BY <1>3, <1>4
------------------------------------------------------------------------------
(***************************************************************************)
(* What headers that have been read look like.                             *)
(***************************************************************************)
GoodName(s) == s # <<>> /\ Fits(s) /\ \A i \in 1..Len(s) : s[i] # ":"

GoodValue(s) ==
    /\ Fits(s) /\ \A i \in 1..Len(s) : s[i] # "cr"
    /\ s # <<>> => s[1] # "sp"

Header == {h \in [name : Text, value : Text] : GoodName(h.name) /\ GoodValue(h.value)}

\* Only the first of them may have a name that begins with the end of a line.
GoodHeaders(hs) ==
    /\ hs \in Seq(Header) /\ hs # <<>>
    /\ \A i \in 2..Len(hs) : ~StartsAt(hs[i].name, 1, Crlf)

\* A name starts the way the text does where it stands.
LEMMA NameStarts ==
    ASSUME NEW text \in Text, NEW p \in Nat \ {0}, NEW colon, NEW v, NEW cr,
           HeaderAt(text, p, colon, v, cr)
    PROVE  StartsAt(SubSeq(text, p, colon - 1), 1, Crlf) => StartsAt(text, p, Crlf)
  <1> DEFINE name == SubSeq(text, p, colon - 1)
  <1>1. /\ colon \in Nat /\ p < colon /\ colon - 1 <= Len(text)
        /\ Len(text) \in Nat
    BY HeaderOrder, LenProperties
  <1>2. name \in Text /\ Len(name) = colon - p
        /\ \A i \in 1..(colon - p) : name[i] = text[p + i - 1]
    BY <1>1, Between
  <1> HIDE DEF name
  <1>3. ASSUME StartsAt(name, 1, Crlf) PROVE StartsAt(text, p, Crlf)
    <2>1. 1 + 1 <= Len(name) /\ name[1] = "cr" /\ name[1 + 1] = "lf"
      BY <1>2, <1>3, EndOfLine
    <2>2. 1 \in 1..(colon - p) /\ 2 \in 1..(colon - p) /\ p + 1 - 1 = p /\ p + 2 - 1 = p + 1
      BY <1>1, <1>2, <2>1
    <2>3. text[p] = "cr" /\ text[p + 1] = "lf" /\ p + 1 <= Len(text)
      BY <1>1, <1>2, <2>1, <2>2
    <2> QED BY <2>3, EndOfLine
  <1> QED BY <1>3 DEF name

\* A header that has been read has a name without a colon and a value of one
\* line.
LEMMA HeaderShape ==
    ASSUME NEW text \in Text, NEW p \in Nat \ {0}, ParseHeader(text, p).ok
    PROVE  /\ ParseHeader(text, p).header \in Header
           /\ StartsAt(ParseHeader(text, p).header.name, 1, Crlf) => StartsAt(text, p, Crlf)
  <1>1. PICK colon \in Nat, v \in Nat, cr \in Nat : HeaderAt(text, p, colon, v, cr)
    BY HeaderNotThere
  <1> DEFINE name == SubSeq(text, p, colon - 1)
             value == SubSeq(text, v, cr - 1)
  <1>2. ParseHeader(text, p).header = [name |-> name, value |-> value]
    <2>1. ParseHeader(text, p) = HeaderRead(text, p, colon, v, cr)
      BY <1>1, HeaderThere
    <2> QED BY <2>1 DEF HeaderRead
  <1>3. /\ p < colon /\ colon < v /\ v <= cr /\ cr < Len(text) /\ Len(text) \in Nat
        /\ \A j \in p..(colon - 1) : text[j] # ":"
        /\ \A j \in (colon + 1)..(cr - 1) : text[j] # "cr"
        /\ text[v] # "sp"
    BY <1>1, HeaderOrder, LenProperties
  <1>4. name \in Text /\ Len(name) = colon - p
        /\ \A i \in 1..(colon - p) : name[i] = text[p + i - 1]
    BY <1>3, Between
  <1>5. value \in Text /\ Len(value) = cr - v
        /\ \A i \in 1..(cr - v) : value[i] = text[v + i - 1]
    <2>1. v \in Nat \ {0}
      BY <1>3
    <2> QED BY <2>1, <1>3, Between
  <1>6. Fits(name) /\ Fits(value) /\ (StartsAt(name, 1, Crlf) => StartsAt(text, p, Crlf))
    BY <1>1, NameStarts DEF HeaderAt
  <1> HIDE DEF name, value
  <1>7. GoodName(name)
    <2>1. Len(name) # 0
      BY <1>3, <1>4
    <2>2. name # <<>>
      BY <2>1, EmptySeq
    <2>3. \A i \in 1..(colon - p) : p + i - 1 \in p..(colon - 1)
      OBVIOUS
    <2> QED BY <1>3, <1>4, <1>6, <2>2, <2>3 DEF GoodName
  <1>8. GoodValue(value)
    <2>1. \A i \in 1..(cr - v) : v + i - 1 \in (colon + 1)..(cr - 1)
      BY <1>3
    <2>2. \A i \in 1..Len(value) : value[i] # "cr"
      BY <1>3, <1>5, <2>1
    <2>3. value # <<>> => value[1] = text[v]
      <3>1. value # <<>> => Len(value) # 0
        BY <1>5, EmptySeq
      <3>2. Len(value) # 0 => 1 \in 1..(cr - v) /\ v + 1 - 1 = v
        BY <1>3, <1>5
      <3> QED BY <1>5, <3>1, <3>2
    <2> QED BY <1>3, <1>6, <2>2, <2>3 DEF GoodValue
  <1> QED BY <1>2, <1>4, <1>5, <1>6, <1>7, <1>8 DEF Header

\* One more header in front.
LEMMA OneMore ==
    ASSUME NEW h \in Header, NEW hs, GoodHeaders(hs), ~StartsAt(hs[1].name, 1, Crlf)
    PROVE  /\ GoodHeaders(<<h>> \o hs)
           /\ (<<h>> \o hs)[1] = h
           /\ Len(<<h>> \o hs) = Len(hs) + 1
           /\ \A i \in 1..Len(hs) : (<<h>> \o hs)[i + 1] = hs[i]
  <1>1. <<h>> \in Seq(Header) /\ Len(<<h>>) = 1 /\ <<h>>[1] = h
    OBVIOUS
  <1>2. hs \in Seq(Header) /\ Len(hs) \in Nat
    BY LenProperties DEF GoodHeaders
  <1> DEFINE all == <<h>> \o hs
  <1>3. all \in Seq(Header) /\ Len(all) = 1 + Len(hs)
        /\ \A i \in 1..(1 + Len(hs)) : all[i] = IF i <= 1 THEN <<h>>[i] ELSE hs[i - 1]
    BY <1>1, <1>2, ConcatProperties
  <1> HIDE DEF all
  <1>4. all[1] = h /\ Len(all) = Len(hs) + 1 /\ all # <<>>
    <2>1. 1 \in 1..(1 + Len(hs)) /\ Len(all) # 0
      BY <1>2, <1>3
    <2> QED BY <1>1, <1>2, <1>3, <2>1, EmptySeq
  <1>5. \A i \in 1..Len(hs) : all[i + 1] = hs[i]
    <2>1. \A i \in 1..Len(hs) : i + 1 \in 1..(1 + Len(hs)) /\ ~(i + 1 <= 1) /\ i + 1 - 1 = i
      BY <1>2
    <2> QED BY <1>3, <2>1
  <1>6. ASSUME NEW i \in 2..Len(all) PROVE ~StartsAt(all[i].name, 1, Crlf)
    <2>1. i - 1 \in 1..Len(hs) /\ (i - 1) + 1 = i
      BY <1>2, <1>4
    <2>2. all[i] = hs[i - 1]
      BY <1>5, <2>1
    <2>3. i - 1 = 1 \/ i - 1 \in 2..Len(hs)
      BY <2>1
    <2> QED BY <2>2, <2>3 DEF GoodHeaders
  <1>7. GoodHeaders(all)
    BY <1>3, <1>4, <1>6 DEF GoodHeaders
  <1> QED BY <1>4, <1>5, <1>7 DEF all

\* What EXCEPT makes of the result of parseHeaders.
LEMMA OtherHeaders ==
    ASSUME NEW r, NEW hs, NEW p, NEW new,
           r = [ok |-> TRUE, headers |-> hs, position |-> p]
    PROVE  [r EXCEPT !.headers = new] = [ok |-> TRUE, headers |-> new, position |-> p]
  <1> DEFINE changed == [r EXCEPT !.headers = new]
             wanted  == [ok |-> TRUE, headers |-> new, position |-> p]
             Fields  == {"ok", "headers", "position"}
  <1>1. DOMAIN r = Fields /\ r.ok = TRUE /\ r.position = p
    OBVIOUS
  <1>2. changed = [x \in Fields |-> changed[x]] /\ wanted = [x \in Fields |-> wanted[x]]
    BY <1>1
  <1>3. /\ changed.ok = wanted.ok /\ changed.headers = wanted.headers
        /\ changed.position = wanted.position
    BY <1>1
  <1> HIDE DEF changed, wanted
  <1>4. changed = wanted
    BY <1>2, <1>3
  <1> QED BY <1>4 DEF changed, wanted

\* What parseHeaders has read, and where the body begins.
LEMMA HeadersShape ==
    ASSUME NEW text \in Text, NEW p \in Nat \ {0}, p <= Len(text) + 1,
           HeadersIn(text)[p].ok
    PROVE  LET fields == HeadersIn(text)[p]
           IN /\ fields = [ok |-> TRUE, headers |-> fields.headers,
                           position |-> fields.position]
              /\ GoodHeaders(fields.headers)
              /\ StartsAt(fields.headers[1].name, 1, Crlf) => StartsAt(text, p, Crlf)
              /\ fields.position \in Nat \ {0} /\ fields.position <= Len(text) + 1
  <1> DEFINE N == Len(text)
             Good(q) ==
                LET fields == HeadersIn(text)[q]
                IN /\ fields = [ok |-> TRUE, headers |-> fields.headers,
                                position |-> fields.position]
                   /\ GoodHeaders(fields.headers)
                   /\ StartsAt(fields.headers[1].name, 1, Crlf) => StartsAt(text, q, Crlf)
                   /\ fields.position \in Nat \ {0} /\ fields.position <= Len(text) + 1
             Bad == {d \in 0..N : HeadersIn(text)[N + 1 - d].ok /\ ~Good(N + 1 - d)}
  <1>1. N \in Nat
    BY LenProperties
  <1>2. Bad = {}
    <2> SUFFICES ASSUME Bad # {} PROVE FALSE
      OBVIOUS
    <2>1. Bad \in SUBSET Nat
      BY <1>1
    <2>2. PICK d \in Bad : \A e \in Bad : d <= e
      <3> HIDE DEF Bad
      <3> QED BY <2>1, LeastNatural
    <2> DEFINE q == N + 1 - d
               line == ParseHeader(text, q)
               next == line.position
               rest == HeadersIn(text)[next]
    <2>3. d \in 0..N /\ HeadersIn(text)[q].ok /\ ~Good(q)
      <3> HIDE DEF Good
      <3> QED OBVIOUS
    <2>4. q \in Nat \ {0} /\ q <= N + 1
      BY <1>1, <2>3
    <2> HIDE DEF q
    <2>5. HeadersIn(text)[q] = FromHere(text, HeadersIn(text), q)
      BY <1>1, <2>4, HeadersFrom
    <2>6. line.ok
      BY <2>3, <2>5 DEF FromHere, Failed
    <2>7. next \in Nat \ {0} /\ q < next /\ next <= N + 1
      BY <1>1, <2>4, <2>6, Further
    <2>8. line.header \in Header /\ (StartsAt(line.header.name, 1, Crlf) => StartsAt(text, q, Crlf))
      BY <2>4, <2>6, HeaderShape
    <2> HIDE DEF next
    <2>9. CASE StartsAt(text, next, Crlf)
      <3>1. HeadersIn(text)[q] = [ok |-> TRUE, headers |-> <<line.header>>, position |-> next + 2]
        BY <2>5, <2>6, <2>9 DEF FromHere, LastHeader, next
      <3>2. next + 1 <= N
        BY <2>7, <2>9, EndOfLine
      <3>3. <<line.header>> \in Seq(Header) /\ Len(<<line.header>>) = 1
            /\ <<line.header>>[1] = line.header
        BY <2>8
      <3>4. GoodHeaders(<<line.header>>)
        <4>1. <<line.header>> # <<>>
          OBVIOUS
        <4>2. \A i \in 2..Len(<<line.header>>) : FALSE
          BY <3>3
        <4> QED BY <3>3, <4>1, <4>2 DEF GoodHeaders
      <3>5. /\ HeadersIn(text)[q].headers = <<line.header>>
            /\ HeadersIn(text)[q].position = next + 2
        BY <3>1
      <3>6. next + 2 \in Nat \ {0} /\ next + 2 <= N + 1
        BY <1>1, <2>7, <3>2
      <3>7. Good(q)
        BY <2>8, <3>1, <3>3, <3>4, <3>5, <3>6
      <3> HIDE DEF Good
      <3> QED BY <2>3, <3>7
    <2>10. CASE ~StartsAt(text, next, Crlf)
      <3>1. HeadersIn(text)[q] = MoreHeaders(line, rest)
        BY <2>5, <2>6, <2>10 DEF FromHere, next
      <3>2. rest.ok
        BY <2>3, <3>1 DEF MoreHeaders, Failed
      <3>3. Good(next)
        <4>1. N + 1 - next \in 0..N /\ N + 1 - (N + 1 - next) = next
          BY <1>1, <2>7
        <4>2. ~(d <= N + 1 - next)
          BY <1>1, <2>3, <2>7 DEF q
        <4>3. N + 1 - next \notin Bad
          <5> HIDE DEF Bad
          <5> QED BY <2>2, <4>2
        <4> HIDE DEF Good
        <4> QED BY <3>2, <4>1, <4>3
      <3>4. /\ rest = [ok |-> TRUE, headers |-> rest.headers, position |-> rest.position]
            /\ GoodHeaders(rest.headers)
            /\ ~StartsAt(rest.headers[1].name, 1, Crlf)
            /\ rest.position \in Nat \ {0} /\ rest.position <= N + 1
        BY <2>10, <3>3
      <3> HIDE DEF rest
      <3>5. HeadersIn(text)[q] = [rest EXCEPT !.headers = <<line.header>> \o rest.headers]
        BY <3>1, <3>2 DEF MoreHeaders
      <3>6. HeadersIn(text)[q] = [ok |-> TRUE, headers |-> <<line.header>> \o rest.headers,
                                 position |-> rest.position]
        <4> DEFINE all == <<line.header>> \o rest.headers
        <4>1. HeadersIn(text)[q] = [rest EXCEPT !.headers = all]
          BY <3>5
        <4> HIDE DEF all
        <4>2. [rest EXCEPT !.headers = all]
                = [ok |-> TRUE, headers |-> all, position |-> rest.position]
          BY <3>4, OtherHeaders
        <4> QED BY <4>1, <4>2 DEF all
      <3>7. GoodHeaders(<<line.header>> \o rest.headers)
            /\ (<<line.header>> \o rest.headers)[1] = line.header
        BY <2>8, <3>4, OneMore
      <3>8. /\ HeadersIn(text)[q].headers = <<line.header>> \o rest.headers
            /\ HeadersIn(text)[q].position = rest.position
        BY <3>6
      <3>9. Good(q)
        BY <2>8, <3>4, <3>6, <3>7, <3>8
      <3> HIDE DEF Good
      <3> QED BY <2>3, <3>9
    <2> QED BY <2>9, <2>10
  <1>3. N + 1 - p \in 0..N /\ N + 1 - (N + 1 - p) = p
    BY <1>1
  <1>4. N + 1 - p \notin Bad
    BY <1>2
  <1>5. Good(p)
    <2> HIDE DEF Good
    <2> QED BY <1>3, <1>4
  <1> QED BY <1>5
------------------------------------------------------------------------------
(***************************************************************************)
(* The whole request.                                                      *)
(***************************************************************************)
\* A body that is there is the same when more of the text has come.
LEMMA BodyInMore ==
    ASSUME NEW t, NEW text, Begins(t, text), NEW p \in Nat \ {0}, NEW size, NEW n,
           Body(t, p, size, n).ok
    PROVE  Body(text, p, size, n) = Body(t, p, size, n)
  <1>1. t \in Text /\ text \in Text /\ Len(t) \in Nat /\ Len(text) \in Nat
        /\ Len(t) <= Len(text)
    BY LenProperties DEF Begins
  <1>2. /\ p <= Len(t) /\ size.ok /\ n.digits
        /\ n.value \in (-MaxUnsigned)..MaxUnsigned
        /\ BodyLength(n.value) \in 0..(Len(t) - p + 1)
    BY DEF Body, Failed
  <1>3. PICK k \in 0..(Len(t) - p + 1) : k = BodyLength(n.value)
    BY <1>2
  <1>4. k \in Nat /\ p + k \in Nat /\ p <= p + k /\ (p + k) - 1 <= Len(t)
        /\ k \in 0..(Len(text) - p + 1) /\ p <= Len(text)
    BY <1>1, <1>2
  <1>5. SubSeq(t, p, (p + k) - 1) = SubSeq(text, p, (p + k) - 1)
    BY <1>4, BetweenInMore
  <1>6. Body(t, p, size, n) = [ok |-> TRUE, body |-> SubSeq(t, p, p + k - 1)]
    BY <1>2, <1>3 DEF Body
  <1>7. Body(text, p, size, n) = [ok |-> TRUE, body |-> SubSeq(text, p, p + k - 1)]
    BY <1>2, <1>3, <1>4 DEF Body
  <1>8. (p + k) - 1 = p + k - 1
    OBVIOUS
  <1>9. SubSeq(t, p, p + k - 1) = SubSeq(text, p, p + k - 1)
    BY <1>5, <1>8
  <1> QED BY <1>6, <1>7, <1>9

\* A request is never half understood: what the parser makes of a part of a text,
\* if it takes it, is what it makes of the whole text (http_parse_request).
THEOREM NeverHalfUnderstood ==
    ASSUME NEW t, NEW text, Begins(t, text), Parse(t).ok
    PROVE  Parse(text) = Parse(t)
  <1> DEFINE line == ParseRequestLine(t)
             fields == ParseHeaders(t, line.position)
  <1>1. t \in Text /\ text \in Text /\ Len(t) \in Nat
    BY LenProperties DEF Begins
  <1>2. line.ok
    BY DEF Parse, Failed
  <1>3. /\ ParseRequestLine(text) = line
        /\ line.position \in Nat \ {0} /\ line.position <= Len(t) + 1
    BY <1>2, LineInMore
  <1>4. Parse(t) = ParseAfterLine(t, line, fields)
    BY <1>2 DEF Parse
  <1>5. Parse(text) = ParseAfterLine(text, line, ParseHeaders(text, line.position))
    BY <1>2, <1>3 DEF Parse
  <1> HIDE DEF line
  <1>6. fields.ok
    BY <1>4 DEF ParseAfterLine, Failed
  <1>7. HeadersIn(t)[line.position].ok /\ fields = HeadersIn(t)[line.position]
    BY <1>6 DEF ParseHeaders, LimitHeaders, Failed
  <1>8. HeadersIn(text)[line.position] = HeadersIn(t)[line.position]
    BY <1>3, <1>7, HeadersInMore
  <1>9. ParseHeaders(text, line.position) = fields
    BY <1>8 DEF ParseHeaders
  <1>10. fields.position \in Nat \ {0}
    BY <1>1, <1>3, <1>7, HeadersShape
  <1> HIDE DEF fields
  <1>11. CASE line.method \notin WithBody
    BY <1>4, <1>5, <1>6, <1>9, <1>11 DEF ParseAfterLine
  <1>12. CASE line.method \in WithBody
    <2>1. Parse(t) = Request(line, fields, ParseBody(t, fields))
      BY <1>4, <1>6, <1>12 DEF ParseAfterLine
    <2>2. Parse(text) = Request(line, fields, ParseBody(text, fields))
      BY <1>5, <1>6, <1>9, <1>12 DEF ParseAfterLine
    <2>3. ParseBody(t, fields).ok
      BY <2>1 DEF Request, Failed
    <2>4. ParseBody(text, fields) = ParseBody(t, fields)
      BY <1>10, <2>3, BodyInMore DEF ParseBody
    <2> QED BY <2>1, <2>2, <2>4
  <1> QED BY <1>11, <1>12
------------------------------------------------------------------------------
(***************************************************************************)
(* What has been put together.                                             *)
(***************************************************************************)
\* text holds s after its first p symbols.
Holds(text, p, s) ==
    /\ s \in Text /\ p \in Nat
    /\ p + Len(s) <= Len(text)
    /\ \A i \in 1..Len(s) : text[p + i] = s[i]

\* A text holds itself from its start.
LEMMA HoldsItself == ASSUME NEW text \in Text PROVE Holds(text, 0, text)
  <1>1. Len(text) \in Nat
    BY LenProperties
  <1> QED BY <1>1 DEF Holds

\* A text that holds two parts holds each.
LEMMA HoldsParts ==
    ASSUME NEW text \in Text, NEW p, NEW s \in Text, NEW t \in Text, Holds(text, p, s \o t)
    PROVE  /\ Holds(text, p, s)
           /\ Holds(text, p + Len(s), t)
           /\ p + Len(s) + Len(t) = p + Len(s \o t)
  <1>1. Len(s) \in Nat /\ Len(t) \in Nat /\ Len(text) \in Nat /\ p \in Nat
    BY LenProperties DEF Holds
  <1>2. /\ s \o t \in Text
        /\ Len(s \o t) = Len(s) + Len(t)
        /\ \A i \in 1..(Len(s) + Len(t)) :
              (s \o t)[i] = IF i <= Len(s) THEN s[i] ELSE t[i - Len(s)]
    BY ConcatProperties
  <1> DEFINE all == s \o t
  <1> HIDE DEF all
  <1>3. /\ p + Len(all) <= Len(text) /\ \A i \in 1..Len(all) : text[p + i] = all[i]
        /\ Len(all) = Len(s) + Len(t)
        /\ \A i \in 1..(Len(s) + Len(t)) :
              all[i] = IF i <= Len(s) THEN s[i] ELSE t[i - Len(s)]
    BY <1>2 DEF Holds, all
  <1>4. ASSUME NEW i \in 1..Len(s) PROVE text[p + i] = s[i]
    <2>1. i \in 1..(Len(s) + Len(t)) /\ i <= Len(s)
      BY <1>1
    <2> QED BY <1>3, <2>1
  <1>5. ASSUME NEW i \in 1..Len(t) PROVE text[(p + Len(s)) + i] = t[i]
    <2>1. /\ Len(s) + i \in 1..(Len(s) + Len(t)) /\ ~(Len(s) + i <= Len(s))
          /\ (Len(s) + i) - Len(s) = i /\ p + (Len(s) + i) = (p + Len(s)) + i
      BY <1>1
    <2> QED BY <1>3, <2>1
  <1>6. p + Len(s) \in Nat /\ p + Len(s) <= Len(text) /\ (p + Len(s)) + Len(t) <= Len(text)
    BY <1>1, <1>3
  <1>7. p + Len(s) + Len(t) = p + Len(all)
    BY <1>1, <1>3
  <1> QED BY <1>1, <1>4, <1>5, <1>6, <1>7 DEF Holds, all

\* Two texts make one.
LEMMA Joined ==
    ASSUME NEW s \in Text, NEW t \in Text
    PROVE  s \o t \in Text /\ Len(s \o t) = Len(s) + Len(t)
  BY ConcatProperties

\* u is s with t after it, and where s ends.
Joins(u, s, t) == s \in Text /\ t \in Text /\ u = s \o t

After(p, s) == p + Len(s)

\* The same for the operator.
LEMMA JoinsType == \A u, s, t : Joins(u, s, t) => u \in Text /\ Len(u) = Len(s) + Len(t)
  BY Joined DEF Joins

\* Where the two parts of a text stand that another text holds.
LEMMA HoldsTwo ==
    ASSUME NEW text \in Text
    PROVE  \A p, u, s, t : Joins(u, s, t) /\ Holds(text, p, u) =>
              /\ Holds(text, p, s) /\ Holds(text, After(p, s), t)
              /\ After(After(p, s), t) = After(p, u)
  <1> SUFFICES ASSUME NEW p, NEW u, NEW s, NEW t, Joins(u, s, t), Holds(text, p, u)
               PROVE  /\ Holds(text, p, s) /\ Holds(text, After(p, s), t)
                      /\ After(After(p, s), t) = After(p, u)
    OBVIOUS
  <1>1. s \in Text /\ t \in Text /\ u = s \o t
    BY DEF Joins
  <1>2. Holds(text, p, s \o t)
    BY <1>1
  <1>3. /\ Holds(text, p, s)
        /\ Holds(text, p + Len(s), t)
        /\ p + Len(s) + Len(t) = p + Len(s \o t)
    BY <1>1, <1>2, HoldsParts
  <1> QED BY <1>1, <1>3 DEF After

\* s lies in text between p and q.
Placed(text, p, s, q) ==
    /\ s \in Text /\ p \in Nat /\ q \in Nat /\ p <= q /\ q <= Len(text)
    /\ q = p + Len(s) /\ Len(s) \in Nat /\ Len(text) \in Nat
    /\ SubSeq(text, p + 1, q) = s
    /\ \A j \in (p + 1)..q : text[j] = s[j - p] /\ j - p \in 1..Len(s)

\* What stands where a text is held.
LEMMA HoldsPart ==
    ASSUME NEW text \in Text, NEW p, NEW s, Holds(text, p, s)
    PROVE  Placed(text, p, s, After(p, s))
  <1>0. PICK q : q = After(p, s)
    OBVIOUS
  <1>1. s \in Text /\ p \in Nat /\ p + Len(s) <= Len(text)
        /\ \A i \in 1..Len(s) : text[p + i] = s[i]
    BY DEF Holds
  <1>2. Len(s) \in Nat /\ Len(text) \in Nat
    BY <1>1, LenProperties
  <1>3. q \in Nat /\ p <= q /\ q <= Len(text) /\ q = p + Len(s)
    BY <1>0, <1>1, <1>2 DEF After
  <1>4. ASSUME NEW j \in (p + 1)..q PROVE text[j] = s[j - p] /\ j - p \in 1..Len(s)
    <2>1. j - p \in 1..Len(s) /\ p + (j - p) = j
      BY <1>1, <1>2, <1>3
    <2> QED BY <1>1, <2>1
  <1>5. SubSeq(text, p + 1, q) = s
    <2>1. /\ p + 1 \in Nat \ {0} /\ q + 1 \in Nat /\ p + 1 <= q + 1
          /\ (q + 1) - 1 <= Len(text) /\ (q + 1) - 1 = q /\ (q + 1) - (p + 1) = Len(s)
      BY <1>1, <1>2, <1>3
    <2>2. /\ SubSeq(text, p + 1, (q + 1) - 1) \in Text
          /\ Len(SubSeq(text, p + 1, (q + 1) - 1)) = (q + 1) - (p + 1)
          /\ \A i \in 1..((q + 1) - (p + 1)) :
                SubSeq(text, p + 1, (q + 1) - 1)[i] = text[p + 1 + i - 1]
      BY <2>1, Between
    <2> DEFINE part == SubSeq(text, p + 1, q)
    <2> HIDE DEF part
    <2>3. /\ part \in Text /\ Len(part) = Len(s)
          /\ \A i \in 1..Len(s) : part[i] = text[p + 1 + i - 1]
      BY <2>1, <2>2 DEF part
    <2>4. \A i \in 1..Len(s) : p + 1 + i - 1 = p + i
      BY <1>1, <1>2
    <2>5. \A i \in 1..Len(part) : part[i] = s[i]
      BY <1>1, <2>3, <2>4
    <2>6. part = s
      BY <1>1, <2>3, <2>5, SeqEqual
    <2> QED BY <2>6 DEF part
  <1>6. Placed(text, p, s, q)
    BY <1>1, <1>2, <1>3, <1>4, <1>5 DEF Placed
  <1> QED BY <1>0, <1>6

\* FlattenSeq puts one part after the other.
LEMMA Flattened ==
    ASSUME NEW parts \in Seq(Text), NEW n \in Nat \ {0}, n = Len(parts)
    PROVE  \E F \in [1..n -> Text] :
              /\ F[1] = parts[1]
              /\ \A i \in 2..n : F[i] = F[i - 1] \o parts[i]
              /\ FlattenSeq(parts) = F[n]
  <1> DEFINE Step(g, i) == IF i = 1 THEN parts[i] ELSE g[i - 1] \o parts[i]
             Solves(g, d) == \A i \in 1..d : g[i] = Step(g, i)
             Unsolved == {d \in 0..n : ~\E g : Solves(g, d)}
  <1>1. Unsolved = {}
    <2> SUFFICES ASSUME Unsolved # {} PROVE FALSE
      OBVIOUS
    <2>1. Unsolved \in SUBSET Nat
      OBVIOUS
    <2>2. PICK d \in Unsolved : \A e \in Unsolved : d <= e
      <3> HIDE DEF Unsolved
      <3> QED BY <2>1, LeastNatural
    <2>3. d \in 0..n /\ ~\E g : Solves(g, d)
      <3> HIDE DEF Solves
      <3> QED OBVIOUS
    <2>4. d # 0
      <3>1. Solves(<<>>, 0)
        OBVIOUS
      <3> HIDE DEF Solves
      <3> QED BY <2>3, <3>1
    <2>5. d - 1 \in 0..n /\ ~(d <= d - 1) /\ d - 1 + 1 = d
      BY <2>3, <2>4
    <2>6. d - 1 \notin Unsolved
      <3> HIDE DEF Unsolved
      <3> QED BY <2>2, <2>5
    <2>7. PICK g : Solves(g, d - 1)
      <3> HIDE DEF Solves
      <3> QED BY <2>5, <2>6
    <2> DEFINE h == [i \in 1..n |-> IF i = d THEN Step(g, d) ELSE g[i]]
    <2>8. h[d] = Step(g, d) /\ \A i \in 1..(d - 1) : h[i] = g[i]
      <3>1. d \in 1..n /\ \A i \in 1..(d - 1) : i \in 1..n /\ i # d
        BY <2>3, <2>4
      <3> HIDE DEF Step
      <3> QED BY <3>1
    <2> HIDE DEF h
    <2>9. ASSUME NEW i \in 1..d PROVE h[i] = Step(h, i)
      <3>1. Step(h, i) = Step(g, i)
        <4>1. i # 1 => i - 1 \in 1..(d - 1)
          BY <2>3
        <4> QED BY <2>8, <4>1
      <3>2. CASE i = d
        <4> HIDE DEF Step
        <4> QED BY <2>8, <3>1, <3>2
      <3>3. CASE i # d
        <4>1. i \in 1..(d - 1)
          BY <2>3, <3>3
        <4>2. g[i] = Step(g, i)
          BY <2>7, <4>1
        <4> HIDE DEF Step
        <4> QED BY <2>8, <3>1, <4>1, <4>2
      <3> QED BY <3>2, <3>3
    <2>10. Solves(h, d)
      BY <2>9
    <2> HIDE DEF Solves
    <2> QED BY <2>3, <2>10
  <1>2. PICK g : Solves(g, n)
    <2>1. n \in 0..n
      OBVIOUS
    <2>2. n \notin Unsolved
      <3> HIDE DEF Unsolved
      <3> QED BY <1>1
    <2> HIDE DEF Solves
    <2> QED BY <2>1, <2>2
  <1> DEFINE f == [i \in 1..n |-> g[i]]
  <1>3. ASSUME NEW i \in 1..n PROVE f[i] = Step(f, i)
    <2>1. g[i] = Step(g, i) /\ (i # 1 => i - 1 \in 1..n)
      BY <1>2
    <2> QED BY <2>1
  <1>4. f = [i \in 1..n |-> Step(f, i)]
    BY <1>3
  <1>5. \E e : e = [i \in 1..n |-> Step(e, i)]
    <2> HIDE DEF f, Step
    <2> QED BY <1>4
  <1> DEFINE F == CHOOSE e : e = [i \in 1..n |-> Step(e, i)]
  <1>6. F = [i \in 1..n |-> Step(F, i)]
    <2> HIDE DEF Step
    <2> QED BY <1>5
  <1>7. FlattenSeq(parts) = F[n]
    BY DEF FlattenSeq
  <1> HIDE DEF F
  <1>8. /\ F[1] = parts[1]
        /\ \A i \in 2..n : F[i] = F[i - 1] \o parts[i]
    <2>1. \A i \in 1..n : F[i] = Step(F, i)
      <3> HIDE DEF Step
      <3> QED BY <1>6
    <2>2. 1 \in 1..n /\ \A i \in 2..n : i \in 1..n /\ i # 1
      OBVIOUS
    <2>3. F[1] = Step(F, 1) /\ \A i \in 2..n : F[i] = Step(F, i)
      <3> HIDE DEF Step
      <3> QED BY <2>1, <2>2
    <2> QED BY <2>2, <2>3
  <1>9. \A i \in 1..n : parts[i] \in Text
    BY ElementOfSeq
  <1> DEFINE Untyped == {i \in 1..n : F[i] \notin Text}
  <1>10. Untyped = {}
    <2> SUFFICES ASSUME Untyped # {} PROVE FALSE
      OBVIOUS
    <2>1. PICK d \in Untyped : \A e \in Untyped : d <= e
      <3>1. Untyped \in SUBSET Nat
        OBVIOUS
      <3> HIDE DEF Untyped
      <3> QED BY <3>1, LeastNatural
    <2>2. d \in 1..n /\ F[d] \notin Text
      OBVIOUS
    <2>3. d # 1
      BY <1>8, <1>9, <2>2
    <2>4. d - 1 \in 1..n /\ d \in 2..n /\ ~(d <= d - 1)
      BY <2>2, <2>3
    <2>5. d - 1 \notin Untyped
      <3> HIDE DEF Untyped
      <3> QED BY <2>1, <2>4
    <2>6. F[d - 1] \in Text
      BY <2>4, <2>5
    <2>7. F[d - 1] \o parts[d] \in Text
      BY <1>9, <2>2, <2>6, ConcatProperties
    <2> QED BY <1>8, <2>2, <2>4, <2>7
  <1>11. F \in [1..n -> Text]
    <2>1. \A i \in 1..n : F[i] \in Text
      BY <1>10
    <2> HIDE DEF Step
    <2> QED BY <1>6, <2>1
  <1> QED BY <1>7, <1>8, <1>11

\* One header as the serializer writes it, and one that can be read again.
Field(h, gap) == h.name \o <<":">> \o gap \o h.value \o Crlf

Clear(h) ==
    /\ h \in [name : Text, value : Text]
    /\ h.name # <<>> /\ \A i \in 1..Len(h.name) : h.name[i] # ":"
    /\ \A i \in 1..Len(h.value) : h.value[i] # "cr"
    /\ h.value # <<>> => h.value[1] # "sp"

Gap(s) == s \in Text /\ \A i \in 1..Len(s) : s[i] = "sp"

FieldFits(h) == Fits(h.name) /\ Fits(h.value)

\* A text of one symbol.
LEMMA OneSymbol ==
    ASSUME NEW x \in Symbols
    PROVE  <<x>> \in Text /\ Len(<<x>>) = 1 /\ <<x>>[1] = x
  OBVIOUS

\* The colon behind a name.
LEMMA Colon == <<":">> \in Text /\ Len(<<":">>) = 1 /\ <<":">>[1] = ":"
  <1>1. ":" \in Symbols
    BY DEF Symbols, Delimiters
  <1> QED BY <1>1, OneSymbol

\* Where the parts of a header are.
FieldPlaced(text, p, h, gap, n1, n3, n4) ==
    /\ n1 \in Nat /\ n3 \in Nat /\ n4 \in Nat
    /\ p \in Nat /\ p < n1 /\ n1 + 1 <= n3 /\ n3 <= n4
    /\ n4 + 2 = After(p, Field(h, gap)) /\ n4 + 2 <= Len(text)
    /\ SubSeq(text, p + 1, n1) = h.name
    /\ \A j \in (p + 1)..n1 : text[j] = h.name[j - p] /\ j - p \in 1..Len(h.name)
    /\ text[n1 + 1] = ":"
    /\ \A j \in (n1 + 2)..n3 : text[j] = "sp"
    /\ SubSeq(text, n3 + 1, n4) = h.value
    /\ \A j \in (n3 + 1)..n4 : text[j] = h.value[j - n3] /\ j - n3 \in 1..Len(h.value)
    /\ text[n4 + 1] = "cr" /\ text[n4 + 2] = "lf"

\* The parts of a header follow each other.
LEMMA FieldParts ==
    ASSUME NEW text \in Text, NEW p, NEW h, Clear(h), NEW gap, Gap(gap),
           Holds(text, p, Field(h, gap))
    PROVE  \E n1, n3, n4 \in Nat : FieldPlaced(text, p, h, gap, n1, n3, n4)
  <1> HIDE DEF Text
  <1>1. h.name \in Text /\ h.value \in Text /\ gap \in Text
    BY DEF Clear, Gap
  <1>2. PICK s2 : s2 = h.name \o <<":">>
    OBVIOUS
  <1>3. PICK s3 : s3 = s2 \o gap
    OBVIOUS
  <1>4. PICK s4 : s4 = s3 \o h.value
    OBVIOUS
  <1>5. PICK s5 : s5 = s4 \o Crlf
    OBVIOUS
  <1>6. s5 = Field(h, gap)
    BY <1>2, <1>3, <1>4, <1>5 DEF Field
  <1>7. Joins(s2, h.name, <<":">>)
    BY <1>1, <1>2, Colon DEF Joins
  <1>8. s2 \in Text
    BY <1>7, JoinsType
  <1>9. Joins(s3, s2, gap)
    BY <1>1, <1>3, <1>8 DEF Joins
  <1>10. s3 \in Text
    BY <1>9, JoinsType
  <1>11. Joins(s4, s3, h.value)
    BY <1>1, <1>4, <1>10 DEF Joins
  <1>12. s4 \in Text
    BY <1>11, JoinsType
  <1>13. Joins(s5, s4, Crlf)
    BY <1>5, <1>12, CrlfIs DEF Joins
  <1>14. Holds(text, p, s5)
    BY <1>6
  <1>15. PICK n1, n2, n3, n4 :
            /\ n1 = After(p, h.name) /\ n2 = After(n1, <<":">>)
            /\ n3 = After(n2, gap) /\ n4 = After(n3, h.value)
    OBVIOUS
  <1>16. /\ Holds(text, p, h.name) /\ Holds(text, n1, <<":">>) /\ Holds(text, n2, gap)
         /\ Holds(text, n3, h.value) /\ Holds(text, n4, Crlf)
         /\ After(n4, Crlf) = After(p, s5)
    <2>1. Holds(text, p, s4) /\ Holds(text, After(p, s4), Crlf)
          /\ After(After(p, s4), Crlf) = After(p, s5)
      BY <1>13, <1>14, HoldsTwo
    <2>2. Holds(text, p, s3) /\ Holds(text, After(p, s3), h.value)
          /\ After(After(p, s3), h.value) = After(p, s4)
      BY <1>11, <2>1, HoldsTwo
    <2>3. Holds(text, p, s2) /\ Holds(text, After(p, s2), gap)
          /\ After(After(p, s2), gap) = After(p, s3)
      BY <1>9, <2>2, HoldsTwo
    <2>4. Holds(text, p, h.name) /\ Holds(text, After(p, h.name), <<":">>)
          /\ After(After(p, h.name), <<":">>) = After(p, s2)
      BY <1>7, <2>3, HoldsTwo
    <2> QED BY <1>15, <2>1, <2>2, <2>3, <2>4
  <1>17. /\ p \in Nat /\ n1 \in Nat /\ p <= n1 /\ Len(h.name) \in Nat
         /\ SubSeq(text, p + 1, n1) = h.name
         /\ \A j \in (p + 1)..n1 : text[j] = h.name[j - p] /\ j - p \in 1..Len(h.name)
    <2>1. Placed(text, p, h.name, n1)
      BY <1>15, <1>16, HoldsPart
    <2> QED BY <2>1 DEF Placed
  <1>18. /\ n3 \in Nat /\ n2 \in Nat /\ n2 <= n3
         /\ \A j \in (n2 + 1)..n3 : text[j] = gap[j - n2] /\ j - n2 \in 1..Len(gap)
    <2>1. Placed(text, n2, gap, n3)
      BY <1>15, <1>16, HoldsPart
    <2> QED BY <2>1 DEF Placed
  <1>19. /\ n4 \in Nat /\ n3 <= n4
         /\ SubSeq(text, n3 + 1, n4) = h.value
         /\ \A j \in (n3 + 1)..n4 : text[j] = h.value[j - n3] /\ j - n3 \in 1..Len(h.value)
    <2>1. Placed(text, n3, h.value, n4)
      BY <1>15, <1>16, HoldsPart
    <2> QED BY <2>1 DEF Placed
  <1>20. n2 = n1 + 1
    BY <1>15, Colon DEF After
  <1>21. text[n1 + 1] = ":"
    <2>1. 1 \in 1..Len(<<":">>)
      BY Colon
    <2>2. text[n1 + 1] = <<":">>[1]
      BY <1>16, <2>1 DEF Holds
    <2> QED BY <2>2, Colon
  <1>22. n4 + 2 <= Len(text) /\ text[n4 + 1] = "cr" /\ text[n4 + 2] = "lf"
    <2>1. 1 \in 1..Len(Crlf) /\ 2 \in 1..Len(Crlf)
      BY CrlfIs
    <2>2. n4 + Len(Crlf) <= Len(text) /\ text[n4 + 1] = Crlf[1] /\ text[n4 + 2] = Crlf[2]
      BY <1>16, <2>1 DEF Holds
    <2> QED BY <2>2, CrlfIs
  <1>23. n4 + 2 = After(p, Field(h, gap))
    <2>1. After(n4, Crlf) = n4 + 2
      BY CrlfIs DEF After
    <2> QED BY <1>6, <1>16, <2>1
  <1>24. p < n1
    <2>1. h.name # <<>>
      BY DEF Clear
    <2>2. Len(h.name) # 0 /\ Len(h.name) \in Nat
      BY <1>1, <2>1, EmptySeq, LenProperties DEF Text
    <2>3. n1 = p + Len(h.name)
      BY <1>15 DEF After
    <2> QED BY <1>17, <2>2, <2>3
  <1>25. \A j \in (n1 + 2)..n3 : text[j] = "sp"
    <2>1. n2 + 1 = n1 + 2
      BY <1>17, <1>20
    <2> QED BY <1>18, <2>1 DEF Gap
  <1>26. n1 + 1 <= n3
    BY <1>18, <1>20
  <1>27. FieldPlaced(text, p, h, gap, n1, n3, n4)
    BY <1>17, <1>18, <1>19, <1>21, <1>22, <1>23, <1>24, <1>25, <1>26 DEF FieldPlaced
  <1> QED BY <1>17, <1>18, <1>19, <1>27

\* The parser reads a header that the serializer or a client wrote.
LEMMA FieldRead ==
    ASSUME NEW text \in Text, NEW p, NEW h, Clear(h), NEW gap, Gap(gap),
           Holds(text, p, Field(h, gap))
    PROVE  /\ ParseHeader(text, p + 1) =
                IF FieldFits(h)
                THEN [ok |-> TRUE, header |-> h, position |-> After(p, Field(h, gap)) + 1]
                ELSE Failed
           /\ StartsAt(text, p + 1, Crlf) => StartsAt(h.name, 1, Crlf)
  <1> HIDE DEF Text
  <1>1. PICK n1 \in Nat, n3 \in Nat, n4 \in Nat : FieldPlaced(text, p, h, gap, n1, n3, n4)
    BY FieldParts
  <1>2. /\ n1 \in Nat /\ n3 \in Nat /\ n4 \in Nat
        /\ p \in Nat /\ p < n1 /\ n1 + 1 <= n3 /\ n3 <= n4
        /\ n4 + 2 = After(p, Field(h, gap)) /\ n4 + 2 <= Len(text)
        /\ SubSeq(text, p + 1, n1) = h.name
        /\ \A j \in (p + 1)..n1 : text[j] = h.name[j - p] /\ j - p \in 1..Len(h.name)
        /\ text[n1 + 1] = ":"
        /\ \A j \in (n1 + 2)..n3 : text[j] = "sp"
        /\ SubSeq(text, n3 + 1, n4) = h.value
        /\ \A j \in (n3 + 1)..n4 : /\ text[j] = h.value[j - n3]
                                   /\ j - n3 \in 1..Len(h.value)
        /\ text[n4 + 1] = "cr" /\ text[n4 + 2] = "lf"
    BY <1>1 DEF FieldPlaced
  <1>3. Len(text) \in Nat /\ \A i \in 1..Len(text) : text[i] \in Symbols
    BY LenProperties, ElementOfSeq DEF Text
  <1>4. /\ h = [name |-> h.name, value |-> h.value]
        /\ h.name \in Text /\ h.value \in Text
        /\ h.name # <<>> /\ \A i \in 1..Len(h.name) : h.name[i] # ":"
        /\ \A i \in 1..Len(h.value) : h.value[i] # "cr"
        /\ h.value # <<>> => h.value[1] # "sp"
    BY DEF Clear
  <1>5. p + 1 \in Nat \ {0} /\ n1 + 1 \in Nat /\ n1 + 2 \in Nat \ {0}
        /\ (n1 + 1) + 1 = n1 + 2 /\ n4 + 1 \in Nat \ {0} /\ n3 + 1 \in Nat
        /\ (n1 + 1) - 1 = n1 /\ (n4 + 1) - 1 = n4 /\ (n3 + 1) - 1 = n3
        /\ (n4 + 1) + 1 = n4 + 2 /\ (p + 1) + 1 = p + 2
    BY <1>2
  <1>6. FirstIn(text, p + 1, n1 + 1, {":"})
    <2>1. n1 + 1 \in (p + 1)..Len(text)
      BY <1>2, <1>3
    <2>2. \A j \in (p + 1)..n1 : text[j] # ":"
      BY <1>2, <1>4
    <2> QED BY <1>2, <1>5, <2>1, <2>2 DEF FirstIn
  <1>7. FirstIn(text, n1 + 2, n4 + 1, {"cr"})
    <2>1. n4 + 1 \in (n1 + 2)..Len(text)
      BY <1>2, <1>3
    <2>2. ASSUME NEW j \in (n1 + 2)..n4 PROVE text[j] # "cr"
      <3>1. j \in (n1 + 2)..n3 \/ j \in (n3 + 1)..n4
        BY <1>2
      <3> QED BY <1>2, <1>4, <3>1
    <2> QED BY <1>2, <1>5, <2>1, <2>2 DEF FirstIn
  <1>8. FirstIn(text, n1 + 2, n3 + 1, Symbols \ {"sp"})
    <2>1. n3 + 1 \in (n1 + 2)..Len(text) /\ n3 + 1 \in 1..Len(text)
      BY <1>2, <1>3
    <2>2. text[n3 + 1] # "sp"
      <3>1. CASE n3 = n4
        BY <1>2, <3>1
      <3>2. CASE n3 # n4
        <4>1. n3 + 1 \in (n3 + 1)..n4 /\ n3 + 1 - n3 = 1
          BY <1>2, <3>2
        <4>2. text[n3 + 1] = h.value[1] /\ 1 \in 1..Len(h.value)
          BY <1>2, <4>1
        <4>3. h.value # <<>>
          BY <4>2
        <4> QED BY <1>4, <4>2, <4>3
      <3> QED BY <3>1, <3>2
    <2>3. text[n3 + 1] \in Symbols \ {"sp"}
      BY <1>3, <2>1, <2>2
    <2>4. \A j \in (n1 + 2)..((n3 + 1) - 1) : text[j] \notin Symbols \ {"sp"}
      BY <1>2, <1>5
    <2> QED BY <2>1, <2>3, <2>4 DEF FirstIn
  <1>9. Find(text, ":", p + 1) = n1 + 1
    BY <1>5, <1>6, FirstIsFind
  <1>10. Find(text, "cr", (n1 + 1) + 1) = n4 + 1
    <2>1. n4 + 1 \in Nat
      BY <1>5
    <2> QED BY <1>5, <1>7, <2>1, FirstIsFind
  <1>11. SkipSpaces(text, (n1 + 1) + 1) = n3 + 1
    BY <1>5, <1>8, FirstIsSkip
  <1>12. StartsAt(text, n4 + 1, Crlf)
    BY <1>2, <1>5, EndOfLine
  <1>13. ParseHeader(text, p + 1) = HeaderLine(text, p + 1, n1 + 1, n4 + 1)
    BY <1>9, <1>10 DEF ParseHeader
  <1>14. 0 \notin {n1 + 1, n4 + 1} /\ (n4 + 1) + 2 = After(p, Field(h, gap)) + 1
    <2>1. (n4 + 1) + 2 = (n4 + 2) + 1 /\ n1 + 1 # 0 /\ n4 + 1 # 0
      BY <1>2
    <2> QED BY <1>2, <2>1
  <1>15. SubSeq(text, p + 1, (n1 + 1) - 1) = h.name
         /\ SubSeq(text, SkipSpaces(text, (n1 + 1) + 1), (n4 + 1) - 1) = h.value
    BY <1>2, <1>5, <1>11
  <1>16. ParseHeader(text, p + 1) =
            IF FieldFits(h)
            THEN [ok |-> TRUE, header |-> h, position |-> After(p, Field(h, gap)) + 1]
            ELSE Failed
    BY <1>4, <1>12, <1>13, <1>14, <1>15 DEF HeaderLine, FieldFits
  <1>17. ASSUME StartsAt(text, p + 1, Crlf) PROVE StartsAt(h.name, 1, Crlf)
    <2>1. text[p + 1] = "cr" /\ text[p + 2] = "lf"
      BY <1>5, <1>17, EndOfLine
    <2>2. p + 1 # n1
      BY <1>2, <1>5, <2>1
    <2>3. p + 1 \in (p + 1)..n1 /\ p + 2 \in (p + 1)..n1 /\ p + 1 - p = 1 /\ p + 2 - p = 2
      BY <1>2, <2>2
    <2>4. h.name[1] = "cr" /\ h.name[2] = "lf" /\ 2 \in 1..Len(h.name)
      <3>1. text[p + 1] = h.name[1]
        BY <1>2, <2>3
      <3>2. text[p + 2] = h.name[2] /\ 2 \in 1..Len(h.name)
        BY <1>2, <2>3
      <3> QED BY <2>1, <3>1, <3>2
    <2>5. 1 + 1 <= Len(h.name) /\ h.name[1 + 1] = "lf"
      BY <2>4
    <2> QED BY <1>4, <2>4, <2>5, EndOfLine
  <1> QED BY <1>16, <1>17

\* Where the parts of a text that has been flattened begin.
Steps(text, parts, n, p, q, P) ==
    /\ P[1] = p /\ P[n + 1] = q
    /\ \A i \in 1..n : Holds(text, P[i], parts[i]) /\ P[i + 1] = After(P[i], parts[i])

\* Each part of a flattened text stands where the one before it ends.
LEMMA PartsPlaced ==
    ASSUME NEW text \in Text, NEW p, NEW parts \in Seq(Text),
           NEW n \in Nat \ {0}, n = Len(parts), Holds(text, p, FlattenSeq(parts))
    PROVE  \E P : Steps(text, parts, n, p, After(p, FlattenSeq(parts)), P)
  <1>1. PICK F \in [1..n -> Text] :
           /\ F[1] = parts[1]
           /\ \A i \in 2..n : F[i] = F[i - 1] \o parts[i]
           /\ FlattenSeq(parts) = F[n]
    BY Flattened
  <1>2. \A i \in 1..n : parts[i] \in Text
    BY ElementOfSeq
  <1> HIDE DEF Text
  <1>3. ASSUME NEW i \in 2..n PROVE Joins(F[i], F[i - 1], parts[i])
    <2>1. i - 1 \in 1..n /\ i \in 1..n
      OBVIOUS
    <2> QED BY <1>1, <1>2, <2>1 DEF Joins
  <1> DEFINE Lost == {d \in 0..(n - 1) : ~Holds(text, p, F[n - d])}
  <1>4. Lost = {}
    <2> SUFFICES ASSUME Lost # {} PROVE FALSE
      OBVIOUS
    <2>1. Lost \in SUBSET Nat
      OBVIOUS
    <2>2. PICK d \in Lost : \A e \in Lost : d <= e
      <3> HIDE DEF Lost
      <3> QED BY <2>1, LeastNatural
    <2>3. d \in 0..(n - 1) /\ ~Holds(text, p, F[n - d])
      OBVIOUS
    <2>4. d # 0
      BY <1>1, <2>3
    <2>5. d - 1 \in 0..(n - 1) /\ ~(d <= d - 1) /\ n - (d - 1) = (n - d) + 1
          /\ (n - d) + 1 \in 2..n /\ ((n - d) + 1) - 1 = n - d
      BY <2>3, <2>4
    <2>6. d - 1 \notin Lost
      <3> HIDE DEF Lost
      <3> QED BY <2>2, <2>5
    <2>7. Holds(text, p, F[(n - d) + 1])
      BY <2>5, <2>6
    <2>8. Joins(F[(n - d) + 1], F[n - d], parts[(n - d) + 1])
      BY <1>3, <2>5
    <2>9. Holds(text, p, F[n - d])
      <3>1. PICK u, s, t : u = F[(n - d) + 1] /\ s = F[n - d] /\ t = parts[(n - d) + 1]
        OBVIOUS
      <3>2. Joins(u, s, t) /\ Holds(text, p, u)
        BY <2>7, <2>8, <3>1
      <3>3. Holds(text, p, s)
        BY <3>2, HoldsTwo
      <3> QED BY <3>1, <3>3
    <2> QED BY <2>3, <2>9
  <1>5. ASSUME NEW i \in 1..n PROVE Holds(text, p, F[i])
    <2>1. n - i \in 0..(n - 1) /\ n - (n - i) = i
      OBVIOUS
    <2>2. n - i \notin Lost
      BY <1>4
    <2> QED BY <2>1, <2>2
  <1> HIDE DEF Lost
  <1> DEFINE P == [i \in 1..(n + 1) |-> IF i = 1 THEN p ELSE After(p, F[i - 1])]
             q == After(p, FlattenSeq(parts))
  <1>6. P[1] = p /\ \A i \in 1..n : P[i + 1] = After(p, F[i])
    <2>1. 1 \in 1..(n + 1) /\ \A i \in 1..n : i + 1 \in 1..(n + 1) /\ i + 1 # 1 /\ (i + 1) - 1 = i
      OBVIOUS
    <2> QED BY <2>1
  <1>7. P[n + 1] = q
    BY <1>1, <1>6
  <1> HIDE DEF P, q
  <1>8. ASSUME NEW i \in 1..n
        PROVE  Holds(text, P[i], parts[i]) /\ P[i + 1] = After(P[i], parts[i])
    <2>1. CASE i = 1
      <3>1. Holds(text, p, F[1]) /\ P[1 + 1] = After(p, F[1])
        BY <1>5, <1>6
      <3> QED BY <1>1, <1>6, <2>1, <3>1
    <2>2. CASE i # 1
      <3>1. i \in 2..n /\ i - 1 \in 1..n /\ (i - 1) + 1 = i
        BY <2>2
      <3>2. Joins(F[i], F[i - 1], parts[i]) /\ Holds(text, p, F[i])
        BY <1>3, <1>5, <3>1
      <3>3. /\ Holds(text, After(p, F[i - 1]), parts[i])
            /\ After(After(p, F[i - 1]), parts[i]) = After(p, F[i])
        BY <3>2, HoldsTwo
      <3>4. P[i] = After(p, F[i - 1]) /\ P[i + 1] = After(p, F[i])
        BY <1>6, <3>1
      <3> QED BY <3>3, <3>4
    <2> QED BY <2>1, <2>2
  <1>9. Steps(text, parts, n, p, q, P)
    BY <1>6, <1>7, <1>8 DEF Steps
  <1> QED BY <1>9 DEF q

\* Headers that can be told apart when they are read again.
ClearHeaders(hs) ==
    /\ hs \in Seq([name : Text, value : Text]) /\ hs # <<>>
    /\ \A i \in 1..Len(hs) : Clear(hs[i])
    /\ \A i \in 2..Len(hs) : ~StartsAt(hs[i].name, 1, Crlf)

Fields(hs, gap) == [i \in DOMAIN hs |-> Field(hs[i], gap)]

\* The headers of a message, each as a text.
LEMMA FieldsType ==
    ASSUME NEW hs, ClearHeaders(hs), NEW gap, Gap(gap)
    PROVE  /\ Fields(hs, gap) \in Seq(Text) /\ Len(Fields(hs, gap)) = Len(hs)
           /\ Len(hs) \in Nat \ {0}
           /\ \A i \in 1..Len(hs) : Fields(hs, gap)[i] = Field(hs[i], gap)
  <1>1. Len(hs) \in Nat \ {0} /\ DOMAIN hs = 1..Len(hs)
    BY EmptySeq, LenProperties DEF ClearHeaders
  <1>2. \A i \in 1..Len(hs) : Field(hs[i], gap) \in Text
    <2>1. ASSUME NEW i \in 1..Len(hs) PROVE Field(hs[i], gap) \in Text
      <3> HIDE DEF Text
      <3>1. hs[i].name \in Text /\ hs[i].value \in Text /\ gap \in Text
        BY DEF ClearHeaders, Clear, Gap
      <3>2. hs[i].name \o <<":">> \in Text
        BY <3>1, Colon, Joined
      <3>3. hs[i].name \o <<":">> \o gap \in Text
        BY <3>1, <3>2, Joined
      <3>4. hs[i].name \o <<":">> \o gap \o hs[i].value \in Text
        BY <3>1, <3>3, Joined
      <3>5. hs[i].name \o <<":">> \o gap \o hs[i].value \o Crlf \in Text
        BY <3>4, CrlfIs, Joined
      <3> QED BY <3>5 DEF Field
    <2> QED BY <2>1
  <1>3. Fields(hs, gap) \in [1..Len(hs) -> Text]
        /\ \A i \in 1..Len(hs) : Fields(hs, gap)[i] = Field(hs[i], gap)
    <2> HIDE DEF Text
    <2> QED BY <1>1, <1>2 DEF Fields
  <1> HIDE DEF Text
  <1> QED BY <1>1, <1>3

\* From the last number down to the first.
LEMMA Downward ==
    ASSUME NEW n \in Nat \ {0}, NEW S, n \in S,
           \A i \in 1..(n - 1) : i + 1 \in S => i \in S
    PROVE  \A i \in 1..n : i \in S
  <1> DEFINE Lost == {d \in 0..(n - 1) : n - d \notin S}
  <1>1. Lost = {}
    <2> SUFFICES ASSUME Lost # {} PROVE FALSE
      OBVIOUS
    <2>1. Lost \in SUBSET Nat
      OBVIOUS
    <2>2. PICK d \in Lost : \A e \in Lost : d <= e
      <3> HIDE DEF Lost
      <3> QED BY <2>1, LeastNatural
    <2>3. d \in 0..(n - 1) /\ n - d \notin S /\ d # 0
      OBVIOUS
    <2>4. d - 1 \in 0..(n - 1) /\ ~(d <= d - 1)
          /\ n - (d - 1) = (n - d) + 1 /\ n - d \in 1..(n - 1)
      BY <2>3
    <2>5. d - 1 \notin Lost
      <3> HIDE DEF Lost
      <3> QED BY <2>2, <2>4
    <2>6. (n - d) + 1 \in S
      BY <2>4, <2>5
    <2> QED BY <2>3, <2>4, <2>6
  <1> SUFFICES ASSUME NEW i \in 1..n PROVE i \in S
    OBVIOUS
  <1>2. n - i \in 0..(n - 1) /\ n - (n - i) = i
    OBVIOUS
  <1>3. n - i \notin Lost
    BY <1>1
  <1> QED BY <1>2, <1>3

\* The last element of a sequence.
LEMMA LastOnly ==
    ASSUME NEW T, NEW s \in Seq(T), NEW n \in 1..Len(s)
    PROVE  SubSeq(s, n, n) = <<s[n]>>
  <1>1. n \in Int /\ n + 1 \in Int /\ n < n + 1
    OBVIOUS
  <1>2. SubSeq(s, n, n) = <<s[n]>> \o SubSeq(s, n + 1, n)
    BY SubSeqRecursiveFirst
  <1>3. SubSeq(s, n + 1, n) = <<>>
    BY <1>1, SubSeqEmpty
  <1>4. s[n] \in T
    BY ElementOfSeq
  <1>5. <<s[n]>> \o <<>> = <<s[n]>>
    BY <1>4
  <1> QED BY <1>2, <1>3, <1>5

\* The headers from the i-th on are read at position p.
ReadFrom(text, hs, i, p, q) ==
    HeadersIn(text)[p + 1] =
        IF \A j \in i..Len(hs) : FieldFits(hs[j])
        THEN [ok |-> TRUE, headers |-> SubSeq(hs, i, Len(hs)), position |-> q + 3]
        ELSE Failed

\* parseHeaders reads the headers that were written, if they fit its buffers.
LEMMA HeadersRead ==
    ASSUME NEW text \in Text, NEW p, NEW hs, ClearHeaders(hs), NEW gap, Gap(gap),
           Holds(text, p, FlattenSeq(Fields(hs, gap))),
           NEW q, q = After(p, FlattenSeq(Fields(hs, gap))), Holds(text, q, Crlf)
    PROVE  ReadFrom(text, hs, 1, p, q)
  <1> DEFINE parts == Fields(hs, gap)
             n == Len(hs)
  <1>1. /\ parts \in Seq(Text) /\ Len(parts) = n /\ n \in Nat \ {0}
        /\ \A i \in 1..n : parts[i] = Field(hs[i], gap)
    BY FieldsType
  <1> HIDE DEF Text
  <1>2. PICK P : Steps(text, parts, n, p, q, P)
    <2>1. Holds(text, p, FlattenSeq(parts)) /\ q = After(p, FlattenSeq(parts))
      OBVIOUS
    <2> HIDE DEF parts, n
    <2> QED BY <1>1, <2>1, PartsPlaced
  <1> HIDE DEF parts
  <1>3. /\ P[1] = p /\ P[n + 1] = q
        /\ \A i \in 1..n : /\ Holds(text, P[i], Field(hs[i], gap))
                           /\ P[i + 1] = After(P[i], Field(hs[i], gap))
    BY <1>1, <1>2 DEF Steps
  <1>4. \A i \in 1..n : P[i] \in Nat /\ P[i + 1] \in Nat /\ P[i] <= Len(text)
                        /\ P[i + 1] <= Len(text)
    <2> USE DEF Text
    <2> SUFFICES ASSUME NEW i \in 1..n
                 PROVE  P[i] \in Nat /\ P[i + 1] \in Nat /\ P[i] <= Len(text)
                        /\ P[i + 1] <= Len(text)
      OBVIOUS
    <2>1. PICK f : f = Field(hs[i], gap)
      OBVIOUS
    <2>2. Holds(text, P[i], f) /\ P[i + 1] = After(P[i], f)
      BY <1>3, <2>1
    <2>3. Placed(text, P[i], f, P[i + 1])
      BY <2>2, HoldsPart
    <2> QED BY <2>3 DEF Placed
  <1>5. ASSUME NEW i \in 1..n
        PROVE  /\ ParseHeader(text, P[i] + 1) =
                    IF FieldFits(hs[i])
                    THEN [ok |-> TRUE, header |-> hs[i], position |-> P[i + 1] + 1]
                    ELSE Failed
               /\ StartsAt(text, P[i] + 1, Crlf) => StartsAt(hs[i].name, 1, Crlf)
    <2>1. Clear(hs[i]) /\ Holds(text, P[i], Field(hs[i], gap))
      BY <1>3 DEF ClearHeaders
    <2>2. P[i + 1] = After(P[i], Field(hs[i], gap))
      BY <1>3
    <2> QED BY <2>1, <2>2, FieldRead
  <1>6. ASSUME NEW i \in 1..n
        PROVE  HeadersIn(text)[P[i] + 1] = FromHere(text, HeadersIn(text), P[i] + 1)
    <2>1. P[i] + 1 \in Nat \ {0} /\ P[i] + 1 <= Len(text) + 1
      <3> USE DEF Text
      <3> QED BY <1>4
    <2> QED BY <2>1, HeadersFrom
  <1> DEFINE S == {i \in 1..n : ReadFrom(text, hs, i, P[i], q)}
  <1>7. ASSUME NEW i \in 1..n, ~FieldFits(hs[i]) PROVE i \in S
    <2>1. HeadersIn(text)[P[i] + 1] = Failed
      <3>1. ParseHeader(text, P[i] + 1) = Failed
        BY <1>5, <1>7
      <3> QED BY <1>6, <3>1 DEF FromHere, Failed
    <2>2. i \in i..n
      BY <1>1
    <2>3. ReadFrom(text, hs, i, P[i], q)
      BY <1>7, <2>1, <2>2 DEF ReadFrom
    <2> QED BY <2>3
  <1>8. n \in S
    <2> SUFFICES ASSUME FieldFits(hs[n]) PROVE n \in S
      BY <1>1, <1>7
    <2>1. ParseHeader(text, P[n] + 1) = [ok |-> TRUE, header |-> hs[n], position |-> q + 1]
      BY <1>1, <1>3, <1>5
    <2>2. StartsAt(text, q + 1, Crlf)
      <3> USE DEF Text
      <3>1. q \in Nat /\ q + 2 <= Len(text) /\ text[q + 1] = "cr" /\ text[q + 2] = "lf"
        BY CrlfIs DEF Holds
      <3> QED BY <3>1, EndOfLine
    <2>3. q \in Nat
      BY <1>1, <1>3, <1>4
    <2>4. HeadersIn(text)[P[n] + 1] = [ok |-> TRUE, headers |-> <<hs[n]>>, position |-> q + 3]
      BY <1>1, <1>6, <2>1, <2>2, <2>3 DEF FromHere, LastHeader
    <2>5. SubSeq(hs, n, n) = <<hs[n]>> /\ \A j \in n..n : j = n
      <3>1. hs \in Seq([name : Text, value : Text])
        BY DEF ClearHeaders
      <3>2. SubSeq(hs, n, n) = <<hs[n]>>
        <4>1. PICK m : m = Len(hs)
          OBVIOUS
        <4>2. m \in 1..Len(hs)
          BY <1>1, <4>1
        <4>3. SubSeq(hs, m, m) = <<hs[m]>>
          BY <3>1, <4>2, LastOnly
        <4> QED BY <4>1, <4>3
      <3> QED BY <1>1, <3>2
    <2>6. ReadFrom(text, hs, n, P[n], q)
      BY <2>4, <2>5 DEF ReadFrom
    <2> QED BY <1>1, <2>6
  <1>9. ASSUME NEW i \in 1..(n - 1), i + 1 \in S PROVE i \in S
    <2>0. i \in 1..n /\ i + 1 \in 2..n /\ i + 1 \in 1..n
      BY <1>1
    <2> SUFFICES ASSUME FieldFits(hs[i]) PROVE i \in S
      BY <1>7, <2>0
    <2>1. ParseHeader(text, P[i] + 1) = [ok |-> TRUE, header |-> hs[i], position |-> P[i + 1] + 1]
      BY <1>5, <2>0
    <2>2. ~StartsAt(text, P[i + 1] + 1, Crlf)
      BY <1>5, <2>0 DEF ClearHeaders
    <2>3. PICK line : line = [ok |-> TRUE, header |-> hs[i], position |-> P[i + 1] + 1]
      OBVIOUS
    <2>4. HeadersIn(text)[P[i] + 1] = MoreHeaders(line, HeadersIn(text)[P[i + 1] + 1])
      BY <1>6, <2>0, <2>1, <2>2, <2>3 DEF FromHere
    <2>5. ReadFrom(text, hs, i + 1, P[i + 1], q)
      BY <1>9
    <2>6. CASE \A j \in (i + 1)..n : FieldFits(hs[j])
      <3>1. PICK rest : rest = [ok |-> TRUE, headers |-> SubSeq(hs, i + 1, n),
                                position |-> q + 3]
        OBVIOUS
      <3>2. HeadersIn(text)[P[i + 1] + 1] = rest
        BY <2>5, <2>6, <3>1 DEF ReadFrom
      <3>3. MoreHeaders(line, rest) =
               [ok |-> TRUE, headers |-> <<hs[i]>> \o SubSeq(hs, i + 1, n), position |-> q + 3]
        <4>1. MoreHeaders(line, rest) = [rest EXCEPT !.headers = <<hs[i]>> \o @]
          BY <2>3, <3>1 DEF MoreHeaders
        <4>2. PICK new : new = <<hs[i]>> \o SubSeq(hs, i + 1, n)
          OBVIOUS
        <4>3. [rest EXCEPT !.headers = <<hs[i]>> \o @] = [rest EXCEPT !.headers = new]
          BY <3>1, <4>2
        <4> QED BY <3>1, <4>1, <4>2, <4>3, OtherHeaders
      <3>4. <<hs[i]>> \o SubSeq(hs, i + 1, n) = SubSeq(hs, i, n)
        BY <1>1, <2>0, SubSeqRecursiveFirst DEF ClearHeaders
      <3>5. \A j \in i..n : FieldFits(hs[j])
        <4>1. \A j \in i..n : j = i \/ j \in (i + 1)..n
          BY <2>0
        <4> QED BY <2>6, <4>1
      <3>6. ReadFrom(text, hs, i, P[i], q)
        BY <2>4, <3>2, <3>3, <3>4, <3>5 DEF ReadFrom
      <3> QED BY <2>0, <3>6
    <2>7. CASE ~(\A j \in (i + 1)..n : FieldFits(hs[j]))
      <3>1. HeadersIn(text)[P[i + 1] + 1] = Failed
        BY <2>5, <2>7 DEF ReadFrom
      <3>2. HeadersIn(text)[P[i] + 1] = Failed
        BY <2>4, <3>1 DEF MoreHeaders, Failed
      <3>3. ~(\A j \in i..n : FieldFits(hs[j]))
        BY <2>7, <2>0
      <3>4. ReadFrom(text, hs, i, P[i], q)
        BY <3>2, <3>3 DEF ReadFrom
      <3> QED BY <2>0, <3>4
    <2> QED BY <2>6, <2>7
  <1>10. \A i \in 1..n : i \in S
    <2> HIDE DEF S, n
    <2> QED BY <1>1, <1>8, <1>9, Downward
  <1> QED BY <1>1, <1>3, <1>10
------------------------------------------------------------------------------
(***************************************************************************)
(* A request that has been written is read again.                          *)
(***************************************************************************)
\* Where the parts of a request are.
ComposePlaced(text, method, uri, version, fields, body, a, b, c, d) ==
    /\ Placed(text, 0, method, a) /\ Holds(text, a, <<"sp">>)
    /\ Placed(text, a + 1, uri, b) /\ Holds(text, b, <<"sp">>)
    /\ Placed(text, b + 1, version, c) /\ Holds(text, c, Crlf)
    /\ Holds(text, c + 2, fields) /\ d = After(c + 2, fields)
    /\ Holds(text, d, Crlf)
    /\ Placed(text, d + 2, body, Len(text))

Composed(method, uri, version, fields, body) ==
    method \o <<"sp">> \o uri \o <<"sp">> \o version \o Crlf \o fields \o Crlf \o body

\* The space between the parts of the request line.
LEMMA Space == <<"sp">> \in Text /\ Len(<<"sp">>) = 1 /\ <<"sp">>[1] = "sp"
  BY OneSymbol DEF Symbols, Delimiters

\* The parts of a request follow each other.
LEMMA ComposeParts ==
    ASSUME NEW method \in Text, NEW uri \in Text, NEW version \in Text, NEW fields \in Text,
           NEW body \in Text, NEW text, text = Composed(method, uri, version, fields, body)
    PROVE  /\ text \in Text
           /\ \E a, b, c, d \in Nat :
                 ComposePlaced(text, method, uri, version, fields, body, a, b, c, d)
  <1> HIDE DEF Text
  <1>1. PICK u1 : u1 = method \o <<"sp">>
    OBVIOUS
  <1>2. PICK u2 : u2 = u1 \o uri
    OBVIOUS
  <1>3. PICK u3 : u3 = u2 \o <<"sp">>
    OBVIOUS
  <1>4. PICK u4 : u4 = u3 \o version
    OBVIOUS
  <1>5. PICK u5 : u5 = u4 \o Crlf
    OBVIOUS
  <1>6. PICK u6 : u6 = u5 \o fields
    OBVIOUS
  <1>7. PICK u7 : u7 = u6 \o Crlf
    OBVIOUS
  <1>8. text = u7 \o body
    BY <1>1, <1>2, <1>3, <1>4, <1>5, <1>6, <1>7 DEF Composed
  <1>11. Joins(u1, method, <<"sp">>)
    BY <1>1, Space DEF Joins
  <1>12. Joins(u2, u1, uri)
    BY <1>2, <1>11, JoinsType DEF Joins
  <1>13. Joins(u3, u2, <<"sp">>)
    BY <1>3, <1>12, JoinsType, Space DEF Joins
  <1>14. Joins(u4, u3, version)
    BY <1>4, <1>13, JoinsType DEF Joins
  <1>15. Joins(u5, u4, Crlf)
    BY <1>5, <1>14, JoinsType, CrlfIs DEF Joins
  <1>16. Joins(u6, u5, fields)
    BY <1>6, <1>15, JoinsType DEF Joins
  <1>17. Joins(u7, u6, Crlf)
    BY <1>7, <1>16, JoinsType, CrlfIs DEF Joins
  <1>18. Joins(text, u7, body)
    BY <1>8, <1>17, JoinsType DEF Joins
  <1>19. text \in Text
    BY <1>18, JoinsType
  <1>20. Holds(text, 0, text)
    BY <1>19, HoldsItself
  <1>21. PICK a, a1, b, b1, c, c1, d, d1 :
            /\ a = After(0, method) /\ a1 = After(a, <<"sp">>)
            /\ b = After(a1, uri) /\ b1 = After(b, <<"sp">>)
            /\ c = After(b1, version) /\ c1 = After(c, Crlf)
            /\ d = After(c1, fields) /\ d1 = After(d, Crlf)
    OBVIOUS
  <1>22. /\ Holds(text, 0, method) /\ Holds(text, a, <<"sp">>)
         /\ Holds(text, a1, uri) /\ Holds(text, b, <<"sp">>)
         /\ Holds(text, b1, version) /\ Holds(text, c, Crlf)
         /\ Holds(text, c1, fields) /\ Holds(text, d, Crlf)
         /\ Holds(text, d1, body) /\ After(d1, body) = After(0, text)
    <2>1. Holds(text, 0, u7) /\ Holds(text, After(0, u7), body)
          /\ After(After(0, u7), body) = After(0, text)
      BY <1>18, <1>19, <1>20, HoldsTwo
    <2>2. Holds(text, 0, u6) /\ Holds(text, After(0, u6), Crlf)
          /\ After(After(0, u6), Crlf) = After(0, u7)
      BY <1>17, <1>19, <2>1, HoldsTwo
    <2>3. Holds(text, 0, u5) /\ Holds(text, After(0, u5), fields)
          /\ After(After(0, u5), fields) = After(0, u6)
      BY <1>16, <1>19, <2>2, HoldsTwo
    <2>4. Holds(text, 0, u4) /\ Holds(text, After(0, u4), Crlf)
          /\ After(After(0, u4), Crlf) = After(0, u5)
      BY <1>15, <1>19, <2>3, HoldsTwo
    <2>5. Holds(text, 0, u3) /\ Holds(text, After(0, u3), version)
          /\ After(After(0, u3), version) = After(0, u4)
      BY <1>14, <1>19, <2>4, HoldsTwo
    <2>6. Holds(text, 0, u2) /\ Holds(text, After(0, u2), <<"sp">>)
          /\ After(After(0, u2), <<"sp">>) = After(0, u3)
      BY <1>13, <1>19, <2>5, HoldsTwo
    <2>7. Holds(text, 0, u1) /\ Holds(text, After(0, u1), uri)
          /\ After(After(0, u1), uri) = After(0, u2)
      BY <1>12, <1>19, <2>6, HoldsTwo
    <2>8. Holds(text, 0, method) /\ Holds(text, After(0, method), <<"sp">>)
          /\ After(After(0, method), <<"sp">>) = After(0, u1)
      BY <1>11, <1>19, <2>7, HoldsTwo
    <2>9. a = After(0, method) /\ a1 = After(0, u1) /\ b = After(0, u2) /\ b1 = After(0, u3)
      BY <1>21, <2>6, <2>7, <2>8
    <2>10. c = After(0, u4) /\ c1 = After(0, u5) /\ d = After(0, u6) /\ d1 = After(0, u7)
      BY <1>21, <2>2, <2>3, <2>4, <2>5, <2>9
    <2> QED BY <2>1, <2>2, <2>3, <2>4, <2>5, <2>6, <2>7, <2>8, <2>9, <2>10
  <1>23. a1 = a + 1 /\ b1 = b + 1 /\ c1 = c + 2 /\ d1 = d + 2
    BY <1>21, Space, CrlfIs DEF After
  <1>24. /\ Placed(text, 0, method, a) /\ Placed(text, a + 1, uri, b)
         /\ Placed(text, b + 1, version, c)
    BY <1>19, <1>21, <1>22, <1>23, HoldsPart
  <1>25. Placed(text, d + 2, body, Len(text))
    <2>1. After(0, text) = Len(text)
      BY <1>19, LenProperties DEF After, Text
    <2>2. Placed(text, d1, body, After(d1, body))
      BY <1>19, <1>22, HoldsPart
    <2> QED BY <1>22, <1>23, <2>1, <2>2
  <1>26. a \in Nat /\ b \in Nat /\ c \in Nat /\ d \in Nat
    <2>1. a \in Nat /\ b \in Nat /\ c \in Nat
      BY <1>24 DEF Placed
    <2> QED BY <1>22, <2>1 DEF Holds
  <1>27. ComposePlaced(text, method, uri, version, fields, body, a, b, c, d)
    BY <1>21, <1>22, <1>23, <1>24, <1>25 DEF ComposePlaced
  <1> QED BY <1>19, <1>26, <1>27

\* A request line that can be told apart.
ClearLine(method, uri, version) ==
    /\ method \in Text /\ method # <<>> /\ \A i \in 1..Len(method) : method[i] # "sp"
    /\ uri \in Text /\ uri # <<>> /\ \A i \in 1..Len(uri) : uri[i] # "sp"
    /\ version \in Text /\ version # <<>> /\ \A i \in 1..Len(version) : version[i] # "cr"

\* parseRequestLine reads the line that was written, if it fits its buffers.
LEMMA RequestLineRead ==
    ASSUME NEW text \in Text, NEW method, NEW uri, NEW version, NEW fields, NEW body,
           ClearLine(method, uri, version),
           NEW a \in Nat, NEW b \in Nat, NEW c \in Nat, NEW d \in Nat,
           ComposePlaced(text, method, uri, version, fields, body, a, b, c, d)
    PROVE  ParseRequestLine(text) =
             IF Fits(method) /\ Fits(uri) /\ Fits(version)
             THEN [ok |-> TRUE, method |-> GetHTTPMethod(method), uri |-> uri,
                   version |-> GetHTTPVersion(version), position |-> c + 3]
             ELSE Failed
  <1> HIDE DEF Text
  <1>1. /\ Len(text) \in Nat /\ c + 2 <= Len(text)
        /\ 0 < a /\ a + 1 < b /\ b + 1 < c
    <2>1. Len(method) \in Nat \ {0} /\ Len(uri) \in Nat \ {0} /\ Len(version) \in Nat \ {0}
      BY EmptySeq, LenProperties DEF ClearLine, Text
    <2>2. a = 0 + Len(method) /\ b = (a + 1) + Len(uri) /\ c = (b + 1) + Len(version)
      BY DEF ComposePlaced, Placed
    <2>3. Len(text) \in Nat /\ c + 2 <= Len(text)
      <3>1. Len(text) \in Nat
        BY DEF ComposePlaced, Placed
      <3>2. c + Len(Crlf) <= Len(text)
        BY DEF ComposePlaced, Holds
      <3> QED BY <3>1, <3>2, CrlfIs
    <2> QED BY <2>1, <2>2, <2>3
  <1>2. text[a + 1] = "sp" /\ text[b + 1] = "sp"
    <2>1. 1 \in 1..Len(<<"sp">>)
      BY Space
    <2>2. text[a + 1] = <<"sp">>[1] /\ text[b + 1] = <<"sp">>[1]
      BY <2>1 DEF ComposePlaced, Holds
    <2> QED BY <2>2, Space
  <1>3. text[c + 1] = "cr" /\ text[c + 2] = "lf"
    <2>1. 1 \in 1..Len(Crlf) /\ 2 \in 1..Len(Crlf)
      BY CrlfIs
    <2>2. text[c + 1] = Crlf[1] /\ text[c + 2] = Crlf[2]
      BY <2>1 DEF ComposePlaced, Holds
    <2> QED BY <2>2, CrlfIs
  <1>4. /\ SubSeq(text, 1, a) = method
        /\ \A j \in 1..a : text[j] # "sp"
    <2>1. SubSeq(text, 0 + 1, a) = method
          /\ \A j \in (0 + 1)..a : text[j] = method[j - 0] /\ j - 0 \in 1..Len(method)
      BY DEF ComposePlaced, Placed
    <2> QED BY <2>1 DEF ClearLine
  <1>5. /\ SubSeq(text, (a + 1) + 1, b) = uri
        /\ \A j \in ((a + 1) + 1)..b : text[j] # "sp"
    <2>1. \A j \in ((a + 1) + 1)..b : text[j] = uri[j - (a + 1)] /\ j - (a + 1) \in 1..Len(uri)
      BY DEF ComposePlaced, Placed
    <2>2. \A j \in ((a + 1) + 1)..b : text[j] # "sp"
      BY <2>1 DEF ClearLine
    <2>3. SubSeq(text, (a + 1) + 1, b) = uri
      BY DEF ComposePlaced, Placed
    <2> QED BY <2>2, <2>3
  <1>6. /\ SubSeq(text, (b + 1) + 1, c) = version
        /\ \A j \in ((b + 1) + 1)..c : text[j] # "cr"
    <2>1. \A j \in ((b + 1) + 1)..c : /\ text[j] = version[j - (b + 1)]
                                      /\ j - (b + 1) \in 1..Len(version)
      BY DEF ComposePlaced, Placed
    <2>2. \A j \in ((b + 1) + 1)..c : text[j] # "cr"
      BY <2>1 DEF ClearLine
    <2>3. SubSeq(text, (b + 1) + 1, c) = version
      BY DEF ComposePlaced, Placed
    <2> QED BY <2>2, <2>3
  <1>7. /\ (a + 1) - 1 = a /\ (b + 1) - 1 = b /\ (c + 1) - 1 = c
        /\ a + 1 \in Nat \ {0} /\ b + 1 \in Nat \ {0} /\ c + 1 \in Nat \ {0}
        /\ (a + 1) + 1 \in Nat \ {0} /\ (b + 1) + 1 \in Nat \ {0}
        /\ a + 1 \in Nat /\ b + 1 \in Nat /\ c + 1 \in Nat
        /\ (c + 1) + 1 = c + 2 /\ (c + 1) + 2 = c + 3
        /\ a + 1 \in 1..Len(text) /\ b + 1 \in ((a + 1) + 1)..Len(text)
        /\ c + 1 \in ((b + 1) + 1)..Len(text)
    BY <1>1
  <1>8. Find(text, "sp", 1) = a + 1
    <2>1. FirstIn(text, 1, a + 1, {"sp"})
      BY <1>2, <1>4, <1>7 DEF FirstIn
    <2>2. 1 \in Nat \ {0}
      OBVIOUS
    <2> QED BY <1>7, <2>1, <2>2, FirstIsFind
  <1>9. Find(text, "sp", (a + 1) + 1) = b + 1
    <2>1. FirstIn(text, (a + 1) + 1, b + 1, {"sp"})
      BY <1>2, <1>5, <1>7 DEF FirstIn
    <2> QED BY <1>7, <2>1, FirstIsFind
  <1>10. Find(text, "cr", (b + 1) + 1) = c + 1
    <2>1. FirstIn(text, (b + 1) + 1, c + 1, {"cr"})
      BY <1>3, <1>6, <1>7 DEF FirstIn
    <2> QED BY <1>7, <2>1, FirstIsFind
  <1>11. StartsAt(text, c + 1, Crlf)
    BY <1>1, <1>3, <1>7, EndOfLine
  <1>12. ParseRequestLine(text) = RequestLine(text, a + 1, b + 1, c + 1)
    BY <1>8, <1>9, <1>10 DEF ParseRequestLine
  <1>13. 0 \notin {a + 1, b + 1, c + 1}
    BY <1>7
  <1>14. method # <<>> /\ uri # <<>> /\ version # <<>>
    BY DEF ClearLine
  <1>15. SubSeq(text, 1, (a + 1) - 1) = method /\ SubSeq(text, (a + 1) + 1, (b + 1) - 1) = uri
         /\ SubSeq(text, (b + 1) + 1, (c + 1) - 1) = version
    BY <1>4, <1>5, <1>6, <1>7
  <1> QED BY <1>7, <1>11, <1>12, <1>13, <1>14, <1>15 DEF RequestLine

\* parseBody reads the body that stands at the end of a text as it would alone.
LEMMA BodyRead ==
    ASSUME NEW text \in Text, NEW p, NEW body, Placed(text, p, body, Len(text)),
           NEW size, NEW n
    PROVE  Body(text, p + 1, size, n) = Body(body, 1, size, n)
  <1>1. /\ body \in Text /\ p \in Nat /\ p <= Len(text) /\ Len(text) = p + Len(body)
        /\ Len(body) \in Nat /\ Len(text) \in Nat
        /\ \A j \in (p + 1)..Len(text) : text[j] = body[j - p] /\ j - p \in 1..Len(body)
    BY DEF Placed
  <1>2. /\ p + 1 <= Len(text) <=> 1 <= Len(body)
        /\ Len(text) - (p + 1) + 1 = Len(body) /\ Len(body) - 1 + 1 = Len(body)
    BY <1>1
  <1>3. ASSUME NEW v \in 0..Len(body)
        PROVE  SubSeq(text, p + 1, (p + 1) + v - 1) = SubSeq(body, 1, 1 + v - 1)
    <2>1. /\ p + 1 \in Nat \ {0} /\ (p + 1) + v \in Nat /\ p + 1 <= (p + 1) + v
          /\ (p + 1) + v - 1 <= Len(text) /\ (p + 1) + v - (p + 1) = v
          /\ 1 \in Nat \ {0} /\ 1 + v \in Nat /\ 1 <= 1 + v /\ 1 + v - 1 <= Len(body)
          /\ 1 + v - 1 = v
      BY <1>1
    <2>2. PICK s, t : s = SubSeq(text, p + 1, (p + 1) + v - 1) /\ t = SubSeq(body, 1, 1 + v - 1)
      OBVIOUS
    <2>3. s \in Text /\ Len(s) = v /\ \A i \in 1..v : s[i] = text[(p + 1) + i - 1]
      <3>1. PICK m \in Nat \ {0} : m = p + 1
        BY <2>1
      <3>2. m + v \in Nat /\ m <= m + v /\ m + v - 1 <= Len(text) /\ (m + v) - m = v
        BY <2>1, <3>1
      <3>3. s = SubSeq(text, m, m + v - 1)
        BY <2>2, <3>1
      <3>4. PICK q \in Nat : q = m + v
        BY <3>2
      <3>5. s \in Text /\ Len(s) = q - m /\ \A i \in 1..(q - m) : s[i] = text[m + i - 1]
        <4>1. m <= q /\ q - 1 <= Len(text) /\ s = SubSeq(text, m, q - 1)
          BY <3>2, <3>3, <3>4
        <4> HIDE DEF Text
        <4> QED BY <4>1, Between
      <3> QED BY <3>1, <3>2, <3>4, <3>5
    <2>4. t \in Text /\ Len(t) = v /\ \A i \in 1..v : t[i] = body[1 + i - 1]
      BY <1>1, <2>1, <2>2, Between
    <2>5. ASSUME NEW i \in 1..v PROVE s[i] = t[i]
      <3>1. (p + 1) + i - 1 \in (p + 1)..Len(text) /\ ((p + 1) + i - 1) - p = i
            /\ 1 + i - 1 = i
        BY <1>1
      <3>2. text[(p + 1) + i - 1] = body[((p + 1) + i - 1) - p]
        BY <1>1, <3>1
      <3> QED BY <2>3, <2>4, <3>1, <3>2
    <2>6. s = t
      <3>1. Len(s) = Len(t) /\ \A i \in 1..Len(s) : s[i] = t[i]
        BY <2>3, <2>4, <2>5
      <3> QED BY <2>3, <2>4, <3>1, SeqEqual
    <2> QED BY <2>2, <2>6
  <1> QED BY <1>2, <1>3 DEF Body

\* What the parser makes of what has been composed of these parts.
ReadBack(method, uri, version, hs, body) ==
    LET all == /\ Fits(method) /\ Fits(uri) /\ Fits(version)
               /\ \A i \in 1..Len(hs) : FieldFits(hs[i])
               /\ Len(hs) <= MaxHeaders
        line == [method |-> GetHTTPMethod(method), uri |-> uri,
                 version |-> GetHTTPVersion(version)]
        content == IF line.method \in WithBody
                   THEN ParseBody(body, [headers |-> hs, position |-> 1])
                   ELSE [ok |-> TRUE, body |-> <<>>]
    IN IF all THEN Request(line, [headers |-> hs], content) ELSE Failed

\* All headers of a message as one text.
LEMMA FieldsText ==
    ASSUME NEW hs, ClearHeaders(hs), NEW gap, Gap(gap)
    PROVE  FlattenSeq(Fields(hs, gap)) \in Text
  <1> HIDE DEF Text
  <1>1. PICK parts : parts = Fields(hs, gap)
    OBVIOUS
  <1>2. PICK n : n = Len(parts)
    OBVIOUS
  <1>3. parts \in Seq(Text) /\ n \in Nat \ {0}
    BY <1>1, <1>2, FieldsType
  <1>4. PICK F \in [1..n -> Text] : FlattenSeq(parts) = F[n]
    BY <1>2, <1>3, Flattened
  <1> QED BY <1>1, <1>3, <1>4

\* The parser and the serializer agree: a request that was written with headers
\* is read as it was meant if all of it fits, and else it is rejected
\* (http_request_to_raw, http_parse_request).
THEOREM ParseOfCompose ==
    ASSUME NEW method, NEW uri, NEW version, ClearLine(method, uri, version),
           NEW hs, ClearHeaders(hs), NEW gap, Gap(gap), NEW body \in Text
    PROVE  /\ Compose(method, uri, version, hs, gap, body) \in Text
           /\ Parse(Compose(method, uri, version, hs, gap, body)) =
                 ReadBack(method, uri, version, hs, body)
  <1> HIDE DEF Text
  <1>1. PICK fields : fields = FlattenSeq(Fields(hs, gap))
    OBVIOUS
  <1>2. fields \in Text
    BY <1>1, FieldsText
  <1>3. PICK text : text = Compose(method, uri, version, hs, gap, body)
    OBVIOUS
  <1>4. text = Composed(method, uri, version, fields, body)
    BY <1>1, <1>3 DEF Compose, Composed, Fields, Field
  <1>5. text \in Text
    BY <1>2, <1>4, ComposeParts DEF ClearLine
  <1>6. PICK a \in Nat, b \in Nat, c \in Nat, d \in Nat :
           ComposePlaced(text, method, uri, version, fields, body, a, b, c, d)
    BY <1>2, <1>4, ComposeParts DEF ClearLine
  <1>7. ParseRequestLine(text) =
           IF Fits(method) /\ Fits(uri) /\ Fits(version)
           THEN [ok |-> TRUE, method |-> GetHTTPMethod(method), uri |-> uri,
                 version |-> GetHTTPVersion(version), position |-> c + 3]
           ELSE Failed
    BY <1>5, <1>6, RequestLineRead
  <1>8. HeadersIn(text)[c + 3] =
           IF \A i \in 1..Len(hs) : FieldFits(hs[i])
           THEN [ok |-> TRUE, headers |-> hs, position |-> d + 3]
           ELSE Failed
    <2>1. PICK p : p = c + 2
      OBVIOUS
    <2>2. Holds(text, p, fields) /\ d = After(p, fields) /\ Holds(text, d, Crlf)
      BY <1>6, <2>1 DEF ComposePlaced
    <2>3. ReadFrom(text, hs, 1, p, d)
      <3>1. Holds(text, p, FlattenSeq(Fields(hs, gap)))
            /\ d = After(p, FlattenSeq(Fields(hs, gap)))
        BY <1>1, <2>2
      <3> QED BY <1>5, <2>2, <3>1, HeadersRead
    <2>4. p + 1 = c + 3
      BY <2>1
    <2>5. SubSeq(hs, 1, Len(hs)) = hs
      <3>1. hs \in Seq([name : Text, value : Text])
        BY DEF ClearHeaders
      <3> QED BY <3>1, SubSeqFull
    <2> QED BY <2>3, <2>4, <2>5 DEF ReadFrom
  <1>9. \A size, n : Body(text, d + 3, size, n) = Body(body, 1, size, n)
    <2>1. PICK p : p = d + 2
      OBVIOUS
    <2>2. Placed(text, p, body, Len(text))
      BY <1>6, <2>1 DEF ComposePlaced
    <2>3. \A size, n : Body(text, p + 1, size, n) = Body(body, 1, size, n)
      BY <1>5, <2>2, BodyRead
    <2>4. p + 1 = d + 3
      BY <2>1
    <2> QED BY <2>3, <2>4
  <1>10. Parse(text) = ReadBack(method, uri, version, hs, body)
    <2>1. CASE ~(Fits(method) /\ Fits(uri) /\ Fits(version))
      BY <1>7, <2>1 DEF Parse, ReadBack, Failed
    <2>2. CASE Fits(method) /\ Fits(uri) /\ Fits(version)
      <3>1. PICK line : line = [ok |-> TRUE, method |-> GetHTTPMethod(method), uri |-> uri,
                                version |-> GetHTTPVersion(version), position |-> c + 3]
        OBVIOUS
      <3>2. Parse(text) = ParseAfterLine(text, line, ParseHeaders(text, c + 3))
        BY <1>7, <2>2, <3>1 DEF Parse
      <3>3. CASE ~(\A i \in 1..Len(hs) : FieldFits(hs[i]))
        <4>1. ParseHeaders(text, c + 3) = Failed
          BY <1>8, <3>3 DEF ParseHeaders, LimitHeaders, Failed
        <4> QED BY <3>2, <3>3, <4>1 DEF ParseAfterLine, ReadBack, Failed
      <3>4. CASE \A i \in 1..Len(hs) : FieldFits(hs[i])
        <4>1. PICK found : found = [ok |-> TRUE, headers |-> hs, position |-> d + 3]
          OBVIOUS
        <4>2. ParseHeaders(text, c + 3) = IF Len(hs) > MaxHeaders THEN Failed ELSE found
          BY <1>8, <3>4, <4>1 DEF ParseHeaders, LimitHeaders
        <4>3. Len(hs) > MaxHeaders <=> ~(Len(hs) <= MaxHeaders)
          <5>1. Len(hs) \in Nat
            BY FieldsType
          <5> QED BY <5>1, ParserAssumption
        <4>4. CASE Len(hs) > MaxHeaders
          BY <3>2, <4>2, <4>3, <4>4 DEF ParseAfterLine, ReadBack, Failed
        <4>5. CASE ~(Len(hs) > MaxHeaders)
          <5>1. Parse(text) =
                   Request(line, found, IF line.method \in WithBody THEN ParseBody(text, found)
                                        ELSE [ok |-> TRUE, body |-> <<>>])
            BY <3>2, <4>1, <4>2, <4>5 DEF ParseAfterLine
          <5>2. ParseBody(text, found) = ParseBody(body, [headers |-> hs, position |-> 1])
            BY <1>9, <4>1 DEF ParseBody
          <5>3. PICK content : content = IF line.method \in WithBody
                                         THEN ParseBody(body, [headers |-> hs, position |-> 1])
                                         ELSE [ok |-> TRUE, body |-> <<>>]
            OBVIOUS
          <5>4. Parse(text) = Request(line, found, content)
            BY <5>1, <5>2, <5>3
          <5>5. ReadBack(method, uri, version, hs, body) =
                   Request([method |-> GetHTTPMethod(method), uri |-> uri,
                            version |-> GetHTTPVersion(version)], [headers |-> hs], content)
            BY <2>2, <3>1, <3>4, <4>3, <4>5, <5>3 DEF ReadBack
          <5>6. Request(line, found, content) =
                   Request([method |-> GetHTTPMethod(method), uri |-> uri,
                            version |-> GetHTTPVersion(version)], [headers |-> hs], content)
            BY <3>1, <4>1 DEF Request
          <5> QED BY <5>4, <5>5, <5>6
        <4> QED BY <4>4, <4>5
      <3> QED BY <3>3, <3>4
    <2> QED BY <2>1, <2>2
  <1> QED BY <1>3, <1>5, <1>10

\* Without headers there is no request: the parser looks for the colon of one
\* (parseHeaders).
LEMMA NoHeaders ==
    ASSUME NEW method, NEW uri, NEW version, ClearLine(method, uri, version), NEW gap,
           NEW body \in Text, \A i \in 1..Len(body) : body[i] # ":"
    PROVE  /\ Compose(method, uri, version, <<>>, gap, body) \in Text
           /\ ~Parse(Compose(method, uri, version, <<>>, gap, body)).ok
  <1> HIDE DEF Text
  <1>1. FlattenSeq([i \in DOMAIN <<>> |->
                      <<>>[i].name \o <<":">> \o gap \o <<>>[i].value \o Crlf]) = <<>>
    <2>1. [i \in DOMAIN <<>> |->
             <<>>[i].name \o <<":">> \o gap \o <<>>[i].value \o Crlf] = <<>>
      OBVIOUS
    <2> QED BY <2>1 DEF FlattenSeq
  <1>2. <<>> \in Text
    BY DEF Text
  <1>3. PICK text : text = Compose(method, uri, version, <<>>, gap, body)
    OBVIOUS
  <1>4. text = Composed(method, uri, version, <<>>, body)
    BY <1>1, <1>3 DEF Compose, Composed
  <1>5. text \in Text
    BY <1>2, <1>4, ComposeParts DEF ClearLine
  <1>6. PICK a \in Nat, b \in Nat, c \in Nat, d \in Nat :
           ComposePlaced(text, method, uri, version, <<>>, body, a, b, c, d)
    BY <1>2, <1>4, ComposeParts DEF ClearLine
  <1>7. d = c + 2 /\ Len(text) \in Nat /\ d + 2 <= Len(text)
    <2>1. d = After(c + 2, <<>>) /\ Placed(text, d + 2, body, Len(text))
      BY <1>6 DEF ComposePlaced
    <2>2. Len(<<>>) = 0
      OBVIOUS
    <2> QED BY <2>1, <2>2 DEF After, Placed
  <1>8. ASSUME NEW j \in (c + 3)..Len(text) PROVE text[j] # ":"
    <2>1. CASE j \in {d + 1, d + 2}
      <3>1. Holds(text, d, Crlf)
        BY <1>6 DEF ComposePlaced
      <3>2. 1 \in 1..Len(Crlf) /\ 2 \in 1..Len(Crlf)
        BY CrlfIs
      <3>3. text[d + 1] = "cr" /\ text[d + 2] = "lf"
        BY <3>1, <3>2, CrlfIs DEF Holds
      <3> QED BY <2>1, <3>3
    <2>2. CASE j \notin {d + 1, d + 2}
      <3>1. j \in ((d + 2) + 1)..Len(text)
        BY <1>7, <2>2
      <3>2. text[j] = body[j - (d + 2)] /\ j - (d + 2) \in 1..Len(body)
        BY <1>6, <3>1 DEF ComposePlaced, Placed
      <3> QED BY <3>2
    <2> QED BY <2>1, <2>2
  <1>9. ~ParseHeader(text, c + 3).ok
    <2> SUFFICES ASSUME ParseHeader(text, c + 3).ok PROVE FALSE
      OBVIOUS
    <2>1. c + 3 \in Nat \ {0}
      OBVIOUS
    <2>2. PICK colon \in Nat, v \in Nat, cr \in Nat : HeaderAt(text, c + 3, colon, v, cr)
      BY <1>5, <2>1, HeaderNotThere
    <2>3. FirstIn(text, c + 3, colon, {":"})
      BY <2>2 DEF HeaderAt
    <2> QED BY <1>8, <2>3 DEF FirstIn
  <1>10. HeadersIn(text)[c + 3] = Failed
    <2>1. c + 3 \in Nat \ {0} /\ c + 3 <= Len(text) + 1
      BY <1>7
    <2>2. HeadersIn(text)[c + 3] = FromHere(text, HeadersIn(text), c + 3)
      BY <1>5, <2>1, HeadersFrom
    <2> QED BY <1>9, <2>2 DEF FromHere, Failed
  <1>11. ~Parse(text).ok
    <2>1. ParseRequestLine(text).ok => ParseRequestLine(text).position = c + 3
      BY <1>5, <1>6, RequestLineRead DEF Failed
    <2>2. ~ParseHeaders(text, c + 3).ok
      BY <1>10 DEF ParseHeaders, LimitHeaders, Failed
    <2> QED BY <2>1, <2>2 DEF Parse, ParseAfterLine, Failed
  <1> QED BY <1>3, <1>5, <1>11
------------------------------------------------------------------------------
(***************************************************************************)
(* What a request that has been read looks like.                           *)
(***************************************************************************)
Requests == {r \in [method : Methods \union {"UNKNOWN"}, uri : Text,
                    version : {"HTTP/1.1", "UNKNOWN"}, headers : Seq(Header), body : Text] :
                /\ r.uri # <<>> /\ Fits(r.uri) /\ \A i \in 1..Len(r.uri) : r.uri[i] # "sp"
                /\ GoodHeaders(r.headers) /\ Len(r.headers) <= MaxHeaders
                /\ r.method \notin WithBody => r.body = <<>>}

\* A body that has been read is a text.
LEMMA BodyType ==
    ASSUME NEW text \in Text, NEW p \in Nat \ {0}, NEW size, NEW n, Body(text, p, size, n).ok
    PROVE  Body(text, p, size, n).body \in Text
  <1>1. Len(text) \in Nat
    BY LenProperties
  <1>2. /\ BodyLength(n.value) \in 0..(Len(text) - p + 1)
        /\ Body(text, p, size, n).body = SubSeq(text, p, p + BodyLength(n.value) - 1)
    BY DEF Body, Failed
  <1>3. PICK q : q = p + BodyLength(n.value)
    OBVIOUS
  <1>4. q \in Nat /\ p <= q /\ q - 1 <= Len(text)
    BY <1>1, <1>2, <1>3
  <1>5. SubSeq(text, p, q - 1) \in Text
    BY <1>4, Between
  <1> QED BY <1>2, <1>3, <1>5

\* A request that the parser has taken is one of these.
LEMMA RequestShape ==
    ASSUME NEW text \in Text, Parse(text).ok
    PROVE  /\ Parse(text) = [ok |-> TRUE, request |-> Parse(text).request]
           /\ Parse(text).request \in Requests
  <1> HIDE DEF Text
  <1>1. ParseRequestLine(text).ok
    BY DEF Parse, Failed
  <1>2. PICK first \in Nat, second \in Nat, cr \in Nat : LineAt(text, first, second, cr)
    BY <1>1, LineNotThere
  <1>3. PICK line : line = LineRead(text, first, second, cr)
    OBVIOUS
  <1>4. ParseRequestLine(text) = line
    BY <1>2, <1>3, LineThere
  <1>5. /\ line.method \in Methods \union {"UNKNOWN"}
        /\ line.version \in {"HTTP/1.1", "UNKNOWN"}
        /\ line.position \in Nat \ {0} /\ line.position <= Len(text) + 1
    <2>1. cr \in Nat /\ cr < Len(text) /\ Len(text) \in Nat
      BY <1>2, LineOrder, LenProperties DEF Text
    <2>2. line.method = GetHTTPMethod(SubSeq(text, 1, first - 1))
          /\ line.version = GetHTTPVersion(SubSeq(text, second + 1, cr - 1))
          /\ line.position = cr + 2
      BY <1>3 DEF LineRead
    <2> QED BY <2>1, <2>2 DEF GetHTTPMethod, GetHTTPVersion
  <1>6. /\ line.uri \in Text /\ line.uri # <<>> /\ Fits(line.uri)
        /\ \A i \in 1..Len(line.uri) : line.uri[i] # "sp"
    <2>1. /\ first \in Nat /\ second \in Nat /\ first + 1 < second /\ second < Len(text)
          /\ Len(text) \in Nat
          /\ \A j \in (first + 1)..(second - 1) : text[j] # "sp"
      BY <1>2, LineOrder, LenProperties DEF Text
    <2>2. PICK m \in Nat \ {0} : m = first + 1
      BY <2>1
    <2>3. line.uri = SubSeq(text, m, second - 1)
      BY <1>3, <2>2 DEF LineRead
    <2>4. m <= second /\ second - 1 <= Len(text) /\ m < second
      BY <2>1, <2>2
    <2>5. /\ line.uri \in Text /\ Len(line.uri) = second - m
          /\ \A i \in 1..(second - m) : line.uri[i] = text[m + i - 1]
      BY <2>1, <2>3, <2>4, Between
    <2>6. line.uri # <<>>
      BY <2>1, <2>3, <2>4, NotEmptyBetween
    <2>7. \A i \in 1..(second - m) : m + i - 1 \in (first + 1)..(second - 1)
      BY <2>1, <2>2
    <2>8. Fits(line.uri)
      BY <1>2, <1>3 DEF LineAt, LineRead
    <2> QED BY <2>1, <2>5, <2>6, <2>7, <2>8
  <1>7. PICK fields : fields = ParseHeaders(text, line.position)
    OBVIOUS
  <1>8. Parse(text) = ParseAfterLine(text, line, fields)
    BY <1>1, <1>4, <1>7 DEF Parse
  <1>9. fields.ok
    BY <1>8 DEF ParseAfterLine, Failed
  <1>10. fields = HeadersIn(text)[line.position] /\ ~(Len(fields.headers) > MaxHeaders)
    BY <1>7, <1>9 DEF ParseHeaders, LimitHeaders, Failed
  <1>11. GoodHeaders(fields.headers) /\ fields.position \in Nat \ {0}
    BY <1>5, <1>9, <1>10, HeadersShape
  <1>12. Len(fields.headers) <= MaxHeaders
    <2>1. Len(fields.headers) \in Nat
      BY <1>11, LenProperties DEF GoodHeaders
    <2> QED BY <1>10, <2>1, ParserAssumption
  <1>13. PICK content : content = IF line.method \in WithBody THEN ParseBody(text, fields)
                                  ELSE [ok |-> TRUE, body |-> <<>>]
    OBVIOUS
  <1>14. Parse(text) = Request(line, fields, content)
    BY <1>8, <1>9, <1>13 DEF ParseAfterLine
  <1>15. content.ok
    BY <1>14 DEF Request, Failed
  <1>16. content.body \in Text /\ (line.method \notin WithBody => content.body = <<>>)
    <2>1. CASE line.method \in WithBody
      <3>1. PICK size, n : content = Body(text, fields.position, size, n)
        BY <1>13, <2>1 DEF ParseBody
      <3> QED BY <1>11, <1>15, <2>1, <3>1, BodyType
    <2>2. CASE line.method \notin WithBody
      BY <1>13, <2>2 DEF Text
    <2> QED BY <2>1, <2>2
  <1>17. PICK r : r = [method |-> line.method, uri |-> line.uri, version |-> line.version,
                       headers |-> fields.headers, body |-> content.body]
    OBVIOUS
  <1>18. Parse(text) = [ok |-> TRUE, request |-> r]
    BY <1>14, <1>15, <1>17 DEF Request
  <1>19. r \in Requests
    BY <1>5, <1>6, <1>11, <1>12, <1>16, <1>17 DEF Requests, GoodHeaders
  <1> QED BY <1>18, <1>19
------------------------------------------------------------------------------
(***************************************************************************)
(* The hops of OPTIONS.                                                    *)
(***************************************************************************)
\* The words are no delimiters.
LEMMA WordsAre ==
    /\ Words \subseteq Symbols
    /\ \A w \in Words : w \notin {"sp", ":", "cr", "lf"}
    /\ DOMAIN Numeral \subseteq Words /\ Methods \subseteq Words
    /\ {"HTTP/1.1", "UNKNOWN", "VERSION"} \subseteq Words
    /\ Long \in Words /\ Long \notin Methods /\ Long \notin DOMAIN Numeral
    /\ Long \notin {"HTTP/1.1", "UNKNOWN", "VERSION", "sp"}
  BY ParserAssumption DEF Written, Symbols, Delimiters

\* searchHeader finds the first header of a name.
FirstNamed(hs, name, i) ==
    /\ i \in 1..Len(hs) /\ hs[i].name = <<name>>
    /\ \A j \in 1..(i - 1) : hs[j].name # <<name>>

\* It finds the first one, and no other.
LEMMA SearchFound ==
    ASSUME NEW hs, NEW name, Len(hs) \in Nat
    PROVE  /\ SearchHeader(hs, name).ok =>
                 /\ FirstNamed(hs, name, SearchHeader(hs, name).at)
                 /\ SearchHeader(hs, name).value = hs[SearchHeader(hs, name).at].value
           /\ \A i : FirstNamed(hs, name, i) =>
                 SearchHeader(hs, name) = [ok |-> TRUE, at |-> i, value |-> hs[i].value]
  <1> DEFINE I == {i \in 1..Len(hs) : hs[i].name = <<name>>}
             found == IF I # {} THEN Min(I) ELSE 0
  <1>1. I \in SUBSET Nat
    OBVIOUS
  <1>2. SearchHeader(hs, name) =
           IF found = 0 THEN Failed ELSE [ok |-> TRUE, at |-> found, value |-> hs[found].value]
    BY DEF SearchHeader, SelectInSeq
  <1>3. I # {} => found \in I /\ \A j \in I : found <= j
    <2> HIDE DEF I
    <2> QED BY <1>1, LeastElement
  <1>4. ASSUME NEW i, FirstNamed(hs, name, i) PROVE found = i /\ i # 0
    <2>1. i \in I /\ i # 0
      BY <1>4 DEF FirstNamed
    <2>2. found \in I /\ found <= i
      <3> HIDE DEF I, found
      <3> QED BY <1>3, <2>1
    <2>3. ~(found < i)
      <3>1. found < i => found \in 1..(i - 1)
        <4> HIDE DEF found
        <4> QED BY <2>1, <2>2
      <3> QED BY <1>4, <2>2, <3>1 DEF FirstNamed
    <2> HIDE DEF found
    <2> QED BY <2>1, <2>2, <2>3
  <1>5. ASSUME found # 0 PROVE FirstNamed(hs, name, found)
    <2>1. I # {}
      BY <1>5
    <2>2. found \in I /\ \A j \in I : found <= j
      BY <1>3, <2>1
    <2>3. ASSUME NEW j \in 1..(found - 1) PROVE hs[j].name # <<name>>
      <3>1. j \in 1..Len(hs) /\ ~(found <= j)
        <4> HIDE DEF found
        <4> QED BY <2>2
      <3>2. j \notin I
        <4> HIDE DEF I, found
        <4> QED BY <2>2, <3>1
      <3> QED BY <3>1, <3>2
    <2> HIDE DEF found
    <2> QED BY <2>2, <2>3 DEF FirstNamed
  <1> HIDE DEF I, found
  <1>6. ASSUME SearchHeader(hs, name).ok
        PROVE  /\ FirstNamed(hs, name, SearchHeader(hs, name).at)
               /\ SearchHeader(hs, name).value = hs[SearchHeader(hs, name).at].value
    BY <1>2, <1>5, <1>6 DEF Failed
  <1>7. ASSUME NEW i, FirstNamed(hs, name, i)
        PROVE  SearchHeader(hs, name) = [ok |-> TRUE, at |-> i, value |-> hs[i].value]
    <2>1. found = i /\ i # 0
      BY <1>4, <1>7
    <2> QED BY <1>2, <2>1
  <1> QED BY <1>6, <1>7

\* strtol reads a word that is a number.
LEMMA NumberOfWord ==
    ASSUME NEW w \in DOMAIN Numeral
    PROVE  Number(<<w>>) = [digits |-> TRUE, whole |-> TRUE, value |-> Numeral[w]]
  <1>1. w \in Symbols \ {"sp"}
    BY WordsAre
  <1>2. PICK s : s = <<w>>
    OBVIOUS
  <1>3. s \in Text /\ Len(s) = 1 /\ s[1] = w
    BY <1>1, <1>2
  <1>4. FirstIn(s, 1, 1, Symbols \ {"sp"})
    BY <1>1, <1>3 DEF FirstIn
  <1>5. SkipSpaces(s, 1) = 1
    <2>1. 1 \in Nat \ {0} /\ 1 \in Nat
      OBVIOUS
    <2> QED BY <1>3, <1>4, <2>1, FirstIsSkip
  <1>6. Number(s) = [digits |-> TRUE, whole |-> TRUE, value |-> Numeral[w]]
    <2>1. s[1] \in DOMAIN Numeral /\ (1 = Len(s)) = TRUE /\ 1 # 0
      BY <1>3
    <2>2. Number(s) = [digits |-> TRUE, whole |-> 1 = Len(s), value |-> Numeral[s[1]]]
      BY <1>5, <2>1 DEF Number
    <2> QED BY <1>3, <2>1, <2>2
  <1> QED BY <1>2, <1>6

\* Whatever it reads is an integer.
LEMMA NumberType == ASSUME NEW s PROVE Number(s).value \in Int
  BY ParserAssumption DEF Number

\* One hop less is a number, smaller and not negative.
LEMMA OneLessIs ==
    ASSUME NEW n \in Int, n > 0
    PROVE  \E w \in DOMAIN Numeral : OneLess(n) = <<w>> /\ Numeral[w] \in 0..(n - 1)
  <1>1. PICK m : m = IF n > MaxLong THEN MaxLong ELSE n
    OBVIOUS
  <1>2. MaxLong \in Nat \ {0}
    BY ParserAssumption
  <1>3. m - 1 \in 0..(MaxLong - 1) /\ m - 1 \in 0..(n - 1)
    BY <1>1, <1>2
  <1>4. \E w \in DOMAIN Numeral : Numeral[w] = m - 1
    BY <1>3, ParserAssumption
  <1>5. PICK w : w = CHOOSE x \in DOMAIN Numeral : Numeral[x] = m - 1
    OBVIOUS
  <1>6. w \in DOMAIN Numeral /\ Numeral[w] = m - 1
    BY <1>4, <1>5
  <1>7. OneLess(n) = <<w>>
    BY <1>1, <1>5 DEF OneLess
  <1> QED BY <1>3, <1>6, <1>7

\* What handle_options_request makes of a request that is to be rewritten, when w
\* is the word that it writes in header i.
Rewritten(r, d, i, w) ==
    /\ r.method = "OPTIONS"
    /\ MaxForwards(r).at = i /\ FirstNamed(r.headers, "Max-Forwards", i)
    /\ w \in DOMAIN Numeral
    /\ OneLess(Number(MaxForwards(r).value).value) = <<w>>
    /\ Numeral[w] \in 0..(Number(MaxForwards(r).value).value - 1)
    /\ d = [method |-> "OPTIONS", uri |-> r.uri, version |-> r.version,
            headers |-> d.headers, body |-> <<>>]
    /\ Len(d.headers) = Len(r.headers) /\ d.headers \in Seq([name : Text, value : Text])
    /\ d.headers[i] = [name |-> r.headers[i].name, value |-> <<w>>]
    /\ \A j \in 1..Len(r.headers) \ {i} : d.headers[j] = r.headers[j]

\* The code does that, for the first of several Max-Forwards headers.
LEMMA Decremented ==
    ASSUME NEW r \in Requests, OptionsFlow(r) = "rewrite"
    PROVE  \E i, w : Rewritten(r, DecrementMaxForwards(r), i, w)
  <1> HIDE DEF Text
  <1>1. /\ r = [method |-> r.method, uri |-> r.uri, version |-> r.version,
                headers |-> r.headers, body |-> r.body]
        /\ GoodHeaders(r.headers)
        /\ r.method \notin WithBody => r.body = <<>>
    BY DEF Requests
  <1>2. PICK hs : hs = r.headers
    OBVIOUS
  <1>3. hs \in Seq(Header) /\ Len(hs) \in Nat
    BY <1>1, <1>2, LenProperties DEF GoodHeaders
  <1>4. PICK n : n = Number(MaxForwards(r).value).value
    OBVIOUS
  <1>5. r.method = "OPTIONS" /\ MaxForwards(r).ok /\ n \in Int /\ n > 0
    <2>1. n \in Int
      BY <1>4, NumberType
    <2>2. r.method = "OPTIONS" /\ MaxForwards(r).ok
          /\ FlowOf(Number(MaxForwards(r).value)) = "rewrite"
      BY DEF OptionsFlow
    <2>3. n < 0 \/ n = 0 \/ n > 0
      BY <2>1
    <2>4. PICK num : num = Number(MaxForwards(r).value)
      OBVIOUS
    <2>5. num.value = n /\ FlowOf(num) = "rewrite"
      BY <1>4, <2>2, <2>4
    <2>6. n > 0
      BY <2>1, <2>3, <2>5 DEF FlowOf
    <2> QED BY <2>1, <2>2, <2>6
  <1>6. PICK i : i = MaxForwards(r).at
    OBVIOUS
  <1>7. FirstNamed(hs, "Max-Forwards", i)
    BY <1>2, <1>3, <1>5, <1>6, SearchFound DEF MaxForwards
  <1>8. PICK w \in DOMAIN Numeral : OneLess(n) = <<w>> /\ Numeral[w] \in 0..(n - 1)
    BY <1>5, OneLessIs
  <1>9. i \in 1..Len(hs)
    BY <1>7 DEF FirstNamed
  <1>10. PICK new : new = [hs EXCEPT ![i].value = <<w>>]
    OBVIOUS
  <1>11. DecrementMaxForwards(r) =
            [method |-> "OPTIONS", uri |-> r.uri, version |-> r.version,
             headers |-> new, body |-> <<>>]
    <2>1. DecrementMaxForwards(r) = [r EXCEPT !.headers[i].value = <<w>>]
      BY <1>4, <1>6, <1>8 DEF DecrementMaxForwards
    <2>2. [r EXCEPT !.headers[i].value = <<w>>] = [r EXCEPT !.headers = new]
      <3>1. [r EXCEPT !.headers[i].value = <<w>>] =
               [r EXCEPT !.headers = [r.headers EXCEPT ![i].value = <<w>>]]
        OBVIOUS
      <3> QED BY <1>2, <1>10, <3>1
    <2>3. r.body = <<>>
      BY <1>1, <1>5 DEF WithBody
    <2>4. PICK m, u, v, h, b : r = [method |-> m, uri |-> u, version |-> v, headers |-> h, body |-> b]
                               /\ m = "OPTIONS" /\ u = r.uri /\ v = r.version /\ b = <<>>
      BY <1>1, <1>5, <2>3
    <2>5. [r EXCEPT !.headers = new] =
             [method |-> m, uri |-> u, version |-> v, headers |-> new, body |-> b]
      <3> DEFINE Names == {"method", "uri", "version", "headers", "body"}
                 changed == [r EXCEPT !.headers = new]
                 wanted == [method |-> m, uri |-> u, version |-> v, headers |-> new, body |-> b]
      <3>1. DOMAIN r = Names /\ r.method = m /\ r.uri = u /\ r.version = v /\ r.body = b
        BY <2>4
      <3>2. changed = [x \in Names |-> changed[x]] /\ wanted = [x \in Names |-> wanted[x]]
        BY <3>1
      <3>3. \A x \in Names : changed[x] = wanted[x]
        BY <3>1
      <3> HIDE DEF Names, changed, wanted
      <3>4. changed = wanted
        BY <3>2, <3>3
      <3> QED BY <3>4 DEF changed, wanted
    <2> QED BY <2>1, <2>2, <2>4, <2>5
  <1>12. /\ Len(new) = Len(hs) /\ new \in Seq([name : Text, value : Text])
         /\ new[i] = [name |-> hs[i].name, value |-> <<w>>]
         /\ \A j \in 1..Len(hs) \ {i} : new[j] = hs[j]
    <2>1. PICK h : h = hs[i]
      OBVIOUS
    <2>2. \A j \in 1..Len(hs) : hs[j] \in Header
      BY <1>3, ElementOfSeq
    <2>3. h = [name |-> h.name, value |-> h.value] /\ h.name \in Text
      BY <1>9, <2>1, <2>2 DEF Header
    <2>4. <<w>> \in Text
      BY <1>8, WordsAre DEF Text
    <2>5. PICK one : one = [name |-> h.name, value |-> <<w>>]
      OBVIOUS
    <2>6. one \in [name : Text, value : Text]
      BY <2>3, <2>4, <2>5
    <2>7. new = [hs EXCEPT ![i] = one]
      <3>1. new = [hs EXCEPT ![i] = [h EXCEPT !.value = <<w>>]]
        BY <1>10, <2>1
      <3>2. [h EXCEPT !.value = <<w>>] = one
        BY <2>3, <2>5
      <3> QED BY <3>1, <3>2
    <2>8. hs \in Seq([name : Text, value : Text])
      <3>1. Header \subseteq [name : Text, value : Text]
        BY DEF Header
      <3> QED BY <1>3, <3>1, SeqOfMore
    <2>9. new \in Seq([name : Text, value : Text]) /\ Len(new) = Len(hs)
          /\ new[i] = one /\ \A j \in 1..Len(hs) \ {i} : new[j] = hs[j]
      BY <1>3, <1>9, <2>6, <2>7, <2>8
    <2> QED BY <2>1, <2>5, <2>9
  <1>13. PICK d : d = DecrementMaxForwards(r)
    OBVIOUS
  <1>14. d.headers = new
         /\ d = [method |-> "OPTIONS", uri |-> r.uri, version |-> r.version,
                 headers |-> d.headers, body |-> <<>>]
    BY <1>11, <1>13
  <1>15. Rewritten(r, d, i, w)
    BY <1>2, <1>4, <1>5, <1>6, <1>7, <1>8, <1>12, <1>14 DEF Rewritten
  <1> QED BY <1>13, <1>15

\* The rewritten request can be read, and is read as what was written.
LEMMA RewrittenRead ==
    ASSUME NEW r \in Requests, NEW d, NEW i, NEW w, Rewritten(r, d, i, w)
    PROVE  /\ ToRaw(d) \in Text
           /\ Parse(ToRaw(d)) = [ok |-> TRUE, request |-> d]
           /\ MaxForwards(d) = [ok |-> TRUE, at |-> i, value |-> <<w>>]
  <1> HIDE DEF Text
  <1>1. /\ GoodHeaders(r.headers) /\ Len(r.headers) <= MaxHeaders
        /\ r.uri \in Text /\ r.uri # <<>> /\ Fits(r.uri)
        /\ \A k \in 1..Len(r.uri) : r.uri[k] # "sp"
        /\ r.version \in {"HTTP/1.1", "UNKNOWN"}
    BY DEF Requests
  <1>2. PICK hs, new, n : hs = r.headers /\ new = d.headers /\ n = Len(hs)
    OBVIOUS
  <1>3. /\ hs \in Seq(Header) /\ hs # <<>> /\ n \in Nat \ {0}
        /\ \A j \in 1..n : hs[j] \in Header
        /\ \A j \in 2..n : ~StartsAt(hs[j].name, 1, Crlf)
    BY <1>1, <1>2, LenProperties, ElementOfSeq, EmptySeq DEF GoodHeaders
  <1>4. /\ i \in 1..n /\ Len(new) = n /\ new \in Seq([name : Text, value : Text])
        /\ new[i] = [name |-> hs[i].name, value |-> <<w>>]
        /\ \A j \in 1..n \ {i} : new[j] = hs[j]
        /\ w \in DOMAIN Numeral
        /\ d = [method |-> "OPTIONS", uri |-> r.uri, version |-> r.version,
                headers |-> new, body |-> <<>>]
        /\ hs[i].name = <<"Max-Forwards">> /\ \A j \in 1..(i - 1) : hs[j].name # <<"Max-Forwards">>
    BY <1>2 DEF Rewritten, FirstNamed
  <1>5. \A j \in 1..n : new[j].name = hs[j].name
    BY SMTT(30), <1>4
  <1>6. PICK v : v = <<w>>
    OBVIOUS
  <1>7. v \in Text /\ Len(v) = 1 /\ v[1] = w /\ v # <<>> /\ Fits(v)
    <2>1. v \in Text /\ Len(v) = 1 /\ v[1] = w /\ v # <<>>
      BY <1>4, <1>6, WordsAre DEF Text
    <2>2. w # Long
      BY <1>4, WordsAre
    <2> QED BY <1>6, <2>1, <2>2 DEF Fits, ToSet
  <1>8. ASSUME NEW j \in 1..n PROVE Clear(new[j]) /\ FieldFits(new[j])
    <2>1. /\ hs[j] \in [name : Text, value : Text] /\ GoodName(hs[j].name)
          /\ GoodValue(hs[j].value)
      BY <1>3 DEF Header
    <2>2. CASE j # i
      BY <1>4, <2>1, <2>2 DEF Clear, FieldFits, GoodName, GoodValue
    <2>3. CASE j = i
      <3>1. PICK h : h = new[i]
        OBVIOUS
      <3>2. h = [name |-> hs[j].name, value |-> v]
        BY <1>4, <1>6, <2>3, <3>1
      <3>3. h \in [name : Text, value : Text] /\ h.name = hs[j].name /\ h.value = v
        BY <1>7, <2>1, <3>2
      <3>4. w # "cr" /\ w # "sp"
        BY <1>4, WordsAre
      <3>5. \A k \in 1..Len(v) : v[k] # "cr"
        BY <1>7, <3>4
      <3>6. Clear(h) /\ FieldFits(h)
        BY <1>7, <2>1, <3>3, <3>4, <3>5 DEF Clear, FieldFits, GoodName
      <3> QED BY <2>3, <3>1, <3>6
    <2> QED BY <2>2, <2>3
  <1>9. ClearHeaders(new)
    <2>1. new # <<>>
      BY <1>3, <1>4
    <2>2. \A j \in 2..n : ~StartsAt(new[j].name, 1, Crlf)
      BY <1>3, <1>5
    <2> QED BY <1>4, <1>8, <2>1, <2>2 DEF ClearHeaders
  <1>10. PICK version : version = VersionToString(r.version)
    OBVIOUS
  <1>11. /\ version \in Text /\ version # <<>> /\ \A k \in 1..Len(version) : version[k] # "cr"
         /\ Fits(version) /\ GetHTTPVersion(version) = r.version
    <2>1. CASE r.version = "HTTP/1.1"
      <3>1. version = <<"HTTP/1.1">>
        BY <1>10, <2>1 DEF VersionToString
      <3>2. version \in Text
        BY <3>1, WordsAre DEF Text
      <3>3. Len(version) = 1 /\ version[1] = "HTTP/1.1"
        BY <3>1
      <3>4. "HTTP/1.1" \in Words /\ "HTTP/1.1" # Long /\ "HTTP/1.1" # "cr"
        BY WordsAre
      <3>5. Fits(version)
        BY <3>1, <3>4 DEF Fits, ToSet
      <3> QED BY <2>1, <3>1, <3>2, <3>3, <3>4, <3>5 DEF GetHTTPVersion
    <2>2. CASE r.version # "HTTP/1.1"
      <3>1. version = <<"UNKNOWN", "sp", "VERSION">> /\ r.version = "UNKNOWN"
        BY <1>1, <1>10, <2>2 DEF VersionToString
      <3>2. "UNKNOWN" \in Symbols /\ "sp" \in Symbols /\ "VERSION" \in Symbols
        BY WordsAre DEF Symbols, Delimiters
      <3>3. version \in Text
        BY <3>1, <3>2 DEF Text
      <3>4. Len(version) = 3 /\ version[1] = "UNKNOWN" /\ version[2] = "sp"
            /\ version[3] = "VERSION"
        BY <3>1
      <3>5. Long \notin {"UNKNOWN", "VERSION", "sp"} /\ "cr" \notin {"UNKNOWN", "VERSION", "sp"}
        BY WordsAre
      <3>6. ASSUME NEW k \in 1..3 PROVE version[k] \in {"UNKNOWN", "VERSION", "sp"}
        BY <3>4
      <3>7. Fits(version) /\ \A k \in 1..Len(version) : version[k] # "cr"
        <4>1. DOMAIN version = 1..3
          BY <3>1
        <4> QED BY <3>4, <3>5, <3>6, <4>1 DEF Fits, ToSet
      <3>8. version # <<"HTTP/1.1">> /\ version # <<>>
        BY <3>4
      <3> QED BY <3>1, <3>3, <3>7, <3>8 DEF GetHTTPVersion
    <2> QED BY <2>1, <2>2
  <1>12. PICK method : method = <<"OPTIONS">>
    OBVIOUS
  <1>13. /\ method \in Text /\ method # <<>> /\ \A k \in 1..Len(method) : method[k] # "sp"
         /\ Fits(method) /\ GetHTTPMethod(method) = "OPTIONS"
    <2>1. "OPTIONS" \in Methods /\ "OPTIONS" \in Words
      BY WordsAre DEF Methods
    <2>2. "OPTIONS" # Long /\ "OPTIONS" \in Symbols
      BY <2>1, WordsAre
    <2>3. method \in Text /\ Len(method) = 1 /\ method[1] = "OPTIONS"
      BY <1>12, <2>2 DEF Text
    <2>4. Fits(method)
      BY <1>12, <2>2 DEF Fits, ToSet
    <2>5. Head(method) = "OPTIONS"
      BY <1>12
    <2> QED BY <2>1, <2>3, <2>4, <2>5 DEF GetHTTPMethod
  <1>14. ClearLine(method, r.uri, version)
    BY <1>1, <1>11, <1>13 DEF ClearLine
  <1>15. Gap(<<"sp">>) /\ <<>> \in Text
    BY Space DEF Gap, Text
  <1>16. ToRaw(d) = Compose(method, r.uri, version, new, <<"sp">>, <<>>)
    BY <1>4, <1>10, <1>12 DEF ToRaw
  <1>17. ToRaw(d) \in Text /\ Parse(ToRaw(d)) = ReadBack(method, r.uri, version, new, <<>>)
    BY <1>9, <1>14, <1>15, <1>16, ParseOfCompose
  <1>18. ReadBack(method, r.uri, version, new, <<>>) = [ok |-> TRUE, request |-> d]
    <2>1. Fits(method) /\ Fits(r.uri) /\ Fits(version) /\ Len(new) <= MaxHeaders
          /\ \A k \in 1..Len(new) : FieldFits(new[k])
      BY <1>1, <1>2, <1>4, <1>8, <1>11, <1>13
    <2>2. "OPTIONS" \notin WithBody
      BY DEF WithBody
    <2>3. ReadBack(method, r.uri, version, new, <<>>) =
             Request([method |-> "OPTIONS", uri |-> r.uri, version |-> r.version],
                     [headers |-> new], [ok |-> TRUE, body |-> <<>>])
      BY <1>11, <1>13, <2>1, <2>2 DEF ReadBack
    <2> QED BY <1>4, <2>3 DEF Request
  <1>19. MaxForwards(d) = [ok |-> TRUE, at |-> i, value |-> <<w>>]
    <2>1. d.headers = new /\ Len(new) \in Nat
      BY <1>3, <1>4
    <2>2. FirstNamed(new, "Max-Forwards", i)
      <3>1. \A j \in 1..(i - 1) : j \in 1..n
        BY <1>3, <1>4
      <3> QED BY <1>4, <1>5, <3>1 DEF FirstNamed
    <2>3. new[i].value = <<w>>
      BY <1>4
    <2>4. SearchHeader(new, "Max-Forwards") = [ok |-> TRUE, at |-> i, value |-> new[i].value]
      <3>1. \A k : FirstNamed(new, "Max-Forwards", k) =>
               SearchHeader(new, "Max-Forwards") = [ok |-> TRUE, at |-> k, value |-> new[k].value]
        BY <2>1, SearchFound
      <3> QED BY <2>2, <3>1
    <2> QED BY <2>1, <2>3, <2>4 DEF MaxForwards
  <1> QED BY <1>17, <1>18, <1>19

Consists(text, method, uri, version, fields, body) ==
    /\ {method, uri, version, fields, body} \subseteq Text
    /\ text = Composed(method, uri, version, fields, body)

\* More behind a request is more behind its body.
LEMMA ComposedMore ==
    ASSUME NEW text, NEW method, NEW uri, NEW version, NEW fields, NEW body,
           Consists(text, method, uri, version, fields, body),
           NEW more, NEW longer, Joins(longer, body, more), NEW all, Joins(all, text, more)
    PROVE  Consists(all, method, uri, version, fields, longer)
  <1> HIDE DEF Text
  <1>1. PICK u1 : u1 = method \o <<"sp">>
    OBVIOUS
  <1>2. PICK u2 : u2 = u1 \o uri
    OBVIOUS
  <1>3. PICK u3 : u3 = u2 \o <<"sp">>
    OBVIOUS
  <1>4. PICK u4 : u4 = u3 \o version
    OBVIOUS
  <1>5. PICK u5 : u5 = u4 \o Crlf
    OBVIOUS
  <1>6. PICK u6 : u6 = u5 \o fields
    OBVIOUS
  <1>7. PICK u7 : u7 = u6 \o Crlf
    OBVIOUS
  <1>0. /\ method \in Text /\ uri \in Text /\ version \in Text /\ fields \in Text
        /\ body \in Text /\ more \in Text /\ longer \in Text
        /\ text = Composed(method, uri, version, fields, body)
        /\ longer = body \o more /\ all = text \o more
    BY JoinsType DEF Consists, Joins
  <1>8. u1 \in Text /\ u2 \in Text
    BY <1>0, <1>1, <1>2, Joined, Space
  <1>9. u3 \in Text /\ u4 \in Text
    BY <1>0, <1>3, <1>4, <1>8, Joined, Space
  <1>10. u5 \in Text /\ u6 \in Text
    BY <1>0, <1>5, <1>6, <1>9, Joined, CrlfIs
  <1>11. u7 \in Text
    BY <1>7, <1>10, Joined, CrlfIs
  <1>12. \A b : Composed(method, uri, version, fields, b) = u7 \o b
    BY <1>1, <1>2, <1>3, <1>4, <1>5, <1>6, <1>7 DEF Composed
  <1>13. (u7 \o body) \o more = u7 \o (body \o more)
    <2>1. \A s, t, u \in Seq(Symbols) : (s \o t) \o u = s \o (t \o u)
      BY ConcatAssociative
    <2>2. u7 \in Seq(Symbols) /\ body \in Seq(Symbols) /\ more \in Seq(Symbols)
      BY <1>0, <1>11 DEF Text
    <2> QED BY <2>1, <2>2
  <1>14. all = u7 \o longer
    BY <1>0, <1>12, <1>13
  <1> QED BY <1>0, <1>12, <1>14 DEF Consists

==============================================================================
