------------------------------ MODULE ListFacts ------------------------------
(***************************************************************************)
(* What the sequence operators of the models return and keep, for lists    *)
(* that should hold an element at most once: PR_CLIST queues, nsTArray.    *)
(***************************************************************************)
EXTENDS Integers, Sequences, SequencesExt, WellFoundedInduction, FiniteSetTheorems, TLAPS

\* Does e occur in s at one place at most?
Single(s, e) == \A i, j \in DOMAIN s : s[i] = e /\ s[j] = e => i = j

LEMMA LeastNatural ==
    ASSUME NEW T \in SUBSET Nat, T # {}
    PROVE  \E x \in T : \A y \in T : x <= y
<1>1. PICK x \in T : \A y \in T : ~ (<<y, x>> \in OpToRel(<, Nat))
  BY WFMin, NatLessThanWellFounded
<1>2. \A y \in T : ~ (y < x)
  BY <1>1 DEF OpToRel
<1> QED BY <1>2

\* What InsertAt returns.
LEMMA InsertElems ==
    ASSUME NEW S, NEW s \in Seq(S), NEW i \in 1 .. Len(s) + 1, NEW e \in S
    PROVE  /\ InsertAt(s, i, e) \in Seq(S)
           /\ Len(InsertAt(s, i, e)) = Len(s) + 1
           /\ InsertAt(s, i, e)[i] = e
           /\ \A j \in 1 .. i - 1 : InsertAt(s, i, e)[j] = s[j]
           /\ \A j \in i .. Len(s) : InsertAt(s, i, e)[j + 1] = s[j]
<1> DEFINE a == SubSeq(s, 1, i - 1)
           b == SubSeq(s, i, Len(s))
<1>1. a \in Seq(S) /\ Len(a) = i - 1 /\ \A j \in 1 .. i - 1 : a[j] = s[j]
  OBVIOUS
<1>2. b \in Seq(S) /\ Len(b) = Len(s) - i + 1 /\ \A j \in 1 .. Len(s) - i + 1 : b[j] = s[i + j - 1]
  OBVIOUS
<1>3. InsertAt(s, i, e) = a \o <<e>> \o b
  BY DEF InsertAt
<1> HIDE DEF a, b
<1> DEFINE c == a \o <<e>>
<1>4. c \in Seq(S) /\ Len(c) = i /\ c[i] = e
  BY <1>1
<1>5. \A j \in 1 .. i - 1 : c[j] = s[j]
  BY <1>1
<1> HIDE DEF c
<1> DEFINE r == c \o b
<1>6. r \in Seq(S) /\ Len(r) = Len(s) + 1
  <2>1. b \in Seq(S) /\ c \in Seq(S)
    BY <1>2, <1>4
  <2>2. r \in Seq(S) /\ Len(r) = Len(c) + Len(b)
    BY <2>1
  <2> QED BY <1>2, <1>4, <2>2
<1>7. \A j \in 1 .. i : r[j] = c[j]
  BY <1>2, <1>4
<1>8. \A k \in 1 .. Len(s) - i + 1 : r[i + k] = b[k]
  BY <1>2, <1>4
<1> HIDE DEF r
<1>9. ASSUME NEW j \in i .. Len(s) PROVE r[j + 1] = s[j]
  <2>1. j - i + 1 \in 1 .. Len(s) - i + 1
    OBVIOUS
  <2>2. r[i + (j - i + 1)] = b[j - i + 1] /\ b[j - i + 1] = s[i + (j - i + 1) - 1]
    BY <1>2, <1>8, <2>1
  <2>3. i + (j - i + 1) = j + 1 /\ i + (j - i + 1) - 1 = j
    OBVIOUS
  <2> QED BY <2>2, <2>3
<1>10. r = InsertAt(s, i, e)
  BY <1>3 DEF c, r
<1> QED BY <1>4, <1>5, <1>6, <1>7, <1>9, <1>10

\* What RemoveAt returns.
LEMMA RemoveElems ==
    ASSUME NEW S, NEW s \in Seq(S), NEW i \in 1 .. Len(s)
    PROVE  /\ RemoveAt(s, i) \in Seq(S)
           /\ Len(RemoveAt(s, i)) = Len(s) - 1
           /\ \A j \in 1 .. Len(s) - 1 :
                RemoveAt(s, i)[j] = IF j < i THEN s[j] ELSE s[j + 1]
<1> DEFINE a == SubSeq(s, 1, i - 1)
           b == SubSeq(s, i + 1, Len(s))
<1>1. a \in Seq(S) /\ Len(a) = i - 1 /\ \A j \in 1 .. i - 1 : a[j] = s[j]
  OBVIOUS
<1>2. b \in Seq(S) /\ Len(b) = Len(s) - i /\ \A j \in 1 .. Len(s) - i : b[j] = s[i + j]
  OBVIOUS
<1>3. RemoveAt(s, i) = a \o b
  BY DEF RemoveAt
<1> HIDE DEF a, b
<1> DEFINE r == a \o b
<1>4. r \in Seq(S) /\ Len(r) = Len(a) + Len(b)
  <2>1. a \in Seq(S) /\ b \in Seq(S)
    BY <1>1, <1>2
  <2> QED BY <2>1
<1>5. \A j \in 1 .. Len(a) : r[j] = a[j]
  BY <1>1, <1>2
<1>6. \A k \in 1 .. Len(b) : r[Len(a) + k] = b[k]
  BY <1>1, <1>2
<1> HIDE DEF r
<1>7. Len(r) = Len(s) - 1
  BY <1>1, <1>2, <1>4
<1>8. ASSUME NEW j \in 1 .. Len(s) - 1
      PROVE  r[j] = IF j < i THEN s[j] ELSE s[j + 1]
  <2>1. CASE j < i
    BY <1>1, <1>5, <2>1
  <2>2. CASE ~ (j < i)
    <3>1. j - (i - 1) \in 1 .. Len(b) /\ Len(a) + (j - (i - 1)) = j
      BY <1>1, <1>2, <2>2
    <3>2. r[j] = b[j - (i - 1)]
      BY <1>6, <3>1
    <3>3. b[j - (i - 1)] = s[i + (j - (i - 1))] /\ i + (j - (i - 1)) = j + 1
      BY <1>2, <3>1
    <3> QED BY <2>2, <3>2, <3>3
  <2> QED BY <2>1, <2>2
<1>9. r = RemoveAt(s, i)
  BY <1>3 DEF r
<1> QED BY <1>4, <1>7, <1>8, <1>9

\* RemoveFirst takes one occurrence away, if there is one.
LEMMA RemoveFirstElems ==
    ASSUME NEW S, NEW s \in Seq(S), NEW e, Contains(s, e)
    PROVE  \E i \in 1 .. Len(s) : s[i] = e /\ RemoveFirst(s, e) = RemoveAt(s, i)
<1> DEFINE I == {i \in 1 .. Len(s) : s[i] = e}
<1>1. I # {} /\ I \in SUBSET Nat
  BY DEF Contains
<1>2. \E i \in I : \A j \in I : i <= j
  BY <1>1, LeastNatural
<1>3. SelectInSeq(s, LAMBDA v : v = e) \in I
  BY <1>1, <1>2 DEF SelectInSeq, Min
<1> QED BY <1>3 DEF RemoveFirst, Contains

\* An element that comes into a list.
LEMMA InsertContains ==
    ASSUME NEW S, NEW s \in Seq(S), NEW i \in 1 .. Len(s) + 1, NEW e \in S
    PROVE  /\ InsertAt(s, i, e) \in Seq(S)
           /\ InsertAt(s, i, e) # << >>
           /\ \A x : Contains(InsertAt(s, i, e), x) <=> x = e \/ Contains(s, x)
           /\ \A x : x # e /\ Single(s, x) => Single(InsertAt(s, i, e), x)
           /\ ~ Contains(s, e) => Single(InsertAt(s, i, e), e)
<1>. PICK r : r = InsertAt(s, i, e)
  OBVIOUS
<1>1. /\ r \in Seq(S) /\ Len(r) = Len(s) + 1 /\ r[i] = e
      /\ \A j \in 1 .. i - 1 : r[j] = s[j]
      /\ \A j \in i .. Len(s) : r[j + 1] = s[j]
  BY InsertElems
\* The place in s of what is in r.
<1>2. ASSUME NEW j \in 1 .. Len(r), j # i
      PROVE  \E k \in 1 .. Len(s) : r[j] = s[k] /\ j = IF k < i THEN k ELSE k + 1
  <2>1. CASE j < i
    BY <1>1, <2>1
  <2>2. CASE j > i
    <3>1. j - 1 \in i .. Len(s) /\ (j - 1) + 1 = j
      BY <1>1, <2>2
    <3>2. r[(j - 1) + 1] = s[j - 1]
      BY <1>1, <3>1
    <3> QED BY <3>1, <3>2
  <2> QED BY <1>1, <1>2, <2>1, <2>2
<1>3. r # << >>
  BY <1>1
<1>4. ASSUME NEW x, Contains(r, x) PROVE x = e \/ Contains(s, x)
  <2>1. PICK j \in 1 .. Len(r) : r[j] = x
    BY <1>4 DEF Contains
  <2> QED BY <1>1, <1>2, <2>1 DEF Contains
<1>5. Contains(r, e)
  BY <1>1 DEF Contains
<1>6. ASSUME NEW x, Contains(s, x) PROVE Contains(r, x)
  <2>1. PICK j \in 1 .. Len(s) : s[j] = x
    BY <1>6 DEF Contains
  <2>2. CASE j < i
    <3>1. j \in 1 .. Len(r) /\ r[j] = x
      BY <1>1, <2>1, <2>2
    <3> QED BY <3>1 DEF Contains
  <2>3. CASE ~ (j < i)
    <3>1. j + 1 \in 1 .. Len(r) /\ r[j + 1] = x
      BY <1>1, <2>1, <2>3
    <3> QED BY <3>1 DEF Contains
  <2> QED BY <2>2, <2>3
<1>7. DOMAIN r = 1 .. Len(r) /\ DOMAIN s = 1 .. Len(s)
  BY <1>1
<1>8. ASSUME NEW x, x # e, Single(s, x) PROVE Single(r, x)
  <2> SUFFICES ASSUME NEW j \in 1 .. Len(r), NEW k \in 1 .. Len(r), r[j] = x, r[k] = x
               PROVE  j = k
    BY <1>7 DEF Single
  <2>1. PICK m \in 1 .. Len(s) : r[j] = s[m] /\ j = IF m < i THEN m ELSE m + 1
    BY <1>1, <1>2, <1>8
  <2>2. PICK n \in 1 .. Len(s) : r[k] = s[n] /\ k = IF n < i THEN n ELSE n + 1
    BY <1>1, <1>2, <1>8
  <2>3. m = n
    BY <1>7, <1>8, <2>1, <2>2 DEF Single
  <2> QED BY <2>1, <2>2, <2>3
<1>9. ~ Contains(s, e) => Single(r, e)
  BY <1>2, <1>7 DEF Single, Contains
<1> QED BY <1>1, <1>3, <1>4, <1>5, <1>6, <1>8, <1>9

\* An element that leaves a list.
LEMMA RemoveContains ==
    ASSUME NEW S, NEW s \in Seq(S), NEW e
    PROVE  /\ RemoveFirst(s, e) \in Seq(S)
           /\ \A x : Contains(RemoveFirst(s, e), x) => Contains(s, x)
           /\ \A x : x # e /\ Contains(s, x) => Contains(RemoveFirst(s, e), x)
           /\ \A x : Single(s, x) => Single(RemoveFirst(s, e), x)
           /\ Single(s, e) => ~ Contains(RemoveFirst(s, e), e)
<1>1. CASE ~ Contains(s, e)
  <2>1. RemoveFirst(s, e) = s
    BY <1>1 DEF RemoveFirst, Contains
  <2> QED BY <1>1, <2>1
<1>2. CASE Contains(s, e)
  <2>1. PICK i \in 1 .. Len(s) : s[i] = e /\ RemoveFirst(s, e) = RemoveAt(s, i)
    BY <1>2, RemoveFirstElems
  <2>. PICK r : r = RemoveAt(s, i)
    OBVIOUS
  <2>2. /\ r \in Seq(S) /\ Len(r) = Len(s) - 1
        /\ \A j \in 1 .. Len(s) - 1 : r[j] = IF j < i THEN s[j] ELSE s[j + 1]
    BY RemoveElems
  <2>3. DOMAIN r = 1 .. Len(r) /\ DOMAIN s = 1 .. Len(s)
    BY <2>2
  <2>4. ASSUME NEW j \in 1 .. Len(r)
        PROVE  \E k \in 1 .. Len(s) : k # i /\ r[j] = s[k] /\ k = IF j < i THEN j ELSE j + 1
    BY <2>2
  <2>5. ASSUME NEW x, Contains(r, x) PROVE Contains(s, x)
    BY <2>4, <2>5 DEF Contains
  <2>6. ASSUME NEW x, x # e, Contains(s, x) PROVE Contains(r, x)
    <3>1. PICK j \in 1 .. Len(s) : s[j] = x
      BY <2>6 DEF Contains
    <3>2. j # i
      BY <2>1, <2>6, <3>1
    <3>3. CASE j < i
      <4>1. j \in 1 .. Len(r) /\ r[j] = x
        BY <2>2, <3>1, <3>3
      <4> QED BY <4>1 DEF Contains
    <3>4. CASE j > i
      <4>1. j - 1 \in 1 .. Len(r) /\ r[j - 1] = x
        BY <2>2, <3>1, <3>4
      <4> QED BY <4>1 DEF Contains
    <3> QED BY <3>2, <3>3, <3>4
  <2>7. ASSUME NEW x, Single(s, x) PROVE Single(r, x)
    <3> SUFFICES ASSUME NEW j \in 1 .. Len(r), NEW k \in 1 .. Len(r), r[j] = x, r[k] = x
                 PROVE  j = k
      BY <2>3 DEF Single
    <3>1. PICK m \in 1 .. Len(s) : r[j] = s[m] /\ m = IF j < i THEN j ELSE j + 1
      BY <2>4
    <3>2. PICK n \in 1 .. Len(s) : r[k] = s[n] /\ n = IF k < i THEN k ELSE k + 1
      BY <2>4
    <3>3. m = n
      BY <2>3, <2>7, <3>1, <3>2 DEF Single
    <3> QED BY <3>1, <3>2, <3>3
  <2>8. Single(s, e) => ~ Contains(r, e)
    BY <2>1, <2>3, <2>4 DEF Single, Contains
  <2> QED BY <2>1, <2>2, <2>5, <2>6, <2>7, <2>8
<1> QED BY <1>1, <1>2

\* The first element that leaves a list.
LEMMA TailContains ==
    ASSUME NEW S, NEW s \in Seq(S), s # << >>
    PROVE  /\ Tail(s) \in Seq(S) /\ Head(s) \in S
           /\ Contains(s, Head(s))
           /\ \A x : Contains(Tail(s), x) => Contains(s, x)
           /\ \A x : x # Head(s) /\ Contains(s, x) => Contains(Tail(s), x)
           /\ \A x : Single(s, x) => Single(Tail(s), x)
           /\ Single(s, Head(s)) => ~ Contains(Tail(s), Head(s))
<1>. PICK r : r = Tail(s)
  OBVIOUS
<1>1. /\ r \in Seq(S) /\ Len(r) = Len(s) - 1 /\ Len(s) > 0
      /\ \A j \in 1 .. Len(r) : r[j] = s[j + 1]
      /\ Head(s) = s[1] /\ s[1] \in S
  OBVIOUS
<1>2. Contains(s, Head(s))
  BY <1>1 DEF Contains
<1>3. DOMAIN r = 1 .. Len(r) /\ DOMAIN s = 1 .. Len(s)
  BY <1>1
<1>4. ASSUME NEW j \in 1 .. Len(r)
      PROVE  j + 1 \in 1 .. Len(s) /\ r[j] = s[j + 1]
  BY <1>1
<1>5. ASSUME NEW x, Contains(r, x) PROVE Contains(s, x)
  BY <1>4, <1>5 DEF Contains
<1>6. ASSUME NEW x, x # Head(s), Contains(s, x) PROVE Contains(r, x)
  <2>1. PICK j \in 1 .. Len(s) : s[j] = x
    BY <1>6 DEF Contains
  <2>2. j - 1 \in 1 .. Len(r) /\ r[j - 1] = x
    BY <1>1, <1>6, <2>1
  <2> QED BY <2>2 DEF Contains
<1>7. ASSUME NEW x, Single(s, x) PROVE Single(r, x)
  <2> SUFFICES ASSUME NEW j \in 1 .. Len(r), NEW k \in 1 .. Len(r), r[j] = x, r[k] = x
               PROVE  j = k
    BY <1>3 DEF Single
  <2>1. j + 1 = k + 1
    BY <1>3, <1>4, <1>7 DEF Single
  <2> QED BY <2>1
<1>8. Single(s, Head(s)) => ~ Contains(r, Head(s))
  <2> SUFFICES ASSUME Single(s, Head(s)), NEW j \in 1 .. Len(r), r[j] = Head(s)
               PROVE  FALSE
    BY DEF Contains
  <2>1. j + 1 \in DOMAIN s /\ s[j + 1] = Head(s) /\ 1 \in DOMAIN s /\ s[1] = Head(s)
    BY <1>1, <1>3, <1>4
  <2> QED BY <2>1 DEF Single
<1> QED BY <1>1, <1>2, <1>5, <1>6, <1>7, <1>8

-----------------------------------------------------------------------------
(* The same for lists in which no element occurs twice, as sets.           *)

Distinct(s) == \A i, j \in DOMAIN s : s[i] = s[j] => i = j

LEMMA ToSetContains ==
    ASSUME NEW S, NEW s \in Seq(S)
    PROVE  /\ \A x : x \in ToSet(s) <=> Contains(s, x)
           /\ ToSet(s) \subseteq S
           /\ ToSet(s) = {} <=> s = << >>
<1>1. DOMAIN s = 1 .. Len(s) /\ \A i \in 1 .. Len(s) : s[i] \in S
  OBVIOUS
<1>2. ASSUME s # << >> PROVE s[1] \in ToSet(s)
  BY <1>1, <1>2 DEF ToSet
<1>3. ToSet(<< >>) = {}
  BY DEF ToSet
<1> QED BY <1>1, <1>2, <1>3 DEF ToSet, Contains

LEMMA DistinctSingle ==
    ASSUME NEW s PROVE Distinct(s) <=> \A x : Single(s, x)
BY DEF Distinct, Single

LEMMA EmptyList == ToSet(<< >>) = {} /\ Distinct(<< >>)
BY DEF ToSet, Distinct

LEMMA AppendSet ==
    ASSUME NEW S, NEW s \in Seq(S), NEW e \in S
    PROVE  /\ Append(s, e) \in Seq(S) /\ Append(s, e) # << >>
           /\ Len(Append(s, e)) = Len(s) + 1
           /\ ToSet(Append(s, e)) = ToSet(s) \cup {e}
           /\ Distinct(s) /\ e \notin ToSet(s) => Distinct(Append(s, e))
<1>. PICK r : r = Append(s, e)
  OBVIOUS
<1>1. /\ r \in Seq(S) /\ Len(r) = Len(s) + 1 /\ r[Len(s) + 1] = e
      /\ \A i \in 1 .. Len(s) : r[i] = s[i]
      /\ DOMAIN r = 1 .. Len(s) + 1 /\ DOMAIN s = 1 .. Len(s)
  OBVIOUS
<1>2. r # << >>
  BY <1>1
<1>3. ToSet(r) = ToSet(s) \cup {e}
  <2>1. ASSUME NEW x \in ToSet(r) PROVE x \in ToSet(s) \cup {e}
    BY <1>1, <2>1 DEF ToSet
  <2>2. ASSUME NEW x \in ToSet(s) PROVE x \in ToSet(r)
    <3>1. PICK i \in 1 .. Len(s) : x = s[i]
      BY <1>1 DEF ToSet
    <3> QED BY <1>1, <3>1 DEF ToSet
  <2>3. e \in ToSet(r)
    BY <1>1 DEF ToSet
  <2> QED BY <2>1, <2>2, <2>3
<1>4. ASSUME Distinct(s), e \notin ToSet(s) PROVE Distinct(r)
  BY <1>1, <1>4 DEF Distinct, ToSet
<1> QED BY <1>1, <1>2, <1>3, <1>4

LEMMA TailSet ==
    ASSUME NEW S, NEW s \in Seq(S), s # << >>
    PROVE  /\ Tail(s) \in Seq(S) /\ Head(s) \in S /\ Head(s) \in ToSet(s)
           /\ Len(Tail(s)) = Len(s) - 1
           /\ Distinct(s) => Distinct(Tail(s)) /\ ToSet(Tail(s)) = ToSet(s) \ {Head(s)}
<1>1. Tail(s) \in Seq(S) /\ Len(Tail(s)) = Len(s) - 1 /\ Head(s) \in S
  OBVIOUS
<1>2. Contains(s, Head(s))
  BY TailContains
<1>3. ASSUME Distinct(s)
      PROVE  Distinct(Tail(s)) /\ ToSet(Tail(s)) = ToSet(s) \ {Head(s)}
  <2>1. \A x : Single(s, x)
    BY <1>3, DistinctSingle
  <2>2. \A x : Single(Tail(s), x)
    BY <2>1, TailContains
  <2>3. \A x : Contains(Tail(s), x) <=> Contains(s, x) /\ x # Head(s)
    BY <2>1, TailContains
  <2>4. \A x : x \in ToSet(Tail(s)) <=> Contains(Tail(s), x)
    BY <1>1, ToSetContains
  <2>5. \A x : x \in ToSet(s) <=> Contains(s, x)
    BY ToSetContains
  <2>6. Distinct(Tail(s))
    BY <2>2, DistinctSingle
  <2> QED BY <2>3, <2>4, <2>5, <2>6
<1> QED BY <1>1, <1>2, <1>3, ToSetContains

LEMMA RemoveSet ==
    ASSUME NEW S, NEW s \in Seq(S), Distinct(s), NEW e
    PROVE  /\ RemoveFirst(s, e) \in Seq(S) /\ Distinct(RemoveFirst(s, e))
           /\ ToSet(RemoveFirst(s, e)) = ToSet(s) \ {e}
           /\ Len(RemoveFirst(s, e)) = Len(s) - IF e \in ToSet(s) THEN 1 ELSE 0
<1>1. \A x : Single(s, x)
  BY DistinctSingle
<1>2. RemoveFirst(s, e) \in Seq(S) /\ \A x : Single(RemoveFirst(s, e), x)
  BY <1>1, RemoveContains
<1>3. \A x : Contains(RemoveFirst(s, e), x) <=> Contains(s, x) /\ x # e
  BY <1>1, RemoveContains
<1>4. \A x : x \in ToSet(RemoveFirst(s, e)) <=> Contains(RemoveFirst(s, e), x)
  BY <1>2, ToSetContains
<1>5. \A x : x \in ToSet(s) <=> Contains(s, x)
  BY ToSetContains
<1>6. Distinct(RemoveFirst(s, e)) /\ ToSet(RemoveFirst(s, e)) = ToSet(s) \ {e}
  BY <1>2, <1>3, <1>4, <1>5, DistinctSingle
<1>7. CASE Contains(s, e)
  <2>1. PICK i \in 1 .. Len(s) : RemoveFirst(s, e) = RemoveAt(s, i)
    BY <1>7, RemoveFirstElems
  <2>2. Len(RemoveFirst(s, e)) = Len(s) - 1
    BY <2>1, RemoveElems
  <2> QED BY <1>2, <1>5, <1>6, <1>7, <2>2
<1>8. CASE ~ Contains(s, e)
  <2>1. RemoveFirst(s, e) = s
    BY <1>8 DEF RemoveFirst, Contains
  <2>2. Len(s) = Len(s) - 0
    OBVIOUS
  <2> QED BY <1>2, <1>5, <1>6, <1>8, <2>1, <2>2
<1> QED BY <1>7, <1>8

\* As many elements as places.
LEMMA DistinctSize ==
    ASSUME NEW S, NEW s \in Seq(S), Distinct(s)
    PROVE  IsFiniteSet(ToSet(s)) /\ Cardinality(ToSet(s)) = Len(s)
<1>1. DOMAIN s = 1 .. Len(s) /\ Len(s) \in Nat
  OBVIOUS
<1>2. s \in [1 .. Len(s) -> ToSet(s)]
  BY <1>1 DEF ToSet
<1>3. s \in Bijection(1 .. Len(s), ToSet(s))
  BY <1>1, <1>2 DEF Bijection, Injection, Surjection, IsInjective, Distinct, ToSet
<1>4. ExistsBijection(1 .. Len(s), ToSet(s))
  BY <1>3 DEF ExistsBijection
<1> QED BY <1>1, <1>4, FS_CountingElements, FS_NatBijection

\* What is left when the first n elements are gone.
LEMMA DropSet ==
    ASSUME NEW S, NEW s \in Seq(S), Distinct(s), NEW n \in 0 .. Len(s)
    PROVE  /\ SubSeq(s, n + 1, Len(s)) \in Seq(S) /\ Distinct(SubSeq(s, n + 1, Len(s)))
           /\ ToSet(SubSeq(s, n + 1, Len(s))) \subseteq ToSet(s)
           /\ \A i \in 1 .. n : s[i] \in ToSet(s) /\ s[i] \notin ToSet(SubSeq(s, n + 1, Len(s)))
           /\ Cardinality(ToSet(SubSeq(s, n + 1, Len(s)))) = Cardinality(ToSet(s)) - n
<1>. PICK r : r = SubSeq(s, n + 1, Len(s))
  OBVIOUS
<1>1. /\ r \in Seq(S) /\ Len(r) = Len(s) - n /\ Len(s) \in Nat
      /\ \A i \in 1 .. Len(s) - n : r[i] = s[n + i]
  OBVIOUS
<1>2. DOMAIN r = 1 .. Len(s) - n /\ DOMAIN s = 1 .. Len(s)
  BY <1>1
<1>3. ASSUME NEW i \in 1 .. Len(s) - n PROVE n + i \in 1 .. Len(s) /\ r[i] = s[n + i]
  BY <1>1
<1>4. Distinct(r)
  <2> SUFFICES ASSUME NEW i \in 1 .. Len(s) - n, NEW j \in 1 .. Len(s) - n, r[i] = r[j]
               PROVE  i = j
    BY <1>2 DEF Distinct
  <2>1. n + i = n + j
    BY <1>2, <1>3 DEF Distinct
  <2> QED BY <2>1
<1>5. ToSet(r) \subseteq ToSet(s)
  BY <1>2, <1>3 DEF ToSet
<1>6. ASSUME NEW i \in 1 .. n PROVE s[i] \in ToSet(s) /\ s[i] \notin ToSet(r)
  <2>1. i \in 1 .. Len(s)
    OBVIOUS
  <2>2. ASSUME s[i] \in ToSet(r) PROVE FALSE
    <3>1. PICK j \in 1 .. Len(s) - n : s[i] = r[j]
      BY <1>2, <2>2 DEF ToSet
    <3>2. i = n + j
      BY <1>2, <1>3, <2>1, <3>1 DEF Distinct
    <3> QED BY <3>2
  <2> QED BY <1>2, <2>1, <2>2 DEF ToSet
<1>7. Cardinality(ToSet(r)) = Len(r) /\ Cardinality(ToSet(s)) = Len(s)
  BY <1>1, <1>4, DistinctSize
<1> QED BY <1>1, <1>4, <1>5, <1>6, <1>7

LEMMA RemoveAtSet ==
    ASSUME NEW S, NEW s \in Seq(S), Distinct(s), NEW i \in 1 .. Len(s)
    PROVE  /\ RemoveAt(s, i) \in Seq(S) /\ Distinct(RemoveAt(s, i))
           /\ ToSet(RemoveAt(s, i)) = ToSet(s) \ {s[i]}
<1>. PICK r : r = RemoveAt(s, i)
  OBVIOUS
<1>1. /\ r \in Seq(S) /\ Len(r) = Len(s) - 1 /\ Len(s) \in Nat
      /\ \A j \in 1 .. Len(s) - 1 : r[j] = IF j < i THEN s[j] ELSE s[j + 1]
  BY RemoveElems
<1>2. DOMAIN r = 1 .. Len(s) - 1 /\ DOMAIN s = 1 .. Len(s)
  BY <1>1
<1>3. ASSUME NEW j \in 1 .. Len(s) - 1
      PROVE  \E k \in 1 .. Len(s) : k # i /\ r[j] = s[k] /\ k = IF j < i THEN j ELSE j + 1
  BY <1>1
<1>4. Distinct(r)
  <2> SUFFICES ASSUME NEW j \in 1 .. Len(s) - 1, NEW k \in 1 .. Len(s) - 1, r[j] = r[k]
               PROVE  j = k
    BY <1>2 DEF Distinct
  <2>1. PICK a \in 1 .. Len(s) : r[j] = s[a] /\ a = IF j < i THEN j ELSE j + 1
    BY <1>3
  <2>2. PICK b \in 1 .. Len(s) : r[k] = s[b] /\ b = IF k < i THEN k ELSE k + 1
    BY <1>3
  <2>3. a = b
    BY <1>2, <2>1, <2>2 DEF Distinct
  <2> QED BY <2>1, <2>2, <2>3
<1>5. ASSUME NEW x \in ToSet(r) PROVE x \in ToSet(s) /\ x # s[i]
  <2>1. PICK j \in 1 .. Len(s) - 1 : x = r[j]
    BY <1>2 DEF ToSet
  <2>2. PICK k \in 1 .. Len(s) : k # i /\ r[j] = s[k]
    BY <1>3
  <2> QED BY <1>2, <2>1, <2>2 DEF ToSet, Distinct
<1>6. ASSUME NEW x \in ToSet(s), x # s[i] PROVE x \in ToSet(r)
  <2>1. PICK k \in 1 .. Len(s) : x = s[k]
    BY <1>2 DEF ToSet
  <2>2. CASE k < i
    <3>1. k \in 1 .. Len(s) - 1 /\ r[k] = x
      BY <1>1, <2>1, <2>2
    <3> QED BY <1>2, <3>1 DEF ToSet
  <2>3. CASE k > i
    <3>1. k - 1 \in 1 .. Len(s) - 1 /\ r[k - 1] = x
      BY <1>1, <2>1, <2>3
    <3> QED BY <1>2, <3>1 DEF ToSet
  <2> QED BY <1>6, <2>1, <2>2, <2>3
<1> QED BY <1>1, <1>4, <1>5, <1>6

LEMMA InsertSet ==
    ASSUME NEW S, NEW s \in Seq(S), Distinct(s), NEW i \in 1 .. Len(s) + 1, NEW e \in S,
           e \notin ToSet(s)
    PROVE  /\ InsertAt(s, i, e) \in Seq(S) /\ Distinct(InsertAt(s, i, e))
           /\ ToSet(InsertAt(s, i, e)) = ToSet(s) \cup {e}
<1>1. \A x : Single(s, x)
  BY DistinctSingle
<1>2. ~ Contains(s, e)
  BY ToSetContains
<1>3. /\ InsertAt(s, i, e) \in Seq(S)
      /\ \A x : Contains(InsertAt(s, i, e), x) <=> x = e \/ Contains(s, x)
      /\ \A x : x # e /\ Single(s, x) => Single(InsertAt(s, i, e), x)
      /\ ~ Contains(s, e) => Single(InsertAt(s, i, e), e)
  BY InsertContains
<1>4. \A x : Single(InsertAt(s, i, e), x)
  BY <1>1, <1>2, <1>3
<1>5. \A x : x \in ToSet(InsertAt(s, i, e)) <=> Contains(InsertAt(s, i, e), x)
  BY <1>3, ToSetContains
<1>6. \A x : x \in ToSet(s) <=> Contains(s, x)
  BY ToSetContains
<1> QED BY <1>3, <1>4, <1>5, <1>6, DistinctSingle

\* The places of a finite set of numbers, in their order, are numbered from 1.
LEMMA Ranks ==
    ASSUME NEW L \in SUBSET Nat, IsFiniteSet(L)
    PROVE  /\ Cardinality(L) \in Nat
           /\ \A k \in 1 .. Cardinality(L) : \E i \in L : Cardinality({j \in L : j <= i}) = k
           /\ \A i \in L : Cardinality({j \in L : j <= i}) \in 1 .. Cardinality(L)
           /\ \A i, j \in L : Cardinality({x \in L : x <= i}) = Cardinality({x \in L : x <= j}) => i = j
<1> DEFINE Up(i) == {j \in L : j <= i}
           rank == [i \in L |-> Cardinality(Up(i))]
           n == Cardinality(L)
<1>1. n \in Nat
  BY FS_CardinalityType
<1>2. ASSUME NEW i \in L
      PROVE  IsFiniteSet(Up(i)) /\ Cardinality(Up(i)) \in 1 .. n
  <2>1. Up(i) \in SUBSET L /\ {i} \in SUBSET Up(i)
    OBVIOUS
  <2>2. IsFiniteSet(Up(i)) /\ Cardinality(Up(i)) <= n
    BY <2>1, FS_Subset
  <2>3. Cardinality({i}) <= Cardinality(Up(i)) /\ Cardinality({i}) = 1
    BY <2>1, <2>2, FS_Subset, FS_Singleton
  <2>4. Cardinality(Up(i)) \in Nat
    BY <2>2, FS_CardinalityType
  <2> QED BY <1>1, <2>2, <2>3, <2>4
<1>3. ASSUME NEW i \in L, NEW j \in L, i < j
      PROVE  Cardinality(Up(i)) # Cardinality(Up(j))
  <2>0. i \in Nat /\ j \in Nat /\ \A x \in L : x \in Nat
    OBVIOUS
  <2>1. ASSUME NEW x \in L, x <= i PROVE x <= j
    BY <1>3, <2>0, <2>1
  <2>4. j <= j /\ ~ (j <= i)
    BY <1>3, <2>0
  <2>5. Up(i) \subseteq Up(j) /\ j \in Up(j) /\ j \notin Up(i)
    BY <2>1, <2>4
  <2>2. Up(i) # Up(j)
    BY <2>5
  <2>3. Up(i) \in SUBSET Up(j)
    BY <2>5
  <2> QED BY <1>2, <2>2, <2>3, FS_Subset
<1>4. ASSUME NEW i \in L, NEW j \in L, Cardinality(Up(i)) = Cardinality(Up(j))
      PROVE  i = j
  <2>1. i \in Nat /\ j \in Nat
    OBVIOUS
  <2> QED BY <1>3, <1>4, <2>1
<1>5. rank \in Injection(L, 1 .. n)
  <2>1. rank \in [L -> 1 .. n]
    BY <1>2
  <2>2. \A i, j \in L : rank[i] = rank[j] => i = j
    BY <1>4
  <2>3. DOMAIN rank = L
    OBVIOUS
  <2> QED BY <2>1, <2>2, <2>3 DEF Injection, IsInjective
<1>6. IsFiniteSet(1 .. n) /\ Cardinality(1 .. n) = n
  BY <1>1, FS_Interval
<1>7. rank \in Surjection(L, 1 .. n)
  BY <1>5, <1>6, FS_Injection
<1>8. \A k \in 1 .. n : \E i \in L : rank[i] = k
  BY <1>7 DEF Surjection
<1> QED BY <1>1, <1>2, <1>4, <1>8
=============================================================================
