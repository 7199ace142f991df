----------------------------- MODULE ListFacts -----------------------------
(***************************************************************************)
(* Facts about lists that the proofs of several components need: what a    *)
(* list holds, and holds once, after an element has been added or taken    *)
(* away; and about numbers: least ones, induction, quotients.               *)
(***************************************************************************)
EXTENDS Integers, Sequences, FiniteSets, SequencesExt,
        TLAPS, FiniteSetTheorems, SequenceTheorems, WellFoundedInduction

\* The list holds e; no element stands in it twice.
On(list, e) == \E i \in DOMAIN list : list[i] = e
Once(list) == \A i, j \in DOMAIN list : list[i] = list[j] => i = j

\* A condition as a number, to say that of several exactly one holds.
One(b) == IF b THEN 1 ELSE 0

\* Every set of natural numbers but the empty one has a least member.
LEMMA LeastNumber ==
  ASSUME NEW T, T \subseteq Nat, T # {}
  PROVE  \E m \in T : \A n \in T : m <= n
<1> DEFINE R == OpToRel(<, Nat)
<1>1. \E m \in T : \A n \in T : <<n, m>> \notin R
  <2>1. IsWellFoundedOn(R, Nat)
    BY NatLessThanWellFounded
  <2> HIDE DEF R
  <2> QED
    BY <2>1, WFMin
<1>2. \A m, n \in Nat : n < m => <<n, m>> \in {ss \in Nat \X Nat : ss[1] < ss[2]}
  OBVIOUS
<1>3. \A m, n \in Nat : n < m => <<n, m>> \in R
  BY <1>2 DEF OpToRel
<1> HIDE DEF R
<1>4. PICK m \in T : \A n \in T : <<n, m>> \notin R
  BY <1>1
<1>5. ASSUME NEW n \in T PROVE m <= n
  <2>1. m \in Nat /\ n \in Nat /\ ~ (n < m)
    BY <1>3, <1>4
  <2> QED
    BY <2>1
<1> QED
  BY <1>5

\* A list without the element at place i.
LEMMA RemoveAtProperties ==
  ASSUME NEW S, NEW s \in Seq(S), NEW i \in DOMAIN s
  PROVE  /\ RemoveAt(s, i) \in Seq(S)
         /\ Len(RemoveAt(s, i)) = Len(s) - 1
         /\ \A j \in 1 .. Len(s) - 1 : RemoveAt(s, i)[j] = IF j < i THEN s[j] ELSE s[j + 1]
<1> DEFINE a == SubSeq(s, 1, i - 1)
           b == SubSeq(s, i + 1, Len(s))
<1>1. /\ Len(s) \in Nat /\ DOMAIN s = 1 .. Len(s) /\ i \in 1 .. Len(s)
      /\ \A j \in 1 .. Len(s) : s[j] \in S
  BY LenProperties, ElementOfSeq
<1>2. /\ a \in Seq(S) /\ Len(a) = i - 1
      /\ \A j \in 1 .. i - 1 : a[j] = s[j]
  BY <1>1, SubSeqProperties
<1>3. /\ b \in Seq(S) /\ Len(b) = Len(s) - i
      /\ \A j \in 1 .. Len(s) - i : b[j] = s[j + i]
  <2>1. /\ b \in Seq(S) /\ Len(b) = Len(s) - i
        /\ \A j \in 1 .. Len(s) - (i + 1) + 1 : b[j] = s[(i + 1) + j - 1]
    BY <1>1, SubSeqProperties
  <2> QED
    BY <1>1, <2>1
<1>4. RemoveAt(s, i) = a \o b
  BY DEF RemoveAt
<1> HIDE DEF a, b
<1>5. /\ a \o b \in Seq(S) /\ Len(a \o b) = Len(a) + Len(b)
      /\ \A j \in 1 .. Len(a) + Len(b) :
           (a \o b)[j] = IF j <= Len(a) THEN a[j] ELSE b[j - Len(a)]
  BY <1>2, <1>3, ConcatProperties
<1>6. Len(RemoveAt(s, i)) = Len(s) - 1 /\ Len(a) + Len(b) = Len(s) - 1
  BY <1>1, <1>2, <1>3, <1>4, <1>5
<1>7. ASSUME NEW j \in 1 .. Len(s) - 1
      PROVE  (a \o b)[j] = IF j < i THEN s[j] ELSE s[j + 1]
  <2>1. CASE j < i
    BY <1>1, <1>2, <1>5, <1>6, <2>1
  <2>2. CASE ~ (j < i)
    <3>1. j - (i - 1) \in 1 .. Len(s) - i /\ (j - (i - 1)) + i = j + 1
      BY <1>1, <2>2
    <3>2. j \in 1 .. Len(a) + Len(b) /\ ~ (j <= Len(a)) /\ Len(a) = i - 1
      BY <1>1, <1>2, <1>6, <2>2
    <3>3. (a \o b)[j] = b[j - (i - 1)]
      BY <1>5, <3>2
    <3>4. b[j - (i - 1)] = s[(j - (i - 1)) + i]
      BY <1>3, <3>1
    <3> QED
      BY <2>2, <3>1, <3>3, <3>4
  <2> QED
    BY <2>1, <2>2
<1> QED
  BY <1>4, <1>5, <1>6, <1>7

\* A list that holds each element once, without one of them.
LEMMA RemovedOnce ==
  ASSUME NEW S, NEW s \in Seq(S), Once(s), NEW i \in DOMAIN s
  PROVE  /\ RemoveAt(s, i) \in Seq(S)
         /\ Once(RemoveAt(s, i))
         /\ \A e : On(RemoveAt(s, i), e) <=> On(s, e) /\ e # s[i]
<1> DEFINE r == RemoveAt(s, i)
<1>1. /\ r \in Seq(S) /\ Len(r) = Len(s) - 1
      /\ \A j \in 1 .. Len(s) - 1 : r[j] = IF j < i THEN s[j] ELSE s[j + 1]
  BY RemoveAtProperties
<1>2. /\ Len(s) \in Nat /\ DOMAIN s = 1 .. Len(s) /\ i \in 1 .. Len(s)
      /\ DOMAIN r = 1 .. Len(s) - 1
  BY <1>1, LenProperties
<1> HIDE DEF r
<1>3. Once(r)
  BY <1>1, <1>2 DEF Once
<1>4. ASSUME NEW e, On(r, e) PROVE On(s, e) /\ e # s[i]
  <2>1. PICK j \in 1 .. Len(s) - 1 : r[j] = e
    BY <1>2, <1>4 DEF On
  <2> QED
    BY <1>1, <1>2, <2>1 DEF On, Once
<1>5. ASSUME NEW e, On(s, e), e # s[i] PROVE On(r, e)
  <2>1. PICK j \in 1 .. Len(s) : s[j] = e
    BY <1>2, <1>5 DEF On
  <2>2. CASE j < i
    BY <1>1, <1>2, <2>1, <2>2 DEF On
  <2>3. CASE j > i
    <3>1. j - 1 \in 1 .. Len(s) - 1 /\ r[j - 1] = e
      BY <1>1, <1>2, <2>1, <2>3
    <3> QED
      BY <1>2, <3>1 DEF On
  <2> QED
    BY <1>2, <1>5, <2>1, <2>2, <2>3
<1> QED
  BY <1>1, <1>3, <1>4, <1>5 DEF r

\* A list that holds each element once, with a new one at its end.
LEMMA AppendedOnce ==
  ASSUME NEW S, NEW s \in Seq(S), NEW e \in S
  PROVE  /\ Append(s, e) \in Seq(S)
         /\ \A f : On(Append(s, e), f) <=> On(s, f) \/ f = e
         /\ Once(s) /\ ~ On(s, e) => Once(Append(s, e))
<1>1. /\ Append(s, e) \in Seq(S) /\ Len(Append(s, e)) = Len(s) + 1
      /\ DOMAIN Append(s, e) = 1 .. Len(s) + 1
      /\ \A i \in 1 .. Len(s) : Append(s, e)[i] = s[i]
      /\ Append(s, e)[Len(s) + 1] = e
      /\ Len(s) \in Nat /\ DOMAIN s = 1 .. Len(s)
  BY LenProperties, AppendProperties
<1> DEFINE a == Append(s, e)
<1> HIDE DEF a
<1>2. \A i \in 1 .. Len(s) + 1 : i \in 1 .. Len(s) \/ i = Len(s) + 1
  BY <1>1
<1>3. \A f : On(a, f) <=> On(s, f) \/ f = e
  BY <1>1, <1>2 DEF On, a
<1>4. Once(s) /\ ~ On(s, e) => Once(a)
  BY <1>1, <1>2 DEF On, Once, a
<1> QED
  BY <1>1, <1>3, <1>4 DEF a

\* A list that holds each element once, without its first one.
LEMMA TailOnce ==
  ASSUME NEW S, NEW s \in Seq(S), s # <<>>
  PROVE  /\ Tail(s) \in Seq(S) /\ Head(s) \in S /\ On(s, Head(s))
         /\ Len(s) \in Nat \ {0} /\ Len(Tail(s)) = Len(s) - 1
         /\ Once(s) => Once(Tail(s)) /\ \A f : On(Tail(s), f) <=> On(s, f) /\ f # Head(s)
<1>1. /\ Tail(s) \in Seq(S) /\ Head(s) \in S /\ Len(Tail(s)) = Len(s) - 1
      /\ \A i \in 1 .. Len(Tail(s)) : Tail(s)[i] = s[i + 1]
  BY HeadTailProperties
<1>2. /\ Len(s) \in Nat \ {0} /\ DOMAIN s = 1 .. Len(s)
      /\ DOMAIN Tail(s) = 1 .. Len(s) - 1
      /\ Head(s) = s[1]
  BY <1>1, LenProperties, EmptySeq
<1> DEFINE t == Tail(s)
           h == Head(s)
<1> HIDE DEF t, h
<1>3. On(s, h)
  BY <1>2 DEF On, h
<1>4. ASSUME Once(s) PROVE Once(t) /\ \A f : On(t, f) <=> On(s, f) /\ f # h
  <2>1. Once(t)
    BY <1>1, <1>2, <1>4 DEF Once, t
  <2>2. ASSUME NEW f, On(t, f) PROVE On(s, f) /\ f # h
    BY <1>1, <1>2, <1>4, <2>2 DEF Once, On, t, h
  <2>3. ASSUME NEW f, On(s, f), f # h PROVE On(t, f)
    <3>1. PICK i \in 1 .. Len(s) : s[i] = f
      BY <1>2, <2>3 DEF On
    <3>2. i - 1 \in 1 .. Len(s) - 1 /\ t[i - 1] = f
      BY <1>1, <1>2, <2>3, <3>1 DEF t, h
    <3> QED
      BY <1>2, <3>2 DEF On, t
  <2> QED
    BY <2>1, <2>2, <2>3
<1> QED
  BY <1>1, <1>2, <1>3, <1>4 DEF t, h

\* A list with an element inserted at place i.
LEMMA InsertAtProperties ==
  ASSUME NEW S, NEW s \in Seq(S), NEW e \in S, NEW i \in 1 .. Len(s) + 1
  PROVE  /\ InsertAt(s, i, e) \in Seq(S)
         /\ Len(InsertAt(s, i, e)) = Len(s) + 1
         /\ \A j \in 1 .. Len(s) + 1 :
              InsertAt(s, i, e)[j] = IF j < i THEN s[j] ELSE IF j = i THEN e ELSE s[j - 1]
<1> DEFINE a == SubSeq(s, 1, i - 1)
           b == SubSeq(s, i, Len(s))
           m == <<e>>
<1>1. /\ Len(s) \in Nat /\ DOMAIN s = 1 .. Len(s) /\ i \in Nat /\ 1 <= i /\ i <= Len(s) + 1
      /\ \A j \in 1 .. Len(s) : s[j] \in S
  BY LenProperties, ElementOfSeq
<1>2. /\ a \in Seq(S) /\ Len(a) = i - 1
      /\ \A j \in 1 .. i - 1 : a[j] = s[j]
  BY <1>1, SubSeqProperties
<1>3. /\ b \in Seq(S) /\ Len(b) = Len(s) - i + 1
      /\ \A j \in 1 .. Len(s) - i + 1 : b[j] = s[i + j - 1]
  BY <1>1, SubSeqProperties
<1>4. m \in Seq(S) /\ Len(m) = 1 /\ m[1] = e
  OBVIOUS
<1>5. InsertAt(s, i, e) = a \o m \o b
  BY DEF InsertAt
<1> HIDE DEF a, b, m
<1> DEFINE am == a \o m
<1>6. /\ am \in Seq(S) /\ Len(am) = i
      /\ \A j \in 1 .. i : am[j] = IF j < i THEN s[j] ELSE e
  <2>1. /\ am \in Seq(S) /\ Len(am) = Len(a) + Len(m)
        /\ \A j \in 1 .. Len(a) + Len(m) :
             am[j] = IF j <= Len(a) THEN a[j] ELSE m[j - Len(a)]
    BY <1>2, <1>4, ConcatProperties
  <2> QED
    BY <1>1, <1>2, <1>4, <2>1
<1> HIDE DEF am
<1> DEFINE r == am \o b
<1>7. /\ r \in Seq(S) /\ Len(r) = Len(am) + Len(b)
      /\ \A j \in 1 .. Len(am) + Len(b) :
           r[j] = IF j <= Len(am) THEN am[j] ELSE b[j - Len(am)]
  BY <1>3, <1>6, ConcatProperties
<1> HIDE DEF r
<1>8. Len(r) = Len(s) + 1
  BY <1>1, <1>3, <1>6, <1>7
<1>9. ASSUME NEW j \in 1 .. Len(s) + 1
      PROVE  r[j] = IF j < i THEN s[j] ELSE IF j = i THEN e ELSE s[j - 1]
  <2>1. CASE j <= i
    BY <1>1, <1>3, <1>6, <1>7, <2>1
  <2>2. CASE j > i
    <3>1. j - i \in 1 .. Len(s) - i + 1 /\ i + (j - i) - 1 = j - 1 /\ r[j] = b[j - i]
      BY <1>1, <1>3, <1>6, <1>7, <2>2
    <3>2. b[j - i] = s[i + (j - i) - 1]
      BY <1>3, <3>1
    <3> QED
      BY <1>1, <2>2, <3>1, <3>2
  <2> QED
    BY <1>1, <2>1, <2>2
<1> QED
  BY <1>5, <1>7, <1>8, <1>9 DEF r, am

\* A list that holds each element once, with a new one inserted.
LEMMA InsertedOnce ==
  ASSUME NEW S, NEW s \in Seq(S), NEW e \in S, NEW i \in 1 .. Len(s) + 1
  PROVE  /\ InsertAt(s, i, e) \in Seq(S)
         /\ \A f : On(InsertAt(s, i, e), f) <=> On(s, f) \/ f = e
         /\ Once(s) /\ ~ On(s, e) => Once(InsertAt(s, i, e))
<1> DEFINE r == InsertAt(s, i, e)
<1>1. /\ r \in Seq(S) /\ Len(r) = Len(s) + 1
      /\ \A j \in 1 .. Len(s) + 1 :
           r[j] = IF j < i THEN s[j] ELSE IF j = i THEN e ELSE s[j - 1]
  BY InsertAtProperties
<1>2. /\ Len(s) \in Nat /\ DOMAIN s = 1 .. Len(s) /\ i \in 1 .. Len(s) + 1
      /\ DOMAIN r = 1 .. Len(s) + 1
  BY <1>1, LenProperties
<1> HIDE DEF r
<1>3. ASSUME NEW f, On(r, f) PROVE On(s, f) \/ f = e
  <2>1. PICK j \in 1 .. Len(s) + 1 : r[j] = f
    BY <1>2, <1>3 DEF On
  <2>2. CASE j < i
    BY <1>1, <1>2, <2>1, <2>2 DEF On
  <2>3. CASE j > i
    <3>1. j - 1 \in 1 .. Len(s) /\ s[j - 1] = f
      BY <1>1, <1>2, <2>1, <2>3
    <3> QED
      BY <1>2, <3>1 DEF On
  <2> QED
    BY <1>1, <1>2, <2>1, <2>2, <2>3
<1>4. ASSUME NEW f, On(s, f) PROVE On(r, f)
  <2>1. PICK j \in 1 .. Len(s) : s[j] = f
    BY <1>2, <1>4 DEF On
  <2>2. CASE j < i
    BY <1>1, <1>2, <2>1, <2>2 DEF On
  <2>3. CASE j >= i
    <3>1. j + 1 \in 1 .. Len(s) + 1 /\ r[j + 1] = f
      <4>1. j + 1 \in 1 .. Len(s) + 1 /\ ~ (j + 1 < i) /\ j + 1 # i /\ (j + 1) - 1 = j
        BY <1>2, <2>3
      <4>2. r[j + 1] = s[(j + 1) - 1]
        BY <1>1, <4>1
      <4> QED
        BY <2>1, <4>1, <4>2
    <3> QED
      BY <1>2, <3>1 DEF On
  <2> QED
    BY <1>2, <2>2, <2>3
<1>5. On(r, e)
  BY <1>1, <1>2 DEF On
<1>6. ASSUME Once(s), ~ On(s, e) PROVE Once(r)
  <2>1. ASSUME NEW j \in 1 .. Len(s) + 1, NEW k \in 1 .. Len(s) + 1, r[j] = r[k], j < k
        PROVE  FALSE
    <3>1. \A l \in 1 .. Len(s) : s[l] # e
      BY <1>2, <1>6 DEF On
    <3>2. \A l, m \in 1 .. Len(s) : s[l] = s[m] => l = m
      BY <1>2, <1>6 DEF Once
    <3>3. k < i => k \in 1 .. Len(s)
      BY <1>2
    <3>4. k > i => k - 1 \in 1 .. Len(s)
      BY <1>2
    <3>5. j < i => j \in 1 .. Len(s)
      BY <1>2
    <3>6. j > i => j - 1 \in 1 .. Len(s)
      BY <1>2
    <3>7. CASE k < i
      BY <1>1, <1>2, <2>1, <3>2, <3>3, <3>5, <3>7
    <3>8. CASE k = i
      BY <1>1, <1>2, <2>1, <3>1, <3>5, <3>8
    <3>9. CASE k > i
      BY <1>1, <1>2, <2>1, <3>1, <3>2, <3>4, <3>5, <3>6, <3>9
    <3> QED
      BY <1>2, <3>7, <3>8, <3>9
  <2>2. \A j, k \in 1 .. Len(s) + 1 : j < k \/ k < j \/ j = k
    BY <1>2
  <2>3. \A j, k \in 1 .. Len(s) + 1 : r[j] = r[k] => j = k
    BY <2>1, <2>2
  <2> QED
    BY <1>2, <2>3 DEF Once
<1> QED
  BY <1>1, <1>3, <1>4, <1>5, <1>6 DEF r

\* How often an element stands in a list that holds each once.
LEMMA OnceCounted ==
  ASSUME NEW list, Once(list), NEW e
  PROVE  Cardinality({i \in DOMAIN list : list[i] = e}) = IF On(list, e) THEN 1 ELSE 0
<1>1. CASE On(list, e)
  <2>1. PICK k \in DOMAIN list : list[k] = e
    BY <1>1 DEF On
  <2>2. {i \in DOMAIN list : list[i] = e} = {k}
    BY <2>1 DEF Once
  <2> QED
    BY <1>1, <2>2, FS_Singleton
<1>2. CASE ~ On(list, e)
  <2>1. {i \in DOMAIN list : list[i] = e} = {}
    BY <1>2 DEF On
  <2> QED
    BY <1>2, <2>1, FS_EmptySet
<1> QED
  BY <1>1, <1>2

\* A list holds no more elements than it is long.
LEMMA HeldCounted ==
  ASSUME NEW S, NEW s \in Seq(S)
  PROVE  /\ IsFiniteSet({e \in S : On(s, e)})
         /\ Cardinality({e \in S : On(s, e)}) <= Len(s)
<1> DEFINE T == {e \in S : On(s, e)}
<1>1. /\ Len(s) \in Nat /\ DOMAIN s = 1 .. Len(s)
      /\ \A i \in 1 .. Len(s) : s[i] \in S
  BY LenProperties, ElementOfSeq
<1> DEFINE f == [i \in 1 .. Len(s) |-> s[i]]
<1>2. f \in Surjection(1 .. Len(s), T)
  <2>1. f \in [1 .. Len(s) -> T]
    BY <1>1 DEF On
  <2>2. \A e \in T : \E i \in 1 .. Len(s) : f[i] = e
    BY <1>1 DEF On
  <2> QED
    BY <2>1, <2>2 DEF Surjection
<1> HIDE DEF f, T
<1>3. IsFiniteSet(1 .. Len(s)) /\ Cardinality(1 .. Len(s)) = Len(s)
  <2>1. \A b \in Nat : IsFiniteSet(1 .. b)
                     /\ Cardinality(1 .. b) = IF 1 > b THEN 0 ELSE b - 1 + 1
    BY FS_Interval
  <2> QED
    BY <1>1, <2>1
<1>4. IsFiniteSet(T) /\ Cardinality(T) <= Cardinality(1 .. Len(s))
  BY <1>2, <1>3, FS_Surjection
<1> QED
  BY <1>3, <1>4 DEF T

\* A list that holds each element once, without its last one.
LEMMA FrontOnce ==
  ASSUME NEW S, NEW s \in Seq(S), s # <<>>, Once(s)
  PROVE  /\ Front(s) \in Seq(S) /\ Last(s) \in S /\ On(s, Last(s))
         /\ Once(Front(s)) /\ \A f : On(Front(s), f) <=> On(s, f) /\ f # Last(s)
<1> DEFINE t == SubSeq(s, 1, Len(s) - 1)
           l == s[Len(s)]
<1>1. /\ Len(s) \in Nat \ {0} /\ DOMAIN s = 1 .. Len(s)
      /\ \A i \in 1 .. Len(s) : s[i] \in S
  BY LenProperties, ElementOfSeq, EmptySeq
<1>2. /\ t \in Seq(S) /\ Len(t) = Len(s) - 1
      /\ \A i \in 1 .. Len(s) - 1 : t[i] = s[i]
  BY <1>1, SubSeqProperties
<1>3. DOMAIN t = 1 .. Len(s) - 1
  BY <1>1, <1>2, LenProperties
<1>4. Front(s) = t /\ Last(s) = l
  BY DEF Front, Last
<1> HIDE DEF t
<1>5. l \in S /\ On(s, l)
  BY <1>1 DEF On
<1>6. Once(t)
  BY <1>1, <1>2, <1>3 DEF Once
<1>7. ASSUME NEW f, On(t, f) PROVE On(s, f) /\ f # l
  <2>1. PICK i \in 1 .. Len(s) - 1 : t[i] = f
    BY <1>3, <1>7 DEF On
  <2>2. i \in 1 .. Len(s) /\ i # Len(s) /\ Len(s) \in 1 .. Len(s)
    <3>1. \A n \in Nat \ {0} : n \in 1 .. n /\ \A k \in 1 .. n - 1 : k \in 1 .. n /\ k # n
      OBVIOUS
    <3> QED
      BY <1>1, <3>1
  <2>3. s[i] = f
    BY <1>2, <2>1
  <2> QED
    BY <1>1, <2>2, <2>3 DEF On, Once
<1>8. ASSUME NEW f, On(s, f), f # l PROVE On(t, f)
  <2>1. PICK i \in 1 .. Len(s) : s[i] = f
    BY <1>1, <1>8 DEF On
  <2>2. i \in 1 .. Len(s) - 1
    BY <1>1, <1>8, <2>1
  <2> QED
    BY <1>2, <1>3, <2>1, <2>2 DEF On
<1> QED
  BY <1>2, <1>4, <1>5, <1>6, <1>7, <1>8

\* A list that holds each element once, with a new one before the others.
LEMMA PrependedOnce ==
  ASSUME NEW S, NEW s \in Seq(S), NEW e \in S
  PROVE  /\ <<e>> \o s \in Seq(S)
         /\ \A f : On(<<e>> \o s, f) <=> On(s, f) \/ f = e
         /\ Once(s) /\ ~ On(s, e) => Once(<<e>> \o s)
<1> DEFINE r == <<e>> \o s
<1>1. /\ <<e>> \in Seq(S) /\ Len(<<e>>) = 1 /\ <<e>>[1] = e
  OBVIOUS
<1>2. /\ r \in Seq(S) /\ Len(r) = 1 + Len(s)
      /\ \A j \in 1 .. 1 + Len(s) : r[j] = IF j <= 1 THEN <<e>>[j] ELSE s[j - 1]
  BY <1>1, ConcatProperties
<1>3. /\ Len(s) \in Nat /\ DOMAIN s = 1 .. Len(s) /\ DOMAIN r = 1 .. 1 + Len(s)
  BY <1>2, LenProperties
<1> HIDE DEF r
<1>4. /\ r[1] = e
      /\ \A j \in 1 .. Len(s) : r[j + 1] = s[j] /\ j + 1 \in 1 .. 1 + Len(s)
      /\ \A j \in 1 .. 1 + Len(s) : j = 1 \/ (j - 1 \in 1 .. Len(s) /\ r[j] = s[j - 1])
  <2>1. r[1] = e
    BY <1>1, <1>2, <1>3
  <2>2. ASSUME NEW j \in 1 .. Len(s) PROVE r[j + 1] = s[j] /\ j + 1 \in 1 .. 1 + Len(s)
    <3>1. j + 1 \in 1 .. 1 + Len(s) /\ ~ (j + 1 <= 1) /\ (j + 1) - 1 = j
      BY <1>3
    <3> QED
      BY <1>2, <3>1
  <2>3. ASSUME NEW j \in 1 .. 1 + Len(s), j # 1
        PROVE  j - 1 \in 1 .. Len(s) /\ r[j] = s[j - 1]
    BY <1>2, <1>3, <2>3
  <2> QED
    BY <2>1, <2>2, <2>3
<1>5. ASSUME NEW f, On(r, f) PROVE On(s, f) \/ f = e
  BY <1>3, <1>4, <1>5 DEF On
<1>6. ASSUME NEW f, On(s, f) PROVE On(r, f)
  <2>1. PICK j \in 1 .. Len(s) : s[j] = f
    BY <1>3, <1>6 DEF On
  <2> QED
    BY <1>3, <1>4, <2>1 DEF On
<1>7. On(r, e)
  <2>1. 1 \in 1 .. 1 + Len(s)
    BY <1>3
  <2> QED
    BY <1>3, <1>4, <2>1 DEF On
<1>8. ASSUME Once(s), ~ On(s, e) PROVE Once(r)
  <2>1. ASSUME NEW j \in 1 .. 1 + Len(s), NEW k \in 1 .. 1 + Len(s), r[j] = r[k]
        PROVE  j = k
    <3>1. CASE j = 1 /\ k # 1
      BY <1>3, <1>4, <1>8, <2>1, <3>1 DEF On
    <3>2. CASE j # 1 /\ k = 1
      BY <1>3, <1>4, <1>8, <2>1, <3>2 DEF On
    <3>3. CASE j # 1 /\ k # 1
      <4>1. j - 1 \in 1 .. Len(s) /\ k - 1 \in 1 .. Len(s) /\ s[j - 1] = s[k - 1]
        BY <1>4, <2>1, <3>3
      <4>2. j - 1 = k - 1
        BY <1>3, <1>8, <4>1 DEF Once
      <4> QED
        BY <1>3, <4>2
    <3> QED
      BY <3>1, <3>2, <3>3
  <2> QED
    BY <1>3, <2>1 DEF Once
<1> QED
  BY <1>2, <1>5, <1>6, <1>7, <1>8 DEF r

\* A list that holds each element once, without the one that is looked up.
LEMMA FoundRemoved ==
  ASSUME NEW S, NEW s \in Seq(S), Once(s), NEW e, On(s, e)
  PROVE  LET r == RemoveAt(s, CHOOSE i \in DOMAIN s : s[i] = e)
         IN /\ r \in Seq(S) /\ Once(r)
            /\ \A f : On(r, f) <=> On(s, f) /\ f # e
<1>1. \E i \in DOMAIN s : s[i] = e
  BY DEF On
<1>2. PICK i : i = CHOOSE k \in DOMAIN s : s[k] = e
  OBVIOUS
<1>3. i \in DOMAIN s /\ s[i] = e
  BY <1>1, <1>2
<1>4. /\ RemoveAt(s, i) \in Seq(S) /\ Once(RemoveAt(s, i))
      /\ \A f : On(RemoveAt(s, i), f) <=> On(s, f) /\ f # s[i]
  BY <1>3, RemovedOnce
<1> QED
  BY <1>2, <1>3, <1>4

-----------------------------------------------------------------------------
(* Numbers. *)

\* Induction: a set that has 0 and with each number the next has them all.
LEMMA UpTo ==
  ASSUME NEW T, NEW N \in Nat, 0 \in T, \A n \in 0 .. N - 1 : n \in T => n + 1 \in T
  PROVE  \A n \in 0 .. N : n \in T
<1> DEFINE F == {n \in 0 .. N : n \notin T}
<1> SUFFICES ASSUME F # {} PROVE FALSE
  OBVIOUS
<1>1. F \subseteq Nat
  OBVIOUS
<1>2. PICK m \in F : \A n \in F : m <= n
  <2> HIDE DEF F
  <2> QED
    BY <1>1, LeastNumber
<1>3. m \in 0 .. N /\ m \notin T /\ m # 0
  OBVIOUS
<1>4. m - 1 \in 0 .. N - 1 /\ (m - 1) + 1 = m
  BY <1>3
<1>5. m - 1 \in T
  BY <1>2, <1>3, <1>4
<1> QED
  BY <1>3, <1>4, <1>5

\* Quotient and remainder.
LEMMA Quotient ==
  ASSUME NEW x \in Nat, NEW k \in Nat \ {0}
  PROVE  x = k * (x \div k) + (x % k) /\ x % k \in 0 .. k - 1 /\ x \div k \in Nat
OBVIOUS

\* There is one quotient and one remainder.
LEMMA OneQuotient ==
  ASSUME NEW x \in Nat, NEW k \in Nat \ {0}, NEW q \in Nat, NEW r \in 0 .. k - 1,
         x = k * q + r
  PROVE  x % k = r /\ x \div k = q
<1> DEFINE q2 == x \div k
           r2 == x % k
<1>1. x = k * q2 + r2 /\ q2 \in Nat /\ r2 \in 0 .. k - 1
  BY Quotient
<1> HIDE DEF q2, r2
<1>2. ~ (q < q2)
  <2> SUFFICES ASSUME q < q2 PROVE FALSE
    OBVIOUS
  <2>1. PICK d \in Nat : q2 = q + 1 + d
    BY <1>1
  <2>2. k * q2 = k * q + k + k * d /\ k * d \in Nat
    BY <2>1
  <2> QED
    BY <1>1, <2>1, <2>2
<1>3. ~ (q2 < q)
  <2> SUFFICES ASSUME q2 < q PROVE FALSE
    OBVIOUS
  <2>1. PICK d \in Nat : q = q2 + 1 + d
    BY <1>1
  <2>2. k * q = k * q2 + k + k * d /\ k * d \in Nat
    BY <1>1, <2>1
  <2> QED
    BY <1>1, <2>1, <2>2
<1>4. q = q2
  BY <1>1, <1>2, <1>3
<1>5. r = r2
  BY <1>1, <1>4
<1> QED
  BY <1>4, <1>5 DEF q2, r2

\* The next number.
LEMMA NextQuotient ==
  ASSUME NEW x \in Nat, NEW k \in Nat \ {0}
  PROVE  /\ (x % k) + 1 = k => (x + 1) % k = 0 /\ (x + 1) \div k = (x \div k) + 1
         /\ (x % k) + 1 # k => (x + 1) % k = (x % k) + 1 /\ (x + 1) \div k = x \div k
<1> DEFINE q == x \div k
           r == x % k
<1>1. x = k * q + r /\ q \in Nat /\ r \in 0 .. k - 1
  BY Quotient
<1> HIDE DEF q, r
<1>2. k * (q + 1) = k * q + k /\ q + 1 \in Nat /\ x + 1 \in Nat
  BY <1>1
<1>3. CASE r + 1 = k
  <2>1. x + 1 = k * (q + 1) + 0 /\ 0 \in 0 .. k - 1
    BY <1>1, <1>2, <1>3
  <2>2. (x + 1) % k = 0 /\ (x + 1) \div k = q + 1
    BY <1>2, <2>1, OneQuotient
  <2> QED
    BY <1>3, <2>2 DEF q, r
<1>4. CASE r + 1 # k
  <2>1. x + 1 = k * q + (r + 1) /\ r + 1 \in 0 .. k - 1
    BY <1>1, <1>4
  <2>2. (x + 1) % k = r + 1 /\ (x + 1) \div k = q
    BY <1>1, <1>2, <2>1, OneQuotient
  <2> QED
    BY <1>4, <2>2 DEF q, r
<1> QED
  BY <1>3, <1>4

\* The steps of a recursion on numbers, and a function that takes them.
Steps(A, N) == [A \X (0 .. N - 1) -> A]
Iterates(f, A, a, N, F) ==
  /\ f \in [0 .. N -> A] /\ f[0] = a
  /\ \A n \in 1 .. N : f[n] = F[<<f[n - 1], n - 1>>]

\* A function that is defined by recursion on numbers exists.
LEMMA Iterated ==
  ASSUME NEW A, NEW a \in A, NEW N \in Nat, NEW F \in Steps(A, N)
  PROVE  \E f : Iterates(f, A, a, N, F)
<1> USE DEF Steps, Iterates
<1> DEFINE Good(f, n) == f[0] = a /\ \A m \in 1 .. n : f[m] = F[<<f[m - 1], m - 1>>]
           T == {n \in Nat : \E f \in [0 .. n -> A] : Good(f, n)}
<1>1. 0 \in T
  <2>1. PICK f : f = [n \in 0 .. 0 |-> a]
    OBVIOUS
  <2>2. f \in [0 .. 0 -> A] /\ Good(f, 0)
    BY <2>1
  <2> QED
    BY <2>2
<1>2. ASSUME NEW n \in 0 .. N - 1, n \in T PROVE n + 1 \in T
  <2>1. PICK f \in [0 .. n -> A] : Good(f, n)
    BY <1>2
  <2>2. PICK x : x = F[<<f[n], n>>]
    OBVIOUS
  <2>3. x \in A
    BY <2>1, <2>2
  <2>4. PICK g : g = [m \in 0 .. n + 1 |-> IF m = n + 1 THEN x ELSE f[m]]
    OBVIOUS
  <2>5. g \in [0 .. n + 1 -> A]
    BY <2>1, <2>3, <2>4
  <2>6. g[n + 1] = x /\ \A m \in 0 .. n : g[m] = f[m]
    BY <2>4
  <2>7. ASSUME NEW m \in 1 .. n + 1 PROVE g[m] = F[<<g[m - 1], m - 1>>]
    <3>1. CASE m = n + 1
      <4>1. m - 1 = n /\ g[m - 1] = f[n]
        BY <2>6, <3>1
      <4> QED
        BY <2>2, <2>6, <3>1, <4>1
    <3>2. CASE m # n + 1
      <4>1. m \in 1 .. n /\ m \in 0 .. n /\ m - 1 \in 0 .. n
        BY <3>2
      <4>2. g[m] = f[m] /\ g[m - 1] = f[m - 1]
        BY <2>6, <4>1
      <4> QED
        BY <2>1, <4>1, <4>2
    <3> QED
      BY <3>1, <3>2
  <2>8. g[0] = a
    BY <2>1, <2>6
  <2>9. n + 1 \in Nat /\ Good(g, n + 1)
    BY <2>7, <2>8
  <2> QED
    BY <2>5, <2>9
<1>3. \A n \in 0 .. N : n \in T
  <2> HIDE DEF T
  <2> QED
    BY <1>1, <1>2, UpTo
<1>4. N \in 0 .. N
  OBVIOUS
<1>5. N \in T
  <2> HIDE DEF T
  <2> QED
    BY <1>3, <1>4
<1> QED
  BY <1>5
=============================================================================
