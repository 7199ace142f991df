-------------------------- MODULE SgxTiming_proofs --------------------------
(***************************************************************************)
(* Theorems about SgxTiming, for every number of LUNs, cache size, layout, *)
(* latencies and start times.                                              *)
(***************************************************************************)
EXTENDS SgxTiming, ListFacts

Times == 0 .. Forever
Slots == [start : Times, end : Times]
OpLats == {ReadLat, WriteLat, EraseLat}

\* The intervals are in order, not empty, and do not touch.
Ordered(g) ==
  /\ \A x : On(g, x) => x.start < x.end
  /\ \A i, j \in DOMAIN g : i < j => g[i].end < g[j].start

\* Time u is in one of the intervals.
Offers(g, u) == \E x \in Slots : On(g, x) /\ x.start <= u /\ u < x.end

\* The state of one LUN: g are its free intervals, bk what was booked, ck the
\* latest clock that forgot idle time; no interval starts after b.
LunOk(g, bk, ck, b) ==
  /\ g \in Seq(Slots) /\ Ordered(g)
  /\ \E x \in Slots : On(g, x) /\ x.end = Forever
  /\ \A x \in Slots : On(g, x) => x.start <= b /\ \A lat \in OpLats : lat <= x.end
  /\ \A u \in Nat : Offers(g, u) => u \notin bk
  /\ \A u \in Nat : ck <= u /\ u < Forever /\ u \notin bk => Offers(g, u)
-----------------------------------------------------------------------------
(* Lists of intervals. *)

\* The sizes are numbers.
LEMMA TimingSizes ==
  /\ ReadLat \in Nat \ {0} /\ WriteLat \in Nat \ {0} /\ EraseLat \in Nat \ {0}
  /\ Forever \in Nat \ {0} /\ CacheSize \in Nat \ {0} /\ NrLuns \in Nat \ {0}
  /\ OpLats \subseteq Nat \ {0}
BY TimingAssumption DEF OpLats

\* An interval of a list is an interval.
LEMMA Listed ==
  ASSUME NEW g \in Seq(Slots)
  PROVE  /\ Len(g) \in Nat /\ DOMAIN g = 1 .. Len(g)
         /\ \A i \in 1 .. Len(g) : g[i] \in Slots /\ On(g, g[i])
         /\ \A x : On(g, x) => x \in Slots /\ \E i \in 1 .. Len(g) : g[i] = x
<1>1. /\ Len(g) \in Nat /\ DOMAIN g = 1 .. Len(g)
      /\ \A i \in 1 .. Len(g) : g[i] \in Slots
  BY LenProperties, ElementOfSeq
<1> QED
  BY <1>1 DEF On

\* The fields of an interval.
LEMMA SlotFields ==
  \A x \in Slots : /\ x.start \in Nat /\ x.end \in Nat
                   /\ x.start <= Forever /\ x.end <= Forever
BY TimingSizes DEF Slots, Times

\* Two lists of intervals, one behind the other.
LEMMA Joined ==
  ASSUME NEW a \in Seq(Slots), NEW b \in Seq(Slots), Ordered(a), Ordered(b),
         \A x, y \in Slots : On(a, x) /\ On(b, y) => x.end < y.start
  PROVE  /\ a \o b \in Seq(Slots) /\ Ordered(a \o b)
         /\ \A x : On(a \o b, x) <=> On(a, x) \/ On(b, x)
<1> DEFINE c == a \o b
<1>1. /\ c \in Seq(Slots) /\ Len(c) = Len(a) + Len(b)
      /\ \A j \in 1 .. Len(a) + Len(b) : c[j] = IF j <= Len(a) THEN a[j] ELSE b[j - Len(a)]
  BY ConcatProperties
<1> HIDE DEF c
<1>2. /\ Len(a) \in Nat /\ DOMAIN a = 1 .. Len(a)
      /\ Len(b) \in Nat /\ DOMAIN b = 1 .. Len(b)
      /\ DOMAIN c = 1 .. Len(a) + Len(b)
      /\ \A i \in 1 .. Len(a) : a[i] \in Slots /\ On(a, a[i])
      /\ \A i \in 1 .. Len(b) : b[i] \in Slots /\ On(b, b[i])
  BY <1>1, Listed
<1>3. ASSUME NEW x, On(c, x) PROVE On(a, x) \/ On(b, x)
  <2>1. PICK j \in 1 .. Len(a) + Len(b) : c[j] = x
    BY <1>2, <1>3 DEF On
  <2>2. CASE j <= Len(a)
    BY <1>1, <1>2, <2>1, <2>2
  <2>3. CASE j > Len(a)
    <3>1. j - Len(a) \in 1 .. Len(b) /\ c[j] = b[j - Len(a)]
      BY <1>1, <1>2, <2>3
    <3> QED
      BY <1>2, <2>1, <3>1
  <2> QED
    BY <1>2, <2>2, <2>3
<1>4. ASSUME NEW x, On(a, x) PROVE On(c, x)
  <2>1. PICK j \in 1 .. Len(a) : a[j] = x
    BY <1>2, <1>4 DEF On
  <2>2. j \in 1 .. Len(a) + Len(b) /\ c[j] = x
    BY <1>1, <1>2, <2>1
  <2> QED
    BY <1>2, <2>2 DEF On
<1>5. ASSUME NEW x, On(b, x) PROVE On(c, x)
  <2>1. PICK j \in 1 .. Len(b) : b[j] = x
    BY <1>2, <1>5 DEF On
  <2>2. j + Len(a) \in 1 .. Len(a) + Len(b) /\ c[j + Len(a)] = x
    <3>1. /\ j + Len(a) \in 1 .. Len(a) + Len(b) /\ ~ (j + Len(a) <= Len(a))
          /\ (j + Len(a)) - Len(a) = j
      BY <1>2
    <3> QED
      BY <1>1, <2>1, <3>1
  <2> QED
    BY <1>2, <2>2 DEF On
<1>6. Ordered(c)
  <2>1. \A x : On(c, x) => x.start < x.end
    BY <1>3 DEF Ordered
  <2>2. ASSUME NEW i \in 1 .. Len(a) + Len(b), NEW j \in 1 .. Len(a) + Len(b), i < j
        PROVE  c[i].end < c[j].start
    <3>1. CASE j <= Len(a)
      <4>1. i \in 1 .. Len(a) /\ j \in 1 .. Len(a) /\ c[i] = a[i] /\ c[j] = a[j]
        BY <1>1, <1>2, <2>2, <3>1
      <4> QED
        BY <1>2, <2>2, <4>1 DEF Ordered
    <3>2. CASE i <= Len(a) /\ j > Len(a)
      <4>1. i \in 1 .. Len(a) /\ j - Len(a) \in 1 .. Len(b) /\ c[i] = a[i] /\ c[j] = b[j - Len(a)]
        BY <1>1, <1>2, <2>2, <3>2
      <4> QED
        BY <1>2, <4>1
    <3>3. CASE i > Len(a)
      <4>1. /\ i - Len(a) \in 1 .. Len(b) /\ j - Len(a) \in 1 .. Len(b)
            /\ i - Len(a) < j - Len(a)
            /\ c[i] = b[i - Len(a)] /\ c[j] = b[j - Len(a)]
        BY <1>1, <1>2, <2>2, <3>3
      <4> QED
        BY <1>2, <4>1 DEF Ordered
    <3> QED
      BY <1>2, <2>2, <3>1, <3>2, <3>3
  <2> QED
    BY <1>2, <2>1, <2>2 DEF Ordered
<1> QED
  BY <1>1, <1>3, <1>4, <1>5, <1>6 DEF c

\* A part of a list of intervals.
LEMMA PartOf ==
  ASSUME NEW g \in Seq(Slots), Ordered(g), NEW m \in Nat \ {0}, NEW n \in Nat, n <= Len(g)
  PROVE  /\ SubSeq(g, m, n) \in Seq(Slots) /\ Ordered(SubSeq(g, m, n))
         /\ \A x : On(SubSeq(g, m, n), x) <=> \E j \in m .. n : g[j] = x
<1> DEFINE c == SubSeq(g, m, n)
<1>1. /\ Len(g) \in Nat /\ DOMAIN g = 1 .. Len(g)
      /\ \A i \in 1 .. Len(g) : g[i] \in Slots /\ On(g, g[i])
  BY Listed
<1>2. CASE m <= n
  <2>1. \A k \in m .. n : g[k] \in Slots
    BY <1>1
  <2>2. /\ c \in Seq(Slots) /\ Len(c) = n - m + 1
        /\ \A j \in 1 .. n - m + 1 : c[j] = g[m + j - 1]
    BY <1>1, <1>2, <2>1, SubSeqProperties
  <2>3. DOMAIN c = 1 .. n - m + 1
    BY <2>2, LenProperties
  <2> HIDE DEF c
  <2>4. ASSUME NEW x, On(c, x) PROVE \E j \in m .. n : g[j] = x
    <3>1. PICK j \in 1 .. n - m + 1 : c[j] = x
      BY <2>3, <2>4 DEF On
    <3>2. m + j - 1 \in m .. n /\ g[m + j - 1] = x
      BY <2>2, <3>1
    <3> QED
      BY <3>2
  <2>5. ASSUME NEW j \in m .. n PROVE On(c, g[j])
    <3>1. j - m + 1 \in 1 .. n - m + 1 /\ m + (j - m + 1) - 1 = j
      OBVIOUS
    <3>2. c[j - m + 1] = g[j]
      BY <2>2, <3>1
    <3> QED
      BY <2>3, <3>1, <3>2 DEF On
  <2>6. Ordered(c)
    <3>1. \A x : On(c, x) => x.start < x.end
      BY <1>1, <2>4 DEF Ordered
    <3>2. ASSUME NEW i \in 1 .. n - m + 1, NEW j \in 1 .. n - m + 1, i < j
          PROVE  c[i].end < c[j].start
      <4>1. /\ m + i - 1 \in 1 .. Len(g) /\ m + j - 1 \in 1 .. Len(g)
            /\ m + i - 1 < m + j - 1
        BY <1>1, <3>2
      <4>2. c[i] = g[m + i - 1] /\ c[j] = g[m + j - 1]
        BY <2>2
      <4> QED
        BY <1>1, <4>1, <4>2 DEF Ordered
    <3> QED
      BY <2>3, <3>1, <3>2 DEF Ordered
  <2> QED
    BY <2>2, <2>4, <2>5, <2>6 DEF c
<1>3. CASE ~ (m <= n)
  <2>1. c = <<>>
    BY <1>1, <1>3, SubSeqProperties
  <2>2. <<>> \in Seq(Slots) /\ DOMAIN <<>> = {}
    OBVIOUS
  <2> QED
    BY <1>3, <2>1, <2>2 DEF Ordered, On
<1> QED
  BY <1>2, <1>3

\* An interval that is not empty, or none.
LEMMA BetweenOk ==
  ASSUME NEW a \in Times, NEW b \in Times
  PROVE  /\ Between(a, b) \in Seq(Slots) /\ Ordered(Between(a, b))
         /\ \A x : On(Between(a, b), x) <=> a < b /\ x = [start |-> a, end |-> b]
<1>1. CASE a < b
  <2>1. PICK s : s = [start |-> a, end |-> b]
    OBVIOUS
  <2>2. s \in Slots /\ s.start = a /\ s.end = b
    BY <2>1 DEF Slots
  <2>3. /\ <<s>> \in Seq(Slots) /\ DOMAIN <<s>> = {1} /\ <<s>>[1] = s
    BY <2>2
  <2>4. Between(a, b) = <<s>>
    BY <1>1, <2>1 DEF Between
  <2>5. \A x : On(<<s>>, x) <=> x = s
    BY <2>3 DEF On
  <2>6. Ordered(<<s>>)
    <3>1. \A x : On(<<s>>, x) => x.start < x.end
      BY <1>1, <2>2, <2>5
    <3>2. \A i, j \in DOMAIN <<s>> : ~ (i < j)
      BY <2>3
    <3> QED
      BY <3>1, <3>2 DEF Ordered
  <2> QED
    BY <1>1, <2>1, <2>3, <2>4, <2>5, <2>6
<1>2. CASE ~ (a < b)
  <2>1. Between(a, b) = <<>>
    BY <1>2 DEF Between
  <2>2. <<>> \in Seq(Slots) /\ DOMAIN <<>> = {}
    OBVIOUS
  <2> QED
    BY <1>2, <2>1, <2>2 DEF Ordered, On
<1> QED
  BY <1>1, <1>2

\* The interval i of a list, those before and those behind it.
LEMMA Around ==
  ASSUME NEW g \in Seq(Slots), Ordered(g), NEW i \in DOMAIN g
  PROVE  LET a == SubSeq(g, 1, i - 1)
             b == SubSeq(g, i + 1, Len(g))
         IN /\ a \in Seq(Slots) /\ Ordered(a) /\ b \in Seq(Slots) /\ Ordered(b)
            /\ \A x : On(a, x) => On(g, x) /\ x.end < g[i].start
            /\ \A x : On(b, x) => On(g, x) /\ g[i].end < x.start
            /\ \A x : On(g, x) => On(a, x) \/ x = g[i] \/ On(b, x)
<1> DEFINE a == SubSeq(g, 1, i - 1)
           b == SubSeq(g, i + 1, Len(g))
<1>1. /\ Len(g) \in Nat /\ DOMAIN g = 1 .. Len(g) /\ i \in 1 .. Len(g)
      /\ \A j \in 1 .. Len(g) : On(g, g[j])
      /\ \A x : On(g, x) => \E j \in 1 .. Len(g) : g[j] = x
  BY Listed
<1>2. /\ a \in Seq(Slots) /\ Ordered(a)
      /\ \A x : On(a, x) <=> \E j \in 1 .. i - 1 : g[j] = x
  <2>1. 1 \in Nat \ {0} /\ i - 1 \in Nat /\ i - 1 <= Len(g)
    BY <1>1
  <2> QED
    BY <2>1, PartOf
<1>3. /\ b \in Seq(Slots) /\ Ordered(b)
      /\ \A x : On(b, x) <=> \E j \in i + 1 .. Len(g) : g[j] = x
  <2>1. i + 1 \in Nat \ {0} /\ Len(g) \in Nat /\ Len(g) <= Len(g)
    BY <1>1
  <2> QED
    BY <2>1, PartOf
<1> HIDE DEF a, b
<1>4. ASSUME NEW x, On(a, x) PROVE On(g, x) /\ x.end < g[i].start
  <2>1. PICK j \in 1 .. i - 1 : g[j] = x
    BY <1>2, <1>4
  <2>2. j \in 1 .. Len(g) /\ j < i
    BY <1>1
  <2> QED
    BY <1>1, <2>1, <2>2 DEF Ordered
<1>5. ASSUME NEW x, On(b, x) PROVE On(g, x) /\ g[i].end < x.start
  <2>1. PICK j \in i + 1 .. Len(g) : g[j] = x
    BY <1>3, <1>5
  <2>2. j \in 1 .. Len(g) /\ i < j
    BY <1>1
  <2> QED
    BY <1>1, <2>1, <2>2 DEF Ordered
<1>6. ASSUME NEW x, On(g, x) PROVE On(a, x) \/ x = g[i] \/ On(b, x)
  <2>1. PICK j \in 1 .. Len(g) : g[j] = x
    BY <1>1, <1>6
  <2>2. j \in 1 .. i - 1 \/ j = i \/ j \in i + 1 .. Len(g)
    BY <1>1
  <2> QED
    BY <1>2, <1>3, <2>1, <2>2
<1> QED
  BY <1>2, <1>3, <1>4, <1>5, <1>6 DEF a, b

\* What is left of the intervals when one of them loses lat units from time t.
LEMMA Carved ==
  ASSUME NEW g \in Seq(Slots), Ordered(g), NEW i \in DOMAIN g,
         NEW t \in Nat, NEW lat \in Nat \ {0},
         g[i].start <= t, t + lat <= g[i].end
  PROVE  LET c == Carve(g, i, t, lat)
             s == [start |-> g[i].start, end |-> t]
             e == [start |-> t + lat, end |-> g[i].end]
         IN /\ c \in Seq(Slots) /\ Ordered(c)
            /\ \A x : On(c, x) <=> \/ On(g, x) /\ x # g[i]
                                   \/ x = s /\ g[i].start < t
                                   \/ x = e /\ t + lat < g[i].end
<1> DEFINE a == SubSeq(g, 1, i - 1)
           b == SubSeq(g, i + 1, Len(g))
           l == Between(g[i].start, t)
           r == Between(t + lat, g[i].end)
           s == [start |-> g[i].start, end |-> t]
           e == [start |-> t + lat, end |-> g[i].end]
<1>1. /\ g[i] \in Slots /\ On(g, g[i])
  BY Listed
<1>2. /\ g[i].start \in Nat /\ g[i].end \in Nat /\ g[i].end <= Forever /\ Forever \in Nat
      /\ g[i].start \in Times /\ g[i].end \in Times /\ t \in Times /\ t + lat \in Times
      /\ t < g[i].end
  BY <1>1, SlotFields, TimingSizes DEF Times
<1>3. /\ a \in Seq(Slots) /\ Ordered(a) /\ b \in Seq(Slots) /\ Ordered(b)
      /\ \A x : On(a, x) => On(g, x) /\ x.end < g[i].start
      /\ \A x : On(b, x) => On(g, x) /\ g[i].end < x.start
      /\ \A x : On(g, x) => On(a, x) \/ x = g[i] \/ On(b, x)
  BY Around
<1>4. /\ l \in Seq(Slots) /\ Ordered(l)
      /\ \A x : On(l, x) <=> g[i].start < t /\ x = s
  BY <1>2, BetweenOk
<1>5. /\ r \in Seq(Slots) /\ Ordered(r)
      /\ \A x : On(r, x) <=> t + lat < g[i].end /\ x = e
  BY <1>2, BetweenOk
<1>6. s \in Slots /\ s.start = g[i].start /\ s.end = t
  BY <1>2 DEF Slots
<1>7. e \in Slots /\ e.start = t + lat /\ e.end = g[i].end
  BY <1>2 DEF Slots
<1>8. Carve(g, i, t, lat) = ((a \o l) \o r) \o b
  BY DEF Carve
<1> HIDE DEF a, b, l, r, s, e
<1> DEFINE al == a \o l
<1>9. /\ al \in Seq(Slots) /\ Ordered(al)
      /\ \A x : On(al, x) <=> On(a, x) \/ On(l, x)
  <2>1. \A x, y \in Slots : On(a, x) /\ On(l, y) => x.end < y.start
    BY <1>3, <1>4, <1>6
  <2> QED
    BY <1>3, <1>4, <2>1, Joined
<1> HIDE DEF al
<1> DEFINE alr == al \o r
<1>10. /\ alr \in Seq(Slots) /\ Ordered(alr)
       /\ \A x : On(alr, x) <=> On(al, x) \/ On(r, x)
  <2>1. ASSUME NEW x \in Slots, NEW y \in Slots, On(al, x), On(r, y) PROVE x.end < y.start
    <3>1. y.start = t + lat /\ x.end \in Nat
      BY <1>5, <1>7, <2>1, SlotFields
    <3>2. x.end < g[i].start \/ x.end = t
      BY <1>3, <1>4, <1>6, <1>9, <2>1
    <3> QED
      BY <1>2, <3>1, <3>2
  <2> QED
    BY <1>5, <1>9, <2>1, Joined
<1> HIDE DEF alr
<1> DEFINE c == alr \o b
<1>11. /\ c \in Seq(Slots) /\ Ordered(c)
       /\ \A x : On(c, x) <=> On(alr, x) \/ On(b, x)
  <2>1. ASSUME NEW x \in Slots, NEW y \in Slots, On(alr, x), On(b, y) PROVE x.end < y.start
    <3>1. g[i].end < y.start /\ x.end \in Nat /\ y.start \in Nat
      BY <1>3, <2>1, SlotFields
    <3>2. x.end < g[i].start \/ x.end = t \/ x.end = g[i].end
      BY <1>3, <1>4, <1>5, <1>6, <1>7, <1>9, <1>10, <2>1
    <3> QED
      BY <1>2, <3>1, <3>2
  <2> QED
    BY <1>3, <1>10, <2>1, Joined
<1>12. g[i].start < g[i].end
  BY <1>1 DEF Ordered
<1>13. \A x : On(a, x) \/ On(b, x) => On(g, x) /\ x # g[i]
  <2>1. ASSUME NEW x, On(a, x) PROVE x # g[i]
    BY <1>2, <1>3, <1>12, <2>1
  <2>2. ASSUME NEW x, On(b, x) PROVE x # g[i]
    BY <1>2, <1>3, <1>12, <2>2
  <2> QED
    BY <1>3, <2>1, <2>2
<1>14. \A x : On(c, x) <=> On(a, x) \/ On(l, x) \/ On(r, x) \/ On(b, x)
  BY <1>9, <1>10, <1>11
<1>15. \A x : On(c, x) <=> (On(g, x) /\ x # g[i])
                          \/ (x = s /\ g[i].start < t)
                          \/ (x = e /\ t + lat < g[i].end)
  BY <1>3, <1>4, <1>5, <1>13, <1>14
<1>16. Carve(g, i, t, lat) = c
  BY <1>8 DEF c, alr, al
<1> HIDE DEF c
<1> QED
  BY <1>11, <1>15, <1>16 DEF s, e

\* There are k numbers from 1 to k.
LEMMA FromOne ==
  ASSUME NEW k \in Nat
  PROVE  IsFiniteSet(1 .. k) /\ Cardinality(1 .. k) = k
<1>1. \A b \in Nat : IsFiniteSet(1 .. b) /\ Cardinality(1 .. b) = IF 1 > b THEN 0 ELSE b - 1 + 1
  BY FS_Interval
<1> QED
  BY <1>1

\* The intervals of a list are in the order of their starts, too.
LEMMA StartsInOrder ==
  ASSUME NEW g \in Seq(Slots), Ordered(g),
         NEW i \in 1 .. Len(g), NEW j \in 1 .. Len(g), i <= j
  PROVE  g[i].start <= g[j].start
<1>1. /\ g[i] \in Slots /\ g[j] \in Slots /\ On(g, g[i]) /\ DOMAIN g = 1 .. Len(g)
      /\ Len(g) \in Nat
  BY Listed
<1>2. /\ g[i].start \in Nat /\ g[i].end \in Nat /\ g[j].start \in Nat
  BY <1>1, SlotFields
<1>3. g[i].start < g[i].end
  BY <1>1 DEF Ordered
<1>4. CASE i = j
  BY <1>2, <1>4
<1>5. CASE i < j
  <2>1. g[i].end < g[j].start
    BY <1>1, <1>5 DEF Ordered
  <2> QED
    BY <1>2, <1>3, <2>1
<1> QED
  BY <1>1, <1>4, <1>5

\* The intervals that have begun at a time are the first so many.
LEMMA Begun ==
  ASSUME NEW g \in Seq(Slots), Ordered(g), NEW at \in Nat
  PROVE  LET n == Cardinality({i \in DOMAIN g : g[i].start <= at})
         IN n \in 0 .. Len(g) /\ \A i \in 1 .. Len(g) : g[i].start <= at <=> i <= n
<1> DEFINE T == {i \in DOMAIN g : g[i].start <= at}
           n == Cardinality(T)
<1>1. /\ Len(g) \in Nat /\ DOMAIN g = 1 .. Len(g)
      /\ \A i \in 1 .. Len(g) : g[i] \in Slots
  BY Listed
<1>2. T \subseteq 1 .. Len(g) /\ \A i \in 1 .. Len(g) : i \in T <=> g[i].start <= at
  BY <1>1
<1>3. \A i, j \in 1 .. Len(g) : j \in T /\ i <= j => i \in T
  <2>1. ASSUME NEW i \in 1 .. Len(g), NEW j \in 1 .. Len(g), j \in T, i <= j PROVE i \in T
    <3>1. g[i].start <= g[j].start
      BY <2>1, StartsInOrder
    <3>2. g[i].start \in Nat /\ g[j].start \in Nat
      BY <1>1, SlotFields
    <3> QED
      BY <1>2, <2>1, <3>1, <3>2
  <2> QED
    BY <2>1
<1> HIDE DEF T
<1>4. IsFiniteSet(T) /\ n \in Nat /\ n <= Len(g)
  <2>1. IsFiniteSet(1 .. Len(g)) /\ Cardinality(1 .. Len(g)) = Len(g)
    BY <1>1, FromOne
  <2>2. IsFiniteSet(T) /\ Cardinality(T) <= Cardinality(1 .. Len(g))
    BY <1>2, <2>1, FS_Subset
  <2>3. n \in Nat
    BY <2>2, FS_CardinalityType
  <2> QED
    BY <2>1, <2>2, <2>3
<1>5. ASSUME NEW x \in T PROVE x <= n
  <2>1. x \in 1 .. Len(g) /\ x \in Nat
    BY <1>1, <1>2
  <2>2. 1 .. x \subseteq T
    <3>1. ASSUME NEW y \in 1 .. x PROVE y \in T
      <4>1. y \in 1 .. Len(g) /\ y <= x
        BY <1>1, <2>1
      <4> QED
        BY <1>3, <2>1, <4>1
    <3> QED
      BY <3>1
  <2>3. IsFiniteSet(1 .. x) /\ Cardinality(1 .. x) = x
    BY <2>1, FromOne
  <2>4. Cardinality(1 .. x) <= Cardinality(T)
    BY <1>4, <2>2, FS_Subset
  <2> QED
    BY <2>3, <2>4
<1>6. T \subseteq 1 .. n
  BY <1>1, <1>2, <1>4, <1>5
<1>7. T = 1 .. n
  <2>1. IsFiniteSet(1 .. n) /\ Cardinality(1 .. n) = n
    BY <1>4, FromOne
  <2> HIDE DEF n
  <2>2. n = Cardinality(T)
    BY DEF n
  <2> QED
    BY <1>6, <2>1, <2>2, FS_Subset
<1>8. ASSUME NEW i \in 1 .. Len(g) PROVE g[i].start <= at <=> i <= n
  BY <1>1, <1>2, <1>4, <1>7
<1> QED
  BY <1>4, <1>8 DEF T

\* An operation that starts at time at gets lat units of one interval, from at
\* on or from the start of the interval, and none fits earlier.
LEMMA SlotFound ==
  ASSUME NEW g \in Seq(Slots), Ordered(g), NEW at \in Nat, NEW lat \in Nat \ {0},
         \A x \in Slots : On(g, x) => lat <= x.end,
         \E x \in Slots : On(g, x) /\ x.start + lat <= x.end /\ at + lat <= x.end
  PROVE  LET a == AdvanceTimeSlot(g, at, lat)
         IN \E i \in DOMAIN g :
              /\ a.gaps = Carve(g, i, a.from, lat)
              /\ a.from \in Nat /\ at <= a.from /\ a.from \in {at, g[i].start}
              /\ g[i].start <= a.from /\ a.from + lat <= g[i].end
              /\ \A x \in Slots, t \in Nat :
                   On(g, x) /\ at <= t /\ t < a.from => ~ (x.start <= t /\ t + lat <= x.end)
<1> DEFINE n == Cardinality({i \in DOMAIN g : g[i].start <= at})
           fits == {i \in n + 1 .. Len(g) : HoldsFor(g[i], lat)}
           a == AdvanceTimeSlot(g, at, lat)
<1>1. /\ Len(g) \in Nat /\ DOMAIN g = 1 .. Len(g)
      /\ \A i \in 1 .. Len(g) : g[i] \in Slots /\ On(g, g[i])
      /\ \A x : On(g, x) => \E i \in 1 .. Len(g) : g[i] = x
  BY Listed
<1>2. n \in 0 .. Len(g) /\ \A i \in 1 .. Len(g) : g[i].start <= at <=> i <= n
  BY Begun
<1>3. \A i \in 1 .. Len(g) : /\ g[i].start \in Nat /\ g[i].end \in Nat
                             /\ g[i].start < g[i].end /\ lat <= g[i].end
  BY <1>1, SlotFields DEF Ordered
<1>4. \A i, j \in 1 .. Len(g) : i < j => g[i].end < g[j].start
  BY <1>1 DEF Ordered
<1>5. a = IF n > 0 /\ g[n].end >= at + lat
          THEN [from |-> at, gaps |-> Carve(g, n, at, lat)]
          ELSE LET i == CHOOSE i \in fits : \A j \in fits : i <= j
               IN [from |-> g[i].start, gaps |-> Carve(g, i, g[i].start, lat)]
  BY DEF AdvanceTimeSlot
<1>6. \A i : i \in fits <=> i \in 1 .. Len(g) /\ n < i /\ g[i].start + lat <= g[i].end
  <2>1. ASSUME NEW i \in 1 .. Len(g) PROVE HoldsFor(g[i], lat) <=> g[i].start + lat <= g[i].end
    BY <1>3 DEF HoldsFor
  <2>2. \A i : i \in n + 1 .. Len(g) <=> i \in 1 .. Len(g) /\ n < i
    BY <1>1, <1>2
  <2> QED
    BY <2>1, <2>2
<1> HIDE DEF n, fits, a
<1>7. CASE n > 0 /\ g[n].end >= at + lat
  <2>1. a.from = at /\ a.gaps = Carve(g, n, at, lat) /\ n \in 1 .. Len(g)
    BY <1>1, <1>2, <1>5, <1>7
  <2>2. g[n].start <= at /\ at + lat <= g[n].end
    BY <1>2, <1>3, <1>7, <2>1
  <2>3. \A t \in Nat : ~ (at <= t /\ t < at)
    OBVIOUS
  <2> QED
    BY <1>1, <2>1, <2>2, <2>3 DEF a
<1>8. CASE ~ (n > 0 /\ g[n].end >= at + lat)
  <2>1. fits # {}
    <3>1. PICK x \in Slots : On(g, x) /\ x.start + lat <= x.end /\ at + lat <= x.end
      OBVIOUS
    <3>2. PICK k \in 1 .. Len(g) : g[k] = x
      BY <1>1, <3>1
    <3>3. ~ (k < n)
      <4>1. ASSUME k < n PROVE FALSE
        <5>1. n \in 1 .. Len(g)
          BY <1>1, <1>2, <4>1
        <5>2. g[k].end < g[n].start /\ g[n].start <= at
          BY <1>2, <1>4, <4>1, <5>1
        <5> QED
          BY <1>3, <3>1, <3>2, <5>1, <5>2
      <4> QED
        BY <4>1
    <3>4. k # n
      BY <1>2, <1>3, <1>8, <3>1, <3>2
    <3>5. n < k
      BY <1>2, <3>3, <3>4
    <3> QED
      BY <1>6, <3>1, <3>2, <3>5
  <2>2. fits \subseteq Nat
    BY <1>6
  <2>3. \E i \in fits : \A j \in fits : i <= j
    BY <2>1, <2>2, LeastNumber
  <2>4. PICK i : i = CHOOSE k \in fits : \A j \in fits : k <= j
    OBVIOUS
  <2>5. i \in fits /\ \A j \in fits : i <= j
    BY <2>3, <2>4
  <2>6. a.from = g[i].start /\ a.gaps = Carve(g, i, g[i].start, lat)
    BY <1>5, <1>8, <2>4
  <2>7. /\ i \in 1 .. Len(g) /\ n < i /\ g[i].start + lat <= g[i].end
    BY <1>6, <2>5
  <2>8. at < g[i].start
    BY <1>2, <1>3, <2>7
  <2>9. ASSUME NEW x \in Slots, NEW t \in Nat, On(g, x), at <= t, t < g[i].start,
               x.start <= t, t + lat <= x.end
        PROVE  FALSE
    <3>1. PICK k \in 1 .. Len(g) : g[k] = x
      BY <1>1, <2>9
    <3>2. x.start \in Nat /\ x.end \in Nat
      BY SlotFields
    <3>3. CASE k <= n
      <4>1. n \in 1 .. Len(g) /\ k \in Nat /\ n \in Nat
        BY <1>1, <1>2, <3>3
      <4>2. g[n].end < at + lat
        BY <1>3, <1>8, <4>1
      <4>3. k # n
        BY <1>3, <2>9, <3>1, <3>2, <4>1, <4>2
      <4>4. g[k].end < g[n].start /\ g[n].start <= at
        BY <1>2, <1>4, <3>3, <4>1, <4>3
      <4> QED
        BY <1>3, <2>9, <3>1, <3>2, <4>1, <4>4
    <3>4. CASE n < k
      <4>1. k \in fits
        BY <1>6, <2>9, <3>1, <3>2, <3>4
      <4>2. i <= k
        BY <2>5, <4>1
      <4>3. g[i].start <= g[k].start
        BY <2>7, <4>2, StartsInOrder
      <4> QED
        BY <1>3, <2>7, <2>9, <3>1, <3>2, <4>3
    <3> QED
      BY <1>2, <3>3, <3>4
  <2>10. g[i].start \in Nat /\ at <= g[i].start /\ g[i].start <= g[i].start
    BY <1>3, <2>7, <2>8
  <2> QED
    BY <1>1, <2>6, <2>7, <2>9, <2>10 DEF a
<1> QED
  BY <1>7, <1>8

-----------------------------------------------------------------------------
(* One LUN. *)

\* An operation of this length would start at t in time that is booked.
Busy(bk, t, lat) == (t .. t + lat - 1) \cap bk # {}

\* An operation on a LUN takes time that is free, as early as it can.
LEMMA Booked ==
  ASSUME NEW g, NEW bk, NEW ck \in Nat, NEW b \in Nat, LunOk(g, bk, ck, b),
         NEW at \in Nat, NEW lat \in OpLats, at <= b, b + lat < Forever,
         at = 0 \/ \A k \in OpLats : k <= at
  PROVE  LET a == AdvanceTimeSlot(g, at, lat)
             u == a.from .. a.from + lat - 1
         IN /\ a.from \in Nat /\ at <= a.from /\ a.from <= b
            /\ LunOk(a.gaps, bk \cup u, ck, b + lat)
            /\ u \cap bk = {}
            /\ ck <= at => \A t \in at .. a.from - 1 : Busy(bk, t, lat)
<1> DEFINE a == AdvanceTimeSlot(g, at, lat)
           u == a.from .. a.from + lat - 1
<1>1. /\ lat \in Nat \ {0} /\ Forever \in Nat \ {0}
      /\ \A k \in OpLats : k \in Nat \ {0}
  BY TimingSizes
<1>2. /\ g \in Seq(Slots) /\ Ordered(g)
      /\ \A x \in Slots : On(g, x) => x.start <= b /\ \A k \in OpLats : k <= x.end
      /\ \A t \in Nat : Offers(g, t) => t \notin bk
      /\ \A t \in Nat : ck <= t /\ t < Forever /\ t \notin bk => Offers(g, t)
  BY DEF LunOk
<1>3. PICK z \in Slots : On(g, z) /\ z.end = Forever
  BY DEF LunOk
<1>4. z.start \in Nat /\ z.start <= b
  BY <1>2, <1>3, SlotFields
<1>5. PICK i \in DOMAIN g :
        /\ a.gaps = Carve(g, i, a.from, lat)
        /\ a.from \in Nat /\ at <= a.from /\ a.from \in {at, g[i].start}
        /\ g[i].start <= a.from /\ a.from + lat <= g[i].end
        /\ \A x \in Slots, t \in Nat :
             On(g, x) /\ at <= t /\ t < a.from => ~ (x.start <= t /\ t + lat <= x.end)
  <2>1. \A x \in Slots : On(g, x) => lat <= x.end
    BY <1>2
  <2>2. z.start + lat <= z.end /\ at + lat <= z.end
    BY <1>1, <1>3, <1>4
  <2> QED
    BY <1>1, <1>2, <1>3, <2>1, <2>2, SlotFound
<1> HIDE DEF a
<1>6. PICK f, c, s : f = a.from /\ c = a.gaps /\ s = g[i]
  OBVIOUS
<1>7. /\ s \in Slots /\ On(g, s) /\ s.start \in Nat /\ s.end \in Nat /\ s.end <= Forever
      /\ s.start <= b
  BY <1>2, <1>6, Listed, SlotFields
<1>8. /\ f \in Nat /\ at <= f /\ f \in {at, s.start} /\ s.start <= f /\ f + lat <= s.end
      /\ f <= b
  BY <1>5, <1>6, <1>7
<1>9. /\ c \in Seq(Slots) /\ Ordered(c)
      /\ \A x : On(c, x) <=> \/ On(g, x) /\ x # s
                             \/ x = [start |-> s.start, end |-> f] /\ s.start < f
                             \/ x = [start |-> f + lat, end |-> s.end] /\ f + lat < s.end
  BY <1>1, <1>2, <1>5, <1>6, Carved
<1>10. PICK p, q : p = [start |-> s.start, end |-> f] /\ q = [start |-> f + lat, end |-> s.end]
  OBVIOUS
<1>11. /\ p \in Slots /\ p.start = s.start /\ p.end = f
       /\ q \in Slots /\ q.start = f + lat /\ q.end = s.end
  BY <1>1, <1>7, <1>8, <1>10 DEF Slots, Times
<1>12. \A x : On(c, x) <=> \/ On(g, x) /\ x # s
                           \/ x = p /\ s.start < f
                           \/ x = q /\ f + lat < s.end
  BY <1>9, <1>10
<1>13. ASSUME NEW x \in Slots, On(g, x), x # s, NEW t \in Nat, x.start <= t, t < x.end
       PROVE  ~ (s.start <= t /\ t < s.end)
  <2>1. PICK j \in DOMAIN g : g[j] = x
    BY <1>13 DEF On
  <2>2. x.end < s.start \/ s.end < x.start
    <3>1. DOMAIN g = 1 .. Len(g) /\ Len(g) \in Nat
      BY <1>2, Listed
    <3>2. i < j \/ j < i
      BY <1>6, <1>13, <2>1, <3>1
    <3> QED
      BY <1>2, <1>6, <2>1, <3>2 DEF Ordered
  <2>3. x.start \in Nat /\ x.end \in Nat
    BY SlotFields
  <2> QED
    BY <1>7, <1>13, <2>2, <2>3
<1>14. ASSUME NEW t \in Nat
       PROVE  Offers(c, t) <=> Offers(g, t) /\ ~ (f <= t /\ t < f + lat)
  <2>1. ASSUME Offers(c, t) PROVE Offers(g, t) /\ ~ (f <= t /\ t < f + lat)
    <3>1. PICK x \in Slots : On(c, x) /\ x.start <= t /\ t < x.end
      BY <2>1 DEF Offers
    <3>2. CASE On(g, x) /\ x # s
      BY <1>1, <1>7, <1>8, <1>13, <3>1, <3>2 DEF Offers
    <3>3. CASE x = p
      <4>1. s.start <= t /\ t < s.end /\ t < f
        BY <1>1, <1>7, <1>8, <1>11, <3>1, <3>3
      <4> QED
        BY <1>7, <1>8, <4>1 DEF Offers
    <3>4. CASE x = q
      <4>1. s.start <= t /\ t < s.end /\ f + lat <= t
        BY <1>1, <1>7, <1>8, <1>11, <3>1, <3>4
      <4> QED
        BY <1>1, <1>7, <1>8, <4>1 DEF Offers
    <3> QED
      BY <1>12, <3>1, <3>2, <3>3, <3>4
  <2>2. ASSUME Offers(g, t), ~ (f <= t /\ t < f + lat) PROVE Offers(c, t)
    <3>1. PICK x \in Slots : On(g, x) /\ x.start <= t /\ t < x.end
      BY <2>2 DEF Offers
    <3>2. CASE x # s
      BY <1>12, <3>1, <3>2 DEF Offers
    <3>3. CASE x = s /\ t < f
      <4>1. s.start < f /\ p.start <= t /\ t < p.end /\ On(c, p)
        BY <1>7, <1>8, <1>11, <1>12, <3>1, <3>3
      <4> QED
        BY <1>11, <4>1 DEF Offers
    <3>4. CASE x = s /\ f + lat <= t
      <4>1. f + lat < s.end /\ q.start <= t /\ t < q.end /\ On(c, q)
        BY <1>1, <1>7, <1>8, <1>11, <1>12, <3>1, <3>4
      <4> QED
        BY <1>11, <4>1 DEF Offers
    <3> QED
      BY <1>1, <1>8, <2>2, <3>2, <3>3, <3>4
  <2> QED
    BY <2>1, <2>2
<1>15. \A t : t \in f .. f + lat - 1 <=> t \in Nat /\ f <= t /\ t < f + lat
  BY <1>1, <1>8
<1>16. PICK w : w = f .. f + lat - 1
  OBVIOUS
<1>17. LunOk(c, bk \cup w, ck, b + lat)
  <2>1. \E x \in Slots : On(c, x) /\ x.end = Forever
    <3>1. CASE z # s
      BY <1>3, <1>12, <3>1
    <3>2. CASE z = s
      <4>1. f + lat < s.end /\ q.end = Forever
        BY <1>1, <1>3, <1>8, <1>11, <3>2
      <4> QED
        BY <1>11, <1>12, <4>1
    <3> QED
      BY <3>1, <3>2
  <2>2. ASSUME NEW x \in Slots, On(c, x) PROVE x.start <= b + lat /\ \A k \in OpLats : k <= x.end
    <3>0. x.start \in Nat
      BY SlotFields
    <3>1. CASE On(g, x)
      BY <1>1, <1>2, <3>0, <3>1
    <3>2. CASE x = p /\ s.start < f
      <4>1. f = at /\ at # 0
        BY <1>7, <1>8, <3>2
      <4> QED
        BY <1>1, <1>7, <1>11, <3>2, <4>1
    <3>3. CASE x = q
      BY <1>1, <1>2, <1>7, <1>8, <1>11, <3>3
    <3> QED
      BY <1>12, <2>2, <3>1, <3>2, <3>3
  <2>3. \A t \in Nat : Offers(c, t) => t \notin bk \cup w
    BY <1>2, <1>14, <1>15, <1>16
  <2>4. \A t \in Nat : ck <= t /\ t < Forever /\ t \notin bk \cup w => Offers(c, t)
    BY <1>2, <1>14, <1>15, <1>16
  <2> QED
    BY <1>9, <2>1, <2>2, <2>3, <2>4 DEF LunOk
<1>18. w \cap bk = {}
  <2>1. ASSUME NEW t \in w PROVE t \notin bk
    <3>1. t \in Nat /\ s.start <= t /\ t < s.end
      BY <1>1, <1>7, <1>8, <1>15, <1>16
    <3> QED
      BY <1>2, <1>7, <3>1 DEF Offers
  <2> QED
    BY <2>1
<1>19. ASSUME ck <= at, NEW t \in at .. f - 1, (t .. t + lat - 1) \cap bk = {}
       PROVE  FALSE
  <2>1. t \in Nat /\ at <= t /\ t < f /\ t + lat < Forever /\ ck <= t
    BY <1>1, <1>8, <1>19
  <2>2. \A k \in Nat : t <= k /\ k < t + lat => k \notin bk /\ k < Forever /\ ck <= k
    <3>1. \A k \in Nat : t <= k /\ k < t + lat => k \in t .. t + lat - 1
      BY <1>1, <2>1
    <3>2. \A k \in Nat : t <= k /\ k < t + lat => k < Forever /\ ck <= k
      BY <1>1, <2>1
    <3> QED
      BY <1>19, <3>1, <3>2
  <2>3. Offers(g, t)
    BY <1>1, <1>2, <2>1, <2>2
  <2>4. PICK x \in Slots : On(g, x) /\ x.start <= t /\ t < x.end
    BY <2>3 DEF Offers
  <2>5. x.start \in Nat /\ x.end \in Nat /\ x.end < t + lat
    <3>1. ~ (x.start <= t /\ t + lat <= x.end)
      BY <1>5, <1>6, <2>1, <2>4
    <3> QED
      BY <1>1, <2>1, <2>4, <3>1, SlotFields
  <2>6. Offers(g, x.end)
    <3>1. x.end \notin bk /\ x.end < Forever /\ ck <= x.end
      BY <1>1, <2>1, <2>2, <2>4, <2>5
    <3> QED
      BY <1>2, <2>5, <3>1
  <2>7. PICK y \in Slots : On(g, y) /\ y.start <= x.end /\ x.end < y.end
    BY <2>6 DEF Offers
  <2>8. PICK j \in DOMAIN g, k \in DOMAIN g : g[j] = x /\ g[k] = y
    BY <2>4, <2>7 DEF On
  <2>9. DOMAIN g = 1 .. Len(g) /\ Len(g) \in Nat
    BY <1>2, Listed
  <2>10. j < k \/ k < j \/ x = y
    BY <2>8, <2>9
  <2>11. x.end < y.start \/ y.end < x.start \/ x = y
    BY <1>2, <2>8, <2>10 DEF Ordered
  <2>12. y.start \in Nat /\ y.end \in Nat /\ x.start < x.end
    BY <1>2, <2>4, SlotFields DEF Ordered
  <2> QED
    BY <2>5, <2>7, <2>11, <2>12
<1>20. /\ f \in Nat /\ at <= f /\ f <= b /\ LunOk(c, bk \cup w, ck, b + lat) /\ w \cap bk = {}
       /\ ck <= at => \A t \in at .. f - 1 : Busy(bk, t, lat)
  BY <1>8, <1>17, <1>18, <1>19 DEF Busy
<1> QED
  BY <1>6, <1>16, <1>20 DEF a

\* A request forgets the idle time before its clock.
LEMMA Forgotten ==
  ASSUME NEW g, NEW bk, NEW ck \in Nat, NEW b \in Nat, LunOk(g, bk, ck, b),
         NEW at \in Nat, at <= Forever
  PROVE  LunOk(Flushed(g, at), bk, Later(ck, at), b)
<1> DEFINE kept == {i \in DOMAIN g : g[i].end >= at}
<1>1. /\ g \in Seq(Slots) /\ Ordered(g)
      /\ \A x \in Slots : On(g, x) => x.start <= b /\ \A k \in OpLats : k <= x.end
      /\ \A t \in Nat : Offers(g, t) => t \notin bk
      /\ \A t \in Nat : ck <= t /\ t < Forever /\ t \notin bk => Offers(g, t)
  BY DEF LunOk
<1>2. PICK z \in Slots : On(g, z) /\ z.end = Forever
  BY DEF LunOk
<1>3. /\ Len(g) \in Nat /\ DOMAIN g = 1 .. Len(g)
      /\ \A j \in 1 .. Len(g) : On(g, g[j])
      /\ \A x : On(g, x) => x \in Slots /\ \E j \in 1 .. Len(g) : g[j] = x
  BY <1>1, Listed
<1>4. /\ kept \subseteq Nat
      /\ \A j \in 1 .. Len(g) : j \in kept <=> g[j].end >= at
      /\ kept \subseteq 1 .. Len(g)
  BY <1>3
<1>5. kept # {}
  BY <1>2, <1>3, <1>4
<1>6. PICK m : m = CHOOSE i \in kept : \A j \in kept : i <= j
  OBVIOUS
<1>7. Flushed(g, at) = SubSeq(g, m, Len(g))
  BY <1>6 DEF Flushed
<1> HIDE DEF kept
<1>8. m \in kept /\ \A j \in kept : m <= j
  BY <1>4, <1>5, <1>6, LeastNumber
<1>9. m \in 1 .. Len(g) /\ m \in Nat \ {0}
  BY <1>3, <1>4, <1>8
<1>10. PICK c : c = SubSeq(g, m, Len(g))
  OBVIOUS
<1>11. /\ c \in Seq(Slots) /\ Ordered(c)
       /\ \A x : On(c, x) <=> \E j \in m .. Len(g) : g[j] = x
  <2>1. Len(g) \in Nat /\ Len(g) <= Len(g) /\ m \in Nat \ {0}
    BY <1>3, <1>9
  <2> QED
    BY <1>1, <1>10, <2>1, PartOf
<1>12. \A x : On(c, x) => On(g, x)
  <2>1. \A j \in m .. Len(g) : j \in 1 .. Len(g)
    BY <1>3, <1>9
  <2> QED
    BY <1>3, <1>11, <2>1
<1>13. ASSUME NEW x, On(g, x), x.end >= at PROVE On(c, x)
  <2>1. PICK j \in 1 .. Len(g) : g[j] = x
    BY <1>3, <1>13
  <2>2. j \in kept
    BY <1>4, <1>13, <2>1
  <2>3. j \in m .. Len(g)
    BY <1>3, <1>8, <1>9, <2>1, <2>2
  <2> QED
    BY <1>11, <2>1, <2>3
<1>14. On(c, z)
  BY <1>2, <1>13
<1>15. \A t \in Nat : Offers(c, t) => t \notin bk
  BY <1>1, <1>12 DEF Offers
<1>16. PICK k : k = Later(ck, at)
  OBVIOUS
<1>17. k \in Nat /\ ck <= k /\ at <= k
  BY <1>16 DEF Later
<1>18. ASSUME NEW t \in Nat, k <= t, t < Forever, t \notin bk PROVE Offers(c, t)
  <2>1. Offers(g, t)
    BY <1>1, <1>17, <1>18
  <2>2. PICK x \in Slots : On(g, x) /\ x.start <= t /\ t < x.end
    BY <2>1 DEF Offers
  <2>3. x.end \in Nat /\ x.end >= at
    BY <1>17, <1>18, <2>2, SlotFields
  <2> QED
    BY <1>13, <2>2, <2>3 DEF Offers
<1>19. LunOk(c, bk, k, b)
  BY <1>1, <1>2, <1>11, <1>12, <1>14, <1>15, <1>18 DEF LunOk
<1> QED
  BY <1>7, <1>10, <1>16, <1>19

-----------------------------------------------------------------------------
(* What a step carries along. *)

Caches == [list : Seq(MapPages), slot : UNION {[S -> Ids] : S \in SUBSET MapPages},
           free : Seq(Ids), dirty : [Ids -> BOOLEAN], avail : [Ids -> Nat]]
Histories == [booked : [Luns -> SUBSET Nat], unsaved : SUBSET MapPages,
              fetched : [MapPages -> Nat], clock : [Luns -> Nat],
              last : {<<>>} \cup (MapPages \X Nat)]
Works == [gaps : [Luns -> Seq(Slots)], cache : Caches, seen : Histories, time : Nat]

\* The lists of all LUNs are in order, and nothing is later than b.
LunsOk(w, b) == \A l \in Luns : LunOk(w.gaps[l], w.seen.booked[l], w.seen.clock[l], b)
Early(w, b) == w.time <= b /\ \A i \in Ids : w.cache.avail[i] <= b
WorkOk(w, b) == w \in Works /\ LunsOk(w, b) /\ Early(w, b)

\* A request is not before the longest operation, and a collection starts at 0.
Started(w) == w.time = 0 \/ \A k \in OpLats : k <= w.time

\* The fields of a record as it is carried along.
LEMMA WorkFields ==
  /\ \A w \in Works : /\ w.gaps \in [Luns -> Seq(Slots)] /\ w.cache \in Caches
                      /\ w.seen \in Histories /\ w.time \in Nat
  /\ \A h \in Histories : /\ h.booked \in [Luns -> SUBSET Nat] /\ h.unsaved \in SUBSET MapPages
                          /\ h.fetched \in [MapPages -> Nat] /\ h.clock \in [Luns -> Nat]
                          /\ h.last \in {<<>>} \cup (MapPages \X Nat)
  /\ \A c \in Caches : /\ c.list \in Seq(MapPages) /\ c.free \in Seq(Ids)
                       /\ c.slot \in [DOMAIN c.slot -> Ids] /\ DOMAIN c.slot \subseteq MapPages
                       /\ c.dirty \in [Ids -> BOOLEAN] /\ c.avail \in [Ids -> Nat]
<1>1. \A w \in Works : /\ w.gaps \in [Luns -> Seq(Slots)] /\ w.cache \in Caches
                       /\ w.seen \in Histories /\ w.time \in Nat
  BY DEF Works
<1>2. \A h \in Histories : /\ h.booked \in [Luns -> SUBSET Nat] /\ h.unsaved \in SUBSET MapPages
                           /\ h.fetched \in [MapPages -> Nat] /\ h.clock \in [Luns -> Nat]
                           /\ h.last \in {<<>>} \cup (MapPages \X Nat)
  BY DEF Histories
<1>3. ASSUME NEW c \in Caches
      PROVE  /\ c.list \in Seq(MapPages) /\ c.free \in Seq(Ids)
             /\ c.slot \in [DOMAIN c.slot -> Ids] /\ DOMAIN c.slot \subseteq MapPages
             /\ c.dirty \in [Ids -> BOOLEAN] /\ c.avail \in [Ids -> Nat]
  <2>1. /\ c.list \in Seq(MapPages) /\ c.free \in Seq(Ids)
        /\ c.slot \in UNION {[S -> Ids] : S \in SUBSET MapPages}
        /\ c.dirty \in [Ids -> BOOLEAN] /\ c.avail \in [Ids -> Nat]
    BY DEF Caches
  <2>2. PICK S \in SUBSET MapPages : c.slot \in [S -> Ids]
    BY <2>1
  <2> QED
    BY <2>1, <2>2
<1> QED
  BY <1>1, <1>2, <1>3

\* An operation takes its time on one LUN, and leaves the cache alone.
LEMMA Flashed ==
  ASSUME NEW b \in Nat, NEW w, WorkOk(w, b), Started(w), NEW l \in Luns, NEW lat \in OpLats,
         b + lat < Forever
  PROVE  LET r == Flash(w, l, lat)
         IN /\ WorkOk(r, b + lat)
            /\ w.time + lat <= r.time
            /\ r.cache = w.cache
            /\ r.seen.unsaved = w.seen.unsaved /\ r.seen.fetched = w.seen.fetched
            /\ r.seen.clock = w.seen.clock /\ r.seen.last = w.seen.last
<1> DEFINE r == Flash(w, l, lat)
<1>1. PICK a : a = AdvanceTimeSlot(w.gaps[l], w.time, lat)
  OBVIOUS
<1>2. PICK u : u = a.from .. a.from + lat - 1
  OBVIOUS
<1>3. r = [w EXCEPT !.gaps[l] = a.gaps, !.time = a.from + lat,
                    !.seen.booked[l] = @ \cup u]
  BY <1>1, <1>2 DEF Flash
<1> HIDE DEF r
<1>4. /\ w.gaps \in [Luns -> Seq(Slots)] /\ w.cache \in Caches
      /\ w.seen \in Histories /\ w.time \in Nat
      /\ w.seen.booked \in [Luns -> SUBSET Nat] /\ w.seen.clock \in [Luns -> Nat]
      /\ w.cache.avail \in [Ids -> Nat]
      /\ w \in Works
  BY WorkFields DEF WorkOk
<1>5. /\ w.time <= b /\ \A i \in Ids : w.cache.avail[i] <= b
      /\ \A k \in Luns : LunOk(w.gaps[k], w.seen.booked[k], w.seen.clock[k], b)
  BY DEF WorkOk, LunsOk, Early
<1>6. lat \in Nat \ {0} /\ \A k \in OpLats : k \in Nat \ {0}
  BY TimingSizes
<1>7. /\ a.from \in Nat /\ w.time <= a.from /\ a.from <= b
      /\ LunOk(a.gaps, w.seen.booked[l] \cup u, w.seen.clock[l], b + lat)
  <2>1. /\ w.seen.clock[l] \in Nat
        /\ LunOk(w.gaps[l], w.seen.booked[l], w.seen.clock[l], b)
        /\ w.time = 0 \/ \A k \in OpLats : k <= w.time
    BY <1>4, <1>5 DEF Started
  <2>2. PICK g, bk, ck, at : g = w.gaps[l] /\ bk = w.seen.booked[l]
                             /\ ck = w.seen.clock[l] /\ at = w.time
    OBVIOUS
  <2>3. /\ ck \in Nat /\ LunOk(g, bk, ck, b) /\ at \in Nat /\ at <= b
        /\ at = 0 \/ \A k \in OpLats : k <= at
    BY <1>4, <1>5, <2>1, <2>2
  <2>4. a = AdvanceTimeSlot(g, at, lat)
    BY <1>1, <2>2
  <2>5. /\ a.from \in Nat /\ at <= a.from /\ a.from <= b
        /\ LunOk(a.gaps, bk \cup u, ck, b + lat)
    BY <1>2, <2>3, <2>4, Booked
  <2> QED
    BY <2>2, <2>5
<1>8. /\ a.gaps \in Seq(Slots) /\ u \subseteq Nat
  <2>1. a.gaps \in Seq(Slots)
    BY <1>7 DEF LunOk
  <2> QED
    BY <1>2, <1>6, <1>7, <2>1
<1>9. /\ r.gaps = [w.gaps EXCEPT ![l] = a.gaps]
      /\ r.time = a.from + lat
      /\ r.cache = w.cache
      /\ r.seen = [w.seen EXCEPT !.booked = [w.seen.booked EXCEPT ![l] = w.seen.booked[l] \cup u]]
      /\ r = [gaps |-> r.gaps, cache |-> r.cache, seen |-> r.seen, time |-> r.time]
  BY <1>3, <1>4 DEF Works
<1>10. /\ r.seen \in Histories
       /\ r.seen.booked = [w.seen.booked EXCEPT ![l] = w.seen.booked[l] \cup u]
       /\ r.seen.unsaved = w.seen.unsaved /\ r.seen.fetched = w.seen.fetched
       /\ r.seen.clock = w.seen.clock /\ r.seen.last = w.seen.last
  <2>1. PICK h : h = [w.seen.booked EXCEPT ![l] = w.seen.booked[l] \cup u]
    OBVIOUS
  <2>2. h \in [Luns -> SUBSET Nat]
    BY <1>4, <1>8, <2>1
  <2>3. r.seen = [w.seen EXCEPT !.booked = h]
    BY <1>9, <2>1
  <2>4. /\ r.seen \in Histories /\ r.seen.booked = h
        /\ r.seen.unsaved = w.seen.unsaved /\ r.seen.fetched = w.seen.fetched
        /\ r.seen.clock = w.seen.clock /\ r.seen.last = w.seen.last
    BY <1>4, <2>2, <2>3 DEF Histories
  <2> QED
    BY <2>1, <2>4
<1>11. r \in Works
  <2>1. r.gaps \in [Luns -> Seq(Slots)] /\ r.time \in Nat
    BY <1>4, <1>6, <1>7, <1>8, <1>9
  <2> QED
    BY <1>4, <1>9, <1>10, <2>1 DEF Works
<1>12. LunsOk(r, b + lat)
  <2>1. ASSUME NEW k \in Luns PROVE LunOk(r.gaps[k], r.seen.booked[k], r.seen.clock[k], b + lat)
    <3>1. CASE k = l
      BY <1>4, <1>7, <1>9, <1>10, <3>1
    <3>2. CASE k # l
      <4>1. /\ r.gaps[k] = w.gaps[k] /\ r.seen.booked[k] = w.seen.booked[k]
            /\ r.seen.clock[k] = w.seen.clock[k]
        BY <1>4, <1>9, <1>10, <3>2
      <4>2. LunOk(w.gaps[k], w.seen.booked[k], w.seen.clock[k], b)
        BY <1>5
      <4>3. \A x \in Slots : x.start <= b => x.start <= b + lat
        BY <1>6, SlotFields
      <4>4. LunOk(w.gaps[k], w.seen.booked[k], w.seen.clock[k], b + lat)
        BY <4>2, <4>3 DEF LunOk
      <4> QED
        BY <4>1, <4>4
    <3> QED
      BY <3>1, <3>2
  <2> QED
    BY <2>1 DEF LunsOk
<1>13. Early(r, b + lat)
  <2>1. r.time <= b + lat
    BY <1>6, <1>7, <1>9
  <2>2. \A i \in Ids : r.cache.avail[i] <= b + lat
    BY <1>4, <1>5, <1>6, <1>9
  <2> QED
    BY <2>1, <2>2 DEF Early
<1>15. w.time + lat <= r.time
  BY <1>4, <1>6, <1>7, <1>9
<1> QED
  BY <1>9, <1>10, <1>11, <1>12, <1>13, <1>15 DEF WorkOk, r

-----------------------------------------------------------------------------
(* The cache of mapping pages. *)

\* The state c of the cache: un are the pages with changes not saved, fe says
\* when a page has arrived.
CacheOk(c, un, fe) ==
  /\ \A p : p \in un <=> p \in DOMAIN c.slot /\ c.dirty[c.slot[p]]
  /\ Once(c.list) /\ \A p : On(c.list, p) <=> p \in DOMAIN c.slot
  /\ \A p, q \in DOMAIN c.slot : c.slot[p] = c.slot[q] => p = q
  /\ Once(c.free)
  /\ \A i \in Ids : On(c.free, i) <=> ~ \E p \in DOMAIN c.slot : c.slot[p] = i
  /\ \A p \in DOMAIN c.slot : fe[p] <= c.avail[c.slot[p]]

\* The least recently used page leaves a full cache in order.
LEMMA Evicted ==
  ASSUME NEW c \in Caches, NEW un, NEW fe, CacheOk(c, un, fe), c.free = <<>>, NEW t \in Nat
  PROVE  /\ Last(c.list) \in DOMAIN c.slot
         /\ WithoutLast(c, t) \in Caches
         /\ CacheOk(WithoutLast(c, t), un \ {Last(c.list)}, fe)
         /\ WithoutLast(c, t).free # <<>>
<1>1. /\ c.list \in Seq(MapPages) /\ c.free \in Seq(Ids)
      /\ c.slot \in [DOMAIN c.slot -> Ids] /\ DOMAIN c.slot \subseteq MapPages
      /\ c.dirty \in [Ids -> BOOLEAN] /\ c.avail \in [Ids -> Nat]
  BY WorkFields
<1>2. /\ \A p : p \in un <=> p \in DOMAIN c.slot /\ c.dirty[c.slot[p]]
      /\ Once(c.list) /\ \A p : On(c.list, p) <=> p \in DOMAIN c.slot
      /\ \A p, q \in DOMAIN c.slot : c.slot[p] = c.slot[q] => p = q
      /\ Once(c.free)
      /\ \A i \in Ids : On(c.free, i) <=> ~ \E p \in DOMAIN c.slot : c.slot[p] = i
      /\ \A p \in DOMAIN c.slot : fe[p] <= c.avail[c.slot[p]]
  BY DEF CacheOk
<1>3. \A i : ~ On(c.free, i)
  BY DEF On
<1>4. 1 \in Ids
  BY TimingSizes DEF Ids
<1>5. c.list # <<>>
  <2>1. PICK p \in DOMAIN c.slot : c.slot[p] = 1
    BY <1>2, <1>3, <1>4
  <2>2. On(c.list, p)
    BY <1>2
  <2> QED
    BY <2>2 DEF On
<1>6. PICK v : v = Last(c.list)
  OBVIOUS
<1>7. /\ Front(c.list) \in Seq(MapPages) /\ v \in MapPages /\ On(c.list, v)
      /\ Once(Front(c.list)) /\ \A f : On(Front(c.list), f) <=> On(c.list, f) /\ f # v
  BY <1>1, <1>2, <1>5, <1>6, FrontOnce
<1>8. v \in DOMAIN c.slot /\ c.slot[v] \in Ids
  BY <1>1, <1>2, <1>7
<1>9. PICK id : id = c.slot[v]
  OBVIOUS
<1>10. PICK ls, sl, fr, di, av :
         /\ ls = Front(c.list) /\ sl = Restrict(c.slot, DOMAIN c.slot \ {v})
         /\ fr = Append(c.free, id) /\ di = [c.dirty EXCEPT ![id] = FALSE]
         /\ av = [c.avail EXCEPT ![id] = t]
  OBVIOUS
<1>11. PICK d : d = [list |-> ls, slot |-> sl, free |-> fr, dirty |-> di, avail |-> av]
  OBVIOUS
<1>12. d = WithoutLast(c, t)
  BY <1>6, <1>9, <1>10, <1>11 DEF WithoutLast
<1>13. /\ d.list = ls /\ d.slot = sl /\ d.free = fr /\ d.dirty = di /\ d.avail = av
  BY <1>11
<1>14. /\ DOMAIN sl = DOMAIN c.slot \ {v} /\ sl \in [DOMAIN sl -> Ids]
       /\ DOMAIN sl \subseteq MapPages
       /\ \A p \in DOMAIN sl : sl[p] = c.slot[p]
  BY <1>1, <1>10 DEF Restrict
<1>15. /\ fr \in Seq(Ids) /\ Once(fr) /\ \A i : On(fr, i) <=> i = id
  <2>1. id \in Ids /\ ~ On(c.free, id)
    BY <1>3, <1>8, <1>9
  <2>2. \A f \in Seq(Ids) : /\ Append(f, id) \in Seq(Ids)
                            /\ \A i : On(Append(f, id), i) <=> On(f, i) \/ i = id
                            /\ Once(f) /\ ~ On(f, id) => Once(Append(f, id))
    BY <2>1, AppendedOnce
  <2>3. /\ fr \in Seq(Ids) /\ \A i : On(fr, i) <=> On(c.free, i) \/ i = id
        /\ Once(c.free) /\ ~ On(c.free, id) => Once(fr)
    BY <1>1, <1>10, <2>2
  <2> QED
    BY <1>2, <1>3, <2>1, <2>3
<1>16. d \in Caches
  <2>1. sl \in UNION {[S -> Ids] : S \in SUBSET MapPages}
    BY <1>14
  <2>2. ls \in Seq(MapPages) /\ di \in [Ids -> BOOLEAN] /\ av \in [Ids -> Nat]
    BY <1>1, <1>7, <1>8, <1>9, <1>10
  <2> QED
    BY <1>11, <1>15, <2>1, <2>2 DEF Caches
<1>17. \A p \in DOMAIN sl : sl[p] # id /\ sl[p] \in Ids /\ p \in DOMAIN c.slot /\ p # v
  BY <1>1, <1>2, <1>8, <1>9, <1>14
<1>18. CacheOk(d, un \ {v}, fe)
  <2>1. \A p \in DOMAIN sl : di[sl[p]] = c.dirty[c.slot[p]] /\ av[sl[p]] = c.avail[c.slot[p]]
    BY <1>1, <1>10, <1>14, <1>17
  <2>2. ASSUME NEW p PROVE p \in un \ {v} <=> p \in DOMAIN sl /\ di[sl[p]]
    <3>1. CASE p \in DOMAIN sl
      BY <1>2, <1>14, <1>17, <2>1, <3>1
    <3>2. CASE p \notin DOMAIN sl
      BY <1>2, <1>14, <3>2
    <3> QED
      BY <3>1, <3>2
  <2>3. Once(ls) /\ \A p : On(ls, p) <=> p \in DOMAIN sl
    BY <1>2, <1>7, <1>10, <1>14
  <2>4. \A p, q \in DOMAIN sl : sl[p] = sl[q] => p = q
    BY <1>2, <1>14, <1>17
  <2>5. \A i \in Ids : On(fr, i) <=> ~ \E p \in DOMAIN sl : sl[p] = i
    <3>1. ASSUME NEW i \in Ids, i # id PROVE \E p \in DOMAIN sl : sl[p] = i
      <4>1. PICK p \in DOMAIN c.slot : c.slot[p] = i
        BY <1>2, <1>3
      <4>2. p \in DOMAIN sl
        BY <1>9, <1>14, <3>1, <4>1
      <4> QED
        BY <1>14, <4>1, <4>2
    <3> QED
      BY <1>15, <1>17, <3>1
  <2>6. \A p \in DOMAIN sl : fe[p] <= av[sl[p]]
    BY <1>2, <1>17, <2>1
  <2> QED
    BY <1>13, <1>15, <2>2, <2>3, <2>4, <2>5, <2>6 DEF CacheOk
<1>19. fr # <<>>
  BY <1>15 DEF On
<1> QED
  BY <1>6, <1>8, <1>12, <1>13, <1>16, <1>18, <1>19

\* A page comes into the cache with its flag and the time it arrives.
LEMMA Fetched ==
  ASSUME NEW c \in Caches, NEW un, NEW fe \in [MapPages -> Nat], CacheOk(c, un, fe),
         c.free # <<>>, NEW p \in MapPages, p \notin DOMAIN c.slot,
         NEW b \in BOOLEAN, NEW t \in Nat
  PROVE  /\ Last(c.free) \in Ids
         /\ WithPage(c, p, b, t) \in Caches
         /\ CacheOk(WithPage(c, p, b, t), IF b THEN un \cup {p} ELSE un, [fe EXCEPT ![p] = t])
<1>1. /\ c.list \in Seq(MapPages) /\ c.free \in Seq(Ids)
      /\ c.slot \in [DOMAIN c.slot -> Ids] /\ DOMAIN c.slot \subseteq MapPages
      /\ c.dirty \in [Ids -> BOOLEAN] /\ c.avail \in [Ids -> Nat]
  BY WorkFields
<1>2. /\ \A q : q \in un <=> q \in DOMAIN c.slot /\ c.dirty[c.slot[q]]
      /\ Once(c.list) /\ \A q : On(c.list, q) <=> q \in DOMAIN c.slot
      /\ \A q, r \in DOMAIN c.slot : c.slot[q] = c.slot[r] => q = r
      /\ Once(c.free)
      /\ \A i \in Ids : On(c.free, i) <=> ~ \E q \in DOMAIN c.slot : c.slot[q] = i
      /\ \A q \in DOMAIN c.slot : fe[q] <= c.avail[c.slot[q]]
  BY DEF CacheOk
<1>3. PICK id : id = Last(c.free)
  OBVIOUS
<1>4. PICK ls, sl, fr, di, av :
        /\ ls = <<p>> \o c.list
        /\ sl = [q \in DOMAIN c.slot \cup {p} |-> IF q = p THEN id ELSE c.slot[q]]
        /\ fr = Front(c.free) /\ di = [c.dirty EXCEPT ![id] = b]
        /\ av = [c.avail EXCEPT ![id] = t]
  OBVIOUS
<1>5. PICK d : d = [list |-> ls, slot |-> sl, free |-> fr, dirty |-> di, avail |-> av]
  OBVIOUS
<1>6. d = WithPage(c, p, b, t)
  BY <1>3, <1>4, <1>5 DEF WithPage
<1>7. /\ d.list = ls /\ d.slot = sl /\ d.free = fr /\ d.dirty = di /\ d.avail = av
  BY <1>5
<1>8. /\ fr \in Seq(Ids) /\ id \in Ids /\ On(c.free, id)
      /\ Once(fr) /\ \A i : On(fr, i) <=> On(c.free, i) /\ i # id
  BY <1>1, <1>2, <1>3, <1>4, FrontOnce
<1>9. /\ ls \in Seq(MapPages) /\ Once(ls) /\ \A q : On(ls, q) <=> On(c.list, q) \/ q = p
  <2>1. ~ On(c.list, p)
    BY <1>2
  <2> QED
    BY <1>1, <1>2, <1>4, <2>1, PrependedOnce
<1>10. /\ DOMAIN sl = DOMAIN c.slot \cup {p} /\ sl[p] = id
       /\ \A q \in DOMAIN c.slot : sl[q] = c.slot[q] /\ sl[q] # id /\ sl[q] \in Ids /\ q # p
       /\ sl \in [DOMAIN sl -> Ids] /\ DOMAIN sl \subseteq MapPages
  BY <1>1, <1>2, <1>4, <1>8
<1>11. d \in Caches
  <2>1. sl \in UNION {[S -> Ids] : S \in SUBSET MapPages}
    BY <1>10
  <2>2. di \in [Ids -> BOOLEAN] /\ av \in [Ids -> Nat]
    BY <1>1, <1>4, <1>8
  <2> QED
    BY <1>5, <1>8, <1>9, <2>1, <2>2 DEF Caches
<1>12. /\ \A q \in DOMAIN c.slot : di[sl[q]] = c.dirty[c.slot[q]] /\ av[sl[q]] = c.avail[c.slot[q]]
       /\ di[sl[p]] = b /\ av[sl[p]] = t
  BY <1>1, <1>4, <1>8, <1>10
<1>13. PICK vn, ve : vn = (IF b THEN un \cup {p} ELSE un) /\ ve = [fe EXCEPT ![p] = t]
  OBVIOUS
<1>14. CacheOk(d, vn, ve)
  <2>1. ASSUME NEW q PROVE q \in vn <=> q \in DOMAIN sl /\ di[sl[q]]
    <3>1. CASE q = p
      <4>1. p \notin un /\ p \in DOMAIN sl
        BY <1>2, <1>10
      <4>2. p \in vn <=> b
        BY <1>13, <4>1
      <4> QED
        BY <1>12, <3>1, <4>1, <4>2
    <3>2. CASE q # p /\ q \in DOMAIN c.slot
      <4>1. q \in vn <=> q \in un
        BY <1>13, <3>2
      <4>2. q \in DOMAIN sl
        BY <1>10, <3>2
      <4> QED
        BY <1>2, <1>12, <3>2, <4>1, <4>2
    <3>3. CASE q # p /\ q \notin DOMAIN c.slot
      BY <1>2, <1>10, <1>13, <3>3
    <3> QED
      BY <3>1, <3>2, <3>3
  <2>2. \A q : On(ls, q) <=> q \in DOMAIN sl
    BY <1>2, <1>9, <1>10
  <2>3. \A q, r \in DOMAIN sl : sl[q] = sl[r] => q = r
    BY <1>2, <1>10
  <2>4. ASSUME NEW i \in Ids PROVE On(fr, i) <=> ~ \E q \in DOMAIN sl : sl[q] = i
    <3>1. (\E q \in DOMAIN sl : sl[q] = i) <=> i = id \/ \E q \in DOMAIN c.slot : c.slot[q] = i
      BY <1>10
    <3> QED
      BY <1>2, <1>8, <3>1
  <2>5. \A q \in DOMAIN sl : ve[q] <= av[sl[q]]
    <3>1. ve[p] = t /\ \A q \in MapPages : q # p => ve[q] = fe[q]
      BY <1>13
    <3> QED
      BY <1>1, <1>2, <1>10, <1>12, <3>1
  <2> QED
    BY <1>7, <1>8, <1>9, <2>1, <2>2, <2>3, <2>4, <2>5 DEF CacheOk
<1> QED
  BY <1>3, <1>6, <1>8, <1>11, <1>13, <1>14

\* A page that is used keeps its flag, and gets it with a change.
LEMMA Used ==
  ASSUME NEW c \in Caches, NEW un, NEW fe, CacheOk(c, un, fe),
         NEW p \in DOMAIN c.slot, NEW b \in BOOLEAN
  PROVE  /\ c.slot[p] \in Ids
         /\ WithUsed(c, p, b) \in Caches
         /\ WithUsed(c, p, b).slot = c.slot /\ WithUsed(c, p, b).avail = c.avail
         /\ CacheOk(WithUsed(c, p, b), IF b THEN un \cup {p} ELSE un, fe)
<1>1. /\ c.list \in Seq(MapPages) /\ c.free \in Seq(Ids)
      /\ c.slot \in [DOMAIN c.slot -> Ids] /\ DOMAIN c.slot \subseteq MapPages
      /\ c.dirty \in [Ids -> BOOLEAN] /\ c.avail \in [Ids -> Nat]
  BY WorkFields
<1>2. /\ \A q : q \in un <=> q \in DOMAIN c.slot /\ c.dirty[c.slot[q]]
      /\ Once(c.list) /\ \A q : On(c.list, q) <=> q \in DOMAIN c.slot
      /\ \A q, r \in DOMAIN c.slot : c.slot[q] = c.slot[r] => q = r
      /\ Once(c.free)
      /\ \A i \in Ids : On(c.free, i) <=> ~ \E q \in DOMAIN c.slot : c.slot[q] = i
      /\ \A q \in DOMAIN c.slot : fe[q] <= c.avail[c.slot[q]]
  BY DEF CacheOk
<1>3. c.slot[p] \in Ids /\ p \in MapPages /\ On(c.list, p)
  BY <1>1, <1>2
<1>4. PICK k : k = Without(c.list, p)
  OBVIOUS
<1>5. k \in Seq(MapPages) /\ Once(k) /\ \A q : On(k, q) <=> On(c.list, q) /\ q # p
  BY <1>1, <1>2, <1>3, <1>4, FoundRemoved DEF Without
<1>6. PICK ls, di : /\ ls = <<p>> \o k
                    /\ di = [c.dirty EXCEPT ![c.slot[p]] = c.dirty[c.slot[p]] \/ b]
  OBVIOUS
<1>7. ls \in Seq(MapPages) /\ Once(ls) /\ \A q : On(ls, q) <=> On(c.list, q)
  BY <1>3, <1>5, <1>6, PrependedOnce
<1>8. di \in [Ids -> BOOLEAN]
  BY <1>1, <1>3, <1>6
<1>9. PICK d : d = [c EXCEPT !.list = ls, !.dirty = di]
  OBVIOUS
<1>10. d = WithUsed(c, p, b)
  BY <1>4, <1>6, <1>9 DEF WithUsed
<1>11. /\ d \in Caches /\ d.list = ls /\ d.dirty = di
       /\ d.slot = c.slot /\ d.free = c.free /\ d.avail = c.avail
  BY <1>7, <1>8, <1>9 DEF Caches
<1>12. PICK vn : vn = (IF b THEN un \cup {p} ELSE un)
  OBVIOUS
<1>13. CacheOk(d, vn, fe)
  <2>1. ASSUME NEW q PROVE q \in vn <=> q \in DOMAIN c.slot /\ di[c.slot[q]]
    <3>1. CASE q = p
      <4>1. p \in vn <=> b \/ p \in un
        BY <1>12
      <4>2. di[c.slot[p]] <=> b \/ c.dirty[c.slot[p]]
        BY <1>1, <1>3, <1>6
      <4> QED
        BY <1>2, <3>1, <4>1, <4>2
    <3>2. CASE q # p /\ q \in DOMAIN c.slot
      <4>1. q \in vn <=> q \in un
        BY <1>12, <3>2
      <4>2. c.slot[q] # c.slot[p] /\ c.slot[q] \in Ids
        BY <1>1, <1>2, <3>2
      <4>3. di[c.slot[q]] = c.dirty[c.slot[q]]
        BY <1>1, <1>3, <1>6, <4>2
      <4> QED
        BY <1>2, <3>2, <4>1, <4>3
    <3>3. CASE q # p /\ q \notin DOMAIN c.slot
      BY <1>2, <1>12, <3>3
    <3> QED
      BY <3>1, <3>2, <3>3
  <2> QED
    BY <1>2, <1>7, <1>11, <2>1 DEF CacheOk
<1> QED
  BY <1>3, <1>10, <1>11, <1>12, <1>13

-----------------------------------------------------------------------------
(* A request on its way to its mapping page. *)

\* The clock has run for longer than the longest operation.
Running(w) == \A k \in OpLats : k <= w.time
CachedOk(w) == CacheOk(w.cache, w.seen.unsaved, w.seen.fetched)

\* What a LUN list is later than does not matter.
LEMMA LaterBound ==
  ASSUME NEW w \in Works, NEW b \in Nat, NEW c \in Nat, b <= c, LunsOk(w, b)
  PROVE  LunsOk(w, c)
<1>1. \A x \in Slots : x.start <= b => x.start <= c
  BY SlotFields
<1> QED
  BY <1>1 DEF LunsOk, LunOk

\* The largest of two times.
LEMMA LaterFacts ==
  ASSUME NEW a \in Nat, NEW c \in Nat
  PROVE  /\ Later(a, c) \in Nat /\ a <= Later(a, c) /\ c <= Later(a, c)
         /\ Later(a, c) \in {a, c}
BY DEF Later

\* A request waits until index id is available.
LEMMA Waited ==
  ASSUME NEW b \in Nat, NEW w, WorkOk(w, b), Running(w), NEW id \in Ids
  PROVE  LET r == [w EXCEPT !.time = Later(@, w.cache.avail[id])]
         IN /\ WorkOk(r, b) /\ Running(r) /\ w.time <= r.time
            /\ w.cache.avail[id] <= r.time
            /\ r.cache = w.cache /\ r.seen = w.seen
<1>1. /\ w.time \in Nat /\ w.cache \in Caches /\ w.cache.avail \in [Ids -> Nat]
      /\ w \in Works /\ w.time <= b /\ \A i \in Ids : w.cache.avail[i] <= b
  BY WorkFields DEF WorkOk, Early
<1>2. PICK t : t = Later(w.time, w.cache.avail[id])
  OBVIOUS
<1>3. /\ t \in Nat /\ w.time <= t /\ w.cache.avail[id] <= t
      /\ t = w.time \/ t = w.cache.avail[id]
  <2>1. w.cache.avail[id] \in Nat
    BY <1>1
  <2> QED
    BY <1>1, <1>2, <2>1, LaterFacts
<1>4. PICK r : r = [w EXCEPT !.time = t]
  OBVIOUS
<1>5. r = [w EXCEPT !.time = Later(@, w.cache.avail[id])]
  BY <1>2, <1>4
<1>6. /\ r \in Works /\ r.gaps = w.gaps /\ r.cache = w.cache /\ r.seen = w.seen /\ r.time = t
  BY <1>1, <1>3, <1>4 DEF Works
<1>7. LunsOk(r, b)
  BY <1>6 DEF WorkOk, LunsOk
<1>8. Early(r, b)
  BY <1>1, <1>3, <1>6 DEF Early
<1>9. Running(r)
  <2>1. \A k \in OpLats : k \in Nat /\ k <= w.time
    BY TimingSizes DEF Running
  <2> QED
    BY <1>1, <1>3, <1>6, <2>1 DEF Running
<1> QED
  BY <1>3, <1>5, <1>6, <1>7, <1>8, <1>9 DEF WorkOk

\* The LUN of a mapping page is one of those there are.
LEMMA MapLunRange ==
  ASSUME NEW p \in MapPages
  PROVE  MapLun(p) \in Luns
<1>1. p \in Nat /\ SplitUnits \in Nat \ {0} /\ SplitRatio \in Nat \ {0}
  BY LayoutAssumption
<1>2. NrLuns \in Nat \ {0}
  BY TimingSizes
<1>3. SegSize \in Nat \ {0}
  <2>1. \A a, c \in Nat \ {0} : a * (1 + c) \in Nat \ {0}
    OBVIOUS
  <2> QED
    BY <1>1, <2>1 DEF SegSize
<1>4. p \div SegSize \in Int /\ p % SegSize \in Int
  BY <1>1, <1>3
<1>5. \A a \in Int : \A c \in Nat \ {0} : \A d \in Int : a * c + d - 1 \in Int
  OBVIOUS
<1>6. PICK n : n = (p \div SegSize) * SplitRatio + (p % SegSize) - 1
  OBVIOUS
<1>7. n \in Int
  BY <1>1, <1>4, <1>5, <1>6
<1>8. n % NrLuns \in 0 .. NrLuns - 1
  BY <1>2, <1>7
<1> QED
  BY <1>6, <1>8 DEF MapLun, Luns

\* A page that leaves the cache is written back if it has changes.
LEMMA PoppedOk ==
  ASSUME NEW b \in Nat, NEW w, WorkOk(w, b), Running(w), CachedOk(w),
         w.cache.free = <<>>, b + WriteLat < Forever
  PROVE  LET r == Popped(w)
         IN /\ WorkOk(r, b + WriteLat) /\ Running(r) /\ CachedOk(r)
            /\ r.cache.free # <<>>
            /\ DOMAIN r.cache.slot \subseteq DOMAIN w.cache.slot
            /\ w.time <= r.time
            /\ r.seen.clock = w.seen.clock /\ r.seen.last = w.seen.last
<1>1. PICK v : v = Last(w.cache.list)
  OBVIOUS
<1>2. PICK id : id = w.cache.slot[v]
  OBVIOUS
<1>3. PICK waited : waited = [w EXCEPT !.time = Later(@, w.cache.avail[id])]
  OBVIOUS
<1>4. PICK saved : saved = IF w.cache.dirty[id]
                           THEN [FtlPageWrite(waited, v) EXCEPT !.seen.unsaved = @ \ {v}]
                           ELSE waited
  OBVIOUS
<1>5. Popped(w) = [saved EXCEPT !.cache = WithoutLast(@, saved.time)]
  BY <1>1, <1>2, <1>3, <1>4 DEF Popped
<1>6. /\ w.cache \in Caches /\ w.seen \in Histories /\ w \in Works /\ w.time \in Nat
      /\ w.seen.unsaved \in SUBSET MapPages
  BY WorkFields DEF WorkOk
<1>7. /\ v \in DOMAIN w.cache.slot /\ v \in MapPages /\ id \in Ids
      /\ w.cache.slot \in [DOMAIN w.cache.slot -> Ids] /\ w.cache.dirty \in [Ids -> BOOLEAN]
  <2>1. v \in DOMAIN w.cache.slot
    BY <1>1, <1>6, Evicted DEF CachedOk
  <2> QED
    BY <1>2, <1>6, <2>1, WorkFields
<1>8. /\ WorkOk(waited, b) /\ Running(waited) /\ w.time <= waited.time
      /\ waited.cache = w.cache /\ waited.seen = w.seen
  BY <1>3, <1>7, Waited
<1>9. v \in w.seen.unsaved <=> w.cache.dirty[id]
  BY <1>2, <1>7 DEF CachedOk, CacheOk
<1>10. waited \in Works /\ waited.time \in Nat
  BY <1>8, WorkFields DEF WorkOk
<1>11. WriteLat \in OpLats /\ WriteLat \in Nat \ {0} /\ \A k \in OpLats : k \in Nat
  BY TimingSizes DEF OpLats
<1>12. /\ WorkOk(saved, b + WriteLat) /\ Running(saved) /\ w.time <= saved.time
       /\ saved.cache = w.cache
       /\ saved.seen.unsaved = w.seen.unsaved \ {v}
       /\ saved.seen.fetched = w.seen.fetched
       /\ saved.seen.clock = w.seen.clock /\ saved.seen.last = w.seen.last
  <2>1. CASE w.cache.dirty[id]
    <3>1. PICK f : f = FtlPageWrite(waited, v)
      OBVIOUS
    <3>2. /\ WorkOk(f, b + WriteLat) /\ waited.time + WriteLat <= f.time
          /\ f.cache = w.cache
          /\ f.seen.unsaved = w.seen.unsaved /\ f.seen.fetched = w.seen.fetched
          /\ f.seen.clock = w.seen.clock /\ f.seen.last = w.seen.last
      <4>1. MapLun(v) \in Luns
        BY <1>7, MapLunRange
      <4>2. Started(waited)
        BY <1>8 DEF Started, Running
      <4>3. f = Flash(waited, MapLun(v), WriteLat)
        BY <3>1 DEF FtlPageWrite
      <4> QED
        BY <1>8, <1>11, <4>1, <4>2, <4>3, Flashed
    <3>3. f \in Works /\ f.seen \in Histories /\ f.time \in Nat
      BY <3>2, WorkFields DEF WorkOk
    <3>4. PICK h : h = [f.seen EXCEPT !.unsaved = w.seen.unsaved \ {v}]
      OBVIOUS
    <3>5. /\ h \in Histories /\ h.unsaved = w.seen.unsaved \ {v}
          /\ h.booked = f.seen.booked /\ h.fetched = f.seen.fetched
          /\ h.clock = f.seen.clock /\ h.last = f.seen.last
      BY <1>6, <3>3, <3>4 DEF Histories
    <3>6. saved = [f EXCEPT !.seen = h]
      <4>1. saved = [f EXCEPT !.seen.unsaved = @ \ {v}]
        BY <1>4, <2>1, <3>1
      <4> QED
        BY <3>2, <3>3, <3>4, <4>1 DEF Works
    <3>7. /\ saved \in Works /\ saved.seen = h /\ saved.gaps = f.gaps
          /\ saved.cache = f.cache /\ saved.time = f.time
      BY <3>3, <3>5, <3>6 DEF Works
    <3>8. WorkOk(saved, b + WriteLat)
      BY <3>2, <3>5, <3>7 DEF WorkOk, LunsOk, Early
    <3>9. Running(saved) /\ w.time <= saved.time
      BY <1>6, <1>8, <1>10, <1>11, <3>2, <3>3, <3>7 DEF Running
    <3> QED
      BY <3>2, <3>5, <3>7, <3>8, <3>9
  <2>2. CASE ~ w.cache.dirty[id]
    <3>1. saved = waited
      BY <1>4, <2>2
    <3>2. w.seen.unsaved = w.seen.unsaved \ {v}
      BY <1>9, <2>2
    <3>3. b + WriteLat \in Nat /\ b <= b + WriteLat
      BY <1>11
    <3>4. LunsOk(waited, b + WriteLat)
      BY <1>8, <1>10, <3>3, LaterBound DEF WorkOk
    <3>5. Early(waited, b + WriteLat)
      <4>1. waited.cache.avail \in [Ids -> Nat]
        BY <1>6, <1>8, WorkFields
      <4> QED
        BY <1>8, <1>10, <1>11, <4>1 DEF WorkOk, Early
    <3> QED
      BY <1>8, <1>10, <3>1, <3>2, <3>4, <3>5 DEF WorkOk
  <2> QED
    BY <2>1, <2>2
<1>13. saved \in Works /\ saved.time \in Nat /\ saved.time <= b + WriteLat
  BY <1>12, WorkFields DEF WorkOk, Early
<1>14. PICK c : c = WithoutLast(w.cache, saved.time)
  OBVIOUS
<1>15. c \in Caches /\ CacheOk(c, w.seen.unsaved \ {v}, w.seen.fetched) /\ c.free # <<>>
  BY <1>1, <1>6, <1>13, <1>14, Evicted DEF CachedOk
<1>16. /\ c.avail = [w.cache.avail EXCEPT ![id] = saved.time]
       /\ c.slot = Restrict(w.cache.slot, DOMAIN w.cache.slot \ {v})
  BY <1>1, <1>2, <1>14 DEF WithoutLast
<1>17. Popped(w) = [saved EXCEPT !.cache = c]
  BY <1>5, <1>12, <1>14
<1>18. PICK r : r = Popped(w)
  OBVIOUS
<1>19. /\ r \in Works /\ r.cache = c /\ r.gaps = saved.gaps /\ r.seen = saved.seen
       /\ r.time = saved.time
  BY <1>13, <1>15, <1>17, <1>18 DEF Works
<1>20. WorkOk(r, b + WriteLat)
  <2>1. \A i \in Ids : r.cache.avail[i] <= b + WriteLat
    <3>1. w.cache.avail \in [Ids -> Nat] /\ \A i \in Ids : w.cache.avail[i] <= b + WriteLat
      BY <1>6, <1>12, WorkFields DEF WorkOk, Early
    <3> QED
      BY <1>7, <1>13, <1>16, <1>19, <3>1
  <2> QED
    BY <1>12, <1>13, <1>19, <2>1 DEF WorkOk, LunsOk, Early
<1>21. CachedOk(r)
  BY <1>12, <1>15, <1>19 DEF CachedOk
<1>22. DOMAIN r.cache.slot \subseteq DOMAIN w.cache.slot
  BY <1>16, <1>19 DEF Restrict
<1>23. Running(r)
  BY <1>12, <1>19 DEF Running
<1> QED
  BY <1>12, <1>15, <1>18, <1>19, <1>20, <1>21, <1>22, <1>23

\* What a request finds when it has its mapping page p: r is what it carries
\* along then, and has carried along before as w.
Mapped(w, r, p, dirty, b) ==
  /\ WorkOk(r, b) /\ Running(r) /\ w.time <= r.time
  /\ CacheOk(r.cache, IF dirty THEN r.seen.unsaved \cup {p} ELSE r.seen.unsaved, r.seen.fetched)
  /\ r.seen.fetched[p] <= r.time

\* What is not later than a time is not later than a later one.
LEMMA WorkLater ==
  ASSUME NEW b \in Nat, NEW c \in Nat, b <= c, NEW w, WorkOk(w, b)
  PROVE  WorkOk(w, c)
<1>1. w \in Works /\ w.time \in Nat /\ w.cache.avail \in [Ids -> Nat]
  BY WorkFields DEF WorkOk
<1>2. LunsOk(w, c)
  BY <1>1, LaterBound DEF WorkOk
<1>3. Early(w, c)
  BY <1>1 DEF WorkOk, Early
<1> QED
  BY <1>1, <1>2, <1>3 DEF WorkOk

\* A page that is not in the cache is fetched.
LEMMA PutOk ==
  ASSUME NEW b \in Nat, NEW w, WorkOk(w, b), Running(w), CachedOk(w),
         NEW p \in MapPages, p \notin DOMAIN w.cache.slot, NEW dirty \in BOOLEAN,
         b + WriteLat + ReadLat < Forever
  PROVE  Mapped(w, Put(w, p, dirty), p, dirty, b + WriteLat + ReadLat)
<1>1. PICK room : room = IF w.cache.free = <<>> THEN Popped(w) ELSE w
  OBVIOUS
<1>2. PICK id : id = Last(room.cache.free)
  OBVIOUS
<1>3. PICK waited : waited = [room EXCEPT !.time = Later(@, room.cache.avail[id])]
  OBVIOUS
<1>4. PICK got : got = FtlPageRead(waited, p)
  OBVIOUS
<1>5. Put(w, p, dirty) = [got EXCEPT !.cache = WithPage(@, p, dirty, got.time),
                                     !.seen.fetched[p] = got.time]
  BY <1>1, <1>2, <1>3, <1>4 DEF Put
<1>6. /\ w \in Works /\ w.time \in Nat
      /\ WriteLat \in Nat \ {0} /\ ReadLat \in Nat \ {0} /\ ReadLat \in OpLats
      /\ b + WriteLat \in Nat /\ b <= b + WriteLat /\ b + WriteLat < Forever
      /\ Forever \in Nat
  BY WorkFields, TimingSizes DEF WorkOk, OpLats
<1>7. /\ WorkOk(room, b + WriteLat) /\ Running(room) /\ CachedOk(room)
      /\ room.cache.free # <<>> /\ p \notin DOMAIN room.cache.slot /\ w.time <= room.time
  <2>1. CASE w.cache.free = <<>>
    BY <1>1, <1>6, <2>1, PoppedOk
  <2>2. CASE w.cache.free # <<>>
    <3>1. WorkOk(w, b + WriteLat)
      BY <1>6, WorkLater
    <3> QED
      BY <1>1, <1>6, <2>2, <3>1
  <2> QED
    BY <2>1, <2>2
<1>8. /\ room \in Works /\ room.time \in Nat /\ room.cache \in Caches
      /\ room.seen.fetched \in [MapPages -> Nat]
  BY <1>7, WorkFields DEF WorkOk
<1>9. id \in Ids
  <2>1. CacheOk(room.cache, room.seen.unsaved, room.seen.fetched)
    BY <1>7 DEF CachedOk
  <2> QED
    BY <1>2, <1>7, <1>8, <2>1, Fetched
<1>10. /\ WorkOk(waited, b + WriteLat) /\ Running(waited) /\ room.time <= waited.time
       /\ waited.cache = room.cache /\ waited.seen = room.seen
  <2>1. b + WriteLat \in Nat
    BY <1>6
  <2> HIDE DEF Running
  <2> QED
    BY <1>3, <1>7, <1>9, <2>1, Waited
<1>11. waited \in Works /\ waited.time \in Nat
  BY <1>10, WorkFields DEF WorkOk
<1>12. /\ WorkOk(got, b + WriteLat + ReadLat) /\ waited.time + ReadLat <= got.time
       /\ got.cache = room.cache
       /\ got.seen.unsaved = room.seen.unsaved /\ got.seen.fetched = room.seen.fetched
  <2>1. MapLun(p) \in Luns
    BY MapLunRange
  <2>2. Started(waited)
    BY <1>10 DEF Started, Running
  <2>3. got = Flash(waited, MapLun(p), ReadLat)
    BY <1>4 DEF FtlPageRead
  <2>4. PICK n : n = b + WriteLat
    OBVIOUS
  <2>5. n \in Nat /\ n + ReadLat < Forever /\ WorkOk(waited, n)
    BY <1>6, <1>10, <2>4
  <2>6. /\ WorkOk(got, n + ReadLat) /\ waited.time + ReadLat <= got.time
        /\ got.cache = waited.cache
        /\ got.seen.unsaved = waited.seen.unsaved /\ got.seen.fetched = waited.seen.fetched
    BY <1>6, <2>1, <2>2, <2>3, <2>5, Flashed
  <2> QED
    BY <1>10, <2>4, <2>6
<1>13. /\ got \in Works /\ got.time \in Nat /\ got.seen \in Histories
       /\ got.cache \in Caches /\ got.time <= b + WriteLat + ReadLat
  BY <1>12, WorkFields DEF WorkOk, Early
<1>14. PICK c : c = WithPage(got.cache, p, dirty, got.time)
  OBVIOUS
<1>15. PICK fe : fe = [got.seen.fetched EXCEPT ![p] = got.time]
  OBVIOUS
<1>16. /\ c \in Caches
       /\ CacheOk(c, IF dirty THEN got.seen.unsaved \cup {p} ELSE got.seen.unsaved, fe)
  <2>1. CacheOk(room.cache, room.seen.unsaved, room.seen.fetched)
    BY <1>7 DEF CachedOk
  <2> QED
    BY <1>7, <1>8, <1>12, <1>13, <1>14, <1>15, <2>1, Fetched
<1>17. PICK h : h = [got.seen EXCEPT !.fetched = fe]
  OBVIOUS
<1>18. /\ h \in Histories /\ h.fetched = fe /\ h.unsaved = got.seen.unsaved
       /\ h.booked = got.seen.booked /\ h.clock = got.seen.clock
       /\ fe \in [MapPages -> Nat] /\ fe[p] = got.time
  <2>1. fe \in [MapPages -> Nat] /\ fe[p] = got.time
    BY <1>8, <1>12, <1>13, <1>15
  <2> QED
    BY <1>13, <1>17, <2>1 DEF Histories
<1>19. PICK r : r = Put(w, p, dirty)
  OBVIOUS
<1>20. r = [got EXCEPT !.cache = c, !.seen = h]
  BY <1>5, <1>13, <1>14, <1>15, <1>17, <1>19 DEF Works
<1>21. /\ r \in Works /\ r.cache = c /\ r.seen = h /\ r.gaps = got.gaps /\ r.time = got.time
  BY <1>13, <1>16, <1>18, <1>20 DEF Works
<1>22. WorkOk(r, b + WriteLat + ReadLat)
  <2>1. c.avail = [got.cache.avail EXCEPT ![id] = got.time]
    BY <1>2, <1>12, <1>14 DEF WithPage
  <2>2. /\ got.cache.avail \in [Ids -> Nat]
        /\ \A i \in Ids : got.cache.avail[i] <= b + WriteLat + ReadLat
    BY <1>12, <1>13, WorkFields DEF WorkOk, Early
  <2>3. \A i \in Ids : r.cache.avail[i] <= b + WriteLat + ReadLat
    BY <1>9, <1>13, <1>21, <2>1, <2>2
  <2> QED
    BY <1>12, <1>13, <1>18, <1>21, <2>3 DEF WorkOk, LunsOk, Early
<1>23. Running(r) /\ w.time <= r.time
  <2>1. \A k \in OpLats : k \in Nat /\ k <= waited.time
    BY <1>10, TimingSizes DEF Running
  <2>2. waited.time <= got.time
    BY <1>6, <1>11, <1>12, <1>13
  <2>3. \A k \in OpLats : k <= got.time
    BY <1>11, <1>13, <2>1, <2>2
  <2>4. w.time <= got.time
    BY <1>6, <1>7, <1>8, <1>10, <1>11, <1>13, <2>2
  <2> QED
    BY <1>21, <2>3, <2>4 DEF Running
<1>24. r.seen.fetched[p] <= r.time
  BY <1>13, <1>18, <1>21
<1> QED
  BY <1>16, <1>18, <1>19, <1>21, <1>22, <1>23, <1>24 DEF Mapped

\* A page in the cache is used when it has arrived.
LEMMA HitOk ==
  ASSUME NEW b \in Nat, NEW w, WorkOk(w, b), Running(w), CachedOk(w),
         NEW p \in DOMAIN w.cache.slot, NEW dirty \in BOOLEAN
  PROVE  Mapped(w, Hit(w, p, dirty), p, dirty, b)
<1>1. PICK id : id = w.cache.slot[p]
  OBVIOUS
<1>2. PICK waited : waited = [w EXCEPT !.time = Later(@, w.cache.avail[id])]
  OBVIOUS
<1>3. PICK c : c = WithUsed(w.cache, p, dirty)
  OBVIOUS
<1>4. /\ w \in Works /\ w.cache \in Caches
      /\ CacheOk(w.cache, w.seen.unsaved, w.seen.fetched)
  BY WorkFields DEF WorkOk, CachedOk
<1>5. /\ id \in Ids /\ c \in Caches /\ c.slot = w.cache.slot /\ c.avail = w.cache.avail
      /\ CacheOk(c, IF dirty THEN w.seen.unsaved \cup {p} ELSE w.seen.unsaved, w.seen.fetched)
  <2>1. PICK k, un, fe : k = w.cache /\ un = w.seen.unsaved /\ fe = w.seen.fetched
    OBVIOUS
  <2>2. k \in Caches /\ CacheOk(k, un, fe) /\ p \in DOMAIN k.slot
    BY <1>4, <2>1
  <2>3. /\ k.slot[p] \in Ids
        /\ WithUsed(k, p, dirty) \in Caches
        /\ WithUsed(k, p, dirty).slot = k.slot /\ WithUsed(k, p, dirty).avail = k.avail
        /\ CacheOk(WithUsed(k, p, dirty), IF dirty THEN un \cup {p} ELSE un, fe)
    BY <2>2, Used
  <2> QED
    BY <1>1, <1>3, <2>1, <2>3
<1>6. /\ WorkOk(waited, b) /\ Running(waited) /\ w.time <= waited.time
      /\ w.cache.avail[id] <= waited.time
      /\ waited.cache = w.cache /\ waited.seen = w.seen
  BY <1>2, <1>5, Waited
<1>7. waited \in Works /\ waited.time \in Nat
  BY <1>6, WorkFields DEF WorkOk
<1>8. PICK r : r = Hit(w, p, dirty)
  OBVIOUS
<1>9. r = [waited EXCEPT !.cache = c]
  BY <1>1, <1>2, <1>3, <1>4, <1>8 DEF Hit, Works
<1>10. /\ r \in Works /\ r.cache = c /\ r.seen = w.seen /\ r.gaps = waited.gaps
       /\ r.time = waited.time
  BY <1>5, <1>6, <1>7, <1>9 DEF Works
<1>11. WorkOk(r, b)
  BY <1>5, <1>6, <1>10 DEF WorkOk, LunsOk, Early
<1>12. Running(r) /\ w.time <= r.time
  BY <1>6, <1>10 DEF Running
<1>13. r.seen.fetched[p] <= r.time
  <2>1. w.seen.fetched[p] <= w.cache.avail[id]
    BY <1>1, <1>4 DEF CacheOk
  <2>2. w.seen.fetched[p] \in Nat /\ w.cache.avail[id] \in Nat
    <3>1. p \in MapPages /\ w.seen \in Histories
      BY <1>4, WorkFields
    <3> QED
      BY <1>4, <1>5, <3>1, WorkFields
  <2> QED
    BY <1>6, <1>7, <1>10, <2>1, <2>2
<1> QED
  BY <1>5, <1>8, <1>10, <1>11, <1>12, <1>13 DEF Mapped

\* A request gets its mapping page, wherever it is.
LEMMA GetOk ==
  ASSUME NEW b \in Nat, NEW w, WorkOk(w, b), Running(w), CachedOk(w),
         NEW p \in MapPages, NEW dirty \in BOOLEAN,
         b + WriteLat + ReadLat < Forever
  PROVE  Mapped(w, GetFtlPage(w, p, dirty), p, dirty, b + WriteLat + ReadLat)
<1>1. CASE p \notin DOMAIN w.cache.slot
  BY <1>1, PutOk DEF GetFtlPage
<1>2. CASE p \in DOMAIN w.cache.slot
  <2>1. PICK r : r = Hit(w, p, dirty)
    OBVIOUS
  <2>2. Mapped(w, r, p, dirty, b)
    BY <1>2, <2>1, HitOk
  <2>3. b + WriteLat + ReadLat \in Nat /\ b <= b + WriteLat + ReadLat
    BY TimingSizes
  <2>4. WorkOk(r, b + WriteLat + ReadLat)
    BY <2>2, <2>3, WorkLater DEF Mapped
  <2> QED
    BY <1>2, <2>1, <2>2, <2>4 DEF Mapped, GetFtlPage
<1> QED
  BY <1>1, <1>2

-----------------------------------------------------------------------------
(* The inductive invariant. *)

\* The latest time anything has reached after so many steps: all steps to come
\* and one more fit before the end of time.
Budget == Forever - (MaxSteps + 1 - steps) * StepLat

IInv == /\ steps \in 0 .. MaxSteps
        /\ WorkOk(Work, Budget) /\ CachedOk(Work)
        /\ MappingFirst

\* A product is larger when a factor is.
LEMMA Products ==
  ASSUME NEW a \in Nat, NEW c \in Nat, a <= c, NEW k \in Nat
  PROVE  a * k \in Nat /\ c * k \in Nat /\ a * k <= c * k
<1>1. \A x, y \in Nat : x * k \in Nat /\ (x + y) * k = x * k + y * k
  OBVIOUS
<1>2. PICK d \in Nat : c = a + d
  <2>1. c - a \in Nat /\ c = a + (c - a)
    OBVIOUS
  <2> QED
    BY <2>1
<1>3. c * k = a * k + d * k /\ a * k \in Nat /\ d * k \in Nat
  BY <1>1, <1>2
<1>4. \A x, y \in Nat : x <= x + y /\ x + y \in Nat
  OBVIOUS
<1> QED
  BY <1>3, <1>4

\* The start times and what one step takes are within the budget.
LEMMA Budgets ==
  ASSUME steps \in 0 .. MaxSteps
  PROVE  /\ Budget \in Nat /\ StepLat \in Nat \ {0} /\ Budget + StepLat <= Forever
         /\ \A t \in StartTimes \cup {0} : t \in Nat /\ t <= Budget
         /\ steps < MaxSteps /\ steps' = steps + 1 =>
              Budget' = Budget + StepLat /\ Budget + StepLat < Forever
<1>1. /\ MaxSteps \in Nat /\ steps \in Nat /\ steps <= MaxSteps /\ Forever \in Nat
      /\ StepLat \in Nat \ {0}
      /\ \A t \in StartTimes \cup {0} : t \in Nat /\ t + (MaxSteps + 1) * StepLat <= Forever
  BY ForeverAssumption, ClockAssumption, TimingSizes DEF StepLat
<1>2. PICK n : n = MaxSteps + 1 - steps
  OBVIOUS
<1>3. n \in Nat /\ 1 <= n /\ n <= MaxSteps + 1 /\ MaxSteps + 1 \in Nat
  BY <1>1, <1>2
<1>4. PICK k : k = StepLat
  OBVIOUS
<1>5. k \in Nat \ {0}
  BY <1>1, <1>4
<1>6. n * k \in Nat /\ (MaxSteps + 1) * k \in Nat /\ n * k <= (MaxSteps + 1) * k
  BY <1>3, <1>5, Products
<1>7. k <= n * k
  <2>1. 1 * k \in Nat /\ n * k \in Nat /\ 1 * k <= n * k
    BY <1>3, <1>5, Products
  <2>2. 1 * k = k
    BY <1>5
  <2> QED
    BY <2>1, <2>2
<1>8. Budget = Forever - n * k
  BY <1>2, <1>4 DEF Budget
<1>9. \A t \in StartTimes \cup {0} : t \in Nat /\ t <= Budget
  BY <1>1, <1>4, <1>6, <1>8
<1>10. Budget \in Nat
  <2>1. 0 <= Budget
    BY <1>9
  <2> QED
    BY <1>1, <1>6, <1>8, <2>1
<1>11. Budget + StepLat <= Forever
  BY <1>1, <1>4, <1>5, <1>6, <1>7, <1>8
<1>12. ASSUME steps < MaxSteps, steps' = steps + 1
       PROVE  Budget' = Budget + StepLat /\ Budget + StepLat < Forever
  <2>1. PICK m : m = MaxSteps - steps
    OBVIOUS
  <2>2. m \in Nat /\ 1 <= m /\ n = m + 1 /\ MaxSteps + 1 - steps' = m
    BY <1>1, <1>2, <1>12, <2>1
  <2>3. (m + 1) * k = m * k + k /\ m * k \in Nat
    BY <1>5, <2>2
  <2>4. k <= m * k
    <3>1. 1 * k <= m * k /\ 1 * k = k
      BY <1>5, <2>2, Products
    <3> QED
      BY <3>1
  <2>5. Budget' = Forever - m * k
    BY <1>4, <2>2 DEF Budget, StepLat
  <2> QED
    BY <1>1, <1>4, <1>5, <1>8, <2>2, <2>3, <2>4, <2>5
<1> QED
  BY <1>1, <1>9, <1>10, <1>11, <1>12

\* The mapping page of the last request had arrived when it was used.
InTime(h) == h.last # <<>> => h.last[2] >= h.fetched[h.last[1]]

\* A step that takes what a request or a collection has carried along.
LEMMA Taken ==
  ASSUME steps \in 0 .. MaxSteps, NEW r, Take(r), NEW b \in Nat, WorkOk(r, b),
         b <= Budget + StepLat, CachedOk(r), InTime(r.seen)
  PROVE  IInv'
<1>1. /\ steps < MaxSteps /\ steps' = steps + 1
      /\ gaps' = r.gaps /\ cache' = r.cache /\ seen' = r.seen
  BY DEF Take
<1>2. Budget' = Budget + StepLat /\ Budget' \in Nat
  BY <1>1, Budgets
<1>3. PICK c : c = Budget'
  OBVIOUS
<1>4. WorkOk(r, c) /\ c \in Nat
  BY <1>2, <1>3, WorkLater
<1>5. PICK w : w = Work'
  OBVIOUS
<1>6. w = [gaps |-> r.gaps, cache |-> r.cache, seen |-> r.seen, time |-> 0]
  BY <1>1, <1>5 DEF Work
<1>7. r \in Works /\ r.gaps \in [Luns -> Seq(Slots)] /\ r.cache \in Caches /\ r.seen \in Histories
  BY WorkFields DEF WorkOk
<1>8. /\ w \in Works /\ w.gaps = r.gaps /\ w.cache = r.cache /\ w.seen = r.seen /\ w.time = 0
  BY <1>6, <1>7 DEF Works
<1>9. WorkOk(w, c)
  BY <1>4, <1>8 DEF WorkOk, LunsOk, Early
<1>10. CachedOk(w)
  BY <1>8 DEF CachedOk
<1>11. MappingFirst'
  BY <1>1 DEF MappingFirst, InTime
<1>12. steps' \in 0 .. MaxSteps
  BY <1>1, ForeverAssumption
<1>13. WorkOk(Work, Budget)'
  BY <1>3, <1>5, <1>9 DEF WorkOk, LunsOk, LunOk, Early
<1>14. CachedOk(Work)'
  BY <1>5, <1>10 DEF CachedOk, CacheOk
<1> QED
  BY <1>11, <1>12, <1>13, <1>14 DEF IInv

\* What a step begins with.
LEMMA WorkStart ==
  ASSUME IInv, NEW at \in StartTimes \cup {0}
  PROVE  LET w == [Work EXCEPT !.time = at]
         IN WorkOk(w, Budget) /\ CachedOk(w) /\ Started(w) /\ (at \in StartTimes => Running(w))
<1>1. PICK w : w = [Work EXCEPT !.time = at]
  OBVIOUS
<1>2. Work \in Works /\ at \in Nat /\ at <= Budget
  BY Budgets DEF IInv, WorkOk
<1>3. /\ w \in Works /\ w.gaps = Work.gaps /\ w.cache = Work.cache /\ w.seen = Work.seen
      /\ w.time = at
  BY <1>1, <1>2 DEF Works
<1>4. WorkOk(w, Budget)
  BY <1>2, <1>3 DEF IInv, WorkOk, LunsOk, Early
<1>5. CachedOk(w)
  BY <1>3 DEF IInv, CachedOk
<1>6. at \in StartTimes => \A k \in OpLats : k <= at
  BY ClockAssumption, TimingSizes DEF OpLats
<1>7. Started(w) /\ (at \in StartTimes => Running(w))
  BY <1>3, <1>6 DEF Started, Running
<1> QED
  BY <1>1, <1>4, <1>5, <1>7

\* The operations of one step fit its share of time.
LEMMA Latencies ==
  /\ ReadLat \in OpLats /\ WriteLat \in OpLats /\ EraseLat \in OpLats
  /\ \A lat \in {ReadLat, WriteLat} : WriteLat + ReadLat + lat <= StepLat
  /\ ReadLat + WriteLat <= StepLat /\ EraseLat <= StepLat
BY TimingSizes DEF OpLats, StepLat

\* Something booked in a LUN's time changes nothing about the cache.
LEMMA StillCached ==
  ASSUME NEW w, NEW r, CachedOk(w), r.cache = w.cache,
         r.seen.unsaved = w.seen.unsaved, r.seen.fetched = w.seen.fetched
  PROVE  CachedOk(r)
BY DEF CachedOk

\* A request: its mapping page is there before it takes its time.
LEMMA RequestKeeps ==
  ASSUME IInv, NEW p \in MapPages, NEW l \in Luns, NEW at \in StartTimes,
         NEW lat \in {ReadLat, WriteLat}, NEW changes \in BOOLEAN,
         Request(p, l, at, lat, changes)
  PROVE  IInv'
<1>1. PICK w : w = [Work EXCEPT !.time = at]
  OBVIOUS
<1>2. PICK mapped : mapped = GetFtlPage(w, p, changes)
  OBVIOUS
<1>3. PICK done : done = Flash(mapped, l, lat)
  OBVIOUS
<1>4. PICK r : r = [done EXCEPT !.gaps[l] = Flushed(@, mapped.time),
                                !.seen.unsaved = IF changes THEN @ \cup {p} ELSE @,
                                !.seen.clock[l] = Later(@, mapped.time),
                                !.seen.last = <<p, done.time - lat>>]
  OBVIOUS
<1>5. Take(r)
  BY <1>1, <1>2, <1>3, <1>4 DEF Request
<1>6. steps < MaxSteps /\ steps' = steps + 1 /\ steps \in 0 .. MaxSteps
  BY <1>5 DEF Take, IInv
<1>7. /\ Budget \in Nat /\ Budget + StepLat < Forever /\ Forever \in Nat
      /\ WriteLat \in Nat \ {0} /\ ReadLat \in Nat \ {0} /\ lat \in Nat \ {0} /\ lat \in OpLats
      /\ WriteLat + ReadLat + lat <= StepLat /\ StepLat \in Nat
  BY <1>6, Budgets, TimingSizes, Latencies
<1>8. PICK b : b = Budget + WriteLat + ReadLat
  OBVIOUS
<1>9. b \in Nat /\ b + lat <= Budget + StepLat /\ b + lat < Forever /\ b < Forever
  BY <1>7, <1>8
<1>10. Mapped(w, mapped, p, changes, b)
  <2>1. WorkOk(w, Budget) /\ CachedOk(w) /\ Running(w)
    BY <1>1, WorkStart
  <2>2. Budget + WriteLat + ReadLat < Forever
    BY <1>8, <1>9
  <2>3. PICK n : n = Budget
    OBVIOUS
  <2>4. n \in Nat /\ WorkOk(w, n) /\ n + WriteLat + ReadLat < Forever
    BY <1>7, <2>1, <2>2, <2>3
  <2>5. Mapped(w, mapped, p, changes, n + WriteLat + ReadLat)
    BY <1>2, <2>1, <2>4, GetOk
  <2> QED
    BY <1>8, <2>3, <2>5
<1>11. PICK un : un = IF changes THEN mapped.seen.unsaved \cup {p} ELSE mapped.seen.unsaved
  OBVIOUS
<1>12. /\ WorkOk(mapped, b) /\ Started(mapped)
       /\ CacheOk(mapped.cache, un, mapped.seen.fetched)
       /\ mapped.seen.fetched[p] <= mapped.time
       /\ mapped \in Works /\ mapped.time \in Nat /\ mapped.time <= Forever
       /\ mapped.seen.unsaved \in SUBSET MapPages /\ mapped.seen.fetched \in [MapPages -> Nat]
       /\ mapped.seen.clock \in [Luns -> Nat]
  <2>1. WorkOk(mapped, b) /\ mapped \in Works /\ mapped.time <= b
    BY <1>10 DEF Mapped, WorkOk, Early
  <2>2. Started(mapped)
    BY <1>10 DEF Mapped, Running, Started
  <2>3. /\ mapped.time \in Nat /\ mapped.seen.unsaved \in SUBSET MapPages
        /\ mapped.seen.fetched \in [MapPages -> Nat]
        /\ mapped.seen.clock \in [Luns -> Nat]
    BY <2>1, WorkFields
  <2> QED
    BY <1>7, <1>9, <1>10, <1>11, <2>1, <2>2, <2>3 DEF Mapped
<1>13. /\ WorkOk(done, b + lat) /\ mapped.time + lat <= done.time
       /\ done.cache = mapped.cache
       /\ done.seen.unsaved = mapped.seen.unsaved /\ done.seen.fetched = mapped.seen.fetched
       /\ done.seen.clock = mapped.seen.clock
  BY <1>3, <1>7, <1>9, <1>12, Flashed
<1>14. /\ done \in Works /\ done.time \in Nat /\ done.seen \in Histories
       /\ done.cache \in Caches /\ done.gaps \in [Luns -> Seq(Slots)]
       /\ done.seen.clock \in [Luns -> Nat]
  BY <1>13, WorkFields DEF WorkOk
<1>15. PICK k : k = Later(done.seen.clock[l], mapped.time)
  OBVIOUS
<1>16. k \in Nat
  BY <1>12, <1>14, <1>15, LaterFacts
<1>17. PICK g : g = Flushed(done.gaps[l], mapped.time)
  OBVIOUS
<1>18. LunOk(g, done.seen.booked[l], k, b + lat)
  <2>1. PICK g0, bk, ck, n : /\ g0 = done.gaps[l] /\ bk = done.seen.booked[l]
                             /\ ck = done.seen.clock[l] /\ n = b + lat
    OBVIOUS
  <2>2. LunOk(g0, bk, ck, n) /\ ck \in Nat /\ n \in Nat
    BY <1>7, <1>9, <1>13, <1>14, <2>1 DEF WorkOk, LunsOk
  <2>3. LunOk(Flushed(g0, mapped.time), bk, Later(ck, mapped.time), n)
    BY <1>12, <2>2, Forgotten
  <2> QED
    BY <1>15, <1>17, <2>1, <2>3
<1>19. g \in Seq(Slots)
  BY <1>18 DEF LunOk
<1>20. PICK t : t = done.time - lat
  OBVIOUS
<1>21. t \in Nat /\ mapped.time <= t
  <2>1. \A x, y, z \in Nat : x + z <= y => y - z \in Nat /\ x <= y - z
    OBVIOUS
  <2>2. mapped.time \in Nat /\ done.time \in Nat /\ lat \in Nat /\ mapped.time + lat <= done.time
    BY <1>7, <1>12, <1>13, <1>14
  <2> QED
    BY <1>20, <2>1, <2>2
<1>22. PICK h : h = [done.seen EXCEPT !.unsaved = un, !.clock = [done.seen.clock EXCEPT ![l] = k],
                                      !.last = <<p, t>>]
  OBVIOUS
<1>23. /\ h \in Histories /\ h.unsaved = un /\ h.clock = [done.seen.clock EXCEPT ![l] = k]
       /\ h.last = <<p, t>> /\ h.booked = done.seen.booked /\ h.fetched = done.seen.fetched
  <2>1. [done.seen.clock EXCEPT ![l] = k] \in [Luns -> Nat]
    BY <1>14, <1>16
  <2>2. un \in SUBSET MapPages
    BY <1>11, <1>12
  <2>3. <<p, t>> \in {<<>>} \cup (MapPages \X Nat)
    BY <1>21
  <2> QED
    BY <1>14, <1>22, <2>1, <2>2, <2>3 DEF Histories
<1>24. r = [done EXCEPT !.gaps = [done.gaps EXCEPT ![l] = g], !.seen = h]
  BY <1>4, <1>11, <1>13, <1>14, <1>15, <1>17, <1>20, <1>22 DEF Works, Histories
<1>25. /\ r \in Works /\ r.gaps = [done.gaps EXCEPT ![l] = g] /\ r.seen = h
       /\ r.cache = done.cache /\ r.time = done.time
  <2>1. [done.gaps EXCEPT ![l] = g] \in [Luns -> Seq(Slots)]
    BY <1>14, <1>19
  <2> QED
    BY <1>14, <1>23, <1>24, <2>1 DEF Works
<1>26. WorkOk(r, b + lat)
  <2>1. ASSUME NEW m \in Luns PROVE LunOk(r.gaps[m], r.seen.booked[m], r.seen.clock[m], b + lat)
    <3>1. CASE m = l
      <4>1. /\ r.gaps[m] = g /\ r.seen.booked[m] = done.seen.booked[l] /\ r.seen.clock[m] = k
        BY <1>14, <1>23, <1>25, <3>1
      <4> QED
        BY <1>18, <4>1
    <3>2. CASE m # l
      <4>1. /\ r.gaps[m] = done.gaps[m] /\ r.seen.booked[m] = done.seen.booked[m]
            /\ r.seen.clock[m] = done.seen.clock[m]
        BY <1>14, <1>23, <1>25, <3>2
      <4> QED
        BY <1>13, <4>1 DEF WorkOk, LunsOk
    <3> QED
      BY <3>1, <3>2
  <2>2. Early(r, b + lat)
    BY <1>13, <1>25 DEF WorkOk, Early
  <2> QED
    BY <1>25, <2>1, <2>2 DEF WorkOk, LunsOk
<1>27. CachedOk(r)
  BY <1>12, <1>13, <1>23, <1>25 DEF CachedOk
<1>28. InTime(r.seen)
  <2>1. r.seen.last[1] = p /\ r.seen.last[2] = t /\ r.seen.fetched[p] = mapped.seen.fetched[p]
    BY <1>13, <1>23, <1>25
  <2>2. mapped.seen.fetched[p] \in Nat
    BY <1>12
  <2> QED
    BY <1>12, <1>21, <2>1, <2>2 DEF InTime
<1>29. b + lat \in Nat
  BY <1>7, <1>9
<1> QED
  BY <1>5, <1>6, <1>9, <1>26, <1>27, <1>28, <1>29, Taken

\* A collection copies a page, or erases a block.
LEMMA CollectionKeeps ==
  ASSUME IInv, NEW l \in Luns, NEW m \in Luns, GcCopyPage(l, m) \/ GcErase(l)
  PROVE  IInv'
<1>1. /\ steps \in 0 .. MaxSteps /\ steps < MaxSteps /\ steps' = steps + 1
  BY DEF GcCopyPage, GcErase, Take, IInv
<1>2. /\ Budget \in Nat /\ Budget + StepLat < Forever /\ Forever \in Nat
      /\ WriteLat \in Nat \ {0} /\ ReadLat \in Nat \ {0} /\ EraseLat \in Nat \ {0}
      /\ ReadLat + WriteLat <= StepLat /\ EraseLat <= StepLat /\ StepLat \in Nat
  BY <1>1, Budgets, TimingSizes, Latencies
<1>3. PICK b : b = Budget
  OBVIOUS
<1>4. PICK w : w = Work
  OBVIOUS
<1>5. WorkOk(w, b) /\ CachedOk(w) /\ Started(w) /\ InTime(w.seen)
  BY <1>3, <1>4 DEF IInv, Work, Started, InTime, MappingFirst
<1>6. /\ b \in Nat /\ b + ReadLat < Forever /\ b + EraseLat < Forever
      /\ b + ReadLat \in Nat /\ b + EraseLat \in Nat /\ b + ReadLat + WriteLat \in Nat
      /\ b + ReadLat + WriteLat < Forever
      /\ b + EraseLat <= Budget + StepLat /\ b + ReadLat + WriteLat <= Budget + StepLat
  BY <1>2, <1>3
<1>7. CASE GcErase(l)
  <2>1. PICK r : r = Flash(w, l, EraseLat)
    OBVIOUS
  <2>2. /\ WorkOk(r, b + EraseLat) /\ r.cache = w.cache
        /\ r.seen.unsaved = w.seen.unsaved /\ r.seen.fetched = w.seen.fetched
        /\ r.seen.last = w.seen.last
    BY <1>5, <1>6, <2>1, Latencies, Flashed
  <2>3. Take(r)
    BY <1>4, <1>7, <2>1 DEF GcErase
  <2>4. CachedOk(r)
    BY <1>5, <2>2, StillCached
  <2>5. InTime(r.seen)
    BY <1>5, <2>2 DEF InTime
  <2> QED
    BY <1>1, <1>6, <2>2, <2>3, <2>4, <2>5, Taken
<1>8. CASE GcCopyPage(l, m)
  <2>1. PICK read : read = Flash(w, l, ReadLat)
    OBVIOUS
  <2>2. /\ WorkOk(read, b + ReadLat) /\ read.cache = w.cache
        /\ read.seen.unsaved = w.seen.unsaved /\ read.seen.fetched = w.seen.fetched
        /\ read.seen.last = w.seen.last
    BY <1>5, <1>6, <2>1, Latencies, Flashed
  <2>3. PICK again : again = [read EXCEPT !.time = 0]
    OBVIOUS
  <2>4. /\ again \in Works /\ again.gaps = read.gaps /\ again.cache = read.cache
        /\ again.seen = read.seen /\ again.time = 0
    BY <2>2, <2>3 DEF WorkOk, Works
  <2>5. PICK n : n = b + ReadLat
    OBVIOUS
  <2>6. n \in Nat /\ n + WriteLat < Forever
    BY <1>6, <2>5
  <2>7. WorkOk(again, n) /\ Started(again)
    BY <2>2, <2>4, <2>5, <2>6 DEF WorkOk, LunsOk, Early, Started
  <2>8. PICK r : r = Flash(again, m, WriteLat)
    OBVIOUS
  <2>9. /\ WorkOk(r, n + WriteLat) /\ r.cache = w.cache
        /\ r.seen.unsaved = w.seen.unsaved /\ r.seen.fetched = w.seen.fetched
        /\ r.seen.last = w.seen.last
    <3>1. /\ WorkOk(r, n + WriteLat) /\ r.cache = again.cache
          /\ r.seen.unsaved = again.seen.unsaved /\ r.seen.fetched = again.seen.fetched
          /\ r.seen.last = again.seen.last
      BY <2>6, <2>7, <2>8, Latencies, Flashed
    <3> QED
      BY <2>2, <2>4, <3>1
  <2>10. Take(r)
    BY <1>4, <1>8, <2>1, <2>3, <2>8 DEF GcCopyPage
  <2>11. CachedOk(r)
    BY <1>5, <2>9, StillCached
  <2>12. InTime(r.seen)
    BY <1>5, <2>9 DEF InTime
  <2>13. n + WriteLat \in Nat /\ n + WriteLat <= Budget + StepLat
    BY <1>6, <2>5
  <2> QED
    BY <1>1, <2>9, <2>10, <2>11, <2>12, <2>13, Taken
<1> QED
  BY <1>7, <1>8

\* In the beginning all time is free, and no page is in the cache.
LEMMA InitIInv == Init => IInv
<1> SUFFICES ASSUME Init PROVE IInv
  OBVIOUS
<1>1. steps = 0 /\ steps \in 0 .. MaxSteps
  BY ForeverAssumption DEF Init
<1>2. Budget \in Nat /\ Forever \in Nat \ {0} /\ \A k \in OpLats : k \in Nat /\ k <= Forever
  <2>1. /\ Budget \in Nat /\ Budget + StepLat <= Forever /\ Forever \in Nat \ {0}
        /\ ReadLat \in Nat /\ WriteLat \in Nat /\ EraseLat \in Nat
    BY <1>1, Budgets, TimingSizes
  <2> QED
    BY <2>1 DEF OpLats, StepLat
<1>3. PICK s : s = [start |-> 0, end |-> Forever]
  OBVIOUS
<1>4. s \in Slots /\ s.start = 0 /\ s.end = Forever
  BY <1>2, <1>3 DEF Slots, Times
<1>5. PICK g : g = <<s>>
  OBVIOUS
<1>6. g \in Seq(Slots) /\ DOMAIN g = {1} /\ g[1] = s
  BY <1>4, <1>5
<1>7. \A x : On(g, x) <=> x = s
  BY <1>6 DEF On
<1>8. Ordered(g)
  BY <1>2, <1>4, <1>6, <1>7 DEF Ordered
<1>9. LunOk(g, {}, 0, Budget)
  <2>1. \E x \in Slots : On(g, x) /\ x.end = Forever
    BY <1>4, <1>7
  <2>2. \A x \in Slots : On(g, x) => x.start <= Budget /\ \A lat \in OpLats : lat <= x.end
    BY <1>2, <1>4, <1>7
  <2>3. \A u \in Nat : u < Forever => Offers(g, u)
    BY <1>4, <1>7 DEF Offers
  <2> QED
    BY <1>6, <1>8, <2>1, <2>2, <2>3 DEF LunOk
<1>10. /\ gaps = [l \in Luns |-> g]
       /\ cache = [list |-> <<>>, slot |-> <<>>, free |-> [i \in Ids |-> i],
                   dirty |-> [i \in Ids |-> FALSE], avail |-> [i \in Ids |-> 0]]
       /\ seen = [booked |-> [l \in Luns |-> {}], unsaved |-> {},
                  fetched |-> [p \in MapPages |-> 0], clock |-> [l \in Luns |-> 0],
                  last |-> <<>>]
  BY <1>3, <1>5 DEF Init
<1>11. /\ cache.list = <<>> /\ cache.slot = <<>> /\ cache.free = [i \in Ids |-> i]
       /\ cache.dirty = [i \in Ids |-> FALSE] /\ cache.avail = [i \in Ids |-> 0]
  BY <1>10
<1>12. /\ seen.booked = [l \in Luns |-> {}] /\ seen.unsaved = {} /\ seen.last = <<>>
       /\ seen.fetched = [p \in MapPages |-> 0] /\ seen.clock = [l \in Luns |-> 0]
  BY <1>10
<1>13. cache \in Caches
  <2>1. [i \in Ids |-> i] \in Seq(Ids)
    <3>1. Ids = 1 .. CacheSize /\ CacheSize \in Nat
      BY TimingSizes DEF Ids
    <3>2. \A i \in 1 .. CacheSize : i \in Ids
      BY <3>1
    <3> QED
      BY <3>1, <3>2, IsASeq
  <2>2. <<>> \in UNION {[S -> Ids] : S \in SUBSET MapPages}
    <3>1. <<>> \in [{} -> Ids]
      OBVIOUS
    <3> QED
      BY <3>1
  <2>3. <<>> \in Seq(MapPages)
    OBVIOUS
  <2>4. [i \in Ids |-> FALSE] \in [Ids -> BOOLEAN] /\ [i \in Ids |-> 0] \in [Ids -> Nat]
    OBVIOUS
  <2> QED
    BY <1>10, <2>1, <2>2, <2>3, <2>4 DEF Caches
<1>14. seen \in Histories
  BY <1>10 DEF Histories
<1>15. gaps \in [Luns -> Seq(Slots)] /\ \A l \in Luns : gaps[l] = g
  BY <1>6, <1>10
<1>16. PICK w : w = Work
  OBVIOUS
<1>17. /\ w \in Works /\ w.gaps = gaps /\ w.cache = cache /\ w.seen = seen /\ w.time = 0
  BY <1>13, <1>14, <1>15, <1>16 DEF Work, Works
<1>18. WorkOk(w, Budget)
  <2>1. LunsOk(w, Budget)
    BY <1>9, <1>12, <1>15, <1>17 DEF LunsOk
  <2>2. Early(w, Budget)
    BY <1>2, <1>11, <1>17 DEF Early
  <2> QED
    BY <1>17, <2>1, <2>2 DEF WorkOk
<1>19. CachedOk(w)
  <2>1. DOMAIN cache.slot = {} /\ DOMAIN cache.list = {}
    BY <1>11
  <2>2. \A i \in Ids : On(cache.free, i)
    BY <1>11 DEF On
  <2>3. Once(cache.free) /\ Once(cache.list) /\ \A p : ~ On(cache.list, p)
    BY <1>11, <2>1 DEF Once, On
  <2> QED
    BY <1>12, <1>17, <2>1, <2>2, <2>3 DEF CachedOk, CacheOk
<1>20. MappingFirst
  BY <1>12 DEF MappingFirst
<1> QED
  BY <1>1, <1>16, <1>18, <1>19, <1>20 DEF IInv

\* A step that changes nothing keeps everything.
LEMMA StutterKeeps ==
  ASSUME IInv, UNCHANGED vars
  PROVE  IInv'
<1>1. gaps' = gaps /\ cache' = cache /\ seen' = seen /\ steps' = steps
  BY DEF vars
<1>2. Work' = Work /\ Budget' = Budget
  BY <1>1 DEF Work, Budget
<1> QED
  BY <1>1, <1>2 DEF IInv, WorkOk, LunsOk, LunOk, Early, CachedOk, CacheOk, MappingFirst

\* Every step keeps the invariant.
LEMMA NextIInv == IInv /\ [Next]_vars => IInv'
<1> SUFFICES ASSUME IInv, [Next]_vars PROVE IInv'
  OBVIOUS
<1>1. CASE \E p \in MapPages, l \in Luns, at \in StartTimes : SsdRead(p, l, at)
  BY <1>1, RequestKeeps DEF SsdRead
<1>2. CASE \E p \in MapPages, l \in Luns, at \in StartTimes : SsdWrite(p, l, at)
  BY <1>2, RequestKeeps DEF SsdWrite
<1>3. CASE \E l, m \in Luns : GcCopyPage(l, m)
  BY <1>3, CollectionKeeps
<1>4. CASE \E l \in Luns : GcErase(l)
  BY <1>4, CollectionKeeps
<1>5. CASE UNCHANGED vars
  BY <1>5, StutterKeeps
<1> QED
  BY <1>1, <1>2, <1>3, <1>4, <1>5 DEF Next
-----------------------------------------------------------------------------
(* The theorems. *)

\* The inductive invariant holds in every behaviour (sgx_ftl.cpp:452-521,
\* 973-1137): the lists of free intervals have exactly the time that is left,
\* and the cache its pages, indices and flags.
THEOREM Invariance == Spec => []IInv
<1>1. Init => IInv
  BY InitIInv
<1>2. IInv /\ [Next]_vars => IInv'
  BY NextIInv
<1> QED
  BY <1>1, <1>2, PTL DEF Spec

\* A LUN never does two things at a time, whatever order the start times of
\* requests and collections come in (advance_time_slot, sgx_ftl.cpp:452).
THEOREM LunsAreExclusive == Spec => []OneAtATime
<1>1. IInv => OneAtATime
  <2> SUFFICES ASSUME IInv, NEW l \in Luns
      PROVE  LET g == gaps[l] IN
             /\ \A i \in DOMAIN g : /\ g[i].start < g[i].end
                                    /\ \A t \in seen.booked[l] : t < g[i].start \/ t >= g[i].end
             /\ \A i \in 1 .. Len(g) - 1 : g[i].end < g[i + 1].start
             /\ g # <<>> /\ Last(g).end = Forever
    BY DEF OneAtATime
  <2>1. PICK g, bk, ck, n : g = gaps[l] /\ bk = seen.booked[l] /\ ck = seen.clock[l] /\ n = Budget
    OBVIOUS
  <2>2. LunOk(g, bk, ck, n) /\ bk \in SUBSET Nat
    <3>1. Work.gaps = gaps /\ Work.seen = seen /\ Work \in Works
      BY DEF Work, IInv, WorkOk
    <3>2. seen.booked \in [Luns -> SUBSET Nat]
      BY <3>1, WorkFields
    <3> QED
      BY <2>1, <3>1, <3>2 DEF IInv, WorkOk, LunsOk
  <2>3. /\ g \in Seq(Slots) /\ Ordered(g)
        /\ \A u \in Nat : Offers(g, u) => u \notin bk
    BY <2>2 DEF LunOk
  <2>4. PICK z \in Slots : On(g, z) /\ z.end = Forever
    BY <2>2 DEF LunOk
  <2>5. /\ Len(g) \in Nat /\ DOMAIN g = 1 .. Len(g)
        /\ \A i \in 1 .. Len(g) : /\ g[i] \in Slots /\ On(g, g[i])
                                  /\ g[i].start \in Nat /\ g[i].end \in Nat /\ g[i].end <= Forever
                                  /\ g[i].start < g[i].end
    BY <2>3, Listed, SlotFields DEF Ordered
  <2>6. ASSUME NEW i \in 1 .. Len(g), NEW t \in bk PROVE t < g[i].start \/ t >= g[i].end
    <3>1. t \in Nat /\ ~ Offers(g, t)
      BY <2>2, <2>3
    <3>2. ~ (g[i].start <= t /\ t < g[i].end)
      BY <2>5, <3>1 DEF Offers
    <3> QED
      BY <2>5, <3>1, <3>2
  <2>7. ASSUME NEW i \in 1 .. Len(g) - 1 PROVE g[i].end < g[i + 1].start
    <3>1. i \in 1 .. Len(g) /\ i + 1 \in 1 .. Len(g) /\ i < i + 1
      BY <2>5
    <3> QED
      BY <2>3, <2>5, <3>1 DEF Ordered
  <2>8. PICK k \in 1 .. Len(g) : g[k] = z
    BY <2>4, <2>5 DEF On
  <2>9. g[Len(g)].end = Forever
    <3>1. Len(g) \in 1 .. Len(g)
      BY <2>5, <2>8
    <3>2. CASE k < Len(g)
      <4>1. g[k].end < g[Len(g)].start
        BY <2>3, <2>5, <2>8, <3>1, <3>2 DEF Ordered
      <4> QED
        BY <2>4, <2>5, <2>8, <3>1, <4>1
    <3>3. CASE ~ (k < Len(g))
      BY <2>4, <2>5, <2>8, <3>3
    <3> QED
      BY <3>2, <3>3
  <2>10. g # <<>>
    BY <2>5, <2>8
  <2> QED
    BY <2>1, <2>5, <2>6, <2>7, <2>9, <2>10 DEF Last
<1> QED
  BY <1>1, Invariance, PTL

\* An operation takes place as early as it can, and never over another one
\* (advance_time_slot, sgx_ftl.cpp:456-494).
THEOREM FirstFit == Spec => []EarliestFit
<1>1. IInv => EarliestFit
  <2> SUFFICES ASSUME IInv, NEW l \in Luns, NEW at \in StartTimes \cup {0}, NEW lat \in OpLats
      PROVE  LET from    == AdvanceTimeSlot(gaps[l], at, lat).from
                 Idle(t) == (t .. t + lat - 1) \cap seen.booked[l] = {}
             IN /\ from >= at /\ Idle(from)
                /\ at >= seen.clock[l] => \A t \in at .. from - 1 : ~ Idle(t)
    BY DEF EarliestFit, OpLats
  <2>1. PICK g, bk, ck, n : g = gaps[l] /\ bk = seen.booked[l] /\ ck = seen.clock[l] /\ n = Budget
    OBVIOUS
  <2>2. LunOk(g, bk, ck, n) /\ ck \in Nat
    <3>1. Work.gaps = gaps /\ Work.seen = seen /\ Work \in Works
      BY DEF Work, IInv, WorkOk
    <3>2. seen.clock \in [Luns -> Nat]
      BY <3>1, WorkFields
    <3> QED
      BY <2>1, <3>1, <3>2 DEF IInv, WorkOk, LunsOk
  <2>3. /\ n \in Nat /\ at \in Nat /\ at <= n /\ n + lat < Forever
        /\ at = 0 \/ \A k \in OpLats : k <= at
    <3>1. /\ Budget \in Nat /\ Budget + StepLat <= Forever /\ Forever \in Nat
          /\ at \in Nat /\ at <= Budget
      BY Budgets, TimingSizes DEF IInv
    <3>2. lat < StepLat /\ lat \in Nat /\ StepLat \in Nat
      BY TimingSizes DEF OpLats, StepLat
    <3>3. at = 0 \/ \A k \in OpLats : k <= at
      BY ClockAssumption, TimingSizes DEF OpLats
    <3> QED
      BY <2>1, <3>1, <3>2, <3>3
  <2>4. PICK a : a = AdvanceTimeSlot(g, at, lat)
    OBVIOUS
  <2>5. PICK t0 : t0 = at
    OBVIOUS
  <2>6. /\ LunOk(g, bk, ck, n) /\ ck \in Nat /\ n \in Nat
        /\ t0 \in Nat /\ t0 <= n /\ n + lat < Forever
        /\ t0 = 0 \/ \A k \in OpLats : k <= t0
        /\ a = AdvanceTimeSlot(g, t0, lat)
    BY <2>2, <2>3, <2>4, <2>5
  <2>7. /\ a.from \in Nat /\ t0 <= a.from
        /\ (a.from .. a.from + lat - 1) \cap bk = {}
        /\ ck <= t0 => \A t \in t0 .. a.from - 1 : (t .. t + lat - 1) \cap bk # {}
    <3>1. /\ ck \in Nat /\ n \in Nat /\ LunOk(g, bk, ck, n)
          /\ t0 \in Nat /\ lat \in OpLats /\ t0 <= n /\ n + lat < Forever
          /\ t0 = 0 \/ \A k \in OpLats : k <= t0
      BY <2>6
    <3>2. a.from \in Nat /\ t0 <= a.from
      BY <2>6, <3>1, Booked
    <3>3. (a.from .. a.from + lat - 1) \cap bk = {}
      BY <2>6, <3>1, Booked
    <3>4. ck <= t0 => \A t \in t0 .. a.from - 1 : Busy(bk, t, lat)
      BY <2>6, <3>1, Booked
    <3> QED
      BY <3>2, <3>3, <3>4 DEF Busy
  <2>8. /\ a.from \in Nat /\ at \in Nat /\ ck \in Nat /\ at <= a.from
        /\ (a.from .. a.from + lat - 1) \cap bk = {}
        /\ ck <= at => \A t \in at .. a.from - 1 : (t .. t + lat - 1) \cap bk # {}
    BY <2>2, <2>5, <2>6, <2>7
  <2>9. AdvanceTimeSlot(gaps[l], at, lat) = a
    BY <2>1, <2>4
  <2> QED
    BY <2>1, <2>8, <2>9
<1> QED
  BY <1>1, Invariance, PTL

\* No change of a mapping page is lost, and no index of the cache
\* (sgx_ftl.cpp:973-1126).
THEOREM ChangesAreKept == Spec => []ChangesKept
<1>1. IInv => ChangesKept
  <2> SUFFICES ASSUME IInv PROVE ChangesKept
    OBVIOUS
  <2>1. Work.cache = cache /\ Work.seen = seen /\ Work \in Works
    BY DEF Work, IInv, WorkOk
  <2>2. /\ cache.list \in Seq(MapPages) /\ cache.free \in Seq(Ids)
        /\ cache.slot \in [DOMAIN cache.slot -> Ids]
    BY <2>1, WorkFields
  <2>3. /\ \A p : p \in seen.unsaved <=> p \in DOMAIN cache.slot /\ cache.dirty[cache.slot[p]]
        /\ Once(cache.list) /\ \A p : On(cache.list, p) <=> p \in DOMAIN cache.slot
        /\ \A p, q \in DOMAIN cache.slot : cache.slot[p] = cache.slot[q] => p = q
        /\ Once(cache.free)
        /\ \A i \in Ids : On(cache.free, i) <=> ~ \E p \in DOMAIN cache.slot : cache.slot[p] = i
    BY <2>1 DEF IInv, CachedOk, CacheOk
  <2>4. seen.unsaved = {p \in DOMAIN cache.slot : cache.dirty[cache.slot[p]]}
    BY <2>3
  <2>5. ToSet(cache.list) = DOMAIN cache.slot
    BY <2>3 DEF ToSet, On
  <2>6. IsInjective(cache.list) /\ IsInjective(cache.slot) /\ IsInjective(cache.free)
    BY <2>3 DEF Once, IsInjective
  <2>7. \A i : i \in ToSet(cache.free) <=> On(cache.free, i)
    BY DEF ToSet, On
  <2>8. \A i : i \in Range(cache.slot) <=> \E p \in DOMAIN cache.slot : cache.slot[p] = i
    BY DEF Range
  <2>9. \A i : On(cache.free, i) => i \in Ids
    BY <2>2, ElementOfSeq, LenProperties DEF On
  <2>10. \A i : i \in Range(cache.slot) => i \in Ids
    BY <2>2, <2>8
  <2>11. Range(cache.slot) \cap ToSet(cache.free) = {}
    BY <2>3, <2>7, <2>8, <2>9
  <2>12. Range(cache.slot) \cup ToSet(cache.free) = Ids
    BY <2>3, <2>7, <2>8, <2>9, <2>10
  <2> QED
    BY <2>4, <2>5, <2>6, <2>11, <2>12 DEF ChangesKept
<1> QED
  BY <1>1, Invariance, PTL

\* A request uses its mapping page when it has arrived (sgx_ftl.cpp:1106-1123).
THEOREM ArrivedFirst == Spec => []MappingFirst
<1>1. IInv => MappingFirst
  BY DEF IInv
<1> QED
  BY <1>1, Invariance, PTL
=============================================================================
