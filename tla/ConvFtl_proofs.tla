--------------------------- MODULE ConvFtl_proofs ---------------------------
(***************************************************************************)
(* Theorems about ConvFtl, for every number of lines, LUNs and pages, any  *)
(* logical pages that the spare lines leave room for, and every threshold. *)
(* The first part is about the heap alone: BubbleUp and PercolateDown move *)
(* an element along a path of places.  Then follows the inductive          *)
(* invariant, what each operation on lines does to it, and the steps.      *)
(***************************************************************************)
EXTENDS ConvFtl, ListFacts

(* The heap: what moving an element along a path of places does to a       *)
(* queue, why sifting leaves a heap, and what the operations do.            *)

\* The path has m steps, from place to place of a list of n.
Way(path, m, n) ==
  /\ \A k \in 0 .. m : path[k] \in 1 .. n
  /\ \A k, l \in 0 .. m : path[k] = path[l] => k = l

\* A queue of elements of S that knows their places, those on the way of path excepted.
Queues(S) == [d : Seq(S), pos : [S -> Nat]]
Knows(q) == \A j \in DOMAIN q.d : q.pos[q.d[j]] = j
KnowsBut(q, path, m) == \A j \in DOMAIN q.d : ~ OnWay(path, m, j) => q.pos[q.d[j]] = j

\* What Moved does.
Shifts(q, r, path, m) ==
  /\ Len(r.d) = Len(q.d) /\ DOMAIN r.d = DOMAIN q.d
  /\ r.d[path[m]] = q.d[path[0]]
  /\ \A k \in 0 .. m - 1 : r.d[path[k]] = q.d[path[k + 1]]
  /\ \A j \in DOMAIN q.d : ~ OnWay(path, m, j) => r.d[j] = q.d[j]
SameElements(S, q, r) ==
  /\ Once(r.d) /\ Knows(r)
  /\ \A x : On(r.d, x) <=> On(q.d, x)
  /\ \A x \in S : ~ On(q.d, x) => r.pos[x] = q.pos[x]

\* Moving along a path permutes the elements, and each is told its place.
LEMMA MovedShifts ==
  ASSUME NEW S, NEW q \in Queues(S), NEW path, NEW m \in Nat, Way(path, m, Len(q.d))
  PROVE  Moved(q, path, m).d \in Seq(S) /\ Shifts(q, Moved(q, path, m), path, m)
<1>1. PICK d : d = q.d
  OBVIOUS
<1>2. /\ d \in Seq(S) /\ Len(d) \in Nat /\ DOMAIN d = 1 .. Len(d)
      /\ \A j \in 1 .. Len(d) : d[j] \in S
  BY <1>1, LenProperties, ElementOfSeq DEF Queues
<1>3. PICK n : n = Len(d)
  OBVIOUS
<1>4. PICK way : way = {path[k] : k \in 0 .. m}
  OBVIOUS
<1>5. /\ \A j : j \in way <=> OnWay(path, m, j)
      /\ \A k \in 0 .. m : path[k] \in 1 .. n
      /\ \A k, l \in 0 .. m : path[k] = path[l] => k = l
  BY <1>1, <1>3, <1>4 DEF Way, OnWay
<1>6. PICK step : step = StepOf(path, m)
  OBVIOUS
<1>7. \A k \in 0 .. m : path[k] \in way /\ step[path[k]] = k
  BY <1>4, <1>5, <1>6 DEF StepOf
<1>8. PICK new : new = Carried(q, path, m)
  OBVIOUS
<1>9. /\ new = [j \in 1 .. n |-> IF ~ OnWay(path, m, j) THEN d[j]
                                 ELSE IF step[j] = m THEN d[path[0]]
                                 ELSE d[path[step[j] + 1]]]
      /\ Moved(q, path, m).d = new
  <2>1. Moved(q, path, m).d = new
    BY <1>8 DEF Moved
  <2>2. new = [j \in 1 .. n |-> IF ~ OnWay(path, m, j) THEN d[j]
                                ELSE IF step[j] = m THEN d[path[0]]
                                ELSE d[path[step[j] + 1]]]
    BY <1>1, <1>2, <1>3, <1>6, <1>8 DEF Carried
  <2> QED
    BY <2>1, <2>2
<1>10. \A j \in way : step[j] \in 0 .. m /\ path[step[j]] = j
  BY <1>4, <1>7
<1>11. new \in [1 .. n -> S]
  <2>1. ASSUME NEW j \in 1 .. n PROVE new[j] \in S
    <3>1. CASE j \notin way
      BY <1>2, <1>3, <1>5, <1>9, <3>1
    <3>2. CASE j \in way /\ step[j] = m
      BY <1>2, <1>3, <1>5, <1>9, <3>2
    <3>3. CASE j \in way /\ step[j] # m
      <4>1. step[j] + 1 \in 0 .. m
        BY <1>10, <3>3
      <4> QED
        BY <1>2, <1>3, <1>5, <1>9, <3>3, <4>1
    <3> QED
      BY <3>1, <3>2, <3>3
  <2> QED
    BY <1>9, <2>1
<1>12. n \in Nat /\ new \in Seq(S) /\ Len(new) = n /\ DOMAIN new = 1 .. n
  BY <1>2, <1>3, <1>11
<1>13. new[path[m]] = d[path[0]] /\ \A k \in 0 .. m - 1 : new[path[k]] = d[path[k + 1]]
  <2>1. m \in 0 .. m
    OBVIOUS
  <2>2. new[path[m]] = d[path[0]]
    BY <1>5, <1>7, <1>9, <2>1
  <2>3. ASSUME NEW k \in 0 .. m - 1 PROVE new[path[k]] = d[path[k + 1]]
    <3>1. k \in 0 .. m /\ k # m
      OBVIOUS
    <3> QED
      BY <1>5, <1>7, <1>9, <3>1
  <2> QED
    BY <2>2, <2>3
<1>14. \A j \in 1 .. n : ~ OnWay(path, m, j) => new[j] = d[j]
  BY <1>5, <1>9
<1> QED
  BY <1>1, <1>2, <1>3, <1>9, <1>12, <1>13, <1>14 DEF Shifts

\* Moving along a path permutes the elements.
LEMMA ShiftsPermutes ==
  ASSUME NEW S, NEW q \in Queues(S), NEW r, NEW path, NEW m \in Nat,
         Way(path, m, Len(q.d)), Shifts(q, r, path, m), Once(q.d)
  PROVE  Once(r.d) /\ \A x : On(r.d, x) <=> On(q.d, x)
<1>1. PICK d, e, n : d = q.d /\ e = r.d /\ n = Len(q.d)
  OBVIOUS
<1>2. n \in Nat /\ DOMAIN d = 1 .. n
  BY <1>1, LenProperties DEF Queues
<1>3. /\ DOMAIN e = 1 .. n
      /\ e[path[m]] = d[path[0]] /\ \A k \in 0 .. m - 1 : e[path[k]] = d[path[k + 1]]
      /\ \A j \in 1 .. n : ~ OnWay(path, m, j) => e[j] = d[j]
  BY <1>1, <1>2 DEF Shifts
<1>4. /\ \A k \in 0 .. m : path[k] \in 1 .. n
      /\ \A k, l \in 0 .. m : path[k] = path[l] => k = l
  BY <1>1 DEF Way
<1>5. PICK f : f = [k \in 0 .. m |-> IF k = m THEN 0 ELSE k + 1]
  OBVIOUS
<1>6. /\ \A k \in 0 .. m : f[k] \in 0 .. m /\ e[path[k]] = d[path[f[k]]]
      /\ \A k, l \in 0 .. m : f[k] = f[l] => k = l
      /\ \A l \in 0 .. m : \E k \in 0 .. m : f[k] = l
  <2>1. ASSUME NEW k \in 0 .. m PROVE f[k] \in 0 .. m /\ e[path[k]] = d[path[f[k]]]
    <3>1. CASE k = m
      BY <1>3, <1>5, <3>1
    <3>2. CASE k # m
      BY <1>3, <1>5, <3>2
    <3> QED
      BY <3>1, <3>2
  <2>2. \A k, l \in 0 .. m : f[k] = f[l] => k = l
    BY <1>5
  <2>3. ASSUME NEW l \in 0 .. m PROVE \E k \in 0 .. m : f[k] = l
    <3>1. CASE l = 0
      <4>1. m \in 0 .. m /\ f[m] = 0
        BY <1>5
      <4> QED
        BY <3>1, <4>1
    <3>2. CASE l # 0
      <4>1. l - 1 \in 0 .. m /\ f[l - 1] = l
        BY <1>5, <3>2
      <4> QED
        BY <4>1
    <3> QED
      BY <3>1, <3>2
  <2> QED
    BY <2>1, <2>2, <2>3
\* From where the element at a place comes.
<1>7. ASSUME NEW j \in 1 .. n
      PROVE  \E i \in 1 .. n : /\ e[j] = d[i]
                               /\ \/ i = j /\ ~ OnWay(path, m, j)
                                  \/ \E k \in 0 .. m : j = path[k] /\ i = path[f[k]]
  <2>1. CASE ~ OnWay(path, m, j)
    BY <1>3, <2>1
  <2>2. CASE OnWay(path, m, j)
    <3>1. PICK k \in 0 .. m : path[k] = j
      BY <2>2 DEF OnWay
    <3>2. path[f[k]] \in 1 .. n /\ e[j] = d[path[f[k]]]
      BY <1>4, <1>6, <3>1
    <3> QED
      BY <3>1, <3>2
  <2> QED
    BY <2>1, <2>2
<1>8. Once(e)
  <2> SUFFICES ASSUME NEW i \in 1 .. n, NEW j \in 1 .. n, e[i] = e[j] PROVE i = j
    BY <1>3 DEF Once
  <2>1. PICK a \in 1 .. n : /\ e[i] = d[a]
                            /\ \/ a = i /\ ~ OnWay(path, m, i)
                               \/ \E k \in 0 .. m : i = path[k] /\ a = path[f[k]]
    BY <1>7
  <2>2. PICK b \in 1 .. n : /\ e[j] = d[b]
                            /\ \/ b = j /\ ~ OnWay(path, m, j)
                               \/ \E k \in 0 .. m : j = path[k] /\ b = path[f[k]]
    BY <1>7
  <2>3. a = b
    BY <1>1, <1>2, <2>1, <2>2, SMTT(30) DEF Once
  <2>4. \A k \in 0 .. m : OnWay(path, m, path[k]) /\ OnWay(path, m, path[f[k]])
    BY <1>6 DEF OnWay
  <2>5. CASE a = i /\ ~ OnWay(path, m, i)
    <3>1. b = j
      BY <2>2, <2>3, <2>4, <2>5
    <3> QED
      BY <2>3, <2>5, <3>1
  <2>6. ASSUME NEW k \in 0 .. m, i = path[k], a = path[f[k]] PROVE i = j
    <3>1. PICK l \in 0 .. m : j = path[l] /\ b = path[f[l]]
      BY <2>2, <2>3, <2>4, <2>6
    <3>2. f[k] \in 0 .. m /\ f[l] \in 0 .. m /\ path[f[k]] = path[f[l]]
      BY <1>6, <2>3, <2>6, <3>1
    <3>3. f[k] = f[l]
      BY <1>4, <3>2
    <3>4. k = l
      BY <1>6, <3>3
    <3> QED
      BY <2>6, <3>1, <3>4
  <2> QED
    BY <2>1, <2>5, <2>6
<1>9. ASSUME NEW x, On(e, x) PROVE On(d, x)
  <2>1. PICK j \in 1 .. n : e[j] = x
    BY <1>3, <1>9 DEF On
  <2> QED
    BY <1>2, <1>7, <2>1 DEF On
<1>10. ASSUME NEW x, On(d, x) PROVE On(e, x)
  <2>1. PICK j \in 1 .. n : d[j] = x
    BY <1>2, <1>10 DEF On
  <2>2. CASE ~ OnWay(path, m, j)
    BY <1>3, <2>1, <2>2 DEF On
  <2>3. CASE OnWay(path, m, j)
    <3>1. PICK l \in 0 .. m : path[l] = j
      BY <2>3 DEF OnWay
    <3>2. PICK k \in 0 .. m : f[k] = l
      BY <1>6
    <3>3. e[path[k]] = x /\ path[k] \in 1 .. n
      BY <1>4, <1>6, <2>1, <3>1, <3>2
    <3> QED
      BY <1>3, <3>3 DEF On
  <2> QED
    BY <2>2, <2>3
<1> QED
  BY <1>1, <1>8, <1>9, <1>10

\* ... and each element is told its place.
LEMMA MovedKeeps ==
  ASSUME NEW S, NEW q \in Queues(S), NEW path, NEW m \in Nat, Way(path, m, Len(q.d)),
         Once(q.d), KnowsBut(q, path, m)
  PROVE  /\ Moved(q, path, m) \in Queues(S) /\ SameElements(S, q, Moved(q, path, m))
         /\ Shifts(q, Moved(q, path, m), path, m)
<1>1. PICK r : r = Moved(q, path, m)
  OBVIOUS
<1>2. r.d \in Seq(S) /\ Shifts(q, r, path, m)
  BY <1>1, MovedShifts
<1>3. Once(r.d) /\ \A x : On(r.d, x) <=> On(q.d, x)
  BY <1>2, ShiftsPermutes
<1>4. PICK n, e : n = Len(q.d) /\ e = r.d
  OBVIOUS
<1>5. n \in Nat /\ DOMAIN q.d = 1 .. n /\ DOMAIN e = 1 .. n /\ e \in Seq(S)
      /\ \A j \in 1 .. n : e[j] \in S
  BY <1>2, <1>4, LenProperties, ElementOfSeq DEF Queues, Shifts
<1>6. PICK way : way = {path[k] : k \in 0 .. m}
  OBVIOUS
<1>7. way \subseteq 1 .. n /\ \A j : j \in way <=> OnWay(path, m, j)
  BY <1>4, <1>6 DEF Way, OnWay
<1>8. q.pos \in [S -> Nat] /\ DOMAIN q.pos = S
  BY DEF Queues
<1>9. /\ r = [d |-> r.d, pos |-> r.pos]
      /\ r.pos = [x \in S |-> IF \E j \in way : e[j] = x
                              THEN CHOOSE j \in way : e[j] = x ELSE q.pos[x]]
  BY <1>1, <1>4, <1>6, <1>8 DEF Moved
<1>10. r.pos \in [S -> Nat]
  <2>1. ASSUME NEW x \in S PROVE r.pos[x] \in Nat
    <3>1. CASE \E j \in way : e[j] = x
      <4>1. r.pos[x] \in way
        BY <1>9, <3>1
      <4>2. r.pos[x] \in 1 .. n
        BY <1>7, <4>1
      <4> QED
        BY <4>2
    <3>2. CASE ~ \E j \in way : e[j] = x
      BY <1>8, <1>9, <3>2
    <3> QED
      BY <3>1, <3>2
  <2> QED
    BY <1>9, <2>1
<1>11. ASSUME NEW j \in 1 .. n PROVE r.pos[e[j]] = j
  <2>1. e[j] \in S
    BY <1>5
  <2>2. CASE j \in way
    <3>1. \E i \in way : e[i] = e[j]
      BY <2>2
    <3>2. r.pos[e[j]] \in way /\ e[r.pos[e[j]]] = e[j]
      BY <1>9, <2>1, <3>1
    <3> QED
      BY <1>3, <1>4, <1>5, <1>7, <3>2 DEF Once
  <2>3. CASE j \notin way
    <3>1. ~ \E i \in way : e[i] = e[j]
      BY <1>3, <1>4, <1>5, <1>7, <2>3 DEF Once
    <3>2. r.pos[e[j]] = q.pos[e[j]]
      BY <1>9, <2>1, <3>1
    <3>3. e[j] = q.d[j]
      BY <1>2, <1>4, <1>5, <1>7, <2>3 DEF Shifts
    <3> QED
      BY <1>5, <1>7, <2>3, <3>2, <3>3 DEF KnowsBut
  <2> QED
    BY <2>2, <2>3
<1>12. ASSUME NEW x \in S, ~ On(q.d, x) PROVE r.pos[x] = q.pos[x]
  <2>1. ~ \E j \in way : e[j] = x
    BY <1>3, <1>4, <1>5, <1>7, <1>12 DEF On
  <2> QED
    BY <1>9, <2>1
<1> QED
  BY <1>1, <1>2, <1>3, <1>4, <1>5, <1>9, <1>10, <1>11, <1>12 DEF Queues, SameElements, Knows

-----------------------------------------------------------------------------
(* A place of a heap and its parent, v being the priorities at the places. *)

Heaped(v, n) == \A j \in 2 .. n : v[Parent(j)] <= v[j]

\* A heap, if it were not for the element at place i, which may be too small,
\* or for that and its children, which may be smaller than it is.
HeapedAbove(v, n, i) ==
  /\ \A j \in 2 .. n : j # i => v[Parent(j)] <= v[j]
  /\ \A j \in 2 .. n : Parent(j) = i /\ i > 1 => v[Parent(i)] <= v[j]
HeapedBelow(v, n, i) ==
  /\ \A j \in 2 .. n : Parent(j) # i => v[Parent(j)] <= v[j]
  /\ \A j \in 2 .. n : Parent(j) = i /\ i > 1 => v[Parent(i)] <= v[j]

\* The element at path[0] has been carried to path[m].
Shifted(v, w, n, path, m) ==
  /\ \A k \in 0 .. m - 1 : w[path[k]] = v[path[k + 1]]
  /\ w[path[m]] = v[path[0]]
  /\ \A j \in 1 .. n : ~ OnWay(path, m, j) => w[j] = v[j]

\* The way of BubbleUp and of PercolateDown.
WayUp(v, n, path, m) ==
  /\ Way(path, m, n) /\ \A k \in 0 .. m : path[m] <= path[k]
  /\ \A k \in 0 .. m - 1 : path[k + 1] = Parent(path[k]) /\ v[path[0]] < v[path[k + 1]]
  /\ Parent(path[m]) = 0 \/ v[Parent(path[m])] <= v[path[0]]
WayDown(v, n, path, m) ==
  /\ Way(path, m, n) /\ \A k \in 0 .. m : path[0] <= path[k]
  /\ \A k \in 0 .. m - 1 : /\ Parent(path[k + 1]) = path[k] /\ v[path[k + 1]] < v[path[0]]
                           /\ \A j \in 2 .. n : Parent(j) = path[k] => v[path[k + 1]] <= v[j]
  /\ \A j \in 2 .. n : Parent(j) = path[m] => v[path[0]] <= v[j]

\* Parents.
LEMMA Parents ==
  ASSUME NEW n \in Nat
  PROVE  /\ \A j \in 2 .. n : Parent(j) \in 1 .. n /\ Parent(j) < j
         /\ Parent(1) = 0
         /\ \A i, j \in 1 .. n : j > 1 /\ Parent(j) = i => j = Left(i) \/ j = Left(i) + 1
         /\ \A i \in 1 .. n : /\ Left(i) > i /\ Parent(Left(i)) = i
                              /\ Left(i) + 1 > i /\ Parent(Left(i) + 1) = i
BY DEF Parent, Left

\* An element that moved up its way leaves a heap.
LEMMA UpHeaps ==
  ASSUME NEW n \in Nat, NEW v \in [1 .. n -> Int], NEW w \in [1 .. n -> Int],
         NEW path, NEW m \in Nat, NEW i \in 1 .. n, path[0] = i,
         HeapedAbove(v, n, i), WayUp(v, n, path, m), Shifted(v, w, n, path, m)
  PROVE  Heaped(w, n)
<1> SUFFICES ASSUME NEW j \in 2 .. n PROVE w[Parent(j)] <= w[j]
  BY DEF Heaped
<1>1. PICK u : u = Parent(j)
  OBVIOUS
<1>2. u \in 1 .. n /\ u < j /\ j \in 1 .. n /\ v[u] \in Int /\ v[j] \in Int /\ v[i] \in Int
  BY <1>1, Parents
<1>3. /\ \A k \in 0 .. m : path[k] \in 1 .. n
      /\ \A k, l \in 0 .. m : path[k] = path[l] => k = l
      /\ \A k \in 0 .. m - 1 : path[k + 1] = Parent(path[k]) /\ v[i] < v[path[k + 1]]
      /\ Parent(path[m]) = 0 \/ v[Parent(path[m])] <= v[i]
      /\ \A k \in 0 .. m : path[m] <= path[k]
  BY DEF WayUp, Way
<1>4. /\ \A k \in 0 .. m - 1 : w[path[k]] = v[path[k + 1]]
      /\ w[path[m]] = v[i]
      /\ \A x \in 1 .. n : ~ OnWay(path, m, x) => w[x] = v[x]
  BY DEF Shifted
<1>5. /\ \A x \in 2 .. n : x # i => v[Parent(x)] <= v[x]
      /\ \A x \in 2 .. n : Parent(x) = i /\ i > 1 => v[Parent(i)] <= v[x]
  BY DEF HeapedAbove
<1>6. \A k \in 1 .. m : path[k] # i
  <2>1. ASSUME NEW k \in 1 .. m PROVE path[k] # i
    <3>1. k \in 0 .. m /\ 0 \in 0 .. m /\ k # 0
      OBVIOUS
    <3> QED
      BY <1>3, <3>1
  <2> QED
    BY <2>1
\* The parent of a place on the way, but for its end, has what was there pushed down.
<1>7. ASSUME NEW k \in 0 .. m - 1, u = path[k + 1] PROVE w[u] <= v[u]
  <2>0. k + 1 \in 0 .. m /\ k + 1 \in 1 .. m
    OBVIOUS
  <2>1. k + 1 \in 0 .. m /\ k + 1 \in 1 .. m /\ v[i] < v[u]
    BY <1>3, <1>7, <2>0
  <2>2. CASE k + 1 = m
    BY <1>2, <1>4, <1>7, <2>1, <2>2
  <2>3. CASE k + 1 # m
    <3>1. k + 1 \in 0 .. m - 1 /\ (k + 1) + 1 \in 0 .. m
      BY <2>1, <2>3
    <3>2. path[(k + 1) + 1] = Parent(u) /\ w[u] = v[Parent(u)] /\ Parent(u) \in 1 .. n
      BY <1>3, <1>4, <1>7, <3>1
    <3>3. u # i /\ u # 1
      BY <1>6, <1>7, <2>1, <3>2, Parents
    <3> QED
      BY <1>2, <1>5, <3>2, <3>3
  <2> QED
    BY <2>2, <2>3
<1>8. ASSUME OnWay(path, m, j) PROVE w[u] <= w[j]
  <2>1. PICK k \in 0 .. m : path[k] = j
    BY <1>8 DEF OnWay
  <2>2. CASE k = m
    <3>1. v[u] <= v[i] /\ w[j] = v[i]
      BY <1>1, <1>2, <1>3, <1>4, <2>1, <2>2, SMTT(30)
    <3>2. ~ OnWay(path, m, u)
      <4> SUFFICES ASSUME NEW l \in 0 .. m, path[l] = u PROVE FALSE
        BY DEF OnWay
      <4>1. path[m] <= path[l] /\ path[m] = j /\ path[l] = u
        BY <1>3, <2>1, <2>2
      <4>2. j <= u
        BY <4>1
      <4> QED
        BY <1>2, <4>2
    <3> QED
      BY <1>2, <1>4, <3>1, <3>2
  <2>3. CASE k # m
    <3>1. k \in 0 .. m - 1 /\ u = path[k + 1] /\ w[j] = v[u]
      BY <1>1, <1>3, <1>4, <2>1, <2>3, SMTT(30)
    <3> QED
      BY <1>7, <3>1
  <2> QED
    BY <2>2, <2>3
<1>9. ASSUME ~ OnWay(path, m, j) PROVE w[u] <= w[j]
  <2>1. w[j] = v[j] /\ j # i
    <3>1. 0 \in 0 .. m
      OBVIOUS
    <3> QED
      BY <1>2, <1>4, <1>9, <3>1 DEF OnWay
  <2>2. v[u] <= v[j]
    BY <1>1, <1>5, <2>1
  <2>3. CASE OnWay(path, m, u)
    <3>1. PICK k \in 0 .. m : path[k] = u
      BY <2>3 DEF OnWay
    <3>2. CASE k # 0
      <4>1. k - 1 \in 0 .. m - 1 /\ (k - 1) + 1 = k
        BY <3>2
      <4>2. w[u] <= v[u]
        <5>1. u = path[(k - 1) + 1]
          BY <3>1, <4>1
        <5> QED
          BY <1>7, <4>1, <5>1
      <4>3. w[u] \in Int
        BY <1>2
      <4> QED
        BY <1>2, <2>1, <2>2, <4>2, <4>3
    <3>3. CASE k = 0 /\ m = 0
      BY <1>4, <2>1, <2>2, <3>1, <3>3
    <3>4. CASE k = 0 /\ m # 0
      <4>1. 0 \in 0 .. m - 1 /\ 0 + 1 = 1 /\ 1 \in 0 .. m /\ u = i
        BY <3>1, <3>4
      <4>2. w[i] = v[Parent(i)] /\ Parent(i) \in 1 .. n
        <5>1. w[path[0]] = v[path[0 + 1]] /\ path[0 + 1] = Parent(path[0])
          BY <1>3, <1>4, <4>1
        <5>2. path[1] \in 1 .. n
          BY <1>3, <4>1
        <5> QED
          BY <5>1, <5>2
      <4>3. i > 1
        BY <4>2, Parents
      <4> QED
        BY <1>1, <1>5, <2>1, <4>1, <4>2, <4>3
    <3> QED
      BY <3>2, <3>3, <3>4
  <2>4. CASE ~ OnWay(path, m, u)
    BY <1>2, <1>4, <2>1, <2>2, <2>4
  <2> QED
    BY <2>3, <2>4
<1> QED
  BY <1>1, <1>8, <1>9

\* An element that moved down its way leaves a heap.
LEMMA DownHeaps ==
  ASSUME NEW n \in Nat, NEW v \in [1 .. n -> Int], NEW w \in [1 .. n -> Int],
         NEW path, NEW m \in Nat, NEW i \in 1 .. n, path[0] = i,
         HeapedBelow(v, n, i), WayDown(v, n, path, m), Shifted(v, w, n, path, m)
  PROVE  Heaped(w, n)
<1> SUFFICES ASSUME NEW j \in 2 .. n PROVE w[Parent(j)] <= w[j]
  BY DEF Heaped
<1>1. PICK u : u = Parent(j)
  OBVIOUS
<1>2. u \in 1 .. n /\ u < j /\ j \in 1 .. n /\ v[u] \in Int /\ v[j] \in Int /\ v[i] \in Int
  BY <1>1, Parents
<1>3. /\ \A k \in 0 .. m : path[k] \in 1 .. n
      /\ \A k, l \in 0 .. m : path[k] = path[l] => k = l
      /\ \A k \in 0 .. m - 1 : Parent(path[k + 1]) = path[k] /\ v[path[k + 1]] < v[i]
      /\ \A k \in 0 .. m - 1 : \A x \in 2 .. n : Parent(x) = path[k] => v[path[k + 1]] <= v[x]
      /\ \A x \in 2 .. n : Parent(x) = path[m] => v[i] <= v[x]
      /\ \A k \in 0 .. m : path[0] <= path[k]
  BY DEF WayDown, Way
<1>4. /\ \A k \in 0 .. m - 1 : w[path[k]] = v[path[k + 1]]
      /\ w[path[m]] = v[i]
      /\ \A x \in 1 .. n : ~ OnWay(path, m, x) => w[x] = v[x]
  BY DEF Shifted
<1>5. /\ \A x \in 2 .. n : Parent(x) # i => v[Parent(x)] <= v[x]
      /\ \A x \in 2 .. n : Parent(x) = i /\ i > 1 => v[Parent(i)] <= v[x]
  BY DEF HeapedBelow
<1>6. \A k \in 0 .. m - 1 : k \in 0 .. m /\ k + 1 \in 0 .. m /\ k + 1 # 0
  OBVIOUS
<1>7. OnWay(path, m, i)
  <2>1. 0 \in 0 .. m
    OBVIOUS
  <2> QED
    BY <2>1 DEF OnWay
\* What is at a place on the way is not larger than what was there, but at its end.
<1>8. ASSUME OnWay(path, m, j) PROVE w[u] <= w[j]
  <2>1. PICK k \in 0 .. m : path[k] = j
    BY <1>8 DEF OnWay
  <2>2. CASE k = 0
    <3>1. j = i /\ ~ OnWay(path, m, u)
      <4>1. j = i /\ \A l \in 0 .. m : j <= path[l] /\ path[l] \in Int
        BY <1>3, <2>1, <2>2
      <4> QED
        BY <1>2, <4>1 DEF OnWay
    <3>2. w[u] = v[u] /\ u # i /\ i > 1
      BY <1>2, <1>4, <1>7, <3>1
    <3>3. CASE m = 0
      <4>1. w[i] = v[i]
        BY <1>4, <3>3
      <4>2. v[u] <= v[i]
        BY <1>1, <1>5, <3>1, <3>2
      <4> QED
        BY <3>1, <3>2, <4>1, <4>2
    <3>4. CASE m # 0
      <4>1. 0 \in 0 .. m - 1 /\ 0 + 1 = 1 /\ 1 \in 0 .. m
        BY <3>4
      <4>2. w[i] = v[path[1]] /\ Parent(path[1]) = i /\ path[1] \in 1 .. n
        <5>1. w[path[0]] = v[path[0 + 1]] /\ Parent(path[0 + 1]) = path[0]
          BY <1>3, <1>4, <4>1
        <5>2. path[1] \in 1 .. n
          BY <1>3, <4>1
        <5> QED
          BY <4>1, <5>1, <5>2
      <4>3. path[1] \in 2 .. n
        <5>1. path[1] # 1
          BY <4>2, Parents
        <5> QED
          BY <4>2, <5>1
      <4>4. v[Parent(i)] <= v[path[1]]
        BY <1>5, <3>2, <4>2, <4>3
      <4> QED
        BY <1>1, <3>1, <3>2, <4>2, <4>4
    <3> QED
      BY <3>3, <3>4
  <2>3. CASE k # 0
    <3>1. PICK l \in 0 .. m - 1 : l + 1 = k
      <4>1. k - 1 \in 0 .. m - 1 /\ (k - 1) + 1 = k
        BY <2>3
      <4> QED
        BY <4>1
    <3>2. u = path[l] /\ w[u] = v[j] /\ v[j] < v[i]
      BY <1>1, <1>3, <1>4, <2>1, <3>1
    <3>3. CASE k = m
      <4>1. w[j] = v[i]
        BY <1>4, <2>1, <3>3
      <4> QED
        BY <1>2, <3>2, <4>1
    <3>4. CASE k # m
      <4>1. k \in 0 .. m - 1 /\ k + 1 \in 0 .. m
        BY <3>4
      <4>2. w[j] = v[path[k + 1]] /\ Parent(path[k + 1]) = j /\ path[k + 1] \in 1 .. n
        BY <1>3, <1>4, <2>1, <4>1
      <4>3. path[k + 1] \in 2 .. n
        <5>1. path[k + 1] # 1
          BY <4>2, Parents, SMTT(30)
        <5> QED
          BY <4>2, <5>1
      <4>4. j # i
        <5>1. 0 \in 0 .. m
          OBVIOUS
        <5> QED
          BY <1>3, <2>1, <2>3, <5>1
      <4>5. v[j] <= v[path[k + 1]]
        BY <1>5, <4>2, <4>3, <4>4
      <4> QED
        BY <3>2, <4>2, <4>5
    <3> QED
      BY <3>3, <3>4
  <2> QED
    BY <2>2, <2>3
<1>9. ASSUME ~ OnWay(path, m, j) PROVE w[u] <= w[j]
  <2>1. w[j] = v[j] /\ j # i
    BY <1>2, <1>4, <1>7, <1>9
  <2>2. CASE OnWay(path, m, u)
    <3>1. PICK k \in 0 .. m : path[k] = u
      BY <2>2 DEF OnWay
    <3>2. CASE k = m
      BY <1>1, <1>3, <1>4, <2>1, <3>1, <3>2
    <3>3. CASE k # m
      <4>1. k \in 0 .. m - 1
        BY <3>3
      <4>2. w[u] = v[path[k + 1]] /\ v[path[k + 1]] <= v[j]
        BY <1>1, <1>3, <1>4, <3>1, <4>1
      <4> QED
        BY <2>1, <4>2
    <3> QED
      BY <3>2, <3>3
  <2>3. CASE ~ OnWay(path, m, u)
    <3>1. u # i /\ w[u] = v[u]
      BY <1>2, <1>4, <1>7, <2>3
    <3> QED
      BY <1>1, <1>5, <2>1, <3>1
  <2> QED
    BY <2>2, <2>3
<1> QED
  BY <1>1, <1>8, <1>9

-----------------------------------------------------------------------------
(* The paths. *)

\* A path that goes on from place to place goes through no place twice.
LEMMA Rising ==
  ASSUME NEW m \in Nat, NEW g, \A k \in 0 .. m : g[k] \in Int,
         \A k \in 0 .. m - 1 : g[k] < g[k + 1]
  PROVE  \A k, l \in 0 .. m : k < l => g[k] < g[l]
<1> SUFFICES ASSUME NEW k \in 0 .. m PROVE \A l \in 0 .. m : k < l => g[k] < g[l]
  OBVIOUS
<1>1. PICK T : T = {l \in 0 .. m : k < l => g[k] < g[l]}
  OBVIOUS
<1>2. 0 \in T
  BY <1>1
<1>3. ASSUME NEW l \in 0 .. m - 1, l \in T PROVE l + 1 \in T
  <2>1. l \in 0 .. m /\ l + 1 \in 0 .. m /\ g[l] < g[l + 1] /\ g[l] \in Int
        /\ g[l + 1] \in Int /\ g[k] \in Int
    OBVIOUS
  <2>2. k < l => g[k] < g[l]
    BY <1>1, <1>3
  <2>3. k < l + 1 => g[k] < g[l + 1]
    <3>1. CASE k = l
      BY <2>1, <3>1
    <3>2. CASE k < l
      BY <2>1, <2>2, <3>2
    <3> QED
      BY <3>1, <3>2
  <2> QED
    BY <1>1, <2>1, <2>3
<1>4. \A l \in 0 .. m : l \in T
  BY <1>2, <1>3, UpTo
<1> QED
  BY <1>1, <1>4

\* The least number of a set.
LEMMA MinLeast ==
  ASSUME NEW T, T \subseteq Nat, T # {}
  PROVE  Min(T) \in T /\ \A x \in T : Min(T) <= x
BY LeastNumber DEF Min

\* Up from a place, and down from it.
GoesUp(p, n, i) ==
  /\ p \in [0 .. n -> 0 .. n] /\ p[0] = i
  /\ \A k \in 0 .. n - 1 : p[k + 1] = Parent(p[k])
GoesDown(p, q, pri, n, i) ==
  /\ p \in [0 .. n -> 0 .. n] /\ p[0] = i
  /\ \A k \in 0 .. n - 1 : p[k + 1] = IF p[k] = 0 THEN 0 ELSE MaxChild(q, pri, p[k])

\* f starts with a and goes on by Step.
Recurs(f, n, a, Step) == f = [k \in 0 .. n |-> IF k = 0 THEN a ELSE Step[f[k - 1]]]

\* A recursion on numbers by steps within a set has a solution that stays in
\* the set.
LEMMA Recursion ==
  ASSUME NEW A, NEW a \in A, NEW n \in Nat, NEW Step, Step \in [A -> A]
  PROVE  \E f : Recurs(f, n, a, Step) /\ \A k \in 0 .. n : f[k] \in A
<1>1. PICK F : F = [p \in A \X (0 .. n - 1) |-> Step[p[1]]]
  OBVIOUS
<1>2. F \in Steps(A, n)
  BY <1>1 DEF Steps
<1>3. PICK f : Iterates(f, A, a, n, F)
  BY <1>2, Iterated
<1> USE DEF Iterates
<1>4. f = [k \in 0 .. n |-> IF k = 0 THEN a ELSE Step[f[k - 1]]]
  <2>1. ASSUME NEW k \in 0 .. n PROVE f[k] = IF k = 0 THEN a ELSE Step[f[k - 1]]
    <3>1. CASE k = 0
      BY <1>3, <3>1
    <3>2. CASE k # 0
      <4>1. k \in 1 .. n /\ k - 1 \in 0 .. n /\ k - 1 \in 0 .. n - 1
        BY <3>2
      <4>2. <<f[k - 1], k - 1>> \in A \X (0 .. n - 1)
        BY <1>3, <4>1
      <4> QED
        BY <1>1, <1>3, <3>2, <4>1, <4>2
    <3> QED
      BY <3>1, <3>2
  <2> QED
    BY <2>1, <1>3
<1>5. \A k \in 0 .. n : f[k] \in A
  BY <1>3
<1> QED
  BY <1>4, <1>5 DEF Recurs

\* What starts in a set and never leaves it in a step stays there.
LEMMA Stays ==
  ASSUME NEW A, NEW n \in Nat, NEW u, u = [k \in 0 .. n |-> u[k]], u[0] \in A,
         \A k \in 0 .. n - 1 : u[k] \in A => u[k + 1] \in A
  PROVE  u \in [0 .. n -> A]
<1>1. PICK T : T = {k \in 0 .. n : u[k] \in A}
  OBVIOUS
<1>2. 0 \in T
  BY <1>1
<1>3. ASSUME NEW k \in 0 .. n - 1, k \in T PROVE k + 1 \in T
  <2>1. k + 1 \in 0 .. n /\ u[k] \in A
    BY <1>1, <1>3
  <2> QED
    BY <1>1, <2>1
<1>4. \A k \in 0 .. n : k \in T
  BY <1>2, <1>3, UpTo
<1>5. \A k \in 0 .. n : u[k] \in A
  BY <1>1, <1>4
<1> QED
  BY <1>5

\* The way up.
LEMMA UpPath ==
  ASSUME NEW q, NEW n \in Nat, Len(q.d) = n, NEW i \in 1 .. n
  PROVE  GoesUp(PathUp(q, i), n, i)
<1>1. PICK Step : Step = [u \in 0 .. n |-> Parent(u)]
  OBVIOUS
<1>2. Step \in [0 .. n -> 0 .. n] /\ i \in 0 .. n /\ \A u \in 0 .. n : Parent(u) \in 0 .. n
  <2>1. \A u \in 0 .. n : Parent(u) \in 0 .. n
    BY DEF Parent
  <2> QED
    BY <1>1, <2>1
<1>3. PICK f : /\ f = [k \in 0 .. n |-> IF k = 0 THEN i ELSE Step[f[k - 1]]]
               /\ \A k \in 0 .. n : f[k] \in 0 .. n
  <2>1. \E f : Recurs(f, n, i, Step) /\ \A k \in 0 .. n : f[k] \in 0 .. n
    BY <1>2, Recursion
  <2> QED
    BY <2>1 DEF Recurs
<1>4. f = [k \in 0 .. n |-> IF k = 0 THEN i ELSE Parent(f[k - 1])]
  <2>1. ASSUME NEW k \in 0 .. n PROVE k # 0 => Step[f[k - 1]] = Parent(f[k - 1])
    <3>1. k # 0 => k - 1 \in 0 .. n
      OBVIOUS
    <3> QED
      BY <1>1, <1>3, <3>1
  <2> QED
    BY <1>3, <2>1
<1>5. PICK p : p = PathUp(q, i)
  OBVIOUS
<1>6. p = CHOOSE v : v = [k \in 0 .. n |-> IF k = 0 THEN i ELSE Parent(v[k - 1])]
  BY <1>5 DEF PathUp
<1>7. p = [k \in 0 .. n |-> IF k = 0 THEN i ELSE Parent(p[k - 1])]
  BY <1>4, <1>6
<1>8. p[0] = i /\ p = [k \in 0 .. n |-> p[k]] /\ \A k \in 0 .. n - 1 : p[k + 1] = Parent(p[k])
  <2>1. 0 \in 0 .. n /\ \A k \in 0 .. n - 1 : k + 1 \in 0 .. n /\ k + 1 # 0 /\ (k + 1) - 1 = k
    OBVIOUS
  <2>2. p[0] = i
    BY <1>7, <2>1
  <2>3. \A k \in 0 .. n - 1 : p[k + 1] = Parent(p[k])
    BY <1>7, <2>1
  <2>4. p = [k \in 0 .. n |-> p[k]]
    BY <1>7
  <2> QED
    BY <2>2, <2>3, <2>4
<1>9. p \in [0 .. n -> 0 .. n]
  <2>1. p[0] \in 0 .. n /\ \A k \in 0 .. n - 1 : p[k] \in 0 .. n => p[k + 1] \in 0 .. n
    BY <1>2, <1>8
  <2> QED
    BY <1>8, <2>1, Stays
<1> QED
  BY <1>5, <1>8, <1>9 DEF GoesUp

\* The priorities at the places.
Values(q, pri) == [j \in 1 .. Len(q.d) |-> pri[q.d[j]]]

\* The child MaxChild finds.
ChildOf(c, v, n, u) ==
  /\ c \in 0 .. n
  /\ c # 0 => c \in 2 .. n /\ c > u /\ Parent(c) = u
  /\ \A j \in 2 .. n : Parent(j) = u => c # 0 /\ v[c] <= v[j]

\* It is the child with the smaller priority.
LEMMA Children ==
  ASSUME NEW q, NEW pri, NEW n \in Nat, Len(q.d) = n, NEW v \in [1 .. n -> Int],
         v = Values(q, pri), NEW u \in 1 .. n
  PROVE  ChildOf(MaxChild(q, pri, u), v, n, u)
<1>1. PICK l : l = Left(u)
  OBVIOUS
<1>2. /\ l \in Nat /\ l > u /\ l + 1 > u /\ Parent(l) = u /\ Parent(l + 1) = u
      /\ \A j \in 2 .. n : Parent(j) = u => j = l \/ j = l + 1
  BY <1>1 DEF Left, Parent
<1>3. \A j \in 1 .. n : v[j] = pri[q.d[j]] /\ v[j] \in Int
  BY DEF Values
<1>4. PICK c : c = MaxChild(q, pri, u)
  OBVIOUS
<1>5. CASE l > n
  <2>1. c = 0
    BY <1>1, <1>4, <1>5 DEF MaxChild
  <2> QED
    BY <1>2, <1>4, <1>5, <2>1 DEF ChildOf
<1>6. CASE l = n
  <2>1. c = l
    BY <1>1, <1>4, <1>6 DEF MaxChild
  <2>2. \A j \in 2 .. n : Parent(j) = u => j = l
    BY <1>2, <1>6
  <2>3. v[l] <= v[l] /\ l \in 2 .. n
    BY <1>2, <1>3, <1>6
  <2> QED
    BY <1>2, <1>4, <1>6, <2>1, <2>2, <2>3 DEF ChildOf
<1>7. CASE l < n
  <2>1. l \in 2 .. n /\ l + 1 \in 2 .. n
    BY <1>2, <1>7
  <2>2. c = IF v[l] > v[l + 1] THEN l + 1 ELSE l
    BY <1>1, <1>2, <1>3, <1>4, <1>7, <2>1, SMTT(30) DEF MaxChild
  <2>3. v[c] <= v[l] /\ v[c] <= v[l + 1] /\ c \in 2 .. n /\ c > u /\ Parent(c) = u
    BY <1>2, <1>3, <2>1, <2>2
  <2> QED
    <3>1. ASSUME NEW j \in 2 .. n, Parent(j) = u PROVE c # 0 /\ v[c] <= v[j]
      BY <1>2, <2>3, <3>1, SMTT(30)
    <3> QED
      BY <1>4, <2>3, <3>1 DEF ChildOf
<1> QED
  BY <1>2, <1>5, <1>6, <1>7

\* The way down.
LEMMA DownPath ==
  ASSUME NEW q, NEW pri, NEW n \in Nat, Len(q.d) = n, NEW v \in [1 .. n -> Int],
         v = Values(q, pri), NEW i \in 1 .. n
  PROVE  GoesDown(PathDown(q, pri, i), q, pri, n, i)
<1>1. PICK Step : Step = [u \in 0 .. n |-> IF u = 0 THEN 0 ELSE MaxChild(q, pri, u)]
  OBVIOUS
<1>2. /\ Step \in [0 .. n -> 0 .. n] /\ i \in 0 .. n
      /\ \A u \in 1 .. n : MaxChild(q, pri, u) \in 0 .. n
  <2>1. \A u \in 1 .. n : MaxChild(q, pri, u) \in 0 .. n
    BY Children DEF ChildOf
  <2> QED
    BY <1>1, <2>1
<1>3. PICK f : /\ f = [k \in 0 .. n |-> IF k = 0 THEN i ELSE Step[f[k - 1]]]
               /\ \A k \in 0 .. n : f[k] \in 0 .. n
  <2>1. \E f : Recurs(f, n, i, Step) /\ \A k \in 0 .. n : f[k] \in 0 .. n
    BY <1>2, Recursion
  <2> QED
    BY <2>1 DEF Recurs
<1>4. f = [k \in 0 .. n |-> IF k = 0 THEN i
                            ELSE IF f[k - 1] = 0 THEN 0 ELSE MaxChild(q, pri, f[k - 1])]
  <2>1. ASSUME NEW k \in 0 .. n
        PROVE  k # 0 => Step[f[k - 1]] = IF f[k - 1] = 0 THEN 0 ELSE MaxChild(q, pri, f[k - 1])
    <3>1. k # 0 => k - 1 \in 0 .. n
      OBVIOUS
    <3> QED
      BY <1>1, <1>3, <3>1
  <2> QED
    BY <1>3, <2>1
<1>5. PICK p : p = PathDown(q, pri, i)
  OBVIOUS
<1>6. p = CHOOSE g : g = [k \in 0 .. n |->
        IF k = 0 THEN i ELSE IF g[k - 1] = 0 THEN 0 ELSE MaxChild(q, pri, g[k - 1])]
  BY <1>5 DEF PathDown
<1>7. p = [k \in 0 .. n |-> IF k = 0 THEN i
                            ELSE IF p[k - 1] = 0 THEN 0 ELSE MaxChild(q, pri, p[k - 1])]
  BY <1>4, <1>6
<1>8. /\ p[0] = i /\ p = [k \in 0 .. n |-> p[k]]
      /\ \A k \in 0 .. n - 1 : p[k + 1] = IF p[k] = 0 THEN 0 ELSE MaxChild(q, pri, p[k])
  <2>1. 0 \in 0 .. n /\ \A k \in 0 .. n - 1 : k + 1 \in 0 .. n /\ k + 1 # 0 /\ (k + 1) - 1 = k
    OBVIOUS
  <2>2. p[0] = i
    BY <1>7, <2>1
  <2>3. \A k \in 0 .. n - 1 : p[k + 1] = IF p[k] = 0 THEN 0 ELSE MaxChild(q, pri, p[k])
    BY <1>7, <2>1
  <2>4. p = [k \in 0 .. n |-> p[k]]
    BY <1>7
  <2> QED
    BY <2>2, <2>3, <2>4
<1>9. p \in [0 .. n -> 0 .. n]
  <2>1. p[0] \in 0 .. n
    BY <1>8
  <2>2. ASSUME NEW k \in 0 .. n - 1, p[k] \in 0 .. n PROVE p[k + 1] \in 0 .. n
    <3>1. CASE p[k] = 0
      BY <1>8, <3>1, SMTT(30)
    <3>2. CASE p[k] # 0
      <4>1. \A x \in 0 .. n : x # 0 => x \in 1 .. n
        OBVIOUS
      <4>2. p[k] \in 1 .. n
        BY <2>2, <3>2, <4>1
      <4>3. p[k + 1] = MaxChild(q, pri, p[k])
        BY <1>8, <3>2
      <4> QED
        BY <1>2, <4>2, <4>3
    <3> QED
      BY <3>1, <3>2
  <2> QED
    BY <1>8, <2>1, <2>2, Stays
<1> QED
  BY <1>5, <1>8, <1>9 DEF GoesDown

\* How far BubbleUp and PercolateDown go on the path p from place i.
UpTurns(q, pri, p, i) ==
  Min({k \in 0 .. Len(q.d) - 1 : p[k + 1] = 0 \/ pri[q.d[p[k + 1]]] <= pri[q.d[i]]})
DownTurns(q, pri, p, i) ==
  Min({k \in 0 .. Len(q.d) - 1 : p[k + 1] = 0 \/ pri[q.d[i]] <= pri[q.d[p[k + 1]]]})

\* The first step of a path to 0 that goes no further.
StopsIn(T, p, n) == T \subseteq 0 .. n - 1 /\ \A k \in 0 .. n - 1 : p[k + 1] = 0 => k \in T
FirstOf(m, T, p, n) ==
  /\ m \in T /\ m \in 0 .. n - 1
  /\ \A k \in 0 .. m - 1 : k \notin T /\ k \in 0 .. n - 1 /\ p[k + 1] # 0
  /\ \A k \in 0 .. m : p[k] \in 1 .. n

\* There is one.
LEMMA FirstStop ==
  ASSUME NEW n \in Nat, n # 0, NEW p, p \in [0 .. n -> 0 .. n], p[0] # 0, p[n] = 0,
         NEW T, StopsIn(T, p, n)
  PROVE  FirstOf(Min(T), T, p, n)
<1> USE DEF StopsIn, FirstOf
<1>1. n - 1 \in 0 .. n - 1 /\ (n - 1) + 1 = n
  OBVIOUS
<1>2. n - 1 \in T /\ T \subseteq Nat
  BY <1>1
<1>3. PICK m : m = Min(T)
  OBVIOUS
<1>4. m \in T /\ \A x \in T : m <= x
  BY <1>2, <1>3, MinLeast
<1>5. m \in 0 .. n - 1
  BY <1>4
<1>6. ASSUME NEW k \in 0 .. m - 1 PROVE k \notin T /\ k \in 0 .. n - 1 /\ p[k + 1] # 0
  <2>1. k \in 0 .. n - 1 /\ ~ (m <= k)
    BY <1>5
  <2> QED
    BY <1>4, <2>1
<1>7. ASSUME NEW k \in 0 .. m PROVE p[k] \in 1 .. n
  <2>1. p[k] \in 0 .. n
    <3>1. k \in 0 .. n
      BY <1>5
    <3> QED
      BY <3>1
  <2>2. p[k] # 0
    <3>1. CASE k = 0
      BY <3>1
    <3>2. CASE k # 0
      <4>1. k - 1 \in 0 .. m - 1 /\ (k - 1) + 1 = k
        BY <1>5, <3>2
      <4> QED
        BY <1>6, <4>1
    <3> QED
      BY <3>1, <3>2
  <2>3. \A x \in 0 .. n : x # 0 => x \in 1 .. n
    OBVIOUS
  <2> QED
    BY <2>1, <2>2, <2>3
<1> QED
  BY <1>3, <1>4, <1>5, <1>6, <1>7

\* BubbleUp goes a way up.
LEMMA UpWay ==
  ASSUME NEW q, NEW pri, NEW n \in Nat, Len(q.d) = n, NEW v \in [1 .. n -> Int],
         v = Values(q, pri), NEW i \in 1 .. n, NEW p, GoesUp(p, n, i)
  PROVE  UpTurns(q, pri, p, i) \in Nat /\ WayUp(v, n, p, UpTurns(q, pri, p, i))
<1>1. p \in [0 .. n -> 0 .. n] /\ p[0] = i /\ \A k \in 0 .. n - 1 : p[k + 1] = Parent(p[k])
  BY DEF GoesUp
<1>2. \A k \in 0 .. n : p[k] \in 0 .. n
  BY <1>1
<1>3. Parent(0) = 0 /\ \A u \in 1 .. n : Parent(u) \in 0 .. n /\ Parent(u) < u
  BY DEF Parent
<1>4. p[n] = 0
  <2>1. PICK T : T = {k \in 0 .. n : p[k] = 0 \/ p[k] + k <= i}
    OBVIOUS
  <2>2. 0 \in T
    BY <1>1, <2>1
  <2>3. ASSUME NEW k \in 0 .. n - 1, k \in T PROVE k + 1 \in T
    <3>1. k + 1 \in 0 .. n /\ k \in 0 .. n /\ p[k] \in 0 .. n /\ p[k + 1] = Parent(p[k])
      BY <1>1, <1>2
    <3>2. PICK x, y : x = p[k] /\ y = p[k + 1]
      OBVIOUS
    <3>3. x \in 0 .. n /\ y = Parent(x) /\ (x = 0 \/ x + k <= i)
      BY <2>1, <2>3, <3>1, <3>2
    <3>4. y = 0 \/ y + (k + 1) <= i
      <4>1. CASE x = 0
        BY <1>3, <3>3, <4>1
      <4>2. CASE x # 0
        BY <1>3, <3>3, <4>2
      <4> QED
        BY <4>1, <4>2
    <3> QED
      BY <2>1, <3>1, <3>2, <3>4
  <2>4. n \in 0 .. n /\ \A k \in 0 .. n : k \in T
    <3>1. \A k \in 0 .. n : k \in T
      BY <2>2, <2>3, UpTo
    <3> QED
      BY <3>1
  <2>5. p[n] = 0 \/ p[n] + n <= i
    BY <2>1, <2>4
  <2>6. PICK x : x = p[n]
    OBVIOUS
  <2>7. x \in 0 .. n
    BY <1>2, <2>4, <2>6
  <2> QED
    BY <2>5, <2>6, <2>7
<1>5. PICK T : T = {k \in 0 .. Len(q.d) - 1 : p[k + 1] = 0 \/ pri[q.d[p[k + 1]]] <= pri[q.d[i]]}
  OBVIOUS
<1>6. PICK m : m = Min(T)
  OBVIOUS
<1>7. n # 0 /\ i # 0
  OBVIOUS
<1>8. /\ m \in T /\ m \in 0 .. n - 1
      /\ \A k \in 0 .. m - 1 : k \notin T /\ k \in 0 .. n - 1 /\ p[k + 1] # 0
      /\ \A k \in 0 .. m : p[k] \in 1 .. n
  <2>1. StopsIn(T, p, n)
    BY <1>5 DEF StopsIn
  <2>2. FirstOf(Min(T), T, p, n)
    BY <1>1, <1>4, <1>7, <2>1, FirstStop
  <2> QED
    BY <1>6, <2>2 DEF FirstOf
<1>9. \A x \in 1 .. n : v[x] = pri[q.d[x]] /\ v[x] \in Int
  BY DEF Values
<1>10. ASSUME NEW k \in 0 .. m - 1 PROVE p[k + 1] = Parent(p[k]) /\ v[p[0]] < v[p[k + 1]]
  <2>1. k \notin T /\ k \in 0 .. n - 1 /\ p[k + 1] # 0 /\ k + 1 \in 0 .. m
    BY <1>8
  <2>2. PICK x : x = p[k + 1]
    OBVIOUS
  <2>3. x \in 1 .. n /\ ~ (pri[q.d[x]] <= pri[q.d[i]])
    BY <1>5, <1>8, <2>1, <2>2
  <2>4. v[i] < v[x]
    BY <1>9, <2>3
  <2> QED
    BY <1>1, <2>1, <2>2, <2>4
<1>11. Parent(p[m]) = 0 \/ v[Parent(p[m])] <= v[p[0]]
  <2>1. PICK x : x = p[m + 1]
    OBVIOUS
  <2>2. x = Parent(p[m]) /\ x \in 0 .. n /\ (x = 0 \/ pri[q.d[x]] <= pri[q.d[i]])
    <3>1. m + 1 \in 0 .. n
      BY <1>8
    <3> QED
      BY <1>1, <1>2, <1>5, <1>8, <2>1, <3>1
  <2>3. x # 0 => x \in 1 .. n
    BY <2>2
  <2> QED
    BY <1>1, <1>9, <2>2, <2>3
<1>12. \A k, l \in 0 .. m : k < l => p[l] < p[k]
  <2>1. PICK g : g = [k \in 0 .. m |-> 0 - p[k]]
    OBVIOUS
  <2>2. \A k \in 0 .. m : g[k] = 0 - p[k] /\ g[k] \in Int /\ p[k] \in Int
    BY <1>8, <2>1
  <2>3. ASSUME NEW k \in 0 .. m - 1 PROVE g[k] < g[k + 1]
    <3>1. k \in 0 .. m /\ k + 1 \in 0 .. m
      BY <1>8
    <3>2. p[k + 1] < p[k]
      BY <1>3, <1>8, <1>10, <3>1
    <3> QED
      BY <2>2, <3>1, <3>2
  <2>4. m \in Nat
    BY <1>8
  <2>5. \A k, l \in 0 .. m : k < l => g[k] < g[l]
    BY <2>2, <2>3, <2>4, Rising
  <2> QED
    BY <2>2, <2>5
<1>13. Way(p, m, n)
  <2>1. ASSUME NEW k \in 0 .. m, NEW l \in 0 .. m, p[k] = p[l] PROVE k = l
    <3>1. m \in Nat /\ ~ (p[k] < p[k])
      BY <1>8
    <3>2. ~ (k < l) /\ ~ (l < k)
      BY <1>12, <2>1, <3>1
    <3> QED
      BY <3>1, <3>2
  <2> QED
    BY <1>8, <2>1 DEF Way
<1>14. \A k \in 0 .. m : p[m] <= p[k]
  <2>1. ASSUME NEW k \in 0 .. m PROVE p[m] <= p[k]
    <3>1. m \in Nat /\ m \in 0 .. m /\ p[m] \in Int /\ p[k] \in Int
      BY <1>8
    <3>2. k < m => p[m] < p[k]
      BY <1>12, <3>1
    <3>3. CASE k < m
      BY <3>1, <3>2, <3>3
    <3>4. CASE k = m
      BY <3>1, <3>4
    <3> QED
      BY <3>1, <3>3, <3>4
  <2> QED
    BY <2>1
<1>15. m \in Nat /\ m = UpTurns(q, pri, p, i)
  <2>1. m \in Nat
    BY <1>8
  <2> QED
    BY <1>5, <1>6, <2>1 DEF UpTurns
<1> QED
  BY <1>10, <1>11, <1>13, <1>14, <1>15 DEF WayUp

\* PercolateDown goes a way down.
LEMMA DownWay ==
  ASSUME NEW q, NEW pri, NEW n \in Nat, Len(q.d) = n, NEW v \in [1 .. n -> Int],
         v = Values(q, pri), NEW i \in 1 .. n, NEW p, GoesDown(p, q, pri, n, i)
  PROVE  DownTurns(q, pri, p, i) \in Nat /\ WayDown(v, n, p, DownTurns(q, pri, p, i))
<1>1. /\ p \in [0 .. n -> 0 .. n] /\ p[0] = i
      /\ \A k \in 0 .. n - 1 : p[k + 1] = IF p[k] = 0 THEN 0 ELSE MaxChild(q, pri, p[k])
  BY DEF GoesDown
<1>2. \A k \in 0 .. n : p[k] \in 0 .. n
  BY <1>1
<1>3. \A u \in 1 .. n : ChildOf(MaxChild(q, pri, u), v, n, u)
  BY Children
<1>4. p[n] = 0
  <2>1. PICK T : T = {k \in 0 .. n : p[k] = 0 \/ p[k] >= i + k}
    OBVIOUS
  <2>2. 0 \in T
    BY <1>1, <2>1
  <2>3. ASSUME NEW k \in 0 .. n - 1, k \in T PROVE k + 1 \in T
    <3>1. k + 1 \in 0 .. n /\ k \in 0 .. n /\ p[k] \in 0 .. n /\ p[k + 1] \in 0 .. n
      BY <1>2
    <3>2. PICK x, y : x = p[k] /\ y = p[k + 1]
      OBVIOUS
    <3>3. x \in 0 .. n /\ (x = 0 \/ x >= i + k) /\ y \in 0 .. n
      BY <2>1, <2>3, <3>1, <3>2
    <3>4. y = 0 \/ y >= i + (k + 1)
      <4>1. CASE x = 0
        BY <1>1, <3>2, <4>1
      <4>2. CASE x # 0
        <5>1. x \in 1 .. n /\ y = MaxChild(q, pri, x)
          BY <1>1, <3>2, <3>3, <4>2
        <5>2. y # 0 => y > x
          BY <1>3, <5>1 DEF ChildOf
        <5> QED
          BY <3>3, <4>2, <5>2
      <4> QED
        BY <4>1, <4>2
    <3> QED
      BY <2>1, <3>1, <3>2, <3>4
  <2>4. n \in 0 .. n /\ \A k \in 0 .. n : k \in T
    <3>1. \A k \in 0 .. n : k \in T
      BY <2>2, <2>3, UpTo
    <3> QED
      BY <3>1
  <2>5. p[n] = 0 \/ p[n] >= i + n
    BY <2>1, <2>4
  <2>6. PICK x : x = p[n]
    OBVIOUS
  <2>7. x \in 0 .. n
    BY <1>2, <2>4, <2>6
  <2> QED
    BY <2>5, <2>6, <2>7
<1>5. PICK T : T = {k \in 0 .. Len(q.d) - 1 : p[k + 1] = 0 \/ pri[q.d[i]] <= pri[q.d[p[k + 1]]]}
  OBVIOUS
<1>6. PICK m : m = Min(T)
  OBVIOUS
<1>7. n # 0 /\ i # 0
  OBVIOUS
<1>8. /\ m \in T /\ m \in 0 .. n - 1
      /\ \A k \in 0 .. m - 1 : k \notin T /\ k \in 0 .. n - 1 /\ p[k + 1] # 0
      /\ \A k \in 0 .. m : p[k] \in 1 .. n
  <2>1. StopsIn(T, p, n)
    BY <1>5 DEF StopsIn
  <2>2. FirstOf(Min(T), T, p, n)
    BY <1>1, <1>4, <1>7, <2>1, FirstStop
  <2> QED
    BY <1>6, <2>2 DEF FirstOf
<1>9. \A x \in 1 .. n : v[x] = pri[q.d[x]] /\ v[x] \in Int
  BY DEF Values
<1>10. ASSUME NEW k \in 0 .. m - 1
       PROVE  /\ Parent(p[k + 1]) = p[k] /\ v[p[k + 1]] < v[p[0]] /\ p[k] < p[k + 1]
              /\ \A j \in 2 .. n : Parent(j) = p[k] => v[p[k + 1]] <= v[j]
  <2>1. k \notin T /\ k \in 0 .. n - 1 /\ p[k + 1] # 0 /\ k + 1 \in 0 .. m /\ k \in 0 .. m
    BY <1>8
  <2>2. PICK x, y : x = p[k] /\ y = p[k + 1]
    OBVIOUS
  <2>3. x \in 1 .. n /\ y \in 1 .. n /\ y # 0 /\ x # 0
    BY <1>8, <2>1, <2>2
  <2>4. y = MaxChild(q, pri, x)
    BY <1>1, <2>1, <2>2, <2>3
  <2>5. ChildOf(y, v, n, x)
    BY <1>3, <2>3, <2>4
  <2>6. y > x /\ Parent(y) = x /\ \A j \in 2 .. n : Parent(j) = x => v[y] <= v[j]
    BY <2>3, <2>5 DEF ChildOf
  <2>7. ~ (pri[q.d[i]] <= pri[q.d[y]])
    BY <1>5, <2>1, <2>2
  <2>8. v[y] < v[i]
    BY <1>9, <2>3, <2>7
  <2> QED
    BY <1>1, <2>2, <2>3, <2>6, <2>8
<1>11. ASSUME NEW j \in 2 .. n, Parent(j) = p[m] PROVE v[p[0]] <= v[j]
  <2>1. PICK x, y : x = p[m] /\ y = p[m + 1]
    OBVIOUS
  <2>2. m \in 0 .. m /\ x \in 1 .. n /\ x # 0
    BY <1>8, <2>1
  <2>3. y = MaxChild(q, pri, x)
    BY <1>1, <1>8, <2>1, <2>2
  <2>4. ChildOf(y, v, n, x)
    BY <1>3, <2>2, <2>3
  <2>5. y # 0 /\ y \in 2 .. n /\ v[y] <= v[j]
    BY <1>11, <2>1, <2>4 DEF ChildOf
  <2>6. pri[q.d[i]] <= pri[q.d[y]]
    BY <1>5, <1>8, <2>1, <2>5
  <2>7. v[i] <= v[y] /\ v[i] \in Int /\ v[y] \in Int /\ v[j] \in Int
    BY <1>9, <2>5, <2>6
  <2> QED
    BY <1>1, <2>5, <2>7
<1>12. \A k, l \in 0 .. m : k < l => p[k] < p[l]
  <2>1. m \in Nat /\ \A k \in 0 .. m : p[k] \in Int
    BY <1>8
  <2> QED
    BY <1>10, <2>1, Rising
<1>13. Way(p, m, n)
  <2>1. ASSUME NEW k \in 0 .. m, NEW l \in 0 .. m, p[k] = p[l] PROVE k = l
    <3>1. m \in Nat /\ ~ (p[k] < p[k])
      BY <1>8
    <3>2. ~ (k < l) /\ ~ (l < k)
      BY <1>12, <2>1, <3>1
    <3> QED
      BY <3>1, <3>2
  <2> QED
    BY <1>8, <2>1 DEF Way
<1>14. \A k \in 0 .. m : p[0] <= p[k]
  <2>1. ASSUME NEW k \in 0 .. m PROVE p[0] <= p[k]
    <3>1. m \in Nat /\ 0 \in 0 .. m /\ p[0] \in Int /\ p[k] \in Int
      BY <1>8
    <3>2. 0 < k => p[0] < p[k]
      BY <1>12, <3>1
    <3>3. CASE 0 < k
      BY <3>1, <3>2, <3>3
    <3>4. CASE 0 = k
      BY <3>1, <3>4
    <3> QED
      BY <3>1, <3>3, <3>4
  <2> QED
    BY <2>1
<1>15. m \in Nat /\ m = DownTurns(q, pri, p, i)
  <2>1. m \in Nat
    BY <1>8
  <2> QED
    BY <1>5, <1>6, <2>1 DEF DownTurns
<1> QED
  BY <1>10, <1>11, <1>13, <1>14, <1>15 DEF WayDown

-----------------------------------------------------------------------------
(* Sifting. *)

\* Places are known but for the one given.
KnowsApart(q, i) == \A j \in DOMAIN q.d : j # i => q.pos[q.d[j]] = j
\* r is a heap of the elements of q, which know their places; pos is left as
\* it was for the others.
Sifted(S, q, r, pri) ==
  /\ r \in Queues(S) /\ SameElements(S, q, r) /\ Len(r.d) = Len(q.d)
  /\ Heaped(Values(r, pri), Len(r.d))

\* A queue moved along a way.
LEMMA WaySifted ==
  ASSUME NEW S, NEW q \in Queues(S), NEW pri \in [S -> Int], NEW n \in Nat, n = Len(q.d),
         NEW i \in 1 .. n, Once(q.d), KnowsApart(q, i),
         NEW p, NEW m \in Nat, p[0] = i, Way(p, m, n)
  PROVE  LET r == Moved(q, p, m) IN
         /\ r \in Queues(S) /\ SameElements(S, q, r) /\ Len(r.d) = n
         /\ Values(q, pri) \in [1 .. n -> Int] /\ Values(r, pri) \in [1 .. n -> Int]
         /\ Shifted(Values(q, pri), Values(r, pri), n, p, m)
<1>1. PICK r : r = Moved(q, p, m)
  OBVIOUS
<1>2. KnowsBut(q, p, m)
  <2>1. OnWay(p, m, i)
    <3>1. 0 \in 0 .. m
      OBVIOUS
    <3> QED
      BY <3>1 DEF OnWay
  <2> QED
    BY <2>1 DEF KnowsApart, KnowsBut
<1>3. r \in Queues(S) /\ SameElements(S, q, r) /\ Shifts(q, r, p, m)
  <2>1. Way(p, m, Len(q.d))
    OBVIOUS
  <2> QED
    BY <1>1, <1>2, <2>1, MovedKeeps
<1>4. PICK d, e : d = q.d /\ e = r.d
  OBVIOUS
<1>5. /\ d \in Seq(S) /\ Len(d) = n /\ e \in Seq(S) /\ Len(e) = n
      /\ DOMAIN d = 1 .. n /\ DOMAIN e = 1 .. n
      /\ \A j \in 1 .. n : d[j] \in S /\ e[j] \in S
  BY <1>3, <1>4, LenProperties, ElementOfSeq DEF Queues, Shifts
<1>6. PICK v, w : v = Values(q, pri) /\ w = Values(r, pri)
  OBVIOUS
<1>7. /\ v = [j \in 1 .. n |-> pri[d[j]]] /\ w = [j \in 1 .. n |-> pri[e[j]]]
      /\ v \in [1 .. n -> Int] /\ w \in [1 .. n -> Int]
      /\ \A j \in 1 .. n : v[j] = pri[d[j]] /\ w[j] = pri[e[j]]
  <2>1. v = [j \in 1 .. n |-> pri[d[j]]]
    BY <1>4, <1>5, <1>6 DEF Values
  <2>2. w = [j \in 1 .. n |-> pri[e[j]]]
    BY <1>4, <1>5, <1>6 DEF Values
  <2> QED
    BY <1>5, <2>1, <2>2
<1>8. /\ \A k \in 0 .. m : p[k] \in 1 .. n
      /\ e[p[m]] = d[p[0]] /\ \A k \in 0 .. m - 1 : e[p[k]] = d[p[k + 1]]
      /\ \A j \in 1 .. n : ~ OnWay(p, m, j) => e[j] = d[j]
  BY <1>3, <1>4, <1>5 DEF Shifts, Way
<1>9. ASSUME NEW k \in 0 .. m - 1 PROVE w[p[k]] = v[p[k + 1]]
  <2>1. k \in 0 .. m /\ k + 1 \in 0 .. m
    OBVIOUS
  <2>2. p[k] \in 1 .. n /\ p[k + 1] \in 1 .. n
    BY <1>8, <2>1
  <2> QED
    BY <1>7, <1>8, <2>2
<1>10. w[p[m]] = v[p[0]]
  <2>1. 0 \in 0 .. m /\ m \in 0 .. m
    OBVIOUS
  <2>2. p[0] \in 1 .. n /\ p[m] \in 1 .. n
    BY <1>8, <2>1
  <2> QED
    BY <1>7, <1>8, <2>2
<1>11. \A j \in 1 .. n : ~ OnWay(p, m, j) => w[j] = v[j]
  BY <1>7, <1>8
<1>12. Shifted(v, w, n, p, m)
  BY <1>9, <1>10, <1>11 DEF Shifted
<1> QED
  BY <1>1, <1>3, <1>4, <1>5, <1>6, <1>7, <1>12

\* BubbleUp restores the heap when the element at place i is too small.
LEMMA BubbleUpSifts ==
  ASSUME NEW S, NEW q \in Queues(S), NEW pri \in [S -> Int], NEW i \in 1 .. Len(q.d),
         Once(q.d), KnowsApart(q, i), HeapedAbove(Values(q, pri), Len(q.d), i)
  PROVE  Sifted(S, q, BubbleUp(q, pri, i), pri)
<1>1. PICK n : n = Len(q.d)
  OBVIOUS
<1>2. n \in Nat
  BY <1>1, LenProperties DEF Queues
<1>3. PICK p : p = PathUp(q, i)
  OBVIOUS
<1>4. PICK m : m = UpTurns(q, pri, p, i)
  OBVIOUS
<1>5. PICK r : r = Moved(q, p, m)
  OBVIOUS
<1>6. r = BubbleUp(q, pri, i)
  BY <1>3, <1>4, <1>5 DEF BubbleUp, UpTurns
<1>7. PICK v, w : v = Values(q, pri) /\ w = Values(r, pri)
  OBVIOUS
<1>8. v \in [1 .. n -> Int]
  <2>1. \A j \in 1 .. n : q.d[j] \in S
    BY <1>1, ElementOfSeq DEF Queues
  <2> QED
    BY <1>1, <1>7, <2>1 DEF Values
<1>9. GoesUp(p, n, i) /\ i \in 1 .. n /\ p[0] = i
  <2>1. GoesUp(p, n, i)
    BY <1>1, <1>2, <1>3, UpPath
  <2> QED
    BY <1>1, <2>1 DEF GoesUp
<1>10. m \in Nat /\ WayUp(v, n, p, m)
  BY <1>1, <1>2, <1>4, <1>7, <1>8, <1>9, UpWay
<1>11. Way(p, m, n)
  BY <1>10 DEF WayUp
<1>12. /\ r \in Queues(S) /\ SameElements(S, q, r) /\ Len(r.d) = n
       /\ w \in [1 .. n -> Int] /\ Shifted(v, w, n, p, m)
  BY <1>1, <1>2, <1>5, <1>7, <1>9, <1>10, <1>11, WaySifted
<1>13. Heaped(w, n)
  BY <1>1, <1>2, <1>7, <1>8, <1>9, <1>10, <1>12, UpHeaps
<1> QED
  BY <1>1, <1>6, <1>7, <1>12, <1>13 DEF Sifted

\* PercolateDown restores it when the children may be smaller than the element.
LEMMA PercolateDownSifts ==
  ASSUME NEW S, NEW q \in Queues(S), NEW pri \in [S -> Int], NEW i \in 1 .. Len(q.d),
         Once(q.d), KnowsApart(q, i), HeapedBelow(Values(q, pri), Len(q.d), i)
  PROVE  Sifted(S, q, PercolateDown(q, pri, i), pri)
<1>1. PICK n : n = Len(q.d)
  OBVIOUS
<1>2. n \in Nat
  BY <1>1, LenProperties DEF Queues
<1>3. PICK p : p = PathDown(q, pri, i)
  OBVIOUS
<1>4. PICK m : m = DownTurns(q, pri, p, i)
  OBVIOUS
<1>5. PICK r : r = Moved(q, p, m)
  OBVIOUS
<1>6. r = PercolateDown(q, pri, i)
  BY <1>3, <1>4, <1>5 DEF PercolateDown, DownTurns
<1>7. PICK v, w : v = Values(q, pri) /\ w = Values(r, pri)
  OBVIOUS
<1>8. v \in [1 .. n -> Int]
  <2>1. \A j \in 1 .. n : q.d[j] \in S
    BY <1>1, ElementOfSeq DEF Queues
  <2> QED
    BY <1>1, <1>7, <2>1 DEF Values
<1>9. GoesDown(p, q, pri, n, i) /\ i \in 1 .. n /\ p[0] = i
  <2>1. GoesDown(p, q, pri, n, i)
    BY <1>1, <1>2, <1>3, <1>7, <1>8, DownPath
  <2> QED
    BY <1>1, <2>1 DEF GoesDown
<1>10. m \in Nat /\ WayDown(v, n, p, m)
  BY <1>1, <1>2, <1>4, <1>7, <1>8, <1>9, DownWay
<1>11. Way(p, m, n)
  BY <1>10 DEF WayDown
<1>12. /\ r \in Queues(S) /\ SameElements(S, q, r) /\ Len(r.d) = n
       /\ w \in [1 .. n -> Int] /\ Shifted(v, w, n, p, m)
  BY <1>1, <1>2, <1>5, <1>7, <1>9, <1>10, <1>11, WaySifted
<1>13. Heaped(w, n)
  BY <1>1, <1>2, <1>7, <1>8, <1>9, <1>10, <1>12, DownHeaps
<1> QED
  BY <1>1, <1>6, <1>7, <1>12, <1>13 DEF Sifted

-----------------------------------------------------------------------------
(* The operations of the queue. *)

\* The priorities with one of them changed.
Differs(pri, pri2, x, new) == pri2 = [pri EXCEPT ![x] = new]

\* A heap of elements of S, each of them once, that know their places.
HeapOf(S, q, pri) ==
  /\ q \in Queues(S) /\ Once(q.d) /\ Knows(q)
  /\ Heaped(Values(q, pri), Len(q.d))

\* A list of a queue, by its parts.
LEMMA QueueParts ==
  ASSUME NEW S, NEW q \in Queues(S)
  PROVE  /\ q.d \in Seq(S) /\ Len(q.d) \in Nat /\ DOMAIN q.d = 1 .. Len(q.d)
         /\ \A j \in 1 .. Len(q.d) : q.d[j] \in S
         /\ q.pos \in [S -> Nat]
<1>1. q.d \in Seq(S) /\ q.pos \in [S -> Nat]
  BY DEF Queues
<1>2. Len(q.d) \in Nat /\ DOMAIN q.d = 1 .. Len(q.d) /\ \A j \in 1 .. Len(q.d) : q.d[j] \in S
  BY <1>1, LenProperties, ElementOfSeq
<1> QED
  BY <1>1, <1>2

\* The order of a heap is the order of the priorities of its elements alone.
LEMMA SamePriorities ==
  ASSUME NEW S, NEW q, NEW pri, NEW pri2, HeapOf(S, q, pri),
         \A x \in S : On(q.d, x) => pri2[x] = pri[x]
  PROVE  HeapOf(S, q, pri2)
<1>1. q \in Queues(S)
  BY DEF HeapOf
<1>2. ASSUME NEW j \in 1 .. Len(q.d) PROVE Values(q, pri2)[j] = Values(q, pri)[j]
  <2>1. q.d[j] \in S /\ On(q.d, q.d[j])
    BY <1>1, QueueParts DEF On
  <2> QED
    BY <2>1 DEF Values
<1>3. Heaped(Values(q, pri2), Len(q.d))
  <2>1. \A j \in 2 .. Len(q.d) : j \in 1 .. Len(q.d) /\ Parent(j) \in 1 .. Len(q.d)
    <3>1. Len(q.d) \in Nat
      BY <1>1, QueueParts
    <3> QED
      BY <3>1, Parents
  <2> QED
    BY <1>2, <2>1 DEF HeapOf, Heaped
<1> QED
  BY <1>3 DEF HeapOf

\* An element enters the heap.
LEMMA InsertHeaps ==
  ASSUME NEW S, NEW q, NEW pri \in [S -> Int], HeapOf(S, q, pri), NEW x \in S, ~ On(q.d, x)
  PROVE  /\ HeapOf(S, Insert(q, pri, x), pri)
         /\ \A y : On(Insert(q, pri, x).d, y) <=> On(q.d, y) \/ y = x
         /\ \A y \in S : ~ On(q.d, y) /\ y # x => Insert(q, pri, x).pos[y] = q.pos[y]
<1>1. PICK n : n = Len(q.d)
  OBVIOUS
<1>2. PICK a : a = [q EXCEPT !.d = Append(@, x)]
  OBVIOUS
<1>3. q \in Queues(S) /\ q = [d |-> q.d, pos |-> q.pos]
  BY DEF HeapOf, Queues
<1>4. /\ q.d \in Seq(S) /\ n \in Nat /\ DOMAIN q.d = 1 .. n /\ q.pos \in [S -> Nat]
      /\ \A j \in 1 .. n : q.d[j] \in S
  BY <1>1, <1>3, QueueParts
<1>5. a.d = Append(q.d, x) /\ a.pos = q.pos
  BY <1>2, <1>3
<1>6. a \in Queues(S)
  <2>1. Append(q.d, x) \in Seq(S)
    BY <1>4
  <2>2. a = [d |-> Append(q.d, x), pos |-> q.pos]
    BY <1>2, <1>3
  <2> QED
    BY <1>4, <2>1, <2>2 DEF Queues
<1>7. /\ Len(a.d) = n + 1 /\ DOMAIN a.d = 1 .. n + 1 /\ a.d[n + 1] = x
      /\ \A j \in 1 .. n : a.d[j] = q.d[j]
  BY <1>1, <1>4, <1>5
<1>8. n + 1 \in 1 .. n + 1 /\ \A j \in 1 .. n + 1 : j # n + 1 => j \in 1 .. n
  BY <1>4
<1>9. \A y : On(a.d, y) <=> On(q.d, y) \/ y = x
  <2>1. ASSUME NEW y, On(a.d, y) PROVE On(q.d, y) \/ y = x
    BY <1>4, <1>7, <1>8, <2>1 DEF On
  <2>2. ASSUME NEW y, On(q.d, y) PROVE On(a.d, y)
    <3>1. PICK j \in 1 .. n : q.d[j] = y
      BY <1>4, <2>2 DEF On
    <3>2. j \in 1 .. n + 1 /\ a.d[j] = y
      BY <1>4, <1>7, <3>1
    <3> QED
      BY <1>7, <3>2 DEF On
  <2>3. On(a.d, x)
    BY <1>7, <1>8 DEF On
  <2> QED
    BY <2>1, <2>2, <2>3
<1>10. Once(a.d)
  <2> SUFFICES ASSUME NEW i \in 1 .. n + 1, NEW j \in 1 .. n + 1, a.d[i] = a.d[j] PROVE i = j
    BY <1>7 DEF Once
  <2>1. CASE i = n + 1 /\ j = n + 1
    BY <2>1
  <2>2. CASE i # n + 1 /\ j # n + 1
    BY <1>4, <1>7, <1>8, <2>2 DEF HeapOf, Once
  <2>3. CASE i = n + 1 /\ j # n + 1
    BY <1>4, <1>7, <1>8, <2>3 DEF On
  <2>4. CASE i # n + 1 /\ j = n + 1
    BY <1>4, <1>7, <1>8, <2>4 DEF On
  <2> QED
    BY <2>1, <2>2, <2>3, <2>4
<1>11. KnowsApart(a, n + 1)
  BY <1>4, <1>5, <1>7, <1>8 DEF HeapOf, Knows, KnowsApart
<1>12. HeapedAbove(Values(a, pri), Len(a.d), n + 1)
  <2>1. \A j \in 1 .. n : Values(a, pri)[j] = Values(q, pri)[j]
    <3>1. \A j \in 1 .. n : j \in 1 .. n + 1
      BY <1>4
    <3> QED
      BY <1>1, <1>7, <3>1 DEF Values
  <2>2. /\ \A j \in 2 .. n + 1 : j # n + 1 => j \in 2 .. n /\ Parent(j) \in 1 .. n /\ j \in 1 .. n
        /\ \A j \in 2 .. n + 1 : Parent(j) # n + 1
    <3>1. n + 1 \in Nat /\ \A j \in 2 .. n + 1 : j # n + 1 => j \in 2 .. n /\ j \in 1 .. n
      BY <1>4
    <3>2. \A j \in 2 .. n + 1 : Parent(j) < j /\ Parent(j) \in 1 .. n + 1
      BY <3>1, Parents
    <3>3. \A j \in 2 .. n : Parent(j) \in 1 .. n
      BY <1>4, Parents
    <3>4. \A j \in 2 .. n + 1 : Parent(j) # n + 1
      BY <1>4, <3>2
    <3> QED
      BY <3>1, <3>3, <3>4
  <2> QED
    BY <1>1, <1>7, <2>1, <2>2 DEF HeapOf, Heaped, HeapedAbove
<1>13. PICK r : r = BubbleUp(a, pri, n + 1)
  OBVIOUS
<1>14. Sifted(S, a, r, pri)
  BY <1>6, <1>7, <1>8, <1>10, <1>11, <1>12, <1>13, BubbleUpSifts
<1>15. r = Insert(q, pri, x)
  BY <1>1, <1>2, <1>13 DEF Insert
<1>16. HeapOf(S, r, pri)
  BY <1>14 DEF Sifted, SameElements, HeapOf
<1>17. \A y : On(r.d, y) <=> On(q.d, y) \/ y = x
  BY <1>9, <1>14 DEF Sifted, SameElements
<1>18. ASSUME NEW y \in S, ~ On(q.d, y), y # x PROVE r.pos[y] = q.pos[y]
  BY <1>5, <1>9, <1>14, <1>18 DEF Sifted, SameElements
<1> QED
  BY <1>15, <1>16, <1>17, <1>18

\* The first element leaves the heap.
LEMMA PopHeaps ==
  ASSUME NEW S, NEW q, NEW pri \in [S -> Int], HeapOf(S, q, pri), q.d # <<>>
  PROVE  /\ Peek(q) \in S /\ On(q.d, Peek(q)) /\ HeapOf(S, Pop(q, pri), pri)
         /\ \A y : On(Pop(q, pri).d, y) <=> On(q.d, y) /\ y # Peek(q)
         /\ \A y \in S : ~ On(q.d, y) => Pop(q, pri).pos[y] = q.pos[y]
<1>1. PICK n : n = Len(q.d)
  OBVIOUS
<1>2. q \in Queues(S) /\ q = [d |-> q.d, pos |-> q.pos] /\ Once(q.d) /\ Knows(q)
  BY DEF HeapOf, Queues
<1>3. /\ q.d \in Seq(S) /\ n \in Nat /\ DOMAIN q.d = 1 .. n /\ q.pos \in [S -> Nat]
      /\ \A j \in 1 .. n : q.d[j] \in S
  BY <1>1, <1>2, QueueParts
<1>4. n # 0
  BY <1>1, <1>3, EmptySeq
<1>5. PICK x : x = Peek(q)
  OBVIOUS
<1>6. 1 \in 1 .. n /\ n \in 1 .. n /\ x = q.d[1] /\ x \in S /\ On(q.d, x)
  <2>1. 1 \in 1 .. n /\ n \in 1 .. n
    BY <1>3, <1>4
  <2> QED
    BY <1>3, <1>5, <2>1 DEF Peek, On
<1>7. CASE n = 1
  <2>1. PICK r : r = [q EXCEPT !.d = <<>>]
    OBVIOUS
  <2>2. r = Pop(q, pri)
    BY <1>1, <1>7, <2>1 DEF Pop
  <2>3. r = [d |-> <<>>, pos |-> q.pos] /\ r.d = <<>> /\ r.pos = q.pos
    BY <1>2, <2>1
  <2>4. <<>> \in Seq(S) /\ Len(<<>>) = 0 /\ DOMAIN <<>> = 1 .. 0 /\ 1 .. 0 = {} /\ 2 .. 0 = {}
    BY EmptySeq
  <2>5. HeapOf(S, r, pri)
    <3>1. r \in Queues(S)
      BY <1>3, <2>3, <2>4 DEF Queues
    <3>2. Once(r.d) /\ Knows(r) /\ Heaped(Values(r, pri), Len(r.d))
      BY <2>3, <2>4 DEF Once, Knows, Heaped
    <3> QED
      BY <3>1, <3>2 DEF HeapOf
  <2>6. \A y : ~ On(r.d, y)
    BY <2>3, <2>4 DEF On
  <2>7. \A y : On(q.d, y) => y = x
    BY <1>3, <1>6, <1>7 DEF On
  <2> QED
    BY <1>5, <1>6, <2>2, <2>3, <2>5, <2>6, <2>7
<1>8. CASE n # 1
  <2>1. PICK k : k = n - 1
    OBVIOUS
  <2>2. k \in Nat /\ k # 0 /\ n = k + 1 /\ 1 \in 1 .. k
    BY <1>3, <1>4, <1>8, <2>1
  <2>3. PICK b : b = [SubSeq(q.d, 1, n - 1) EXCEPT ![1] = q.d[n]]
    OBVIOUS
  <2>4. /\ b \in Seq(S) /\ Len(b) = k /\ DOMAIN b = 1 .. k /\ b[1] = q.d[n]
        /\ \A j \in 1 .. k : j # 1 => b[j] = q.d[j]
    <3>1. PICK c : c = SubSeq(q.d, 1, n - 1)
      OBVIOUS
    <3>2. /\ c \in Seq(S) /\ Len(c) = k /\ \A j \in 1 .. k : c[j] = q.d[j]
      BY <1>1, <1>3, <2>1, <2>2, <3>1, SubSeqProperties, SMTT(30)
    <3>3. c \in [1 .. k -> S] /\ q.d[n] \in S
      BY <1>3, <1>6, <3>2, LenProperties
    <3>4. b \in [1 .. k -> S] /\ b[1] = q.d[n] /\ \A j \in 1 .. k : j # 1 => b[j] = c[j]
      BY <2>2, <2>3, <3>1, <3>3
    <3>5. b \in Seq(S) /\ Len(b) = k /\ DOMAIN b = 1 .. k
      BY <2>2, <3>4
    <3> QED
      BY <3>2, <3>4, <3>5
  <2>5. PICK a : a = [q EXCEPT !.d = b]
    OBVIOUS
  <2>6. a = [d |-> b, pos |-> q.pos] /\ a.d = b /\ a.pos = q.pos
    BY <1>2, <2>5
  <2>7. a \in Queues(S)
    BY <1>3, <2>4, <2>6 DEF Queues
  <2>8. \A j \in 1 .. k : j \in 1 .. n /\ j # n
    BY <1>3, <2>2
  <2>9. Once(a.d)
    <3> SUFFICES ASSUME NEW i \in 1 .. k, NEW j \in 1 .. k, b[i] = b[j] PROVE i = j
      BY <2>4, <2>6 DEF Once
    <3>1. \A g, h \in 1 .. n : q.d[g] = q.d[h] => g = h
      BY <1>2, <1>3 DEF Once
    <3>2. i \in 1 .. n /\ j \in 1 .. n /\ i # n /\ j # n
      BY <2>8
    <3>3. CASE i = 1 /\ j = 1
      BY <3>3
    <3>4. CASE i # 1 /\ j # 1
      BY <2>4, <3>1, <3>2, <3>4
    <3>5. CASE i = 1 /\ j # 1
      BY <1>6, <2>4, <3>1, <3>2, <3>5
    <3>6. CASE i # 1 /\ j = 1
      BY <1>6, <2>4, <3>1, <3>2, <3>6
    <3> QED
      BY <3>3, <3>4, <3>5, <3>6
  <2>10. KnowsApart(a, 1)
    BY <1>2, <1>3, <2>4, <2>6, <2>8, ZenonT(60) DEF Knows, KnowsApart
  <2>11. \A y : On(a.d, y) <=> On(q.d, y) /\ y # x
    <3>1. \A g, h \in 1 .. n : q.d[g] = q.d[h] => g = h
      BY <1>2, <1>3 DEF Once
    <3>2. ASSUME NEW y, On(b, y) PROVE On(q.d, y) /\ y # x
      <4>1. PICK j \in 1 .. k : b[j] = y
        BY <2>4, <3>2 DEF On
      <4>2. CASE j = 1
        <5>1. y = q.d[n] /\ n # 1
          BY <1>8, <2>4, <4>1, <4>2
        <5> QED
          BY <1>3, <1>6, <3>1, <5>1 DEF On
      <4>3. CASE j # 1
        <5>1. y = q.d[j] /\ j \in 1 .. n
          BY <2>4, <2>8, <4>1, <4>3
        <5> QED
          BY <1>3, <1>6, <3>1, <4>3, <5>1 DEF On
      <4> QED
        BY <4>2, <4>3
    <3>3. ASSUME NEW y, On(q.d, y), y # x PROVE On(b, y)
      <4>1. PICK j \in 1 .. n : q.d[j] = y
        BY <1>3, <3>3 DEF On
      <4>2. CASE j = n
        BY <2>2, <2>4, <4>1, <4>2 DEF On
      <4>3. CASE j # n
        <5>1. j \in 1 .. k /\ j # 1
          BY <1>3, <1>6, <2>2, <3>3, <4>1, <4>3
        <5> QED
          BY <2>4, <4>1, <5>1 DEF On
      <4> QED
        BY <4>2, <4>3
    <3> QED
      BY <2>6, <3>2, <3>3
  <2>12. HeapedBelow(Values(a, pri), Len(a.d), 1)
    <3>1. \A j \in 1 .. k : j # 1 => Values(a, pri)[j] = Values(q, pri)[j]
      BY <1>1, <2>4, <2>6, <2>8 DEF Values
    <3>2. \A j \in 2 .. k : j \in 1 .. k /\ j \in 2 .. n /\ j # 1 /\ Parent(j) \in 1 .. k
      <4>1. \A j \in 2 .. k : j \in 1 .. k /\ j \in 2 .. n /\ j # 1
        BY <2>2
      <4> QED
        BY <2>2, <4>1, Parents
    <3>3. ASSUME NEW j \in 2 .. k, Parent(j) # 1
          PROVE  Values(a, pri)[Parent(j)] <= Values(a, pri)[j]
      <4>1. Values(q, pri)[Parent(j)] <= Values(q, pri)[j]
        BY <1>1, <3>2 DEF HeapOf, Heaped
      <4> QED
        BY <3>1, <3>2, <3>3, <4>1
    <3> QED
      BY <2>4, <2>6, <3>3 DEF HeapedBelow
  <2>13. PICK r : r = PercolateDown(a, pri, 1)
    OBVIOUS
  <2>14. Sifted(S, a, r, pri)
    BY <2>2, <2>4, <2>6, <2>7, <2>9, <2>10, <2>12, <2>13, PercolateDownSifts
  <2>15. r = Pop(q, pri)
    BY <1>1, <1>8, <2>3, <2>5, <2>13 DEF Pop
  <2>16. HeapOf(S, r, pri)
    BY <2>14 DEF Sifted, SameElements, HeapOf
  <2>17. \A y : On(r.d, y) <=> On(q.d, y) /\ y # x
    BY <2>11, <2>14 DEF Sifted, SameElements
  <2>18. ASSUME NEW y \in S, ~ On(q.d, y) PROVE r.pos[y] = q.pos[y]
    BY <2>6, <2>11, <2>14, <2>18 DEF Sifted, SameElements
  <2> QED
    BY <1>5, <1>6, <2>15, <2>16, <2>17, <2>18
<1> QED
  BY <1>7, <1>8

\* The priority of an element of the heap changes.
LEMMA ChangeHeaps ==
  ASSUME NEW S, NEW q, NEW pri \in [S -> Int], HeapOf(S, q, pri), NEW x \in S, On(q.d, x),
         NEW new \in Int, NEW pri2, Differs(pri, pri2, x, new)
  PROVE  /\ HeapOf(S, ChangePriority(q, pri, new, x), pri2)
         /\ \A y : On(ChangePriority(q, pri, new, x).d, y) <=> On(q.d, y)
         /\ \A y \in S : ~ On(q.d, y) => ChangePriority(q, pri, new, x).pos[y] = q.pos[y]
<1>1. PICK n, i : n = Len(q.d) /\ i = q.pos[x]
  OBVIOUS
<1>2. q \in Queues(S) /\ Once(q.d) /\ Knows(q)
  BY DEF HeapOf
<1>3. /\ n \in Nat /\ DOMAIN q.d = 1 .. n
      /\ \A j \in 1 .. n : q.d[j] \in S
  BY <1>1, <1>2, QueueParts
<1>4. i \in 1 .. n /\ q.d[i] = x /\ \A j \in 1 .. n : q.d[j] = x => j = i
  BY <1>1, <1>2, <1>3 DEF Knows, On, Once
<1>5. KnowsApart(q, i)
  BY <1>2 DEF Knows, KnowsApart
<1>6. /\ pri2 \in [S -> Int] /\ pri2[x] = new /\ \A y \in S : y # x => pri2[y] = pri[y]
  BY DEF Differs
<1>7. PICK v, w : v = Values(q, pri) /\ w = Values(q, pri2)
  OBVIOUS
<1>8. /\ \A j \in 1 .. n : v[j] \in Int /\ w[j] \in Int
      /\ \A j \in 1 .. n : j # i => w[j] = v[j]
      /\ v[i] = pri[x] /\ w[i] = new
  <2>1. \A j \in 1 .. n : v[j] = pri[q.d[j]] /\ w[j] = pri2[q.d[j]]
    BY <1>1, <1>7 DEF Values
  <2> QED
    BY <1>3, <1>4, <1>6, <2>1, SMTT(30)
<1>9. \A j \in 2 .. n : v[Parent(j)] <= v[j]
  BY <1>1, <1>7 DEF HeapOf, Heaped
<1>10. \A j \in 2 .. n : j \in 1 .. n /\ Parent(j) \in 1 .. n /\ Parent(j) # j
  <2> SUFFICES ASSUME NEW j \in 2 .. n
               PROVE  j \in 1 .. n /\ Parent(j) \in 1 .. n /\ Parent(j) # j
    OBVIOUS
  <2>1. n \in Nat
    BY <1>3
  <2>2. Parent(j) \in 1 .. n /\ Parent(j) < j
    BY <2>1, Parents
  <2> QED
    BY <2>1, <2>2
<1>11. i > 1 => i \in 2 .. n
  BY <1>4
<1>12. \A j \in 2 .. n : Parent(j) = i /\ i > 1 => w[Parent(i)] <= w[j]
  <2> SUFFICES ASSUME NEW j \in 2 .. n, Parent(j) = i, i > 1 PROVE w[Parent(i)] <= w[j]
    OBVIOUS
  <2>1. v[Parent(i)] <= v[i] /\ v[i] <= v[j] /\ Parent(i) \in 1 .. n /\ Parent(i) # i
        /\ j # i /\ j \in 1 .. n
    BY <1>9, <1>10, <1>11
  <2> QED
    BY <1>4, <1>8, <2>1
<1>13. PICK r : r = ChangePriority(q, pri, new, x)
  OBVIOUS
<1>14. CASE pri[x] > new
  <2>1. ASSUME NEW j \in 2 .. n, j # i PROVE w[Parent(j)] <= w[j]
    <3>1. w[j] = v[j] /\ v[Parent(j)] <= v[j] /\ Parent(j) \in 1 .. n /\ j \in 1 .. n
      BY <1>8, <1>9, <1>10, <2>1
    <3>2. CASE Parent(j) = i
      BY <1>8, <1>14, <3>1, <3>2
    <3>3. CASE Parent(j) # i
      BY <1>8, <3>1, <3>3
    <3> QED
      BY <3>2, <3>3
  <2>2. HeapedAbove(w, n, i)
    BY <1>12, <2>1 DEF HeapedAbove
  <2>3. r = BubbleUp(q, pri2, i)
    BY <1>1, <1>13, <1>14 DEF ChangePriority, Differs
  <2>4. Sifted(S, q, r, pri2)
    <3>1. i \in 1 .. Len(q.d) /\ HeapedAbove(Values(q, pri2), Len(q.d), i)
      BY <1>1, <1>4, <1>7, <2>2
    <3> QED
      BY <1>2, <1>5, <1>6, <2>3, <3>1, BubbleUpSifts
  <2> QED
    BY <1>13, <2>4 DEF Sifted, SameElements, HeapOf
<1>15. CASE ~ (pri[x] > new)
  <2>1. ASSUME NEW j \in 2 .. n, Parent(j) # i PROVE w[Parent(j)] <= w[j]
    <3>1. w[Parent(j)] = v[Parent(j)] /\ v[Parent(j)] <= v[j] /\ j \in 1 .. n
          /\ Parent(j) \in 1 .. n
      BY <1>8, <1>9, <1>10, <2>1
    <3>2. CASE j = i
      BY <1>8, <1>15, <3>1, <3>2
    <3>3. CASE j # i
      BY <1>8, <3>1, <3>3
    <3> QED
      BY <3>2, <3>3
  <2>2. HeapedBelow(w, n, i)
    BY <1>12, <2>1 DEF HeapedBelow
  <2>3. r = PercolateDown(q, pri2, i)
    BY <1>1, <1>13, <1>15 DEF ChangePriority, Differs
  <2>4. Sifted(S, q, r, pri2)
    <3>1. i \in 1 .. Len(q.d) /\ HeapedBelow(Values(q, pri2), Len(q.d), i)
      BY <1>1, <1>4, <1>7, <2>2
    <3> QED
      BY <1>2, <1>5, <1>6, <2>3, <3>1, PercolateDownSifts
  <2> QED
    BY <1>13, <2>4 DEF Sifted, SameElements, HeapOf
<1> QED
  BY <1>14, <1>15

-----------------------------------------------------------------------------
\* The sizes are positive, and so is the number of pages of a line.
LEMMA Sizes ==
  /\ NrLines \in Nat /\ NrLuns \in Nat \ {0} /\ PgsPerBlk \in Nat \ {0}
  /\ OneShotPgs \in Nat \ {0} /\ FlashPgs \in Nat \ {0}
  /\ PgsPerBlk % OneShotPgs = 0 /\ PgsPerBlk % FlashPgs = 0
  /\ PgsPerLine \in Nat \ {0}
  /\ Thres \in Nat /\ Thres >= 2 /\ NrLines >= Thres + 2
  /\ IsFiniteSet(Lpns) /\ Cardinality(Lpns) \in Nat
  /\ Cardinality(Lpns) <= (NrLines - Thres - 2) * PgsPerLine
<1>1. /\ NrLines \in Nat \ {0} /\ NrLuns \in Nat \ {0} /\ PgsPerBlk \in Nat \ {0}
      /\ OneShotPgs \in Nat \ {0} /\ FlashPgs \in Nat \ {0}
  BY SizesAssumption
<1>2. \A a, b \in Nat \ {0} : a * b \in Nat \ {0}
  OBVIOUS
<1>3. PgsPerLine \in Nat \ {0}
  BY <1>1, <1>2 DEF PgsPerLine
<1>4. Cardinality(Lpns) \in Nat
  BY SpareAssumption, FS_CardinalityType
<1>5. NrLines >= Thres + 2
  <2>1. \A x \in Int, y \in Nat \ {0} : x < 0 => x * y < 0
    OBVIOUS
  <2>2. PICK x : x = NrLines - Thres - 2
    OBVIOUS
  <2>3. x \in Int /\ 0 <= x * PgsPerLine
    <3>1. x \in Int
      BY <1>1, <2>2, ThresAssumption
    <3>2. x * PgsPerLine \in Int /\ Cardinality(Lpns) <= x * PgsPerLine
      BY <1>3, <2>2, <3>1, SpareAssumption
    <3> QED
      BY <1>4, <3>1, <3>2
  <2>4. ~ (x < 0)
    <3>1. x < 0 => x * PgsPerLine < 0
      BY <1>3, <2>1, <2>3
    <3>2. x * PgsPerLine \in Int
      BY <1>3, <2>3
    <3> QED
      BY <2>3, <3>1, <3>2
  <2> QED
    BY <1>1, <2>2, <2>4, ThresAssumption
<1> QED
  BY <1>1, <1>3, <1>4, <1>5, SizesAssumption, ThresAssumption, SpareAssumption

-----------------------------------------------------------------------------
(* The order in which the pages of a line are written, or read.            *)

\* The place of page j of the blocks of LUN l in the order that takes k pages of
\* a LUN at a time.
Order(k, l, j) == (k * NrLuns) * (j \div k) + (k * l + (j % k))
Luns == 0 .. NrLuns - 1
Offsets == 0 .. PgsPerBlk - 1

\* The quotients and the remainders that a place is made of.
LEMMA OrderParts ==
  ASSUME NEW k \in Nat \ {0}, NEW l \in Luns, NEW j \in Nat
  PROVE  /\ k * NrLuns \in Nat \ {0} /\ j \div k \in Nat /\ j % k \in 0 .. k - 1
         /\ k * l + (j % k) \in 0 .. (k * NrLuns) - 1
         /\ Order(k, l, j) \in Nat /\ j = k * (j \div k) + (j % k)
<1>1. PICK q, r : q = j \div k /\ r = j % k
  OBVIOUS
<1>2. q \in Nat /\ r \in 0 .. k - 1 /\ j = k * q + r
  BY <1>1, Quotient
<1>3. PICK kL : kL = k * NrLuns
  OBVIOUS
<1>4. kL \in Nat \ {0}
  <2>1. \A a, b \in Nat \ {0} : a * b \in Nat \ {0}
    OBVIOUS
  <2> QED
    BY <1>3, <2>1, Sizes
<1>5. l \in Nat /\ \E d \in Nat : NrLuns = l + 1 + d
  <2>1. l \in Nat /\ NrLuns \in Nat /\ l < NrLuns
    BY Sizes DEF Luns
  <2>2. NrLuns - l - 1 \in Nat /\ NrLuns = l + 1 + (NrLuns - l - 1)
    BY <2>1
  <2> QED
    BY <2>1, <2>2
<1>6. PICK d \in Nat : NrLuns = l + 1 + d
  BY <1>5
<1>7. PICK kl, kd : kl = k * l /\ kd = k * d
  OBVIOUS
<1>8. kl \in Nat /\ kd \in Nat /\ kL = kl + k + kd
  <2>1. \A a, x, y \in Nat : a * (x + 1 + y) = a * x + a + a * y /\ a * x \in Nat /\ a * y \in Nat
    OBVIOUS
  <2> QED
    BY <1>3, <1>5, <1>6, <1>7, <2>1
<1>9. kl + r \in 0 .. kL - 1
  BY <1>2, <1>8
<1>10. kL * q \in Nat
  BY <1>2, <1>4
<1>11. Order(k, l, j) = kL * q + (kl + r)
  BY <1>1, <1>3, <1>7 DEF Order
<1>12. kL * q + (kl + r) \in Nat
  BY <1>9, <1>10
<1> QED
  BY <1>1, <1>2, <1>3, <1>4, <1>7, <1>9, <1>11, <1>12

\* No two pages of a line have the same place.
LEMMA OrderOnce ==
  ASSUME NEW k \in Nat \ {0}, NEW l \in Luns, NEW j \in Nat, NEW l2 \in Luns, NEW j2 \in Nat,
         Order(k, l, j) = Order(k, l2, j2)
  PROVE  l = l2 /\ j = j2
<1>1. PICK q, r, q2, r2, kL, x, y, y2 :
        /\ q = j \div k /\ r = j % k /\ q2 = j2 \div k /\ r2 = j2 % k /\ kL = k * NrLuns
        /\ x = Order(k, l, j) /\ y = k * l + r /\ y2 = k * l2 + r2
  OBVIOUS
<1>2. /\ kL \in Nat \ {0} /\ q \in Nat /\ r \in 0 .. k - 1 /\ y \in 0 .. kL - 1
      /\ j = k * q + r /\ x \in Nat
  BY <1>1, OrderParts
<1>3. q2 \in Nat /\ r2 \in 0 .. k - 1 /\ y2 \in 0 .. kL - 1 /\ j2 = k * q2 + r2
  BY <1>1, OrderParts
<1>4. x = kL * q + y /\ x = kL * q2 + y2
  <2>1. x = kL * q + y
    BY <1>1, Zenon DEF Order
  <2>2. x = kL * q2 + y2
    BY <1>1, Zenon DEF Order
  <2> QED
    BY <2>1, <2>2
<1>5. q = q2 /\ y = y2
  <2>1. x % kL = y /\ x \div kL = q
    <3>1. x \in Nat /\ kL \in Nat \ {0} /\ q \in Nat /\ y \in 0 .. kL - 1 /\ x = kL * q + y
      BY <1>2, <1>4
    <3> QED
      BY <3>1, OneQuotient, Zenon
  <2>2. x % kL = y2 /\ x \div kL = q2
    <3>1. x \in Nat /\ kL \in Nat \ {0} /\ q2 \in Nat /\ y2 \in 0 .. kL - 1 /\ x = kL * q2 + y2
      BY <1>2, <1>3, <1>4
    <3> QED
      BY <3>1, OneQuotient, Zenon
  <2> QED
    BY <2>1, <2>2
<1>6. l = l2 /\ r = r2
  <2>1. l \in Nat /\ l2 \in Nat /\ y \in Nat
    BY <1>2 DEF Luns
  <2>2. y % k = r /\ y \div k = l
    <3>1. y \in Nat /\ l \in Nat /\ r \in 0 .. k - 1 /\ y = k * l + r
      <4>1. y = k * l + r
        BY <1>1
      <4> QED
        BY <1>2, <2>1, <4>1, Zenon
    <3> QED
      BY <3>1, OneQuotient, Zenon
  <2>3. y % k = r2 /\ y \div k = l2
    <3>1. y \in Nat /\ l2 \in Nat /\ r2 \in 0 .. k - 1 /\ y = k * l2 + r2
      <4>1. y = k * l2 + r2
        BY <1>1, <1>5
      <4> QED
        BY <1>3, <2>1, <4>1, Zenon
    <3> QED
      BY <3>1, OneQuotient, Zenon
  <2> QED
    BY <2>2, <2>3
<1> QED
  BY <1>2, <1>3, <1>5, <1>6

\* There are as many places as pages.
LEMMA OrderBound ==
  ASSUME NEW k \in Nat \ {0}, PgsPerBlk % k = 0
  PROVE  /\ \A l \in Luns, j \in Offsets : Order(k, l, j) \in 0 .. PgsPerLine - 1
         /\ Order(k, 0, PgsPerBlk) = PgsPerLine
         /\ Order(k, 0, 0) = 0
<1>1. PICK b, kL : b = PgsPerBlk \div k /\ kL = k * NrLuns
  OBVIOUS
<1>2. b \in Nat /\ PgsPerBlk = k * b + 0 /\ k * b = PgsPerBlk
  BY <1>1, Sizes, Quotient
<1>3. kL * b = PgsPerLine /\ kL \in Nat
  <2>1. \A x, y, z \in Nat : (x * y) * z = y * (x * z) /\ x * y \in Nat
    OBVIOUS
  <2>2. k \in Nat /\ NrLuns \in Nat
    BY Sizes
  <2>3. kL \in Nat /\ kL * b = NrLuns * (k * b)
    BY <1>1, <1>2, <2>1, <2>2
  <2> QED
    BY <1>2, <2>3 DEF PgsPerLine
<1>4. 0 \in Luns
  BY Sizes DEF Luns
<1>5. ASSUME NEW l \in Luns, NEW j \in Offsets PROVE Order(k, l, j) \in 0 .. PgsPerLine - 1
  <2>1. PICK q, r, y : q = j \div k /\ r = j % k /\ y = k * l + r
    OBVIOUS
  <2>2. j \in Nat /\ j < PgsPerBlk
    BY Sizes DEF Offsets
  <2>3. /\ q \in Nat /\ r \in 0 .. k - 1 /\ y \in 0 .. kL - 1 /\ j = k * q + r
        /\ Order(k, l, j) \in Nat /\ Order(k, l, j) = kL * q + y
    BY <1>1, <2>1, <2>2, OrderParts DEF Order
  <2>4. q < b
    <3> SUFFICES ASSUME ~ (q < b) PROVE FALSE
      OBVIOUS
    <3>1. q - b \in Nat /\ q = b + (q - b)
      BY <1>2, <2>3
    <3>2. PICK d \in Nat : q = b + d
      BY <3>1
    <3>3. k * q = k * b + k * d /\ k * d \in Nat
      BY <1>2, <3>2
    <3> QED
      BY <1>2, <2>2, <2>3, <3>3
  <2>5. PICK e \in Nat : b = q + 1 + e
    <3>1. b - q - 1 \in Nat /\ b = q + 1 + (b - q - 1)
      BY <1>2, <2>3, <2>4
    <3> QED
      BY <3>1
  <2>6. kL * b = kL * q + kL + kL * e /\ kL * e \in Nat /\ kL * q \in Nat
    BY <1>3, <2>3, <2>5
  <2> QED
    BY <1>3, <2>3, <2>6
<1>6. Order(k, 0, PgsPerBlk) = PgsPerLine
  <2>1. PgsPerBlk \div k = b /\ PgsPerBlk % k = 0 /\ k * 0 + 0 = 0
    BY <1>1
  <2> QED
    BY <1>1, <1>3, <2>1, Sizes DEF Order
<1>7. Order(k, 0, 0) = 0
  <2>1. 0 = k * 0 + 0
    OBVIOUS
  <2>2. 0 % k = 0 /\ 0 \div k = 0
    BY <2>1, OneQuotient
  <2>3. kL * 0 + (k * 0 + 0) = 0
    BY <1>3
  <2> QED
    BY <1>1, <2>2, <2>3 DEF Order
<1> QED
  BY <1>5, <1>6, <1>7

\* The next place: the next page of those taken together, or the first of
\* them in the next LUN, or the first LUN again.
LEMMA OrderNext ==
  ASSUME NEW k \in Nat \ {0}, PgsPerBlk % k = 0, NEW l \in Luns, NEW j \in Offsets
  PROVE  /\ (j + 1) % k # 0 => /\ j + 1 \in Offsets
                               /\ Order(k, l, j + 1) = Order(k, l, j) + 1
         /\ (j + 1) % k = 0 /\ l + 1 # NrLuns =>
              /\ l + 1 \in Luns /\ j + 1 - k \in Offsets
              /\ Order(k, l + 1, j + 1 - k) = Order(k, l, j) + 1
         /\ (j + 1) % k = 0 /\ l + 1 = NrLuns =>
              Order(k, 0, j + 1) = Order(k, l, j) + 1
<1>1. PICK q, r, kL : q = j \div k /\ r = j % k /\ kL = k * NrLuns
  OBVIOUS
<1>2. j \in Nat /\ j < PgsPerBlk /\ l \in Nat /\ l < NrLuns /\ NrLuns \in Nat /\ PgsPerBlk \in Nat
  BY Sizes DEF Offsets, Luns
<1>3. /\ kL \in Nat \ {0} /\ q \in Nat /\ r \in 0 .. k - 1 /\ j = k * q + r
      /\ Order(k, l, j) = kL * q + (k * l + r)
  BY <1>1, <1>2, OrderParts DEF Order
<1>4. PICK a, c : a = kL * q /\ c = k * l
  OBVIOUS
<1>5. a \in Nat /\ c \in Nat /\ Order(k, l, j) = a + (c + r)
  BY <1>2, <1>3, <1>4
<1>6. /\ r + 1 = k => (j + 1) % k = 0 /\ (j + 1) \div k = q + 1
      /\ r + 1 # k => (j + 1) % k = r + 1 /\ (j + 1) \div k = q
  BY <1>1, <1>2, NextQuotient
<1>7. CASE (j + 1) % k # 0
  <2>1. r + 1 # k /\ (j + 1) % k = r + 1 /\ (j + 1) \div k = q
    BY <1>6, <1>7
  <2>2. j + 1 # PgsPerBlk
    BY <1>7
  <2>3. j + 1 \in Offsets
    BY <1>2, <2>2 DEF Offsets
  <2>4. Order(k, l, j + 1) = a + (c + (r + 1))
    BY <1>1, <1>4, <2>1 DEF Order
  <2>5. a + (c + (r + 1)) = a + (c + r) + 1
    BY <1>3, <1>5
  <2> QED
    BY <1>5, <1>7, <2>3, <2>4, <2>5
<1>8. CASE (j + 1) % k = 0
  <2>1. r + 1 = k /\ (j + 1) \div k = q + 1
    BY <1>3, <1>6, <1>8
  <2>2. kL * (q + 1) = a + kL /\ k * (l + 1) = c + k
    BY <1>2, <1>3, <1>4
  <2>3. CASE l + 1 # NrLuns
    <3>1. l + 1 \in Luns
      BY <1>2, <2>3 DEF Luns
    <3>2. k * q \in Nat /\ j + 1 - k = k * q + 0 /\ 0 \in 0 .. k - 1
      BY <1>3, <2>1
    <3>3. PICK h : h = j + 1 - k
      OBVIOUS
    <3>4. h \in Nat /\ h = k * q + 0 /\ h <= j
      BY <1>2, <3>2, <3>3
    <3>5. h % k = 0 /\ h \div k = q
      BY <1>3, <3>2, <3>4, OneQuotient, ZenonT(60)
    <3>6. h \in Offsets
      BY <1>2, <3>4 DEF Offsets
    <3>7. Order(k, l + 1, h) = a + (c + k + 0)
      BY <1>1, <1>4, <2>2, <3>5 DEF Order
    <3>8. a + (c + k + 0) = a + (c + r) + 1
      BY <1>3, <1>5, <2>1
    <3> QED
      BY <1>5, <1>8, <2>3, <3>1, <3>3, <3>6, <3>7, <3>8
  <2>4. CASE l + 1 = NrLuns
    <3>1. kL = c + k
      BY <1>1, <2>2, <2>4
    <3>2. Order(k, 0, j + 1) = kL * (q + 1) + (k * 0 + 0)
      BY <1>1, <1>8, <2>1 DEF Order
    <3>3. Order(k, 0, j + 1) = a + kL
      BY <1>3, <1>5, <2>2, <3>2
    <3>4. a + kL = a + (c + r) + 1
      BY <1>3, <1>5, <2>1, <3>1
    <3> QED
      BY <1>5, <1>8, <2>4, <3>3, <3>4
  <2> QED
    BY <2>3, <2>4
<1> QED
  BY <1>7, <1>8

-----------------------------------------------------------------------------
(* The invariant.  Its parts have the state as parameters where a write    *)
(* disturbs them twice, once for the old page and once for the new one: m  *)
(* for lm, st for status, w for wp, and v for the line being cleaned.      *)

Statuses == [Pages -> {"free", "valid", "invalid"}]
LineMgmt == [free : Seq(Lines), full : SUBSET Lines, pq : Queues(Lines),
             vpc : [Lines -> Int], ipc : [Lines -> Int]]
Pointers == [{"user", "gc"} -> Pages]
PagesIn(st, n, s) == {p \in Pages : LineOf(p) = n /\ st[p] = s}
CountIn(st, n, s) == Cardinality(PagesIn(st, n, s))

\* The places of a page in the orders of writing and of cleaning.
WPlace(p) == Order(OneShotPgs, p[2], p[3])
RPlace(p) == Order(FlashPgs, p[2], p[3])

\* Every line is in one place, once.
Lists(m, w, v) ==
  /\ Once(m.free)
  /\ \A n \in Lines : One(On(m.free, n)) + One(On(m.pq.d, n)) + One(n \in m.full)
                        + One(n = LineOf(w["user"])) + One(n = LineOf(w["gc"])) + One(n = v) = 1

\* The heap is one, for the counts as they are, and pos tells who is on it.
Heap(m) ==
  /\ HeapOf(Lines, m.pq, m.vpc)
  /\ \A n \in Lines : InHeap(m, n) <=> On(m.pq.d, n)

\* Free lines are erased, closed ones are written, and an open one is written
\* up to its pointer.
Places(m, st, w) ==
  \A p \in Pages :
    /\ On(m.free, LineOf(p)) => st[p] = "free"
    /\ On(m.pq.d, LineOf(p)) \/ LineOf(p) \in m.full => st[p] # "free"
    /\ \A io \in {"user", "gc"} : LineOf(p) = LineOf(w[io]) =>
         (st[p] = "free" <=> WPlace(w[io]) <= WPlace(p))

\* The counts are those of the pages, and the lists those of the counts.
Counts(m, st, v) ==
  /\ \A n \in Lines \ {v} : /\ m.vpc[n] = CountIn(st, n, "valid")
                            /\ m.ipc[n] = CountIn(st, n, "invalid")
  /\ \A n \in m.full : m.vpc[n] = PgsPerLine
  /\ \A n \in Lines : On(m.pq.d, n) => m.ipc[n] > 0

Sound(m, st, w, v) == Lists(m, w, v) /\ Heap(m) /\ Places(m, st, w) /\ Counts(m, st, v)

\* Pages that can still be written before a free line is asked for that is
\* not there, but for those at the end of the two open lines.
LineRoom(p) == PgsPerLine - WPlace(p)
Room(m, w) == Len(m.free) * PgsPerLine + LineRoom(w["user"]) + LineRoom(w["gc"])

\* How far cleaning has come, the pages of the victim it has passed, and the
\* valid ones that it has still to copy.
ReadTo == Order(FlashPgs, gc.lun, gc.pg)
Passed(p) == LineOf(p) = gc.victim /\ RPlace(p) < ReadTo
ToCopy == {p \in Pages : LineOf(p) = gc.victim /\ status[p] = "valid" /\ ~ Passed(p)}

\* The tables agree, and no logical page is left in a page already passed.
Tables ==
  /\ \A l \in Lpns : \A p \in Pages : maptbl[l] = p =>
       status[p] = "valid" /\ rmap[p] = l /\ ~ Passed(p)
  /\ \A p \in Pages : status[p] = "valid" /\ ~ Passed(p) =>
       rmap[p] \in Lpns /\ maptbl[rmap[p]] = p

\* The blocks whose last page has been passed are erased.
Cleaned ==
  \A p \in Pages : LineOf(p) = gc.victim /\ Order(FlashPgs, p[2], PgsPerBlk - 1) < ReadTo =>
    status[p] = "free"

Typed ==
  /\ maptbl \in [Lpns -> Pages \cup {Unmapped}]
  /\ rmap \in [Pages -> Lpns \cup {NoLpn}]
  /\ status \in Statuses /\ lm \in LineMgmt /\ wp \in Pointers
  /\ gc \in [victim : Lines \cup {NoLine}, lun : Luns, pg : 0 .. PgsPerBlk, dead : BOOLEAN]
  /\ wfc \in [credits : Nat, refill : 1 .. PgsPerLine]

Control ==
  /\ ~ gc.dead
  /\ gc.victim = NoLine => gc = Idle
  /\ gc.pg = PgsPerBlk => gc.lun = 0

\* There is room for all that may be written before the credits are used up,
\* and then for a collection; and while one is under way, for the pages it has
\* still to copy and the host's pages that its victim will pay for.
EnoughRoom ==
  IF gc.victim = NoLine
  THEN wfc.credits > 0 /\ Room(lm, wp) > wfc.credits + PgsPerLine + PgsPerLine
  ELSE wfc.credits = 0 /\ Room(lm, wp) > PgsPerLine + wfc.refill + Cardinality(ToCopy)

IInv == /\ Typed /\ Control
        /\ Sound(lm, status, wp, gc.victim)
        /\ Tables /\ Cleaned /\ EnoughRoom
\* A page is its line, its LUN and its place in the block.
LEMMA PageFacts ==
  /\ \A p \in Pages : /\ LineOf(p) \in Lines /\ p[1] = LineOf(p)
                      /\ p[2] \in Luns /\ p[3] \in Offsets
                      /\ p = <<p[1], p[2], p[3]>>
  /\ \A n \in Lines, i \in Luns, j \in Offsets :
       <<n, i, j>> \in Pages /\ LineOf(<<n, i, j>>) = n
  /\ Unmapped \notin Pages
  BY DEF Pages, LineOf, Unmapped, Luns, Offsets

\* There are k numbers from 0 to k - 1.
LEMMA UpToSize ==
  ASSUME NEW k \in Nat
  PROVE  IsFiniteSet(0 .. k - 1) /\ Cardinality(0 .. k - 1) = k
<1>1. /\ IsFiniteSet(0 .. k - 1)
      /\ Cardinality(0 .. k - 1) = IF 0 > k - 1 THEN 0 ELSE k - 1 - 0 + 1
  BY FS_Interval
<1> QED
  BY <1>1

LinePages(n) == {p \in Pages : LineOf(p) = n}

\* A line has PgsPerLine pages.
LEMMA LinePagesCounted ==
  ASSUME NEW n \in Lines
  PROVE  IsFiniteSet(LinePages(n)) /\ Cardinality(LinePages(n)) = PgsPerLine
<1> DEFINE U == Luns
           B == Offsets
           f == [x \in U \X B |-> <<n, x[1], x[2]>>]
<1>1. /\ IsFiniteSet(U) /\ Cardinality(U) = NrLuns
      /\ IsFiniteSet(B) /\ Cardinality(B) = PgsPerBlk
  BY Sizes, UpToSize DEF Luns, Offsets
<1>2. f \in Bijection(U \X B, LinePages(n))
  <2>1. f \in [U \X B -> LinePages(n)]
    BY PageFacts DEF LinePages
  <2>2. \A x, y \in U \X B : f[x] = f[y] => x = y
    OBVIOUS
  <2>3. \A p \in LinePages(n) : \E x \in U \X B : f[x] = p
    <3> SUFFICES ASSUME NEW p \in LinePages(n) PROVE \E x \in U \X B : f[x] = p
      OBVIOUS
    <3>1. <<p[2], p[3]>> \in U \X B /\ f[<<p[2], p[3]>>] = p
      BY PageFacts DEF LinePages
    <3> QED
      BY <3>1
  <2> HIDE DEF f
  <2> QED
    BY <2>1, <2>2, <2>3 DEF Bijection, Injection, Surjection, IsInjective
<1> HIDE DEF U, B, f
<1>3. IsFiniteSet(U \X B) /\ Cardinality(U \X B) = NrLuns * PgsPerBlk
  BY <1>1, FS_Product
<1> QED
  BY <1>2, <1>3, FS_Bijection DEF PgsPerLine, ExistsBijection

\* The pages of a line that have a status are finitely many.
LEMMA PagesInFinite ==
  ASSUME NEW st, NEW n \in Lines, NEW s
  PROVE  IsFiniteSet(PagesIn(st, n, s))
<1>1. PagesIn(st, n, s) \in SUBSET LinePages(n)
  BY DEF PagesIn, LinePages
<1> QED
  BY <1>1, LinePagesCounted, FS_Subset

\* How many pages of a line have a status: between none of them and all.
LEMMA CountRange ==
  ASSUME NEW st, NEW n \in Lines, NEW s
  PROVE  CountIn(st, n, s) \in 0 .. PgsPerLine
<1>1. PagesIn(st, n, s) \in SUBSET LinePages(n)
  BY DEF PagesIn, LinePages
<1>2. /\ IsFiniteSet(PagesIn(st, n, s))
      /\ Cardinality(PagesIn(st, n, s)) <= PgsPerLine
  BY <1>1, LinePagesCounted, FS_Subset
<1>3. Cardinality(PagesIn(st, n, s)) \in Nat
  BY <1>2, FS_CardinalityType
<1> QED
  BY <1>2, <1>3, Sizes DEF CountIn

\* All of them.
LEMMA CountAll ==
  ASSUME NEW st, NEW n \in Lines, NEW s, CountIn(st, n, s) = PgsPerLine
  PROVE  \A p \in LinePages(n) : st[p] = s
<1>1. PagesIn(st, n, s) \in SUBSET LinePages(n)
  BY DEF PagesIn, LinePages
<1>2. LinePages(n) = PagesIn(st, n, s)
  <2>1. Cardinality(LinePages(n)) = Cardinality(PagesIn(st, n, s))
    BY LinePagesCounted DEF CountIn
  <2> QED
    BY <1>1, <2>1, LinePagesCounted, FS_Subset
<1> QED
  BY <1>2 DEF PagesIn

\* None of them.
LEMMA CountNone ==
  ASSUME NEW st, NEW n \in Lines, NEW s
  PROVE  CountIn(st, n, s) = 0 <=> \A p \in LinePages(n) : st[p] # s
<1>1. IsFiniteSet(PagesIn(st, n, s))
  BY PagesInFinite
<1>2. CountIn(st, n, s) = 0 <=> PagesIn(st, n, s) = {}
  BY <1>1, FS_EmptySet DEF CountIn
<1> QED
  BY <1>2 DEF PagesIn, LinePages

\* The valid and the invalid pages are all pages that are not free.
LEMMA CountSum ==
  ASSUME NEW st \in Statuses, NEW n \in Lines
  PROVE  /\ CountIn(st, n, "valid") + CountIn(st, n, "invalid") <= PgsPerLine
         /\ (\A p \in LinePages(n) : st[p] # "free") =>
              CountIn(st, n, "valid") + CountIn(st, n, "invalid") = PgsPerLine
<1> DEFINE V == PagesIn(st, n, "valid")
           I == PagesIn(st, n, "invalid")
<1>1. V \cup I \in SUBSET LinePages(n) /\ V \cap I = {}
  BY DEF PagesIn, LinePages
<1>2. (\A p \in LinePages(n) : st[p] # "free") => V \cup I = LinePages(n)
  BY DEF PagesIn, LinePages, Statuses
<1>3. IsFiniteSet(V) /\ IsFiniteSet(I)
  BY PagesInFinite
<1> HIDE DEF V, I
<1>4. Cardinality(V \cup I) = Cardinality(V) + Cardinality(I) - Cardinality(V \cap I)
  BY <1>3, FS_Union
<1>5. Cardinality(V \cap I) = 0
  BY <1>1, FS_EmptySet
<1>6. CountIn(st, n, "valid") = Cardinality(V) /\ CountIn(st, n, "invalid") = Cardinality(I)
  BY DEF CountIn, V, I
<1>7. CountIn(st, n, "valid") \in Nat /\ CountIn(st, n, "invalid") \in Nat
  BY CountRange
<1>8. Cardinality(V \cup I) = CountIn(st, n, "valid") + CountIn(st, n, "invalid")
  BY <1>4, <1>5, <1>6, <1>7
<1>9. CountIn(st, n, "valid") + CountIn(st, n, "invalid") <= PgsPerLine
  BY <1>1, <1>8, LinePagesCounted, FS_Subset
<1> QED
  BY <1>2, <1>8, <1>9, LinePagesCounted

\* The count of a status that no page of the line takes on or loses.
LEMMA CountSame ==
  ASSUME NEW st, NEW new, NEW n \in Lines, NEW s,
         \A q \in Pages : LineOf(q) = n => (new[q] = s <=> st[q] = s)
  PROVE  CountIn(new, n, s) = CountIn(st, n, s)
<1>1. PagesIn(new, n, s) = PagesIn(st, n, s)
  BY DEF PagesIn
<1> QED
  BY <1>1 DEF CountIn

\* Page p takes on status s.
Takes(st, new, p, s) == \A q \in Pages : new[q] = IF q = p THEN s ELSE st[q]

\* The counts of the new and of the old status of a page that changes it.
LEMMA CountChange ==
  ASSUME NEW st, NEW new, NEW p \in Pages, NEW s, NEW o, Takes(st, new, p, s),
         st[p] = o, o # s
  PROVE  /\ CountIn(new, LineOf(p), s) = CountIn(st, LineOf(p), s) + 1
         /\ CountIn(new, LineOf(p), o) = CountIn(st, LineOf(p), o) - 1
<1>1. LineOf(p) \in Lines
  BY PageFacts
<1>2. IsFiniteSet(PagesIn(st, LineOf(p), s)) /\ IsFiniteSet(PagesIn(st, LineOf(p), o))
  BY <1>1, PagesInFinite
<1>3. /\ PagesIn(new, LineOf(p), s) = PagesIn(st, LineOf(p), s) \cup {p}
      /\ p \notin PagesIn(st, LineOf(p), s)
  BY DEF PagesIn, Takes
<1>4. /\ PagesIn(new, LineOf(p), o) = PagesIn(st, LineOf(p), o) \ {p}
      /\ p \in PagesIn(st, LineOf(p), o)
  BY DEF PagesIn, Takes
<1>5. CountIn(new, LineOf(p), s) = CountIn(st, LineOf(p), s) + 1
  BY <1>2, <1>3, FS_AddElement DEF CountIn
<1>6. CountIn(new, LineOf(p), o) = CountIn(st, LineOf(p), o) - 1
  BY <1>2, <1>4, FS_RemoveElement DEF CountIn
<1> QED
  BY <1>5, <1>6

\* The counts of the other lines, and of the other statuses, do not change.
LEMMA CountKept ==
  ASSUME NEW st, NEW new, NEW p \in Pages, NEW s, Takes(st, new, p, s),
         NEW n \in Lines, NEW t, n # LineOf(p) \/ (t # s /\ t # st[p])
  PROVE  CountIn(new, n, t) = CountIn(st, n, t)
<1>1. \A q \in Pages : LineOf(q) = n => (new[q] = t <=> st[q] = t)
  BY DEF Takes
<1> QED
  BY <1>1, CountSame

-----------------------------------------------------------------------------
(* What the operations on lines do to the parts of the invariant. *)

\* What line_mgmt is made of.
LEMMA Fields ==
  ASSUME NEW m \in LineMgmt
  PROVE  /\ m = [free |-> m.free, full |-> m.full, pq |-> m.pq, vpc |-> m.vpc, ipc |-> m.ipc]
         /\ m.free \in Seq(Lines) /\ m.full \in SUBSET Lines /\ m.pq \in Queues(Lines)
         /\ m.vpc \in [Lines -> Int] /\ m.ipc \in [Lines -> Int]
BY DEF LineMgmt

\* A line is told that it is on the heap as soon as those that are not are
\* told that they are not.
LEMMA HeapTold ==
  ASSUME NEW m, HeapOf(Lines, m.pq, m.vpc),
         \A n \in Lines : ~ On(m.pq.d, n) => m.pq.pos[n] = 0
  PROVE  Heap(m)
<1>1. \A n \in Lines : On(m.pq.d, n) => m.pq.pos[n] # 0
  <2> SUFFICES ASSUME NEW n \in Lines, On(m.pq.d, n) PROVE m.pq.pos[n] # 0
    OBVIOUS
  <2>1. PICK j \in DOMAIN m.pq.d : m.pq.d[j] = n
    BY DEF On
  <2>2. m.pq.pos[n] = j
    BY <2>1 DEF HeapOf, Knows
  <2>3. j \in 1 .. Len(m.pq.d)
    BY <2>1, QueueParts DEF HeapOf
  <2> QED
    BY <2>2, <2>3
<1> QED
  BY <1>1 DEF Heap, InHeap

\* The counts of line n, the priority of which falls when one of its pages
\* becomes invalid.
CountedDown(m, n) == [m EXCEPT !.ipc[n] = @ + 1, !.vpc[n] = @ - 1,
                               !.pq = IF InHeap(m, n)
                                      THEN ChangePriority(@, m.vpc, m.vpc[n] - 1, n) ELSE @]

\* A valid page becomes invalid: the heap remains one, a full line that loses
\* the page enters it, and everything else keeps its place.
LEMMA Invalidated ==
  ASSUME NEW m \in LineMgmt, NEW st \in Statuses, NEW w \in Pointers, NEW v,
         Sound(m, st, w, v),
         NEW p \in Pages, st[p] = "valid", LineOf(p) # v
  PROVE  LET m2  == MarkInvalid(m, LineOf(p))
             st2 == [st EXCEPT ![p] = "invalid"]
         IN m2 \in LineMgmt /\ st2 \in Statuses /\ m2.free = m.free /\ Sound(m2, st2, w, v)
<1> DEFINE n == LineOf(p)
           m2 == MarkInvalid(m, n)
           st2 == [st EXCEPT ![p] = "invalid"]
<1>1. /\ n \in Lines /\ p \in LinePages(n)
      /\ \A io \in {"user", "gc"} : w[io] \in Pages /\ w[io] \in LinePages(LineOf(w[io]))
  BY PageFacts DEF LinePages, Pointers
<1>2. Lists(m, w, v) /\ Heap(m) /\ Places(m, st, w) /\ Counts(m, st, v)
  BY DEF Sound
<1>3. /\ m.free \in Seq(Lines) /\ m.full \in SUBSET Lines
      /\ m.vpc \in [Lines -> Int] /\ m.ipc \in [Lines -> Int]
      /\ m = [free |-> m.free, full |-> m.full, pq |-> m.pq, vpc |-> m.vpc, ipc |-> m.ipc]
      /\ HeapOf(Lines, m.pq, m.vpc)
  BY <1>2, Fields DEF Heap
<1>4. st2 \in Statuses /\ \A q \in Pages : st2[q] = IF q = p THEN "invalid" ELSE st[q]
  BY DEF Statuses
<1> HIDE DEF st2
<1>5. /\ CountIn(st2, n, "invalid") = CountIn(st, n, "invalid") + 1
      /\ CountIn(st2, n, "valid") = CountIn(st, n, "valid") - 1
      /\ \A k \in Lines : \A t : k # n => CountIn(st2, k, t) = CountIn(st, k, t)
  <2> HIDE DEF m2
  <2>1. Takes(st, st2, p, "invalid") /\ "valid" # "invalid"
    BY <1>4 DEF Takes
  <2>2. /\ CountIn(st2, n, "invalid") = CountIn(st, n, "invalid") + 1
        /\ CountIn(st2, n, "valid") = CountIn(st, n, "valid") - 1
    BY <2>1, CountChange
  <2>3. \A k \in Lines : \A t : k # n => CountIn(st2, k, t) = CountIn(st, k, t)
    BY <2>1, CountKept
  <2> QED
    BY <2>2, <2>3
<1> HIDE DEF n
<1>6. /\ m.vpc[n] = CountIn(st, n, "valid") /\ m.ipc[n] = CountIn(st, n, "invalid")
      /\ CountIn(st, n, "valid") + CountIn(st, n, "invalid") <= PgsPerLine
      /\ CountIn(st, n, "valid") \in 0 .. PgsPerLine
      /\ CountIn(st, n, "invalid") \in 0 .. PgsPerLine
      /\ m.vpc[n] \in 0 .. PgsPerLine /\ m.ipc[n] \in 0 .. PgsPerLine
  <2>1. m.vpc[n] = CountIn(st, n, "valid") /\ m.ipc[n] = CountIn(st, n, "invalid")
    BY <1>1, <1>2 DEF Counts, n
  <2>2. /\ CountIn(st, n, "valid") + CountIn(st, n, "invalid") <= PgsPerLine
        /\ CountIn(st, n, "valid") \in 0 .. PgsPerLine
        /\ CountIn(st, n, "invalid") \in 0 .. PgsPerLine
    BY <1>1, CountRange, CountSum
  <2> QED
    BY <2>1, <2>2
<1>7. m.vpc[n] = PgsPerLine <=> n \in m.full
  <2>1. ASSUME m.vpc[n] = PgsPerLine PROVE n \in m.full
    <3>1. \A q \in LinePages(n) : st[q] = "valid"
      BY <1>1, <1>6, <2>1, CountAll
    <3>2. ~ On(m.free, n)
      BY <1>1, <1>2, <3>1 DEF Places, n
    <3>3. ~ On(m.pq.d, n)
      BY <1>1, <1>2, <1>6, <2>1 DEF Counts
    <3>4. n # LineOf(w["user"]) /\ n # LineOf(w["gc"])
      <4> SUFFICES ASSUME NEW io \in {"user", "gc"}, n = LineOf(w[io]) PROVE FALSE
        OBVIOUS
      <4>1. WPlace(w[io]) \in Nat
        <5>1. w[io][2] \in Luns /\ w[io][3] \in Nat
          BY <1>1, PageFacts, Sizes DEF Offsets
        <5> QED
          BY <5>1, OrderParts, Sizes DEF WPlace
      <4>2. st[w[io]] = "valid"
        BY <1>1, <3>1
      <4>3. st[w[io]] = "free"
        BY <1>1, <1>2, <4>1 DEF Places
      <4> QED
        BY <4>2, <4>3
    <3> QED
      BY <1>1, <1>2, <3>2, <3>3, <3>4 DEF Lists, One, n
  <2> QED
    BY <1>1, <1>2, <2>1 DEF Counts
<1>8. PICK vpc2, pq1, c :
        /\ vpc2 = [m.vpc EXCEPT ![n] = m.vpc[n] - 1]
        /\ pq1 = IF InHeap(m, n) THEN ChangePriority(m.pq, m.vpc, m.vpc[n] - 1, n) ELSE m.pq
        /\ c = CountedDown(m, n)
  OBVIOUS
<1>9. /\ c = [free |-> m.free, full |-> m.full, pq |-> pq1, vpc |-> vpc2,
              ipc |-> [m.ipc EXCEPT ![n] = m.ipc[n] + 1]]
      /\ m2 = IF m.vpc[n] = PgsPerLine
              THEN [c EXCEPT !.full = @ \ {n}, !.pq = Insert(@, c.vpc, n)] ELSE c
  <2>1. c = [m EXCEPT !.ipc = [m.ipc EXCEPT ![n] = m.ipc[n] + 1], !.vpc = vpc2, !.pq = pq1]
    BY <1>8 DEF CountedDown
  <2>2. m2 = IF m.vpc[n] = PgsPerLine
             THEN [c EXCEPT !.full = @ \ {n}, !.pq = Insert(@, c.vpc, n)] ELSE c
    BY <1>8 DEF CountedDown, MarkInvalid
  <2> HIDE DEF m2
  <2>3. PICK ipc2 : ipc2 = [m.ipc EXCEPT ![n] = m.ipc[n] + 1]
    OBVIOUS
  <2>4. c = [free |-> m.free, full |-> m.full, pq |-> pq1, vpc |-> vpc2, ipc |-> ipc2]
    BY <1>3, <2>1, <2>3
  <2> QED
    BY <2>2, <2>3, <2>4
<1>10. /\ m2.free = m.free /\ m2.vpc = vpc2 /\ m2.ipc = [m.ipc EXCEPT ![n] = m.ipc[n] + 1]
       /\ m2.full = m.full \ {n}
       /\ m2.pq = IF n \in m.full THEN Insert(pq1, vpc2, n) ELSE pq1
       /\ m2 = [free |-> m2.free, full |-> m2.full, pq |-> m2.pq, vpc |-> m2.vpc, ipc |-> m2.ipc]
  <2>1. CASE n \in m.full
    BY <1>7, <1>9, <2>1
  <2>2. CASE n \notin m.full
    BY <1>7, <1>9, <2>2
  <2> QED
    BY <2>1, <2>2
<1> HIDE DEF m2
<1>11. /\ vpc2 \in [Lines -> Int] /\ m2.ipc \in [Lines -> Int]
       /\ vpc2[n] = m.vpc[n] - 1 /\ m2.ipc[n] = m.ipc[n] + 1
       /\ \A k \in Lines : k # n => vpc2[k] = m.vpc[k] /\ m2.ipc[k] = m.ipc[k]
  BY <1>1, <1>3, <1>6, <1>8, <1>10
<1>12. /\ HeapOf(Lines, m2.pq, m2.vpc)
       /\ \A k : On(m2.pq.d, k) <=> On(m.pq.d, k) \/ (k = n /\ n \in m.full)
       /\ \A k \in Lines : ~ On(m2.pq.d, k) => m2.pq.pos[k] = 0
  <2>1. \A k \in Lines : ~ On(m.pq.d, k) => m.pq.pos[k] = 0
    BY <1>2 DEF Heap, InHeap
  <2>2. CASE On(m.pq.d, n)
    <3>1. n \notin m.full
      BY <1>1, <1>2, <2>2 DEF Lists, One
    <3>2. m2.pq = ChangePriority(m.pq, m.vpc, m.vpc[n] - 1, n)
      BY <1>1, <1>2, <1>8, <1>10, <2>2, <3>1 DEF Heap
    <3>3. m.vpc[n] - 1 \in Int
      BY <1>6
    <3>4. Differs(m.vpc, vpc2, n, m.vpc[n] - 1)
      BY <1>8 DEF Differs
    <3>5. /\ HeapOf(Lines, m2.pq, vpc2)
          /\ \A k : On(m2.pq.d, k) <=> On(m.pq.d, k)
          /\ \A k \in Lines : ~ On(m.pq.d, k) => m2.pq.pos[k] = m.pq.pos[k]
      <4> DEFINE q == m.pq
                 u == m.vpc
                 z == m.vpc[n] - 1
      <4>1. u \in [Lines -> Int] /\ HeapOf(Lines, q, u) /\ n \in Lines /\ On(q.d, n)
            /\ z \in Int /\ Differs(u, vpc2, n, z) /\ m2.pq = ChangePriority(q, u, z, n)
        BY <1>1, <1>3, <2>2, <3>2, <3>3, <3>4
      <4> HIDE DEF q, u, z
      <4>2. /\ HeapOf(Lines, m2.pq, vpc2)
            /\ \A k : On(m2.pq.d, k) <=> On(q.d, k)
            /\ \A k \in Lines : ~ On(q.d, k) => m2.pq.pos[k] = q.pos[k]
        BY <4>1, ChangeHeaps
      <4> QED
        BY <4>2 DEF q
    <3> QED
      BY <1>10, <2>1, <3>1, <3>5
  <2>3. CASE ~ On(m.pq.d, n)
    <3>1. pq1 = m.pq
      BY <1>1, <1>2, <1>8, <2>3 DEF Heap
    <3>2. HeapOf(Lines, m.pq, vpc2)
      <4>1. \A x \in Lines : On(m.pq.d, x) => vpc2[x] = m.vpc[x]
        BY <1>11, <2>3
      <4> QED
        BY <1>3, <4>1, SamePriorities
    <3>3. CASE n \in m.full
      <4>1. m2.pq = Insert(m.pq, vpc2, n)
        BY <1>10, <3>1, <3>3
      <4>2. /\ HeapOf(Lines, m2.pq, vpc2)
            /\ \A k : On(m2.pq.d, k) <=> On(m.pq.d, k) \/ k = n
            /\ \A k \in Lines : ~ On(m.pq.d, k) /\ k # n => m2.pq.pos[k] = m.pq.pos[k]
        <5> DEFINE q == m.pq
        <5>1. /\ vpc2 \in [Lines -> Int] /\ HeapOf(Lines, q, vpc2) /\ n \in Lines /\ ~ On(q.d, n)
              /\ m2.pq = Insert(q, vpc2, n)
          BY <1>1, <1>11, <2>3, <3>2, <4>1
        <5> HIDE DEF q
        <5>2. /\ HeapOf(Lines, m2.pq, vpc2)
              /\ \A k : On(m2.pq.d, k) <=> On(q.d, k) \/ k = n
              /\ \A k \in Lines : ~ On(q.d, k) /\ k # n => m2.pq.pos[k] = q.pos[k]
          BY <5>1, InsertHeaps
        <5> QED
          BY <5>2 DEF q
      <4> QED
        BY <1>10, <2>1, <3>3, <4>2
    <3>4. CASE n \notin m.full
      BY <1>10, <2>1, <3>1, <3>2, <3>4
    <3> QED
      BY <3>3, <3>4
  <2> QED
    BY <2>2, <2>3
<1>13. m2 \in LineMgmt
  <2>1. m2.pq \in Queues(Lines)
    BY <1>12 DEF HeapOf
  <2> QED
    BY <1>3, <1>10, <1>11, <2>1 DEF LineMgmt
<1>14. Lists(m2, w, v)
  <2>1. n \in m.full => ~ On(m.pq.d, n)
    BY <1>1, <1>2 DEF Lists, One
  <2>2. m2.free = m.free /\ \A k : k \in m2.full <=> k \in m.full /\ k # n
    BY <1>10
  <2>3. Once(m.free)
    BY <1>2 DEF Lists
  <2>4. \A k \in Lines : One(On(m2.pq.d, k)) + One(k \in m2.full)
                          = One(On(m.pq.d, k)) + One(k \in m.full)
    BY <1>12, <2>1, <2>2 DEF One
  <2>5. ASSUME NEW k \in Lines
        PROVE  One(On(m2.free, k)) + One(On(m2.pq.d, k)) + One(k \in m2.full)
                 + One(k = LineOf(w["user"])) + One(k = LineOf(w["gc"])) + One(k = v) = 1
    <3>1. \A b : One(b) \in Nat
      BY DEF One
    <3>2. One(On(m.free, k)) + One(On(m.pq.d, k)) + One(k \in m.full)
            + One(k = LineOf(w["user"])) + One(k = LineOf(w["gc"])) + One(k = v) = 1
      BY <1>2 DEF Lists
    <3>3. \A a, b, c2, b2, c3, d, e, f \in Nat :
            a + b + c2 + d + e + f = 1 /\ b2 + c3 = b + c2 => a + b2 + c3 + d + e + f = 1
      OBVIOUS
    <3> QED
      BY <2>2, <2>4, <3>1, <3>2, <3>3
  <2> QED
    BY <2>2, <2>3, <2>5 DEF Lists
<1>15. Heap(m2)
  BY <1>12, HeapTold
<1>16. Places(m2, st2, w)
  <2> SUFFICES ASSUME NEW q \in Pages
               PROVE  /\ On(m2.free, LineOf(q)) => st2[q] = "free"
                      /\ On(m2.pq.d, LineOf(q)) \/ LineOf(q) \in m2.full => st2[q] # "free"
                      /\ \A io \in {"user", "gc"} : LineOf(q) = LineOf(w[io]) =>
                           (st2[q] = "free" <=> WPlace(w[io]) <= WPlace(q))
    BY DEF Places
  <2>1. st2[q] = "free" <=> st[q] = "free"
    BY <1>4
  <2>2. On(m2.free, LineOf(q)) => st2[q] = "free"
    BY <1>2, <1>10, <2>1 DEF Places
  <2>3. On(m2.pq.d, LineOf(q)) \/ LineOf(q) \in m2.full => st2[q] # "free"
    BY <1>2, <1>10, <1>12, <2>1 DEF Places
  <2>4. \A io \in {"user", "gc"} : LineOf(q) = LineOf(w[io]) =>
          (st2[q] = "free" <=> WPlace(w[io]) <= WPlace(q))
    BY <1>2, <2>1 DEF Places
  <2> QED
    BY <2>2, <2>3, <2>4
<1>17. Counts(m2, st2, v)
  <2>1. \A k \in Lines \ {v} : m2.vpc[k] = CountIn(st2, k, "valid")
                               /\ m2.ipc[k] = CountIn(st2, k, "invalid")
    BY <1>1, <1>2, <1>5, <1>6, <1>10, <1>11 DEF Counts
  <2>2. \A k \in m2.full : m2.vpc[k] = PgsPerLine
    <3>1. \A k \in m2.full : k \in m.full /\ k # n /\ k \in Lines
      BY <1>3, <1>10
    <3> QED
      BY <1>2, <1>10, <1>11, <3>1 DEF Counts
  <2>3. \A k \in Lines : On(m2.pq.d, k) => m2.ipc[k] > 0
    <3>1. m2.ipc[n] > 0
      BY <1>6, <1>11
    <3>2. ASSUME NEW k \in Lines, On(m2.pq.d, k), k # n PROVE m2.ipc[k] > 0
      <4>1. On(m.pq.d, k)
        BY <1>12, <3>2
      <4>2. m.ipc[k] > 0 /\ m2.ipc[k] = m.ipc[k]
        BY <1>2, <1>11, <3>2, <4>1 DEF Counts
      <4> QED
        BY <4>2
    <3> QED
      BY <3>1, <3>2
  <2> QED
    BY <2>1, <2>2, <2>3 DEF Counts
<1> QED
  BY <1>4, <1>10, <1>13, <1>14, <1>15, <1>16, <1>17 DEF Sound, m2, st2, n

\* The places of the pages of a line in the order of writing: as many as
\* pages, no two the same; the last one is that of the page at the end.
LEMMA WPlaces ==
  /\ \A p \in Pages : WPlace(p) \in 0 .. PgsPerLine - 1
  /\ \A p \in Pages : AtEnd(p) => WPlace(p) = PgsPerLine - 1
  /\ \A p, q \in Pages : LineOf(p) = LineOf(q) /\ WPlace(p) = WPlace(q) => p = q
  /\ \A n : WPlace(<<n, 0, 0>>) = 0
<1>1. /\ OneShotPgs \in Nat \ {0} /\ PgsPerBlk % OneShotPgs = 0
      /\ PgsPerBlk \in Nat \ {0} /\ NrLuns \in Nat \ {0}
  BY Sizes
<1>2. \A p \in Pages : WPlace(p) \in 0 .. PgsPerLine - 1
  BY <1>1, PageFacts, OrderBound DEF WPlace
<1>3. ASSUME NEW p \in Pages, AtEnd(p) PROVE WPlace(p) = PgsPerLine - 1
  <2>1. PICK l, j : l = p[2] /\ j = p[3]
    OBVIOUS
  <2>2. l \in Luns /\ j \in Offsets /\ l + 1 = NrLuns /\ j + 1 = PgsPerBlk
    BY <1>1, <1>3, <2>1, PageFacts DEF AtEnd
  <2>3. Order(OneShotPgs, 0, j + 1) = Order(OneShotPgs, l, j) + 1
    BY <1>1, <2>2, OrderNext
  <2>4. Order(OneShotPgs, 0, PgsPerBlk) = PgsPerLine
    BY <1>1, OrderBound
  <2>5. WPlace(p) \in 0 .. PgsPerLine - 1 /\ WPlace(p) = Order(OneShotPgs, l, j)
    BY <1>2, <2>1 DEF WPlace
  <2> QED
    BY <2>2, <2>3, <2>4, <2>5, Sizes
<1>4. ASSUME NEW p \in Pages, NEW q \in Pages, LineOf(p) = LineOf(q), WPlace(p) = WPlace(q)
      PROVE  p = q
  <2>1. /\ p[2] \in Luns /\ p[3] \in Nat /\ q[2] \in Luns /\ q[3] \in Nat
        /\ p = <<LineOf(p), p[2], p[3]>> /\ q = <<LineOf(q), q[2], q[3]>>
    BY PageFacts DEF Offsets
  <2>2. p[2] = q[2] /\ p[3] = q[3]
    BY <1>1, <1>4, <2>1, OrderOnce DEF WPlace
  <2> QED
    BY <1>4, <2>1, <2>2
<1>5. \A n : WPlace(<<n, 0, 0>>) = 0
  BY <1>1, OrderBound DEF WPlace
<1> QED
  BY <1>2, <1>3, <1>4, <1>5

\* The next page is the one at the next place.
LEMMA NextPlace ==
  ASSUME NEW p \in Pages, ~ AtEnd(p)
  PROVE  /\ NextPage(p) \in Pages /\ LineOf(NextPage(p)) = LineOf(p)
         /\ WPlace(NextPage(p)) = WPlace(p) + 1
<1>1. PICK n, l, j, k : n = p[1] /\ l = p[2] /\ j = p[3] /\ k = OneShotPgs
  OBVIOUS
<1>2. n \in Lines /\ n = LineOf(p) /\ l \in Luns /\ j \in Offsets
  BY <1>1, PageFacts
<1>3. k \in Nat \ {0} /\ PgsPerBlk % k = 0 /\ NrLuns \in Nat \ {0} /\ PgsPerBlk \in Nat \ {0}
  BY <1>1, Sizes
<1>4. WPlace(p) = Order(k, l, j)
  BY <1>1 DEF WPlace
<1>5. NextPage(p) = IF (j + 1) % k # 0 THEN <<n, l, j + 1>>
                    ELSE IF l + 1 # NrLuns THEN <<n, l + 1, j + 1 - k>> ELSE <<n, 0, j + 1>>
  BY <1>1 DEF NextPage
<1>6. CASE (j + 1) % k # 0
  <2>1. j + 1 \in Offsets /\ Order(k, l, j + 1) = Order(k, l, j) + 1
    BY <1>2, <1>3, <1>6, OrderNext
  <2>2. NextPage(p) = <<n, l, j + 1>>
    BY <1>5, <1>6
  <2> QED
    BY <1>1, <1>2, <1>4, <2>1, <2>2, PageFacts DEF WPlace
<1>7. CASE (j + 1) % k = 0 /\ l + 1 # NrLuns
  <2>1. l + 1 \in Luns /\ j + 1 - k \in Offsets
        /\ Order(k, l + 1, j + 1 - k) = Order(k, l, j) + 1
    BY <1>2, <1>3, <1>7, OrderNext
  <2>2. NextPage(p) = <<n, l + 1, j + 1 - k>>
    BY <1>5, <1>7
  <2> QED
    BY <1>1, <1>2, <1>4, <2>1, <2>2, PageFacts DEF WPlace
<1>8. CASE (j + 1) % k = 0 /\ l + 1 = NrLuns
  <2>1. Order(k, 0, j + 1) = Order(k, l, j) + 1
    BY <1>2, <1>3, <1>8, OrderNext
  <2>2. NextPage(p) = <<n, 0, j + 1>>
    BY <1>5, <1>8
  <2>3. 0 \in Luns /\ l = NrLuns - 1
    BY <1>2, <1>3, <1>8 DEF Luns
  <2>4. j # PgsPerBlk - 1
    BY <1>1, <2>3 DEF AtEnd
  <2>5. j + 1 \in Offsets
    BY <1>2, <1>3, <2>4 DEF Offsets
  <2> QED
    BY <1>1, <1>2, <1>4, <2>1, <2>2, <2>3, <2>5, PageFacts DEF WPlace
<1> QED
  BY <1>6, <1>7, <1>8

\* The two write pointers, whichever of them is named first.
Pair(io, oth) == {io, oth} = {"user", "gc"} /\ io # oth
InOne(m, n, x, y, v) ==
  One(On(m.free, n)) + One(On(m.pq.d, n)) + One(n \in m.full)
    + One(n = x) + One(n = y) + One(n = v) = 1

\* Every line is in one place, once, in whatever order the write pointers are
\* named.
LEMMA EitherOrder ==
  ASSUME NEW m, NEW w, NEW v, NEW io, NEW oth, Pair(io, oth)
  PROVE  Lists(m, w, v) <=>
           Once(m.free) /\ \A n \in Lines : InOne(m, n, LineOf(w[io]), LineOf(w[oth]), v)
<1>1. (io = "user" /\ oth = "gc") \/ (io = "gc" /\ oth = "user")
  BY DEF Pair
<1>2. \A n, x, y : InOne(m, n, x, y, v) <=> InOne(m, n, y, x, v)
  <2>1. \A b : One(b) \in Nat
    BY DEF One
  <2>2. \A a, b, c, d, e, f \in Nat : a + b + c + d + e + f = 1 <=> a + b + c + e + d + f = 1
    OBVIOUS
  <2> QED
    BY <2>1, <2>2 DEF InOne
<1>3. Lists(m, w, v) <=>
        Once(m.free) /\ \A n \in Lines : InOne(m, n, LineOf(w["user"]), LineOf(w["gc"]), v)
  BY DEF Lists, InOne
<1>4. CASE io = "user" /\ oth = "gc"
  BY <1>3, <1>4
<1>5. CASE io = "gc" /\ oth = "user"
  BY <1>2, <1>3, <1>5
<1> QED
  BY <1>1, <1>4, <1>5

\* A line is in one place only.
LEMMA OnePlace ==
  ASSUME NEW m, NEW n, NEW x, NEW y, NEW v
  PROVE  InOne(m, n, x, y, v) <=>
           \/ On(m.free, n) /\ ~ On(m.pq.d, n) /\ n \notin m.full /\ n # x /\ n # y /\ n # v
           \/ ~ On(m.free, n) /\ On(m.pq.d, n) /\ n \notin m.full /\ n # x /\ n # y /\ n # v
           \/ ~ On(m.free, n) /\ ~ On(m.pq.d, n) /\ n \in m.full /\ n # x /\ n # y /\ n # v
           \/ ~ On(m.free, n) /\ ~ On(m.pq.d, n) /\ n \notin m.full /\ n = x /\ n # y /\ n # v
           \/ ~ On(m.free, n) /\ ~ On(m.pq.d, n) /\ n \notin m.full /\ n # x /\ n = y /\ n # v
           \/ ~ On(m.free, n) /\ ~ On(m.pq.d, n) /\ n \notin m.full /\ n # x /\ n # y /\ n = v
  BY DEF InOne, One

\* The pages of the free lines.
LEMMA FreeRoom ==
  ASSUME NEW s \in Seq(Lines)
  PROVE  /\ Len(s) \in Nat /\ Len(s) * PgsPerLine \in Nat
         /\ \A k : Len(k) = Len(s) - 1 => Len(k) * PgsPerLine = Len(s) * PgsPerLine - PgsPerLine
         /\ \A k : Len(k) = Len(s) + 1 => Len(k) * PgsPerLine = Len(s) * PgsPerLine + PgsPerLine
<1>1. \A a, b \in Nat : a * b \in Nat /\ (a - 1) * b = a * b - b /\ (a + 1) * b = a * b + b
  OBVIOUS
<1>2. Len(s) \in Nat /\ PgsPerLine \in Nat
  BY LenProperties, Sizes
<1> QED
  BY <1>1, <1>2

\* The room left, in whatever order the write pointers are named.
LEMMA RoomParts ==
  ASSUME NEW m \in LineMgmt, NEW w \in Pointers, NEW io, NEW oth, Pair(io, oth)
  PROVE  /\ Len(m.free) * PgsPerLine \in Nat /\ Len(m.free) \in Nat
         /\ LineRoom(w[io]) \in 1 .. PgsPerLine /\ LineRoom(w[oth]) \in 1 .. PgsPerLine
         /\ Room(m, w) = Len(m.free) * PgsPerLine + LineRoom(w[io]) + LineRoom(w[oth])
         /\ Room(m, w) \in Nat
<1>1. (io = "user" /\ oth = "gc") \/ (io = "gc" /\ oth = "user")
  BY DEF Pair
<1>2. w[io] \in Pages /\ w[oth] \in Pages
  BY <1>1 DEF Pointers
<1>3. PICK f, a, b : f = Len(m.free) * PgsPerLine /\ a = LineRoom(w[io]) /\ b = LineRoom(w[oth])
  OBVIOUS
<1>4. f \in Nat /\ Len(m.free) \in Nat
  BY <1>3, Fields, FreeRoom
<1>5. a \in 1 .. PgsPerLine /\ b \in 1 .. PgsPerLine
  <2>1. WPlace(w[io]) \in 0 .. PgsPerLine - 1 /\ WPlace(w[oth]) \in 0 .. PgsPerLine - 1
    BY <1>2, WPlaces
  <2>2. a = PgsPerLine - WPlace(w[io]) /\ b = PgsPerLine - WPlace(w[oth])
    BY <1>3 DEF LineRoom
  <2>3. PgsPerLine \in Nat
    BY Sizes
  <2> QED
    BY <2>1, <2>2, <2>3
<1>6. f + a + b = f + b + a /\ f + a + b \in Nat
  <2>1. a \in Nat /\ b \in Nat
    BY <1>5
  <2> QED
    BY <1>4, <2>1
<1>7. Room(m, w) = f + a + b
  BY <1>1, <1>3, <1>6 DEF Room
<1> QED
  BY <1>3, <1>4, <1>5, <1>6, <1>7

\* Where the write pointer of io is after a page, m being the lines by then.
Onward(m, io) ==
  [wp EXCEPT ![io] = IF ~ AtEnd(wp[io]) THEN NextPage(wp[io])
                     ELSE IF m.free = <<>> THEN wp[io] ELSE <<Head(m.free), 0, 0>>]

\* A page more of line n is valid.
LEMMA MarkedValid ==
  ASSUME NEW m \in LineMgmt, NEW n \in Lines, NEW k, k = m.vpc[n]
  PROVE  LET c == MarkValid(m, n)
         IN /\ c.free = m.free /\ c.full = m.full /\ c.pq = m.pq /\ c.ipc = m.ipc
            /\ c.vpc \in [Lines -> Int] /\ c.vpc[n] = k + 1
            /\ \A l \in Lines : l # n => c.vpc[l] = m.vpc[l]
            /\ c = [free |-> c.free, full |-> c.full, pq |-> c.pq, vpc |-> c.vpc, ipc |-> c.ipc]
            /\ c \in LineMgmt
<1>1. PICK vpc2, c : vpc2 = [m.vpc EXCEPT ![n] = m.vpc[n] + 1] /\ c = MarkValid(m, n)
  OBVIOUS
<1>2. c = [free |-> m.free, full |-> m.full, pq |-> m.pq, vpc |-> vpc2, ipc |-> m.ipc]
  <2>1. c = [m EXCEPT !.vpc = vpc2]
    BY <1>1 DEF MarkValid
  <2>2. m = [free |-> m.free, full |-> m.full, pq |-> m.pq, vpc |-> m.vpc, ipc |-> m.ipc]
    BY Fields
  <2> QED
    BY <2>1, <2>2
<1>3. /\ vpc2 \in [Lines -> Int] /\ vpc2[n] = k + 1
      /\ \A l \in Lines : l # n => vpc2[l] = m.vpc[l]
  BY <1>1, Fields
<1>4. c \in LineMgmt
  BY <1>2, <1>3, Fields DEF LineMgmt
<1> QED
  BY <1>1, <1>2, <1>3, <1>4

\* What is known of the line of page p, which is going to be written and lies
\* at a write pointer, when q is the page at the other one.
Writable(m, st, v, p, q) ==
  LET n   == LineOf(p)
      c   == MarkValid(m, n)
      st2 == [st EXCEPT ![p] = "valid"]
  IN /\ p \in Pages /\ n \in Lines /\ p \in LinePages(n) /\ q \in Pages
     /\ n # v /\ n # LineOf(q) /\ n \notin m.full
     /\ ~ On(m.free, n) /\ ~ On(m.pq.d, n)
     /\ st[p] = "free" /\ st2 \in Statuses /\ Takes(st, st2, p, "valid")
     /\ c.vpc[n] = CountIn(st2, n, "valid") /\ c.ipc[n] = CountIn(st2, n, "invalid")
     /\ \A k \in Lines \ {v} : /\ c.vpc[k] = CountIn(st2, k, "valid")
                               /\ c.ipc[k] = CountIn(st2, k, "invalid")
     /\ HeapOf(Lines, c.pq, c.vpc)

\* So it is with the page at a write pointer.
LEMMA AtPointer ==
  ASSUME NEW m \in LineMgmt, NEW st \in Statuses, NEW v, wp \in Pointers,
         Sound(m, st, wp, v), NEW io, NEW oth, Pair(io, oth)
  PROVE  Writable(m, st, v, wp[io], wp[oth])
<1> DEFINE p == wp[io]
           n == LineOf(p)
           c == MarkValid(m, n)
           st2 == [st EXCEPT ![p] = "valid"]
<1>1. io \in {"user", "gc"} /\ oth \in {"user", "gc"}
  BY DEF Pair
<1>2. p \in Pages /\ wp[oth] \in Pages /\ n \in Lines /\ p \in LinePages(n)
  BY <1>1, PageFacts DEF Pointers, LinePages
<1>3. Lists(m, wp, v) /\ Heap(m) /\ Places(m, st, wp) /\ Counts(m, st, v)
  BY DEF Sound
<1>4. n # v /\ n # LineOf(wp[oth]) /\ n \notin m.full /\ ~ On(m.free, n) /\ ~ On(m.pq.d, n)
  <2>1. InOne(m, n, n, LineOf(wp[oth]), v)
    BY <1>2, <1>3, EitherOrder
  <2> QED
    BY <2>1, OnePlace
<1>5. st[p] = "free"
  <2>1. WPlace(p) <= WPlace(p)
    <3>1. WPlace(p) \in 0 .. PgsPerLine - 1
      BY <1>2, WPlaces
    <3> QED
      BY <3>1
  <2> QED
    BY <1>1, <1>2, <1>3, <2>1 DEF Places
<1>6. st2 \in Statuses /\ Takes(st, st2, p, "valid")
  BY <1>2 DEF Statuses, Takes
<1> HIDE DEF p, st2
<1>7. /\ CountIn(st2, n, "valid") = CountIn(st, n, "valid") + 1
      /\ CountIn(st2, n, "invalid") = CountIn(st, n, "invalid")
      /\ \A k \in Lines : \A t : k # n => CountIn(st2, k, t) = CountIn(st, k, t)
  <2>1. CountIn(st2, n, "valid") = CountIn(st, n, "valid") + 1
    BY <1>2, <1>5, <1>6, CountChange
  <2>2. CountIn(st2, n, "invalid") = CountIn(st, n, "invalid")
    <3>1. "invalid" # "valid" /\ "invalid" # st[p]
      BY <1>5
    <3> QED
      BY <1>2, <1>6, <3>1, CountKept
  <2>3. \A k \in Lines : \A t : k # n => CountIn(st2, k, t) = CountIn(st, k, t)
    BY <1>2, <1>6, CountKept
  <2> QED
    BY <2>1, <2>2, <2>3
<1> HIDE DEF n
<1>8. m.vpc[n] = CountIn(st, n, "valid") /\ m.ipc[n] = CountIn(st, n, "invalid")
  BY <1>2, <1>3, <1>4 DEF Counts
<1>9. /\ c.pq = m.pq /\ c.ipc = m.ipc /\ c.vpc[n] = CountIn(st, n, "valid") + 1
      /\ \A k \in Lines : k # n => c.vpc[k] = m.vpc[k]
  BY <1>2, <1>8, MarkedValid
<1> HIDE DEF c
<1>10. \A k \in Lines \ {v} : c.vpc[k] = CountIn(st2, k, "valid")
                              /\ c.ipc[k] = CountIn(st2, k, "invalid")
  BY <1>2, <1>3, <1>7, <1>8, <1>9 DEF Counts
<1>11. HeapOf(Lines, c.pq, c.vpc)
  <2>1. \A x \in Lines : On(m.pq.d, x) => c.vpc[x] = m.vpc[x]
    BY <1>4, <1>9
  <2>2. HeapOf(Lines, m.pq, m.vpc)
    BY <1>3 DEF Heap
  <2> QED
    BY <1>9, <2>1, <2>2, SamePriorities
<1>12. c.vpc[n] = CountIn(st2, n, "valid") /\ c.ipc[n] = CountIn(st2, n, "invalid")
  BY <1>2, <1>4, <1>10
<1> QED
  BY <1>2, <1>4, <1>5, <1>6, <1>10, <1>11, <1>12 DEF Writable, p, n, c, st2

\* A page has been written at the write pointer of io, which is not the last
\* of its line: the pointer moves on, and there is room for one page less.
LEMMA ProgrammedWithin ==
  ASSUME NEW m \in LineMgmt, NEW st \in Statuses, NEW v, wp \in Pointers,
         Sound(m, st, wp, v), NEW io, NEW oth, Pair(io, oth), ~ AtEnd(wp[io])
  PROVE  LET m2  == Written(m, io)
             st2 == [st EXCEPT ![wp[io]] = "valid"]
             w2  == Onward(m, io)
         IN /\ m2 \in LineMgmt /\ w2 \in Pointers
            /\ Sound(m2, st2, w2, v)
            /\ Room(m2, w2) = Room(m, wp) - 1
<1> DEFINE p == wp[io]
           n == LineOf(p)
           c == MarkValid(m, n)
           m2 == Written(m, io)
           st2 == [st EXCEPT ![p] = "valid"]
           w2 == Onward(m, io)
<1>1. io \in {"user", "gc"} /\ oth \in {"user", "gc"} /\ io # oth
      /\ \A i \in {"user", "gc"} : i = io \/ i = oth
  BY DEF Pair
<1>15. Writable(m, st, v, wp[io], wp[oth])
  BY AtPointer
<1>2. /\ p \in Pages /\ n \in Lines /\ p \in LinePages(n) /\ wp[oth] \in Pages
      /\ n # v /\ n # LineOf(wp[oth]) /\ n \notin m.full
      /\ ~ On(m.free, n) /\ ~ On(m.pq.d, n)
      /\ st[p] = "free" /\ st2 \in Statuses /\ Takes(st, st2, p, "valid")
      /\ \A k \in Lines \ {v} : /\ c.vpc[k] = CountIn(st2, k, "valid")
                                /\ c.ipc[k] = CountIn(st2, k, "invalid")
      /\ HeapOf(Lines, c.pq, c.vpc)
  BY <1>15 DEF Writable
<1>3. Lists(m, wp, v) /\ Heap(m) /\ Places(m, st, wp) /\ Counts(m, st, v)
  BY DEF Sound
<1>4. /\ c \in LineMgmt /\ c.free = m.free /\ c.full = m.full /\ c.pq = m.pq /\ c.ipc = m.ipc
      /\ \A k \in Lines : k # n => c.vpc[k] = m.vpc[k]
  BY <1>2, MarkedValid
<1>5. m2 = c
  BY DEF Written
<1>6. PICK x : x = NextPage(p)
  OBVIOUS
<1>7. w2 = [wp EXCEPT ![io] = x]
  BY <1>6 DEF Onward
<1>8. x \in Pages /\ LineOf(x) = n /\ WPlace(x) = WPlace(p) + 1
  BY <1>2, <1>6, NextPlace
<1>9. w2 \in Pointers /\ w2[io] = x /\ w2[oth] = wp[oth]
  BY <1>1, <1>7, <1>8 DEF Pointers
<1> HIDE DEF p, n, c, m2, st2, w2
<1>10. Lists(m2, w2, v)
  <2>1. \A k \in Lines : InOne(m, k, n, LineOf(wp[oth]), v)
    BY <1>3, EitherOrder DEF n, p
  <2>2. \A k \in Lines : InOne(m2, k, LineOf(w2[io]), LineOf(w2[oth]), v)
    BY <1>4, <1>5, <1>8, <1>9, <2>1 DEF InOne
  <2>3. Once(m2.free)
    BY <1>3, <1>4, <1>5 DEF Lists
  <2> QED
    BY <2>2, <2>3, EitherOrder
<1>11. Heap(m2)
  <2>1. \A k \in Lines : ~ On(m2.pq.d, k) => m2.pq.pos[k] = 0
    BY <1>3, <1>4, <1>5 DEF Heap, InHeap
  <2> QED
    BY <1>2, <1>5, <2>1, HeapTold
<1>12. Places(m2, st2, w2)
  <2> SUFFICES ASSUME NEW q \in Pages
               PROVE  /\ On(m2.free, LineOf(q)) => st2[q] = "free"
                      /\ On(m2.pq.d, LineOf(q)) \/ LineOf(q) \in m2.full => st2[q] # "free"
                      /\ \A i \in {"user", "gc"} : LineOf(q) = LineOf(w2[i]) =>
                           (st2[q] = "free" <=> WPlace(w2[i]) <= WPlace(q))
    BY DEF Places
  <2>1. st2[q] = IF q = p THEN "valid" ELSE st[q]
    BY <1>2 DEF Takes
  <2>2. LineOf(q) # n => q # p
    BY DEF n
  <2>3. On(m2.free, LineOf(q)) => st2[q] = "free"
    BY <1>2, <1>3, <1>4, <1>5, <2>1, <2>2 DEF Places
  <2>4. On(m2.pq.d, LineOf(q)) \/ LineOf(q) \in m2.full => st2[q] # "free"
    BY <1>3, <1>4, <1>5, <2>1 DEF Places
  <2>5. LineOf(q) = LineOf(w2[oth]) => (st2[q] = "free" <=> WPlace(w2[oth]) <= WPlace(q))
    BY <1>1, <1>2, <1>3, <1>9, <2>1, <2>2 DEF Places
  <2>6. LineOf(q) = LineOf(w2[io]) => (st2[q] = "free" <=> WPlace(w2[io]) <= WPlace(q))
    <3> SUFFICES ASSUME LineOf(q) = n PROVE st2[q] = "free" <=> WPlace(p) + 1 <= WPlace(q)
      BY <1>8, <1>9
    <3>1. st[q] = "free" <=> WPlace(p) <= WPlace(q)
      BY <1>1, <1>3 DEF Places, n, p
    <3>2. WPlace(p) \in Nat /\ WPlace(q) \in Nat /\ (WPlace(p) = WPlace(q) => p = q)
      BY <1>2, WPlaces DEF n
    <3>3. CASE q = p
      BY <2>1, <3>2, <3>3
    <3>4. CASE q # p
      BY <2>1, <3>1, <3>2, <3>4
    <3> QED
      BY <3>3, <3>4
  <2> QED
    BY <1>1, <2>3, <2>4, <2>5, <2>6
<1>13. Counts(m2, st2, v)
  <2>1. \A k \in m2.full : m2.vpc[k] = PgsPerLine
    <3>1. \A k \in m.full : k \in Lines /\ k # n
      BY <1>2, Fields
    <3> QED
      BY <1>3, <1>4, <1>5, <3>1 DEF Counts
  <2>2. \A k \in Lines : On(m2.pq.d, k) => m2.ipc[k] > 0
    BY <1>3, <1>4, <1>5 DEF Counts
  <2> QED
    BY <1>2, <1>5, <2>1, <2>2 DEF Counts
<1>14. Room(m2, w2) = Room(m, wp) - 1
  <2>1. PICK f, a, b : f = Len(m.free) * PgsPerLine /\ a = LineRoom(p) /\ b = LineRoom(wp[oth])
    OBVIOUS
  <2>2. f \in Nat /\ a \in 1 .. PgsPerLine /\ b \in 1 .. PgsPerLine /\ Room(m, wp) = f + a + b
    BY <2>1, RoomParts DEF p
  <2>3. LineRoom(x) = a - 1
    <3>1. WPlace(p) \in 0 .. PgsPerLine - 1 /\ PgsPerLine \in Nat
      BY <1>2, WPlaces, Sizes
    <3> QED
      BY <1>8, <2>1, <3>1 DEF LineRoom
  <2>4. Room(m2, w2) = Len(m2.free) * PgsPerLine + LineRoom(w2[io]) + LineRoom(w2[oth])
    BY <1>4, <1>5, <1>9, RoomParts
  <2>5. Room(m2, w2) = f + (a - 1) + b
    BY <1>4, <1>5, <1>9, <2>1, <2>3, <2>4
  <2> QED
    BY <2>2, <2>5
<1> QED
  BY <1>4, <1>5, <1>9, <1>10, <1>11, <1>12, <1>13, <1>14 DEF Sound, m2, st2, w2, p

\* What becomes of the lines c when n is closed, h being the first free line.
ClosedTo(c, n, h, m2) ==
  /\ m2 \in LineMgmt /\ Heap(m2) /\ m2.vpc = c.vpc /\ m2.ipc = c.ipc
  /\ h \in Lines /\ On(c.free, h) /\ Once(m2.free)
  /\ \A k : On(m2.free, k) <=> On(c.free, k) /\ k # h
  /\ Len(m2.free) = Len(c.free) - 1
  /\ \A k : k \in m2.full <=> k \in c.full \/ (k = n /\ c.vpc[n] = PgsPerLine)
  /\ \A k : On(m2.pq.d, k) <=> On(c.pq.d, k) \/ (k = n /\ c.vpc[n] # PgsPerLine)

\* A closed line becomes a full one or a candidate for collection, and the
\* first free line is taken.
LEMMA LineClosed ==
  ASSUME NEW c \in LineMgmt, c.free # <<>>, Once(c.free), NEW n \in Lines, n \notin c.full,
         ~ On(c.pq.d, n), HeapOf(Lines, c.pq, c.vpc),
         \A k \in Lines : ~ On(c.pq.d, k) => c.pq.pos[k] = 0
  PROVE  ClosedTo(c, n, Head(c.free), Closed(c, n))
<1> DEFINE m2 == Closed(c, n)
           h == Head(c.free)
<1>1. /\ c = [free |-> c.free, full |-> c.full, pq |-> c.pq, vpc |-> c.vpc, ipc |-> c.ipc]
      /\ c.free \in Seq(Lines) /\ c.full \in SUBSET Lines
      /\ c.vpc \in [Lines -> Int] /\ c.ipc \in [Lines -> Int]
  BY Fields
<1>2. PICK t : t = Tail(c.free)
  OBVIOUS
<1>3. /\ h \in Lines /\ On(c.free, h) /\ t \in Seq(Lines) /\ Once(t)
      /\ \A k : On(t, k) <=> On(c.free, k) /\ k # h
      /\ Len(t) = Len(c.free) - 1
  BY <1>1, <1>2, TailOnce
<1> HIDE DEF h
<1>4. CASE c.vpc[n] = PgsPerLine
  <2>1. m2 = [free |-> t, full |-> c.full \cup {n}, pq |-> c.pq, vpc |-> c.vpc, ipc |-> c.ipc]
    <3>1. PICK d : d = [c EXCEPT !.full = @ \cup {n}]
      OBVIOUS
    <3>2. d = [free |-> c.free, full |-> c.full \cup {n}, pq |-> c.pq, vpc |-> c.vpc, ipc |-> c.ipc]
      BY <1>1, <3>1
    <3>3. m2 = [d EXCEPT !.free = Tail(@)]
      BY <1>4, <3>1 DEF Closed
    <3> QED
      BY <1>2, <3>2, <3>3
  <2> HIDE DEF m2
  <2>2. m2.free = t /\ m2.full = c.full \cup {n} /\ m2.pq = c.pq /\ m2.vpc = c.vpc /\ m2.ipc = c.ipc
    BY <2>1
  <2>3. m2 \in LineMgmt
    <3>1. c.pq \in Queues(Lines)
      BY DEF HeapOf
    <3> QED
      BY <1>1, <1>3, <2>1, <3>1 DEF LineMgmt
  <2>4. Heap(m2)
    BY <2>2, HeapTold
  <2> QED
    BY <1>3, <1>4, <2>2, <2>3, <2>4 DEF ClosedTo, m2, h
<1>5. CASE c.vpc[n] # PgsPerLine
  <2>1. PICK q, r, u : q = c.pq /\ u = c.vpc /\ r = Insert(q, u, n)
    OBVIOUS
  <2>2. /\ HeapOf(Lines, r, u)
        /\ \A k : On(r.d, k) <=> On(q.d, k) \/ k = n
        /\ \A k \in Lines : ~ On(q.d, k) /\ k # n => r.pos[k] = q.pos[k]
    <3>1. /\ u \in [Lines -> Int] /\ HeapOf(Lines, q, u) /\ n \in Lines /\ ~ On(q.d, n)
          /\ r = Insert(q, u, n)
      BY <1>1, <2>1
    <3> HIDE DEF m2
    <3> QED
      BY <3>1, InsertHeaps
  <2>3. m2 = [free |-> t, full |-> c.full, pq |-> r, vpc |-> c.vpc, ipc |-> c.ipc]
    <3>1. PICK d : d = [c EXCEPT !.pq = Insert(@, c.vpc, n)]
      OBVIOUS
    <3>2. d = [free |-> c.free, full |-> c.full, pq |-> r, vpc |-> c.vpc, ipc |-> c.ipc]
      BY <1>1, <2>1, <3>1
    <3>3. m2 = [d EXCEPT !.free = Tail(@)]
      BY <1>5, <3>1 DEF Closed
    <3> QED
      BY <1>2, <3>2, <3>3
  <2> HIDE DEF m2
  <2>4. m2.free = t /\ m2.full = c.full /\ m2.pq = r /\ m2.vpc = c.vpc /\ m2.ipc = c.ipc
    BY <2>3
  <2>5. m2 \in LineMgmt
    <3>1. r \in Queues(Lines)
      BY <2>2 DEF HeapOf
    <3> QED
      BY <1>1, <1>3, <2>3, <3>1 DEF LineMgmt
  <2>6. Heap(m2)
    <3>1. \A k \in Lines : ~ On(r.d, k) => r.pos[k] = 0
      BY <2>1, <2>2
    <3> QED
      BY <2>1, <2>2, <2>4, <3>1, HeapTold
  <2> QED
    BY <1>3, <1>5, <2>1, <2>2, <2>4, <2>5, <2>6 DEF ClosedTo, m2, h
<1> QED
  BY <1>4, <1>5

\* A page has been written at the write pointer of io, the last of its line:
\* the line is closed and the pointer goes to the start of a free one.
LEMMA ProgrammedAtEnd ==
  ASSUME NEW m \in LineMgmt, NEW st \in Statuses, NEW v, wp \in Pointers,
         Sound(m, st, wp, v), NEW io, NEW oth, Pair(io, oth), AtEnd(wp[io]), m.free # <<>>
  PROVE  LET m2  == Written(m, io)
             st2 == [st EXCEPT ![wp[io]] = "valid"]
             w2  == Onward(m, io)
         IN /\ m2 \in LineMgmt /\ w2 \in Pointers
            /\ Sound(m2, st2, w2, v)
            /\ Room(m2, w2) = Room(m, wp) - 1
<1> DEFINE p == wp[io]
           n == LineOf(p)
           c == MarkValid(m, n)
           m2 == Written(m, io)
           st2 == [st EXCEPT ![p] = "valid"]
           w2 == Onward(m, io)
           h == Head(m.free)
<1>1. io \in {"user", "gc"} /\ oth \in {"user", "gc"} /\ io # oth
      /\ \A i \in {"user", "gc"} : i = io \/ i = oth
  BY DEF Pair
<1>2. Writable(m, st, v, wp[io], wp[oth])
  BY AtPointer
<1>3. /\ p \in Pages /\ n \in Lines /\ p \in LinePages(n) /\ wp[oth] \in Pages
      /\ n # v /\ n # LineOf(wp[oth]) /\ n \notin m.full
      /\ ~ On(m.free, n) /\ ~ On(m.pq.d, n)
      /\ st[p] = "free" /\ st2 \in Statuses /\ Takes(st, st2, p, "valid")
      /\ c.vpc[n] = CountIn(st2, n, "valid") /\ c.ipc[n] = CountIn(st2, n, "invalid")
      /\ \A k \in Lines \ {v} : /\ c.vpc[k] = CountIn(st2, k, "valid")
                                /\ c.ipc[k] = CountIn(st2, k, "invalid")
      /\ HeapOf(Lines, c.pq, c.vpc)
  BY <1>2 DEF Writable
<1>4. Lists(m, wp, v) /\ Heap(m) /\ Places(m, st, wp) /\ Counts(m, st, v)
  BY DEF Sound
<1>5. /\ c \in LineMgmt /\ c.free = m.free /\ c.full = m.full /\ c.pq = m.pq /\ c.ipc = m.ipc
      /\ \A k \in Lines : k # n => c.vpc[k] = m.vpc[k]
  BY <1>3, MarkedValid
<1>6. m2 = Closed(c, n)
  BY DEF Written
<1>7. w2 = [wp EXCEPT ![io] = <<h, 0, 0>>]
  BY DEF Onward
<1> HIDE DEF p, n, c, m2, st2, w2, h
<1>8. /\ m2 \in LineMgmt /\ Heap(m2) /\ m2.vpc = c.vpc /\ m2.ipc = m.ipc
      /\ h \in Lines /\ On(m.free, h) /\ Once(m2.free)
      /\ \A k : On(m2.free, k) <=> On(m.free, k) /\ k # h
      /\ Len(m2.free) = Len(m.free) - 1
      /\ \A k : k \in m2.full <=> k \in m.full \/ (k = n /\ c.vpc[n] = PgsPerLine)
      /\ \A k : On(m2.pq.d, k) <=> On(m.pq.d, k) \/ (k = n /\ c.vpc[n] # PgsPerLine)
  <2>1. \A k \in Lines : ~ On(c.pq.d, k) => c.pq.pos[k] = 0
    BY <1>4, <1>5 DEF Heap, InHeap
  <2>2. Once(m.free)
    BY <1>4 DEF Lists
  <2> QED
    <3>1. /\ c \in LineMgmt /\ c.free # <<>> /\ Once(c.free) /\ n \in Lines /\ n \notin c.full
          /\ ~ On(c.pq.d, n) /\ HeapOf(Lines, c.pq, c.vpc)
      BY <1>3, <1>5, <2>2
    <3>2. ClosedTo(c, n, Head(c.free), Closed(c, n))
      BY <2>1, <3>1, LineClosed
    <3>3. ClosedTo(c, n, h, m2)
      BY <1>5, <1>6, <3>2 DEF h
    <3> QED
      BY <1>5, <3>3 DEF ClosedTo
<1>9. /\ w2 \in Pointers /\ LineOf(w2[io]) = h /\ WPlace(w2[io]) = 0 /\ w2[oth] = wp[oth]
  <2>1. 0 \in Luns /\ 0 \in Offsets
    BY Sizes DEF Luns, Offsets
  <2>2. <<h, 0, 0>> \in Pages /\ LineOf(<<h, 0, 0>>) = h
    BY <1>8, <2>1, PageFacts
  <2>3. WPlace(<<h, 0, 0>>) = 0
    BY WPlaces
  <2> QED
    BY <1>1, <1>7, <2>2, <2>3 DEF Pointers
<1>10. \A k \in Lines : InOne(m, k, n, LineOf(wp[oth]), v)
  BY <1>4, EitherOrder DEF n, p
<1>11. h # n /\ h # v /\ h # LineOf(wp[oth]) /\ ~ On(m.pq.d, h) /\ h \notin m.full
  BY <1>8, <1>10, OnePlace
<1>12. Lists(m2, w2, v)
  <2>1. \A k \in Lines : InOne(m2, k, LineOf(w2[io]), LineOf(w2[oth]), v)
    <3> SUFFICES ASSUME NEW k \in Lines PROVE InOne(m2, k, h, LineOf(wp[oth]), v)
      BY <1>9
    <3>1. InOne(m, k, n, LineOf(wp[oth]), v)
      BY <1>10
    <3>2. CASE k = n
      BY <1>3, <1>8, <1>11, <3>2, OnePlace
    <3>3. CASE k = h
      BY <1>3, <1>8, <1>11, <3>3, OnePlace
    <3>4. CASE k # n /\ k # h
      BY <1>3, <1>8, <1>11, <3>1, <3>4, OnePlace
    <3> QED
      BY <3>2, <3>3, <3>4
  <2> QED
    BY <1>8, <2>1, EitherOrder
<1>13. \A q \in Pages : st2[q] = IF q = p THEN "valid" ELSE st[q]
  BY <1>3 DEF Takes
<1>14. \A q \in LinePages(n) : st2[q] # "free"
  <2> SUFFICES ASSUME NEW q \in LinePages(n), q # p PROVE st[q] # "free"
    BY <1>13 DEF LinePages
  <2>1. q \in Pages /\ LineOf(q) = n
    BY DEF LinePages
  <2>2. WPlace(p) = PgsPerLine - 1 /\ WPlace(q) \in 0 .. PgsPerLine - 1 /\ WPlace(q) # WPlace(p)
    BY <1>3, <2>1, WPlaces DEF n, p
  <2>3. ~ (WPlace(p) <= WPlace(q))
    BY <2>2, Sizes
  <2> QED
    BY <1>1, <1>4, <2>1, <2>3 DEF Places, n, p
<1>15. Places(m2, st2, w2)
  <2> SUFFICES ASSUME NEW q \in Pages
               PROVE  /\ On(m2.free, LineOf(q)) => st2[q] = "free"
                      /\ On(m2.pq.d, LineOf(q)) \/ LineOf(q) \in m2.full => st2[q] # "free"
                      /\ \A i \in {"user", "gc"} : LineOf(q) = LineOf(w2[i]) =>
                           (st2[q] = "free" <=> WPlace(w2[i]) <= WPlace(q))
    BY DEF Places
  <2>1. LineOf(q) # n => q # p
    BY DEF n
  <2>2. On(m2.free, LineOf(q)) => st2[q] = "free"
    BY <1>3, <1>4, <1>8, <1>13, <2>1 DEF Places
  <2>3. On(m2.pq.d, LineOf(q)) \/ LineOf(q) \in m2.full => st2[q] # "free"
    BY <1>4, <1>8, <1>13, <1>14 DEF Places, LinePages
  <2>4. LineOf(q) = LineOf(w2[oth]) => (st2[q] = "free" <=> WPlace(w2[oth]) <= WPlace(q))
    BY <1>1, <1>3, <1>4, <1>9, <1>13, <2>1 DEF Places
  <2>5. LineOf(q) = LineOf(w2[io]) => (st2[q] = "free" <=> WPlace(w2[io]) <= WPlace(q))
    <3> SUFFICES ASSUME LineOf(q) = h PROVE st2[q] = "free" /\ 0 <= WPlace(q)
      BY <1>9
    <3>1. WPlace(q) \in 0 .. PgsPerLine - 1
      BY WPlaces
    <3> QED
      BY <1>4, <1>8, <1>11, <1>13, <2>1, <3>1 DEF Places
  <2> QED
    BY <1>1, <2>2, <2>3, <2>4, <2>5
<1>16. Counts(m2, st2, v)
  <2>1. \A k \in m2.full : m2.vpc[k] = PgsPerLine
    <3>1. \A k \in m.full : k \in Lines /\ k # n
      BY <1>3, Fields
    <3> QED
      BY <1>4, <1>5, <1>8, <3>1 DEF Counts
  <2>2. \A k \in Lines : On(m2.pq.d, k) => m2.ipc[k] > 0
    <3>1. ASSUME c.vpc[n] # PgsPerLine PROVE m2.ipc[n] > 0
      <4>1. CountIn(st2, n, "valid") + CountIn(st2, n, "invalid") = PgsPerLine
        BY <1>3, <1>14, CountSum
      <4>2. CountIn(st2, n, "valid") \in 0 .. PgsPerLine /\ CountIn(st2, n, "invalid") \in 0 .. PgsPerLine
        BY <1>3, CountRange
      <4>3. c.vpc[n] = CountIn(st2, n, "valid") /\ m2.ipc[n] = CountIn(st2, n, "invalid")
        BY <1>3, <1>5, <1>8
      <4> QED
        BY <3>1, <4>1, <4>2, <4>3, Sizes
    <3> QED
      BY <1>4, <1>8, <3>1 DEF Counts
  <2> QED
    BY <1>3, <1>5, <1>8, <2>1, <2>2 DEF Counts
<1>17. Room(m2, w2) = Room(m, wp) - 1
  <2>1. PICK f, a, b : f = Len(m.free) * PgsPerLine /\ a = LineRoom(p) /\ b = LineRoom(wp[oth])
    OBVIOUS
  <2>2. f \in Nat /\ a \in 1 .. PgsPerLine /\ b \in 1 .. PgsPerLine /\ Room(m, wp) = f + a + b
    BY <2>1, RoomParts DEF p
  <2>3. PgsPerLine \in Nat
    BY Sizes
  <2>4. LineRoom(w2[io]) = PgsPerLine /\ a = 1
    <3>1. WPlace(p) = PgsPerLine - 1
      BY <1>3, WPlaces DEF p
    <3> QED
      BY <1>9, <2>1, <2>3, <3>1 DEF LineRoom
  <2>5. Room(m2, w2) = Len(m2.free) * PgsPerLine + LineRoom(w2[io]) + LineRoom(w2[oth])
    <3>1. m2 \in LineMgmt /\ w2 \in Pointers
      BY <1>8, <1>9
    <3> QED
      BY <3>1, RoomParts
  <2>6. Len(m2.free) * PgsPerLine = f - PgsPerLine
    <3>1. m.free \in Seq(Lines)
      BY Fields
    <3> QED
      BY <1>8, <2>1, <3>1, FreeRoom
  <2>7. Room(m2, w2) = (f - PgsPerLine) + PgsPerLine + b
    BY <1>9, <2>1, <2>4, <2>5, <2>6
  <2> QED
    BY <2>2, <2>3, <2>4, <2>7
<1> QED
  BY <1>8, <1>9, <1>12, <1>15, <1>16, <1>17 DEF Sound, m2, st2, w2, p

\* A page has been written at the write pointer of io: the parts of the
\* invariant that are about lines hold, and there is room for one page less.
LEMMA Programmed ==
  ASSUME NEW m \in LineMgmt, NEW st \in Statuses, NEW v, wp \in Pointers,
         Sound(m, st, wp, v), NEW io \in {"user", "gc"}, ~ Dies(m, io),
         NEW st2, st2 = [st EXCEPT ![wp[io]] = "valid"]
  PROVE  /\ st[wp[io]] = "free" /\ st2 \in Statuses
         /\ Written(m, io) \in LineMgmt /\ Onward(m, io) \in Pointers
         /\ Sound(Written(m, io), st2, Onward(m, io), v)
         /\ Room(Written(m, io), Onward(m, io)) = Room(m, wp) - 1
<1>1. PICK oth : Pair(io, oth)
  <2>1. Pair("user", "gc") /\ Pair("gc", "user")
    BY DEF Pair
  <2> QED
    BY <2>1
<1>2. Writable(m, st, v, wp[io], wp[oth])
  BY <1>1, AtPointer
<1>3. st[wp[io]] = "free" /\ st2 \in Statuses
  BY <1>2 DEF Writable
<1>4. CASE AtEnd(wp[io])
  <2>1. m.free # <<>>
    BY <1>4 DEF Dies
  <2> QED
    BY <1>1, <1>3, <1>4, <2>1, ProgrammedAtEnd
<1>5. CASE ~ AtEnd(wp[io])
  BY <1>1, <1>3, <1>5, ProgrammedWithin
<1> QED
  BY <1>4, <1>5

\* Where the pointer has gone: it has stayed in its line, or it is at the start
\* of another one.
LEMMA OnwardPlace ==
  ASSUME NEW m \in LineMgmt, wp \in Pointers, NEW io \in {"user", "gc"}, ~ Dies(m, io)
  PROVE  \/ LineOf(Onward(m, io)[io]) = LineOf(wp[io])
         \/ WPlace(Onward(m, io)[io]) = 0
<1>1. wp[io] \in Pages
  BY DEF Pointers
<1>2. CASE AtEnd(wp[io])
  <2>1. Onward(m, io)[io] = <<Head(m.free), 0, 0>>
    BY <1>2 DEF Onward, Dies, Pointers
  <2> QED
    BY <2>1, WPlaces
<1>3. CASE ~ AtEnd(wp[io])
  <2>1. Onward(m, io)[io] = NextPage(wp[io])
    BY <1>3 DEF Onward, Pointers
  <2> QED
    BY <1>1, <1>3, <2>1, NextPlace
<1> QED
  BY <1>2, <1>3

\* No line is called NoLine.
LEMMA NoLineFact == NoLine \notin Lines
  BY DEF NoLine, Lines

\* The lines without the first of the heap, which is going to be cleaned.
WithoutPeek(m) == [m EXCEPT !.pq = [Pop(@, m.vpc) EXCEPT !.pos[Peek(m.pq)] = 0]]

\* The first line of the heap leaves it to be cleaned; its counts are those of
\* all of its pages.
LEMMA Taken ==
  ASSUME NEW m \in LineMgmt, NEW st \in Statuses, NEW w \in Pointers,
         Sound(m, st, w, NoLine), m.pq.d # <<>>
  PROVE  /\ Peek(m.pq) \in Lines
         /\ WithoutPeek(m) \in LineMgmt /\ WithoutPeek(m).free = m.free
         /\ Sound(WithoutPeek(m), st, w, Peek(m.pq))
         /\ m.ipc[Peek(m.pq)] \in 1 .. PgsPerLine
         /\ m.ipc[Peek(m.pq)] + CountIn(st, Peek(m.pq), "valid") = PgsPerLine
<1>1. Lists(m, w, NoLine) /\ Heap(m) /\ Places(m, st, w) /\ Counts(m, st, NoLine)
  BY DEF Sound
<1>2. PICK q, u, v, r : q = m.pq /\ u = m.vpc /\ v = Peek(q) /\ r = Pop(q, u)
  OBVIOUS
<1>3. /\ m = [free |-> m.free, full |-> m.full, pq |-> q, vpc |-> u, ipc |-> m.ipc]
      /\ m.free \in Seq(Lines) /\ m.full \in SUBSET Lines /\ q \in Queues(Lines)
      /\ u \in [Lines -> Int] /\ m.ipc \in [Lines -> Int]
  BY <1>2, Fields
<1>4. /\ v \in Lines /\ On(q.d, v) /\ HeapOf(Lines, r, u)
      /\ \A y : On(r.d, y) <=> On(q.d, y) /\ y # v
      /\ \A y \in Lines : ~ On(q.d, y) => r.pos[y] = q.pos[y]
  <2>1. u \in [Lines -> Int] /\ HeapOf(Lines, q, u) /\ q.d # <<>> /\ r = Pop(q, u)
    BY <1>1, <1>2, <1>3 DEF Heap
  <2> QED
    BY <1>2, <2>1, PopHeaps
<1>5. PICK r2 : r2 = [r EXCEPT !.pos[v] = 0]
  OBVIOUS
<1>6. /\ HeapOf(Lines, r2, u) /\ r2.d = r.d /\ r2 \in Queues(Lines)
      /\ \A y \in Lines : r2.pos[y] = IF y = v THEN 0 ELSE r.pos[y]
  <2>1. r \in Queues(Lines) /\ Once(r.d) /\ Knows(r) /\ Heaped(Values(r, u), Len(r.d))
    BY <1>4 DEF HeapOf
  <2>2. /\ r = [d |-> r.d, pos |-> r.pos] /\ r.d \in Seq(Lines) /\ r.pos \in [Lines -> Nat]
        /\ \A j \in DOMAIN r.d : r.d[j] \in Lines
    <3>1. r = [d |-> r.d, pos |-> r.pos]
      BY <2>1 DEF Queues
    <3> QED
      BY <2>1, <3>1, QueueParts
  <2>3. /\ r2 = [d |-> r.d, pos |-> [r.pos EXCEPT ![v] = 0]]
    BY <1>5, <2>2
  <2>4. r2.d = r.d /\ r2 \in Queues(Lines) /\ \A y \in Lines : r2.pos[y] = IF y = v THEN 0 ELSE r.pos[y]
    BY <2>2, <2>3 DEF Queues
  <2>5. Knows(r2)
    <3> SUFFICES ASSUME NEW j \in DOMAIN r.d PROVE r2.pos[r.d[j]] = j
      BY <2>4 DEF Knows
    <3>1. r.d[j] # v
      BY <1>4 DEF On
    <3> QED
      BY <2>1, <2>2, <2>4, <3>1 DEF Knows
  <2>6. Values(r2, u) = Values(r, u)
    BY <2>4 DEF Values
  <2> QED
    BY <2>1, <2>4, <2>5, <2>6 DEF HeapOf
<1>7. PICK m2 : m2 = WithoutPeek(m)
  OBVIOUS
<1>8. m2 = [free |-> m.free, full |-> m.full, pq |-> r2, vpc |-> u, ipc |-> m.ipc]
  <2>1. m2 = [m EXCEPT !.pq = r2]
    BY <1>2, <1>5, <1>7 DEF WithoutPeek
  <2>2. m = [free |-> m.free, full |-> m.full, pq |-> q, vpc |-> u, ipc |-> m.ipc]
    BY <1>3
  <2> QED
    BY <2>1, <2>2
<1>9. m2.free = m.free /\ m2.full = m.full /\ m2.pq = r2 /\ m2.vpc = u /\ m2.ipc = m.ipc
  BY <1>8
<1>10. m2 \in LineMgmt
  BY <1>3, <1>6, <1>8 DEF LineMgmt
<1>11. \A k : On(m2.pq.d, k) <=> On(m.pq.d, k) /\ k # v
  BY <1>2, <1>4, <1>6, <1>9
<1>12. Lists(m2, w, v)
  <2>1. Pair("user", "gc")
    BY DEF Pair
  <2>2. Once(m.free) /\ \A n \in Lines : InOne(m, n, LineOf(w["user"]), LineOf(w["gc"]), NoLine)
    BY <1>1, <2>1, EitherOrder
  <2>3. ASSUME NEW n \in Lines PROVE InOne(m2, n, LineOf(w["user"]), LineOf(w["gc"]), v)
    <3>1. InOne(m, n, LineOf(w["user"]), LineOf(w["gc"]), NoLine) /\ n # NoLine
      BY <2>2, NoLineFact
    <3>2. CASE n = v
      <4>1. On(m.pq.d, n)
        BY <1>2, <1>4, <3>2
      <4> QED
        BY <1>9, <1>11, <3>1, <3>2, <4>1, OnePlace
    <3>3. CASE n # v
      BY <1>9, <1>11, <3>1, <3>3, OnePlace
    <3> QED
      BY <3>2, <3>3
  <2> QED
    BY <1>9, <2>1, <2>2, <2>3, EitherOrder
<1>13. Heap(m2)
  <2>1. \A n \in Lines : ~ On(m2.pq.d, n) => m2.pq.pos[n] = 0
    BY <1>1, <1>2, <1>4, <1>6, <1>9, <1>11 DEF Heap, InHeap
  <2> QED
    BY <1>6, <1>9, <2>1, HeapTold
<1>14. Places(m2, st, w)
  BY <1>1, <1>9, <1>11 DEF Places
<1>15. Counts(m2, st, v)
  BY <1>1, <1>2, <1>9, <1>11, NoLineFact DEF Counts
<1>16. /\ m.ipc[v] \in 1 .. PgsPerLine
       /\ m.ipc[v] + CountIn(st, v, "valid") = PgsPerLine
  <2>1. \A p \in LinePages(v) : st[p] # "free"
    BY <1>1, <1>2, <1>4 DEF Places, LinePages
  <2>2. CountIn(st, v, "valid") + CountIn(st, v, "invalid") = PgsPerLine
    BY <1>4, <2>1, CountSum
  <2>3. CountIn(st, v, "valid") \in 0 .. PgsPerLine /\ CountIn(st, v, "invalid") \in 0 .. PgsPerLine
    BY <1>4, CountRange
  <2>4. m.ipc[v] = CountIn(st, v, "invalid") /\ m.ipc[v] > 0
    BY <1>1, <1>2, <1>4, NoLineFact DEF Counts
  <2> QED
    BY <2>2, <2>3, <2>4, Sizes
<1> QED
  BY <1>2, <1>4, <1>7, <1>9, <1>10, <1>12, <1>13, <1>14, <1>15, <1>16 DEF Sound

\* Only pages of the line being cleaned change.
LEMMA Erasing ==
  ASSUME NEW m, NEW st, NEW w \in Pointers, NEW v \in Lines, Sound(m, st, w, v),
         NEW st2, \A p \in Pages : LineOf(p) # v => st2[p] = st[p]
  PROVE  Sound(m, st2, w, v)
<1>1. Lists(m, w, v) /\ Heap(m) /\ Places(m, st, w) /\ Counts(m, st, v)
  BY DEF Sound
<1>2. /\ ~ On(m.free, v) /\ ~ On(m.pq.d, v) /\ v \notin m.full
      /\ v # LineOf(w["user"]) /\ v # LineOf(w["gc"])
  <2>1. Pair("user", "gc")
    BY DEF Pair
  <2>2. InOne(m, v, LineOf(w["user"]), LineOf(w["gc"]), v)
    BY <1>1, <2>1, EitherOrder
  <2> QED
    BY <2>2, OnePlace
<1>3. Places(m, st2, w)
  <2> SUFFICES ASSUME NEW q \in Pages
               PROVE  /\ On(m.free, LineOf(q)) => st2[q] = "free"
                      /\ On(m.pq.d, LineOf(q)) \/ LineOf(q) \in m.full => st2[q] # "free"
                      /\ \A i \in {"user", "gc"} : LineOf(q) = LineOf(w[i]) =>
                           (st2[q] = "free" <=> WPlace(w[i]) <= WPlace(q))
    BY DEF Places
  <2> QED
    BY <1>1, <1>2 DEF Places
<1>4. Counts(m, st2, v)
  <2>1. ASSUME NEW n \in Lines \ {v}, NEW s PROVE CountIn(st2, n, s) = CountIn(st, n, s)
    <3>1. \A q \in Pages : LineOf(q) = n => (st2[q] = s <=> st[q] = s)
      OBVIOUS
    <3> QED
      BY <3>1, CountSame
  <2> QED
    BY <1>1, <2>1 DEF Counts
<1> QED
  BY <1>1, <1>3, <1>4 DEF Sound

\* Line v is a free one again.
Freed(m, v) == [m EXCEPT !.vpc[v] = 0, !.ipc[v] = 0, !.free = Append(@, v)]

\* The clean line becomes a free one.
LEMMA LineFreed ==
  ASSUME NEW m \in LineMgmt, NEW st \in Statuses, NEW w \in Pointers, NEW v \in Lines,
         Sound(m, st, w, v),
         \A p \in Pages : LineOf(p) = v => st[p] = "free"
  PROVE  /\ Freed(m, v) \in LineMgmt
         /\ Sound(Freed(m, v), st, w, NoLine)
         /\ Room(Freed(m, v), w) = Room(m, w) + PgsPerLine
<1>1. Lists(m, w, v) /\ Heap(m) /\ Places(m, st, w) /\ Counts(m, st, v)
  BY DEF Sound
<1>2. /\ m = [free |-> m.free, full |-> m.full, pq |-> m.pq, vpc |-> m.vpc, ipc |-> m.ipc]
      /\ m.free \in Seq(Lines) /\ m.full \in SUBSET Lines /\ m.pq \in Queues(Lines)
      /\ m.vpc \in [Lines -> Int] /\ m.ipc \in [Lines -> Int]
  BY Fields
<1>3. PICK m2, f, a, b :
        /\ m2 = Freed(m, v) /\ f = Append(m.free, v)
        /\ a = [m.vpc EXCEPT ![v] = 0] /\ b = [m.ipc EXCEPT ![v] = 0]
  OBVIOUS
<1>4. m2 = [free |-> f, full |-> m.full, pq |-> m.pq, vpc |-> a, ipc |-> b]
  <2>1. m2 = [[[m EXCEPT !.vpc[v] = 0] EXCEPT !.ipc[v] = 0] EXCEPT !.free = Append(@, v)]
    BY <1>3 DEF Freed
  <2>2. m = [free |-> m.free, full |-> m.full, pq |-> m.pq, vpc |-> m.vpc, ipc |-> m.ipc]
    BY <1>2
  <2>3. PICK x : x = [m EXCEPT !.vpc[v] = 0]
    OBVIOUS
  <2>4. x = [free |-> m.free, full |-> m.full, pq |-> m.pq, vpc |-> a, ipc |-> m.ipc]
    BY <1>3, <2>2, <2>3
  <2>5. PICK y : y = [x EXCEPT !.ipc[v] = 0]
    OBVIOUS
  <2>6. y = [free |-> m.free, full |-> m.full, pq |-> m.pq, vpc |-> a, ipc |-> b]
    BY <1>3, <2>4, <2>5
  <2>7. m2 = [y EXCEPT !.free = Append(@, v)]
    BY <2>1, <2>3, <2>5
  <2> QED
    BY <1>3, <2>6, <2>7
<1>5. m2.free = f /\ m2.full = m.full /\ m2.pq = m.pq /\ m2.vpc = a /\ m2.ipc = b
  BY <1>4
<1>6. Pair("user", "gc")
  BY DEF Pair
<1>7. \A n \in Lines : InOne(m, n, LineOf(w["user"]), LineOf(w["gc"]), v)
  BY <1>1, <1>6, EitherOrder
<1>8. /\ ~ On(m.free, v) /\ ~ On(m.pq.d, v) /\ v \notin m.full
      /\ v # LineOf(w["user"]) /\ v # LineOf(w["gc"])
  BY <1>7, OnePlace
<1>9. /\ f \in Seq(Lines) /\ Once(f) /\ \A n : On(f, n) <=> On(m.free, n) \/ n = v
  <2>1. Once(m.free)
    BY <1>1 DEF Lists
  <2> QED
    BY <1>2, <1>3, <1>8, <2>1, AppendedOnce
<1>10. /\ a \in [Lines -> Int] /\ b \in [Lines -> Int]
       /\ \A n \in Lines : a[n] = IF n = v THEN 0 ELSE m.vpc[n]
       /\ \A n \in Lines : b[n] = IF n = v THEN 0 ELSE m.ipc[n]
  BY <1>2, <1>3
<1>11. m2 \in LineMgmt
  BY <1>2, <1>4, <1>9, <1>10 DEF LineMgmt
<1>12. Lists(m2, w, NoLine)
  <2>1. ASSUME NEW n \in Lines PROVE InOne(m2, n, LineOf(w["user"]), LineOf(w["gc"]), NoLine)
    <3>1. InOne(m, n, LineOf(w["user"]), LineOf(w["gc"]), v) /\ n # NoLine
      BY <1>7, NoLineFact
    <3>2. CASE n = v
      BY <1>5, <1>8, <1>9, <3>1, <3>2, OnePlace
    <3>3. CASE n # v
      BY <1>5, <1>9, <3>1, <3>3, OnePlace
    <3> QED
      BY <3>2, <3>3
  <2> QED
    BY <1>5, <1>6, <1>9, <2>1, EitherOrder
<1>13. Heap(m2)
  <2>1. \A n \in Lines : ~ On(m2.pq.d, n) => m2.pq.pos[n] = 0
    BY <1>1, <1>5 DEF Heap, InHeap
  <2>2. HeapOf(Lines, m.pq, a)
    <3>1. \A x \in Lines : On(m.pq.d, x) => a[x] = m.vpc[x]
      BY <1>8, <1>10
    <3>2. HeapOf(Lines, m.pq, m.vpc)
      BY <1>1 DEF Heap
    <3> QED
      BY <3>1, <3>2, SamePriorities
  <2> QED
    BY <1>5, <2>1, <2>2, HeapTold
<1>14. Places(m2, st, w)
  BY <1>1, <1>5, <1>8, <1>9 DEF Places
<1>15. Counts(m2, st, NoLine)
  <2>1. CountIn(st, v, "valid") = 0 /\ CountIn(st, v, "invalid") = 0
    <3>1. \A p \in LinePages(v) : st[p] # "valid" /\ st[p] # "invalid"
      BY DEF LinePages
    <3> QED
      BY <3>1, CountNone
  <2> QED
    BY <1>1, <1>2, <1>5, <1>8, <1>10, <2>1 DEF Counts
<1>16. Room(m2, w) = Room(m, w) + PgsPerLine
  <2>1. PICK k, x, y : k = Len(m.free) * PgsPerLine /\ x = LineRoom(w["user"]) /\ y = LineRoom(w["gc"])
    OBVIOUS
  <2>2. /\ k \in Nat /\ x \in 1 .. PgsPerLine /\ y \in 1 .. PgsPerLine
        /\ Room(m, w) = k + x + y
    BY <1>6, <2>1, RoomParts
  <2>3. Len(f) = Len(m.free) + 1
    BY <1>2, <1>3, AppendProperties
  <2>4. Len(f) * PgsPerLine = k + PgsPerLine
    BY <1>2, <2>1, <2>3, FreeRoom
  <2>5. Room(m2, w) = (k + PgsPerLine) + x + y
    BY <1>5, <2>1, <2>4 DEF Room
  <2>6. PgsPerLine \in Nat
    BY Sizes
  <2> QED
    BY <2>2, <2>5, <2>6
<1> QED
  BY <1>3, <1>11, <1>12, <1>13, <1>14, <1>15, <1>16 DEF Sound

\* With too few free lines but nothing to collect, the closed lines are full of
\* valid pages, each with a logical page of its own.  There are no more of
\* these than fit on all lines but the open and the threshold ones: so the
\* threshold has just been reached, and there is no valid page on an open line.
LEMMA NothingToCollect ==
  ASSUME NEW m \in LineMgmt, NEW st \in Statuses, NEW w \in Pointers,
         Sound(m, st, w, NoLine), m.pq.d = <<>>, Len(m.free) <= Thres,
         NEW back, NEW table,
         \A q \in Pages : st[q] = "valid" => back[q] \in Lpns /\ table[back[q]] = q,
         NEW p \in Pages, st[p] = "valid"
  PROVE  Len(m.free) = Thres /\ LineOf(p) \in m.full
<1> DEFINE F == m.full
           G == {n \in Lines : On(m.free, n)}
           U == Luns
           B == Offsets
           x == LineOf(w["user"])
           y == LineOf(w["gc"])
           FP == {q \in Pages : LineOf(q) \in F}
           g == [z \in F \X (U \X B) |-> <<z[1], z[2][1], z[2][2]>>]
           W == FP \cup {p}
           f == [q \in W |-> back[q]]
<1>1. Lists(m, w, NoLine) /\ Counts(m, st, NoLine)
  BY DEF Sound
<1>2. F \in SUBSET Lines /\ m.free \in Seq(Lines) /\ Len(m.free) \in Nat /\ \A n : ~ On(m.pq.d, n)
  BY Fields, LenProperties DEF On
<1>3. \A q \in W : q \in Pages /\ st[q] = "valid"
  <2> SUFFICES ASSUME NEW q \in Pages, LineOf(q) \in F PROVE st[q] = "valid"
    OBVIOUS
  <2>1. LineOf(q) \in Lines /\ q \in LinePages(LineOf(q)) /\ LineOf(q) # NoLine
    BY PageFacts, NoLineFact DEF LinePages
  <2>2. CountIn(st, LineOf(q), "valid") = PgsPerLine
    BY <1>1, <2>1 DEF Counts
  <2> QED
    BY <2>1, <2>2, CountAll
<1>4. f \in Injection(W, Lpns)
  <2>1. f \in [W -> Lpns]
    BY <1>3
  <2>2. ASSUME NEW q \in W, NEW q2 \in W, f[q] = f[q2] PROVE q = q2
    <3>1. back[q] = back[q2]
      BY <2>2
    <3> HIDE DEF f, W
    <3> QED
      BY <1>3, <3>1
  <2> HIDE DEF f, W
  <2> QED
    BY <2>1, <2>2 DEF Injection, IsInjective
<1>5. /\ IsFiniteSet(U) /\ Cardinality(U) = NrLuns
      /\ IsFiniteSet(B) /\ Cardinality(B) = PgsPerBlk
      /\ IsFiniteSet(Lines) /\ Cardinality(Lines) = NrLines
  BY Sizes, UpToSize DEF Lines, Luns, Offsets
<1>6. g \in Bijection(F \X (U \X B), FP)
  <2>1. g \in [F \X (U \X B) -> FP]
    BY <1>2, PageFacts
  <2>2. \A z, z2 \in F \X (U \X B) : g[z] = g[z2] => z = z2
    OBVIOUS
  <2>3. \A q \in FP : \E z \in F \X (U \X B) : g[z] = q
    <3> SUFFICES ASSUME NEW q \in FP PROVE \E z \in F \X (U \X B) : g[z] = q
      OBVIOUS
    <3>1. <<q[1], <<q[2], q[3]>>>> \in F \X (U \X B) /\ g[<<q[1], <<q[2], q[3]>>>>] = q
      BY PageFacts
    <3> QED
      BY <3>1
  <2> HIDE DEF g, F, U, B, FP
  <2> QED
    BY <2>1, <2>2, <2>3 DEF Bijection, Injection, Surjection, IsInjective
<1>7. Lines \subseteq ((F \cup G) \cup {x}) \cup {y}
  <2>1. Pair("user", "gc")
    BY DEF Pair
  <2> SUFFICES ASSUME NEW n \in Lines PROVE n \in ((F \cup G) \cup {x}) \cup {y}
    OBVIOUS
  <2>2. InOne(m, n, x, y, NoLine) /\ n # NoLine
    BY <1>1, <2>1, EitherOrder, NoLineFact
  <2> QED
    BY <1>2, <2>2, OnePlace
<1>8. IsFiniteSet(G) /\ Cardinality(G) \in Nat /\ Cardinality(G) <= Len(m.free)
  BY <1>2, HeldCounted, FS_CardinalityType
<1>9. (p \in FP => W = FP) /\ (p \notin FP => W = FP \cup {p}) /\ (p \in FP <=> LineOf(p) \in F)
  OBVIOUS
<1> HIDE DEF F, G, U, B, x, y, FP, g, W, f
<1>10. IsFiniteSet(F) /\ Cardinality(F) \in Nat
  <2>1. IsFiniteSet(F)
    BY <1>2, <1>5, FS_Subset
  <2> QED
    BY <2>1, FS_CardinalityType
<1>11. IsFiniteSet(FP) /\ Cardinality(FP) = Cardinality(F) * PgsPerLine /\ Cardinality(FP) \in Nat
  <2>1. IsFiniteSet(U \X B) /\ Cardinality(U \X B) = PgsPerLine
    BY <1>5, FS_Product DEF PgsPerLine
  <2>2. IsFiniteSet(F \X (U \X B)) /\ Cardinality(F \X (U \X B)) = Cardinality(F) * PgsPerLine
    BY <1>10, <2>1, FS_Product
  <2>3. IsFiniteSet(FP) /\ Cardinality(FP) = Cardinality(F) * PgsPerLine
    BY <1>6, <2>2, FS_Bijection DEF ExistsBijection
  <2> QED
    BY <2>3, FS_CardinalityType
<1>12. Cardinality(W) <= Cardinality(Lpns)
  BY <1>4, Sizes, FS_Injection
<1>13. NrLines <= Cardinality(F) + Cardinality(G) + 2
  <2>1. /\ IsFiniteSet(F \cup G) /\ Cardinality(F \cup G) \in Nat
        /\ Cardinality(F \cup G) <= Cardinality(F) + Cardinality(G)
    <3>1. /\ IsFiniteSet(F \cup G)
          /\ Cardinality(F \cup G) = Cardinality(F) + Cardinality(G) - Cardinality(F \cap G)
      BY <1>8, <1>10, FS_Union
    <3>2. IsFiniteSet(F \cap G)
      BY <1>8, <1>10, FS_Intersection
    <3>3. Cardinality(F \cap G) \in Nat /\ Cardinality(F \cup G) \in Nat
      BY <3>1, <3>2, FS_CardinalityType
    <3> QED
      BY <1>8, <1>10, <3>1, <3>3
  <2>2. \A S : \A e : IsFiniteSet(S) =>
          IsFiniteSet(S \cup {e}) /\ Cardinality(S \cup {e}) <= Cardinality(S) + 1
                                  /\ Cardinality(S \cup {e}) \in Nat
    <3> SUFFICES ASSUME NEW S, NEW e, IsFiniteSet(S)
                 PROVE  IsFiniteSet(S \cup {e}) /\ Cardinality(S \cup {e}) <= Cardinality(S) + 1
                                                /\ Cardinality(S \cup {e}) \in Nat
      OBVIOUS
    <3>1. /\ IsFiniteSet(S \cup {e})
          /\ Cardinality(S \cup {e}) = IF e \in S THEN Cardinality(S) ELSE Cardinality(S) + 1
      BY FS_AddElement
    <3>2. Cardinality(S) \in Nat
      BY FS_CardinalityType
    <3> QED
      BY <3>1, <3>2
  <2>3. PICK S1 : S1 = (F \cup G) \cup {x}
    OBVIOUS
  <2>4. IsFiniteSet(S1) /\ Cardinality(S1) <= Cardinality(F \cup G) + 1 /\ Cardinality(S1) \in Nat
    BY <2>1, <2>2, <2>3
  <2>5. PICK S2 : S2 = S1 \cup {y}
    OBVIOUS
  <2>6. IsFiniteSet(S2) /\ Cardinality(S2) <= Cardinality(S1) + 1 /\ Cardinality(S2) \in Nat
    BY <2>2, <2>4, <2>5
  <2>7. Cardinality(Lines) <= Cardinality(S2)
    <3>1. Lines \in SUBSET S2
      BY <1>7, <2>3, <2>5
    <3> QED
      BY <2>6, <3>1, FS_Subset
  <2> QED
    BY <1>5, <1>8, <1>10, <2>1, <2>4, <2>6, <2>7, Sizes
<1>14. PICK a, c, k, P, L : /\ a = Cardinality(F) /\ c = NrLines - Thres - 2 /\ P = PgsPerLine
                            /\ k = Cardinality(G) /\ L = Cardinality(Lpns)
  OBVIOUS
<1>15. /\ a \in Nat /\ c \in Nat /\ P \in Nat \ {0} /\ k \in Nat /\ L \in Nat /\ L <= c * P
       /\ k <= Len(m.free) /\ c <= a + k - Thres /\ Thres \in Nat
  <2>1. NrLines \in Nat /\ Thres \in Nat /\ NrLines >= Thres + 2
    BY Sizes
  <2> QED
    BY <1>8, <1>10, <1>13, <1>14, <2>1, Sizes, SMTT(30)
<1>16. \A i, j \in Nat, u \in Nat \ {0} : /\ i * u <= j * u => i <= j
                                         /\ i * u < j * u => i < j
                                         /\ i * u \in Nat
  <2> SUFFICES ASSUME NEW i \in Nat, NEW j \in Nat, NEW u \in Nat \ {0}
               PROVE  (i * u <= j * u => i <= j) /\ (i * u < j * u => i < j) /\ i * u \in Nat
    OBVIOUS
  <2>1. j < i => i * u >= j * u + u
    <3> SUFFICES ASSUME j < i PROVE i * u >= j * u + u
      OBVIOUS
    <3>1. PICK d \in Nat : i = j + 1 + d
      <4>1. i - j - 1 \in Nat /\ i = j + 1 + (i - j - 1)
        OBVIOUS
      <4> QED
        BY <4>1
    <3>2. i * u = j * u + u + d * u /\ d * u \in Nat /\ j * u \in Nat
      BY <3>1
    <3> QED
      BY <3>2
  <2>2. i * u \in Nat /\ j * u \in Nat
    OBVIOUS
  <2>3. i <= j \/ j < i
    OBVIOUS
  <2>4. i < j \/ i = j \/ j < i
    OBVIOUS
  <2> QED
    BY <2>1, <2>2, <2>3, <2>4
<1>17. CASE p \in FP
  <2>1. a * P <= L
    BY <1>9, <1>11, <1>12, <1>14, <1>17
  <2>2. a * P <= c * P
    <3>1. a * P \in Nat /\ c * P \in Nat
      BY <1>15, <1>16
    <3> QED
      BY <1>15, <2>1, <3>1
  <2>3. a <= c
    BY <1>15, <1>16, <2>2
  <2>4. k >= Thres
    BY <1>15, <2>3
  <2> QED
    BY <1>2, <1>9, <1>15, <1>17, <2>4 DEF F
<1>18. CASE p \notin FP
  <2>1. Cardinality(W) = Cardinality(FP) + 1
    BY <1>9, <1>11, <1>18, FS_AddElement
  <2>2. a * P + 1 <= L
    BY <1>11, <1>12, <1>14, <2>1
  <2>3. a * P < c * P
    <3>1. a * P \in Nat /\ c * P \in Nat
      BY <1>15, <1>16
    <3> QED
      BY <1>15, <2>2, <3>1
  <2>4. a < c
    BY <1>15, <1>16, <2>3
  <2>5. k > Thres
    BY <1>15, <2>4
  <2> QED
    BY <1>2, <1>15, <2>5
<1> QED
  BY <1>17, <1>18

-----------------------------------------------------------------------------
(* How cleaning goes on. *)

\* Of the pages of a block, the later ones come later.
LEMMA OrderMonotone ==
  ASSUME NEW k \in Nat \ {0}, NEW l \in Luns, NEW j \in Nat, NEW j2 \in Nat, j <= j2
  PROVE  Order(k, l, j) <= Order(k, l, j2)
<1>1. PICK q, r, q2, r2, kL, c :
        q = j \div k /\ r = j % k /\ q2 = j2 \div k /\ r2 = j2 % k /\ kL = k * NrLuns /\ c = k * l
  OBVIOUS
<1>2. /\ kL \in Nat \ {0} /\ q \in Nat /\ r \in 0 .. k - 1 /\ c + r \in 0 .. kL - 1
      /\ j = k * q + r /\ Order(k, l, j) \in Nat
  BY <1>1, OrderParts
<1>3. /\ q2 \in Nat /\ r2 \in 0 .. k - 1 /\ c + r2 \in 0 .. kL - 1
      /\ j2 = k * q2 + r2 /\ Order(k, l, j2) \in Nat
  BY <1>1, OrderParts
<1>4. Order(k, l, j) = kL * q + (c + r) /\ Order(k, l, j2) = kL * q2 + (c + r2)
  BY <1>1 DEF Order
<1>5. c \in Nat
  BY <1>1 DEF Luns
<1>6. PICK a : a = kL * q
  OBVIOUS
<1>7. a \in Nat
  BY <1>2, <1>6
<1>8. CASE q = q2
  <2>1. PICK b : b = k * q
    OBVIOUS
  <2>2. b \in Nat /\ b + r <= b + r2
    BY <1>2, <1>3, <1>8, <2>1
  <2>3. r <= r2
    BY <1>2, <1>3, <2>2
  <2> QED
    BY <1>2, <1>3, <1>4, <1>5, <1>6, <1>7, <1>8, <2>3
<1>9. CASE q < q2
  <2>1. PICK d \in Nat : q2 = q + 1 + d
    <3>1. q2 - q - 1 \in Nat /\ q2 = q + 1 + (q2 - q - 1)
      BY <1>2, <1>3, <1>9
    <3> QED
      BY <3>1
  <2>2. kL * q2 = a + kL + kL * d /\ kL * d \in Nat
    BY <1>2, <1>6, <2>1
  <2>3. PICK e : e = kL * d
    OBVIOUS
  <2>4. Order(k, l, j2) = a + kL + e + (c + r2) /\ Order(k, l, j) = a + (c + r) /\ e \in Nat
    BY <1>4, <1>6, <2>2, <2>3
  <2>5. PICK s, s2 : s = c + r /\ s2 = c + r2
    OBVIOUS
  <2>6. s \in Nat /\ s2 \in Nat /\ s < kL /\ kL \in Nat
    BY <1>2, <1>3, <2>5
  <2> QED
    BY <1>7, <2>4, <2>5, <2>6
<1>10. CASE q2 < q
  <2>1. PICK d \in Nat : q = q2 + 1 + d
    <3>1. q - q2 - 1 \in Nat /\ q = q2 + 1 + (q - q2 - 1)
      BY <1>2, <1>3, <1>10
    <3> QED
      BY <3>1
  <2>2. k * q = k * q2 + k + k * d /\ k * d \in Nat /\ k * q2 \in Nat
    BY <1>3, <2>1
  <2>3. j2 < j
    BY <1>2, <1>3, <2>2
  <2> QED
    BY <2>3
<1> QED
  BY <1>2, <1>3, <1>8, <1>9, <1>10

\* The places of the pages of a line in the order of cleaning.
LEMMA RPlaces ==
  /\ \A p \in Pages : RPlace(p) \in 0 .. PgsPerLine - 1
  /\ \A p \in Pages : Order(FlashPgs, p[2], PgsPerBlk - 1) \in RPlace(p) .. PgsPerLine - 1
<1>1. /\ FlashPgs \in Nat \ {0} /\ PgsPerBlk % FlashPgs = 0
      /\ PgsPerBlk \in Nat \ {0} /\ PgsPerLine \in Nat \ {0}
  BY Sizes
<1>2. ASSUME NEW p \in Pages
      PROVE  /\ RPlace(p) \in 0 .. PgsPerLine - 1
             /\ Order(FlashPgs, p[2], PgsPerBlk - 1) \in RPlace(p) .. PgsPerLine - 1
  <2>1. PICK l, j, e : l = p[2] /\ j = p[3] /\ e = PgsPerBlk - 1
    OBVIOUS
  <2>2. l \in Luns /\ j \in Offsets /\ e \in Offsets /\ j \in Nat /\ e \in Nat /\ j <= e
    BY <1>1, <2>1, PageFacts DEF Offsets
  <2>3. Order(FlashPgs, l, j) \in 0 .. PgsPerLine - 1 /\ Order(FlashPgs, l, e) \in 0 .. PgsPerLine - 1
    BY <1>1, <2>2, OrderBound
  <2>4. Order(FlashPgs, l, j) <= Order(FlashPgs, l, e)
    BY <1>1, <2>2, OrderMonotone
  <2>5. RPlace(p) = Order(FlashPgs, l, j)
    BY <2>1 DEF RPlace
  <2> QED
    BY <1>1, <2>1, <2>3, <2>4, <2>5
<1> QED
  BY <1>2

\* The place of the page to be cleaned next, and where cleaning goes from there.
LEMMA CleaningGoesOn ==
  ASSUME Typed, Control, Cleaning
  PROVE  /\ GcPage \in Pages /\ LineOf(GcPage) = gc.victim /\ gc.victim \in Lines
         /\ gc.lun \in Luns /\ gc.pg \in Offsets /\ ReadTo \in Nat
         /\ RPlace(GcPage) = ReadTo
         /\ \A p \in Pages : LineOf(p) = gc.victim /\ RPlace(p) = ReadTo => p = GcPage
         /\ AfterPage \in [victim : Lines \cup {NoLine}, lun : Luns, pg : 0 .. PgsPerBlk, dead : BOOLEAN]
         /\ AfterPage.victim = gc.victim /\ AfterPage.dead = FALSE
         /\ (AfterPage.pg = PgsPerBlk => AfterPage.lun = 0)
         /\ Order(FlashPgs, AfterPage.lun, AfterPage.pg) = ReadTo + 1
<1>1. PICK v, l, j, k : v = gc.victim /\ l = gc.lun /\ j = gc.pg /\ k = FlashPgs
  OBVIOUS
<1>2. /\ gc = [victim |-> v, lun |-> l, pg |-> j, dead |-> FALSE]
      /\ v \in Lines /\ l \in Luns /\ j \in 0 .. PgsPerBlk /\ j < PgsPerBlk
  BY <1>1 DEF Typed, Control, Cleaning
<1>3. k \in Nat \ {0} /\ PgsPerBlk % k = 0 /\ NrLuns \in Nat \ {0} /\ PgsPerBlk \in Nat \ {0}
  BY <1>1, Sizes
<1>4. j \in Offsets
  BY <1>2, <1>3 DEF Offsets
<1>5. GcPage = <<v, l, j>> /\ GcPage \in Pages /\ LineOf(GcPage) = v
  BY <1>1, <1>2, <1>4, PageFacts DEF GcPage
<1>6. ReadTo = Order(k, l, j) /\ RPlace(GcPage) = ReadTo
  BY <1>1, <1>5 DEF ReadTo, RPlace
<1>7. ReadTo \in Nat
  BY <1>2, <1>3, <1>4, <1>6, OrderParts DEF Offsets
<1>8. ASSUME NEW p \in Pages, LineOf(p) = v, RPlace(p) = ReadTo PROVE p = GcPage
  <2>1. p = <<v, p[2], p[3]>> /\ p[2] \in Luns /\ p[3] \in Nat /\ j \in Nat
    BY <1>4, <1>8, PageFacts DEF Offsets
  <2>2. Order(k, p[2], p[3]) = Order(k, l, j)
    BY <1>1, <1>6, <1>8 DEF RPlace
  <2>3. p[2] = l /\ p[3] = j
    BY <1>2, <1>3, <2>1, <2>2, OrderOnce
  <2> QED
    BY <1>5, <2>1, <2>3
<1>9. PICK a : a = AfterPage
  OBVIOUS
<1>10. a = IF (j + 1) % k # 0 THEN [gc EXCEPT !.pg = j + 1]
           ELSE IF l + 1 # NrLuns THEN [gc EXCEPT !.lun = l + 1, !.pg = j + 1 - k]
           ELSE [gc EXCEPT !.lun = 0, !.pg = j + 1]
  BY <1>1, <1>9 DEF AfterPage
<1>11. /\ a.victim = v /\ a.dead = FALSE /\ a.lun \in Luns /\ a.pg \in 0 .. PgsPerBlk
       /\ a = [victim |-> a.victim, lun |-> a.lun, pg |-> a.pg, dead |-> a.dead]
       /\ (a.pg = PgsPerBlk => a.lun = 0)
       /\ Order(k, a.lun, a.pg) = ReadTo + 1
  <2>1. CASE (j + 1) % k # 0
    <3>4. k \in Nat \ {0} /\ PgsPerBlk % k = 0 /\ l \in Luns /\ j \in Offsets
      BY <1>2, <1>3, <1>4
    <3>1. j + 1 \in Offsets /\ Order(k, l, j + 1) = Order(k, l, j) + 1
      BY <2>1, <3>4, OrderNext
    <3>2. a = [victim |-> v, lun |-> l, pg |-> j + 1, dead |-> FALSE]
      BY <1>2, <1>10, <2>1
    <3>3. j + 1 \in 0 .. PgsPerBlk /\ j + 1 # PgsPerBlk
      BY <1>3, <3>1 DEF Offsets
    <3> QED
      BY <1>2, <1>6, <3>1, <3>2, <3>3
  <2>2. CASE (j + 1) % k = 0 /\ l + 1 # NrLuns
    <3>1. l + 1 \in Luns /\ j + 1 - k \in Offsets
          /\ Order(k, l + 1, j + 1 - k) = Order(k, l, j) + 1
      BY <1>2, <1>3, <1>4, <2>2, OrderNext
    <3>2. a = [victim |-> v, lun |-> l + 1, pg |-> j + 1 - k, dead |-> FALSE]
      BY <1>2, <1>10, <2>2
    <3>3. j + 1 - k \in 0 .. PgsPerBlk /\ j + 1 - k # PgsPerBlk
      BY <1>3, <3>1 DEF Offsets
    <3> QED
      BY <1>2, <1>6, <3>1, <3>2, <3>3
  <2>3. CASE (j + 1) % k = 0 /\ l + 1 = NrLuns
    <3>1. Order(k, 0, j + 1) = Order(k, l, j) + 1
      BY <1>2, <1>3, <1>4, <2>3, OrderNext
    <3>2. a = [victim |-> v, lun |-> 0, pg |-> j + 1, dead |-> FALSE]
      BY <1>2, <1>10, <2>3
    <3>3. j + 1 \in 0 .. PgsPerBlk /\ 0 \in Luns
      BY <1>2, <1>3 DEF Luns
    <3> QED
      BY <1>2, <1>6, <3>1, <3>2, <3>3
  <2> QED
    BY <2>1, <2>2, <2>3
<1>12. a \in [victim : Lines \cup {NoLine}, lun : Luns, pg : 0 .. PgsPerBlk, dead : BOOLEAN]
  BY <1>2, <1>11
<1> QED
  BY <1>1, <1>2, <1>4, <1>5, <1>6, <1>7, <1>8, <1>9, <1>11, <1>12

\* What passing a page does: it is passed as well; the pages of its block are
\* erased if it is the last one there, and all of these have been passed.
LEMMA PagePassed ==
  ASSUME Typed, Control, Cleaning, Cleaned, gc' = AfterPage
  PROVE  /\ \A p \in Pages : Passed(p)' <=> Passed(p) \/ p = GcPage
         /\ ~ Passed(GcPage)
         /\ Erased \in Statuses
         /\ \A p \in Pages : Erased[p] = status[p] \/ (Erased[p] = "free" /\ Passed(p)')
         /\ \A p \in Pages : LineOf(p) # gc.victim => Erased[p] = status[p]
         /\ \A p \in Pages :
              LineOf(p) = gc.victim /\ Order(FlashPgs, p[2], PgsPerBlk - 1) < ReadTo' =>
                Erased[p] = "free"
         /\ gc' \in [victim : Lines \cup {NoLine}, lun : Luns, pg : 0 .. PgsPerBlk, dead : BOOLEAN]
         /\ Control' /\ gc'.victim = gc.victim /\ gc.victim \in Lines
         /\ GcPage \in Pages /\ LineOf(GcPage) = gc.victim
<1>1. /\ GcPage \in Pages /\ LineOf(GcPage) = gc.victim /\ gc.victim \in Lines
      /\ gc.lun \in Luns /\ gc.pg \in Offsets /\ ReadTo \in Nat
      /\ RPlace(GcPage) = ReadTo
      /\ \A p \in Pages : LineOf(p) = gc.victim /\ RPlace(p) = ReadTo => p = GcPage
      /\ gc' \in [victim : Lines \cup {NoLine}, lun : Luns, pg : 0 .. PgsPerBlk, dead : BOOLEAN]
      /\ gc'.victim = gc.victim /\ gc'.dead = FALSE
      /\ (gc'.pg = PgsPerBlk => gc'.lun = 0)
      /\ Order(FlashPgs, gc'.lun, gc'.pg) = ReadTo + 1
  BY CleaningGoesOn
<1>2. ReadTo' = ReadTo + 1
  BY <1>1 DEF ReadTo
<1>3. \A p \in Pages : RPlace(p) \in Nat
  BY RPlaces
<1>4. \A p \in Pages : Passed(p)' <=> Passed(p) \/ p = GcPage
  <2> SUFFICES ASSUME NEW p \in Pages PROVE Passed(p)' <=> Passed(p) \/ p = GcPage
    OBVIOUS
  <2>1. Passed(p)' <=> LineOf(p) = gc.victim /\ RPlace(p) < ReadTo + 1
    BY <1>1, <1>2 DEF Passed
  <2>2. Passed(p) <=> LineOf(p) = gc.victim /\ RPlace(p) < ReadTo
    BY DEF Passed
  <2>3. RPlace(p) < ReadTo + 1 <=> RPlace(p) < ReadTo \/ RPlace(p) = ReadTo
    BY <1>1, <1>3
  <2> QED
    BY <1>1, <2>1, <2>2, <2>3
<1>5. ~ Passed(GcPage)
  BY <1>1 DEF Passed
<1>6. status \in Statuses
  BY DEF Typed
<1>7. PICK er : er = Erased
  OBVIOUS
<1>8. \/ gc.pg + 1 # PgsPerBlk /\ er = status
      \/ /\ gc.pg + 1 = PgsPerBlk
         /\ er = [p \in Pages |-> IF p[1] = gc.victim /\ p[2] = gc.lun THEN "free" ELSE status[p]]
  BY <1>7 DEF Erased
<1>9. /\ er \in Statuses
      /\ \A p \in Pages : er[p] = status[p]
           \/ (gc.pg + 1 = PgsPerBlk /\ LineOf(p) = gc.victim /\ p[2] = gc.lun /\ er[p] = "free")
      /\ gc.pg + 1 = PgsPerBlk => \A p \in Pages : LineOf(p) = gc.victim /\ p[2] = gc.lun => er[p] = "free"
  BY <1>6, <1>8, PageFacts DEF Statuses
<1>10. gc.pg + 1 = PgsPerBlk => Order(FlashPgs, gc.lun, PgsPerBlk - 1) = ReadTo
  <2>1. gc.pg \in Nat
    BY <1>1 DEF Offsets
  <2>2. gc.pg + 1 = PgsPerBlk => PgsPerBlk - 1 = gc.pg
    BY <2>1
  <2> QED
    BY <2>2 DEF ReadTo
<1>11. ASSUME NEW p \in Pages, gc.pg + 1 = PgsPerBlk, LineOf(p) = gc.victim, p[2] = gc.lun
       PROVE  Passed(p)'
  <2>1. RPlace(p) <= ReadTo /\ RPlace(p) \in Nat
    <3>1. ReadTo \in RPlace(p) .. PgsPerLine - 1 /\ RPlace(p) \in 0 .. PgsPerLine - 1
      BY <1>10, <1>11, RPlaces
    <3> QED
      BY <3>1
  <2>2. RPlace(p) < ReadTo + 1
    BY <1>1, <2>1
  <2> QED
    BY <1>1, <1>2, <1>11, <2>2 DEF Passed
<1>12. \A p \in Pages : er[p] = status[p] \/ (er[p] = "free" /\ Passed(p)')
  BY <1>9, <1>11
<1>13. ASSUME NEW p \in Pages, LineOf(p) = gc.victim,
              Order(FlashPgs, p[2], PgsPerBlk - 1) < ReadTo'
       PROVE  er[p] = "free"
  <2>1. Order(FlashPgs, p[2], PgsPerBlk - 1) \in Nat
    <3>1. /\ RPlace(p) \in Nat
          /\ Order(FlashPgs, p[2], PgsPerBlk - 1) \in RPlace(p) .. PgsPerLine - 1
      BY <1>3, RPlaces
    <3> QED
      BY <3>1
  <2>2. CASE Order(FlashPgs, p[2], PgsPerBlk - 1) < ReadTo
    <3>1. status[p] = "free"
      BY <1>13, <2>2 DEF Cleaned
    <3> QED
      BY <1>9, <3>1
  <2>3. CASE Order(FlashPgs, p[2], PgsPerBlk - 1) = ReadTo
    <3>1. p[2] \in Luns /\ gc.lun \in Luns /\ gc.pg \in Nat /\ PgsPerBlk \in Nat \ {0}
          /\ FlashPgs \in Nat \ {0}
      BY <1>1, PageFacts, Sizes DEF Offsets
    <3>2. PgsPerBlk - 1 \in Nat
      BY <3>1
    <3>3. Order(FlashPgs, p[2], PgsPerBlk - 1) = Order(FlashPgs, gc.lun, gc.pg)
      BY <2>3 DEF ReadTo
    <3>4. p[2] = gc.lun /\ PgsPerBlk - 1 = gc.pg
      BY <3>1, <3>2, <3>3, OrderOnce
    <3>5. gc.pg + 1 = PgsPerBlk
      BY <3>1, <3>4
    <3> QED
      BY <1>9, <1>13, <3>4, <3>5
  <2> QED
    BY <1>1, <1>2, <1>13, <2>1, <2>2, <2>3
<1>14. Control'
  <2>1. gc'.victim # NoLine
    BY <1>1, NoLineFact
  <2> QED
    BY <1>1, <2>1 DEF Control
<1> QED
  BY <1>1, <1>4, <1>5, <1>7, <1>9, <1>12, <1>13, <1>14

-----------------------------------------------------------------------------
(* The steps. *)

Credits == [credits : Nat, refill : 1 .. PgsPerLine]
Progress == [victim : Lines \cup {NoLine}, lun : Luns, pg : 0 .. PgsPerBlk, dead : BOOLEAN]

\* A set of valid pages of a line is finite, and no larger than their number.
LEMMA SomeValid ==
  ASSUME NEW st, NEW n \in Lines, NEW S, S \subseteq PagesIn(st, n, "valid")
  PROVE  /\ IsFiniteSet(S) /\ Cardinality(S) \in Nat
         /\ Cardinality(S) <= CountIn(st, n, "valid")
<1>1. IsFiniteSet(PagesIn(st, n, "valid")) /\ S \in SUBSET PagesIn(st, n, "valid")
  BY PagesInFinite
<1>2. IsFiniteSet(S) /\ Cardinality(S) <= CountIn(st, n, "valid")
  BY <1>1, FS_Subset DEF CountIn
<1> QED
  BY <1>2, FS_CardinalityType

\* There is nothing passed, and so nothing to be erased, when cleaning starts.
LEMMA NothingPassed ==
  ASSUME gc'.lun = 0, gc'.pg = 0
  PROVE  (\A p \in Pages : ~ Passed(p)') /\ Cleaned'
<1>1. ReadTo' = 0
  BY Sizes, OrderBound DEF ReadTo
<1>2. \A p \in Pages : /\ RPlace(p) \in Nat
                       /\ Order(FlashPgs, p[2], PgsPerBlk - 1) \in Nat
  <2> SUFFICES ASSUME NEW p \in Pages
               PROVE  RPlace(p) \in Nat /\ Order(FlashPgs, p[2], PgsPerBlk - 1) \in Nat
    OBVIOUS
  <2>1. /\ RPlace(p) \in 0 .. PgsPerLine - 1
        /\ Order(FlashPgs, p[2], PgsPerBlk - 1) \in RPlace(p) .. PgsPerLine - 1
    BY RPlaces
  <2> QED
    BY <2>1
<1>3. \A p \in Pages : ~ Passed(p)'
  BY <1>1, <1>2 DEF Passed
<1>4. Cleaned'
  BY <1>1, <1>2 DEF Cleaned
<1> QED
  BY <1>3, <1>4

\* The page that was written has been paid for.
LEMMA PaidKeeps ==
  ASSUME gc = Idle, wfc \in Credits, wfc.credits > 0,
         NEW m \in LineMgmt, status' \in Statuses, wp' \in Pointers,
         Sound(m, status', wp', NoLine),
         Room(m, wp') >= wfc.credits + PgsPerLine + PgsPerLine,
         m.pq.d = <<>> /\ Len(m.free) <= Thres =>
           Room(m, wp') > PgsPerLine + PgsPerLine + PgsPerLine,
         Paid(m)
  PROVE  /\ lm' \in LineMgmt /\ gc' \in Progress /\ wfc' \in Credits /\ Control'
         /\ Sound(lm', status', wp', gc'.victim) /\ EnoughRoom'
         /\ (\A p \in Pages : ~ Passed(p)') /\ Cleaned'
<1>1. PICK c, f, P : c = wfc.credits /\ f = wfc.refill /\ P = PgsPerLine
  OBVIOUS
<1>2. /\ wfc = [credits |-> c, refill |-> f] /\ c \in Nat \ {0} /\ f \in 1 .. P
      /\ P \in Nat \ {0}
  BY <1>1, Sizes DEF Credits
<1>3. Idle \in Progress /\ Idle.victim = NoLine /\ Idle.lun = 0 /\ Idle.pg = 0 /\ ~ Idle.dead
  BY Sizes DEF Idle, Progress, Luns
<1>4. PICK r : r = Room(m, wp')
  OBVIOUS
<1>5. r \in Nat /\ r >= c + P + P /\ Room(m, wp') = r
  <2>1. Pair("user", "gc")
    BY DEF Pair
  <2>2. Room(m, wp') \in Nat
    BY <2>1, RoomParts
  <2> QED
    BY <1>1, <1>4, <2>2
<1>6. ASSUME lm' = m, gc' = gc, NEW k \in Nat \ {0}, wfc' = [wfc EXCEPT !.credits = k],
             r > k + P + P
      PROVE  /\ lm' \in LineMgmt /\ gc' \in Progress /\ wfc' \in Credits /\ Control'
             /\ Sound(lm', status', wp', gc'.victim) /\ EnoughRoom'
             /\ (\A p \in Pages : ~ Passed(p)') /\ Cleaned'
  <2>1. gc' = Idle /\ gc' \in Progress /\ Control'
    BY <1>3, <1>6, Sizes DEF Control
  <2>2. wfc' = [credits |-> k, refill |-> f] /\ wfc' \in Credits
    BY <1>1, <1>2, <1>6 DEF Credits
  <2>3. EnoughRoom'
    <3>1. wfc'.credits = k /\ gc'.victim = NoLine
      BY <1>3, <2>1, <2>2
    <3>2. Room(lm', wp') = r
      BY <1>4, <1>6
    <3> QED
      BY <1>1, <1>6, <3>1, <3>2 DEF EnoughRoom
  <2>4. Sound(lm', status', wp', gc'.victim)
    BY <1>3, <1>6, <2>1
  <2>5. (\A p \in Pages : ~ Passed(p)') /\ Cleaned'
    BY <1>3, <2>1, NothingPassed
  <2> QED
    BY <1>6, <2>1, <2>2, <2>3, <2>4, <2>5
<1>7. CASE c - 1 > 0
  <2>1. lm' = m /\ gc' = gc /\ wfc' = [wfc EXCEPT !.credits = c - 1]
    BY <1>1, <1>7 DEF Paid
  <2>2. c - 1 \in Nat \ {0} /\ r > (c - 1) + P + P
    BY <1>2, <1>5, <1>7
  <2> QED
    BY <1>6, <2>1, <2>2
<1>8. CASE ~ (c - 1 > 0) /\ ~ (ShouldGcHigh(m) /\ m.pq.d # <<>>)
  <2>1. lm' = m /\ gc' = gc /\ wfc' = [wfc EXCEPT !.credits = f]
    BY <1>1, <1>8 DEF Paid
  <2>2. r > f + P + P
    <3>1. CASE m.pq.d = <<>> /\ Len(m.free) <= Thres
      <4>1. r > P + P + P
        BY <1>1, <1>4, <3>1
      <4> QED
        BY <1>2, <1>5, <4>1
    <3>2. CASE ~ (Len(m.free) <= Thres)
      <4>1. PICK k, x, y : k = Len(m.free) * P /\ x = LineRoom(wp'["user"]) /\ y = LineRoom(wp'["gc"])
        OBVIOUS
      <4>2. /\ k \in Nat /\ Len(m.free) \in Nat /\ x \in 1 .. P /\ y \in 1 .. P /\ r = k + x + y
        <5>1. Pair("user", "gc")
          BY DEF Pair
        <5> QED
          BY <1>1, <1>4, <4>1, <5>1, RoomParts
      <4>3. Len(m.free) >= 3
        <5>1. PICK n : n = Len(m.free)
          OBVIOUS
        <5>2. n \in Nat /\ ~ (n <= Thres)
          BY <3>2, <4>2, <5>1
        <5>3. Thres \in Nat /\ Thres >= 2
          BY Sizes
        <5>4. n >= 3
          BY <5>2, <5>3
        <5> QED
          BY <5>1, <5>4
      <4>4. k >= P + P + P
        <5>1. \A a, b \in Nat : a >= 3 => a * b >= b + b + b
          <6> SUFFICES ASSUME NEW a \in Nat, NEW b \in Nat, a >= 3 PROVE a * b >= b + b + b
            OBVIOUS
          <6>1. PICK d \in Nat : a = 3 + d
            <7>1. a - 3 \in Nat /\ a = 3 + (a - 3)
              OBVIOUS
            <7> QED
              BY <7>1
          <6>2. a * b = b + b + b + d * b /\ d * b \in Nat
            BY <6>1
          <6> QED
            BY <6>2
        <5> QED
          BY <1>2, <4>1, <4>2, <4>3, <5>1
      <4> QED
        BY <1>2, <4>2, <4>4
    <3> QED
      BY <1>8, <3>1, <3>2 DEF ShouldGcHigh
  <2>3. f \in Nat \ {0}
    BY <1>2
  <2> QED
    BY <1>6, <2>1, <2>2, <2>3
<1>9. CASE ~ (c - 1 > 0) /\ ShouldGcHigh(m) /\ m.pq.d # <<>>
  <2>1. VictimTaken(m)
    BY <1>1, <1>9 DEF Paid
  <2>2. PICK v, i : v = Peek(m.pq) /\ i = m.ipc[v]
    OBVIOUS
  <2>3. /\ lm' = WithoutPeek(m) /\ gc' = [Idle EXCEPT !.victim = v]
        /\ wfc' = [credits |-> 0, refill |-> i]
    BY <2>1, <2>2 DEF VictimTaken, WithoutPeek
  <2>4. /\ v \in Lines /\ lm' \in LineMgmt /\ lm'.free = m.free
        /\ Sound(lm', status', wp', v) /\ i \in 1 .. P
        /\ i + CountIn(status', v, "valid") = P
    BY <1>1, <1>9, <2>2, <2>3, Taken
  <2>5. gc' = [victim |-> v, lun |-> 0, pg |-> 0, dead |-> FALSE]
    BY <2>3 DEF Idle
  <2>6. gc' \in Progress /\ Control'
    <3>1. 0 \in Luns /\ 0 \in 0 .. PgsPerBlk /\ v # NoLine /\ 0 # PgsPerBlk
      BY <2>4, Sizes, NoLineFact DEF Luns
    <3> QED
      BY <2>4, <2>5, <3>1 DEF Progress, Control
  <2>7. wfc' \in Credits
    BY <1>1, <2>3, <2>4 DEF Credits
  <2>8. EnoughRoom'
    <3>1. Room(lm', wp') = r
      BY <1>4, <2>4 DEF Room
    <3>2. PICK t : t = Cardinality(ToCopy')
      OBVIOUS
    <3>3. t \in Nat /\ t <= CountIn(status', v, "valid")
      <4>1. ToCopy' \subseteq PagesIn(status', v, "valid")
        BY <2>5 DEF ToCopy, PagesIn
      <4> QED
        BY <2>4, <3>2, <4>1, SomeValid
    <3>4. CountIn(status', v, "valid") \in 0 .. P
      BY <1>1, <2>4, CountRange
    <3>5. r > P + i + t
      <4>1. PICK n : n = CountIn(status', v, "valid")
        OBVIOUS
      <4>2. n \in 0 .. P /\ i \in 1 .. P /\ i + n = P /\ t <= n /\ t \in Nat
        BY <2>4, <3>3, <3>4, <4>1
      <4> QED
        BY <1>2, <1>5, <4>2
    <3>6. gc'.victim # NoLine /\ wfc'.credits = 0 /\ wfc'.refill = i
      BY <2>3, <2>4, <2>5, NoLineFact
    <3> QED
      BY <1>1, <3>1, <3>2, <3>5, <3>6 DEF EnoughRoom
  <2>9. (\A p \in Pages : ~ Passed(p)') /\ Cleaned'
    BY <2>5, NothingPassed
  <2> QED
    BY <2>4, <2>5, <2>6, <2>7, <2>8, <2>9
<1> QED
  BY <1>7, <1>8, <1>9

\* With more room than another line's, a write pointer at the end of its line
\* finds a free line.
LEMMA Lives ==
  ASSUME NEW m \in LineMgmt, wp \in Pointers, Room(m, wp) > PgsPerLine + 1,
         NEW io \in {"user", "gc"}
  PROVE  ~ Dies(m, io)
<1> SUFFICES ASSUME AtEnd(wp[io]), m.free = <<>> PROVE FALSE
  BY DEF Dies
<1>1. PICK oth : Pair(io, oth)
  <2>1. Pair("user", "gc") /\ Pair("gc", "user")
    BY DEF Pair
  <2> QED
    BY <2>1
<1>2. wp[io] \in Pages
  BY DEF Pointers
<1>3. PICK P, x, y, r : P = PgsPerLine /\ x = LineRoom(wp[io]) /\ y = LineRoom(wp[oth]) /\ r = Room(m, wp)
  OBVIOUS
<1>4. P \in Nat \ {0} /\ r > P + 1
  BY <1>3, Sizes
<1>5. x \in 1 .. P /\ y \in 1 .. P /\ r = Len(m.free) * PgsPerLine + x + y
  BY <1>1, <1>3, RoomParts
<1>6. Len(m.free) * PgsPerLine = 0
  <2>1. Len(m.free) = 0
    OBVIOUS
  <2>2. \A k \in Nat : 0 * k = 0
    OBVIOUS
  <2> QED
    BY <2>1, <2>2, Sizes
<1>7. x = 1
  <2>1. WPlace(wp[io]) = P - 1
    BY <1>2, <1>3, WPlaces
  <2> QED
    BY <1>3, <1>4, <2>1 DEF LineRoom
<1> QED
  BY <1>4, <1>5, <1>6, <1>7

\* What a write does to the tables.
Mapped(l, np, old, st) ==
  /\ maptbl' = [maptbl EXCEPT ![l] = np] /\ status' = [st EXCEPT ![np] = "valid"]
  /\ rmap' \in [Pages -> Lpns \cup {NoLpn}]
  /\ \A p \in Pages : rmap'[p] = IF p = np THEN l ELSE IF p = old THEN NoLpn ELSE rmap[p]
  /\ st \in Statuses
  /\ \A p \in Pages : st[p] = IF p = old THEN "invalid" ELSE status[p]

\* With nothing being cleaned the tables agree on every valid page.
LEMMA TablesKept ==
  ASSUME Typed, Tables, \A p \in Pages : ~ Passed(p),
         NEW l \in Lpns, NEW np \in Pages, NEW old, old = maptbl[l], NEW st,
         Mapped(l, np, old, st), st[np] = "free"
  PROVE  /\ maptbl' \in [Lpns -> Pages \cup {Unmapped}]
         /\ \A k \in Lpns : maptbl'[k] # Unmapped =>
              status'[maptbl'[k]] = "valid" /\ rmap'[maptbl'[k]] = k
         /\ \A p \in Pages : status'[p] = "valid" => rmap'[p] \in Lpns /\ maptbl'[rmap'[p]] = p
<1>1. /\ maptbl \in [Lpns -> Pages \cup {Unmapped}] /\ rmap \in [Pages -> Lpns \cup {NoLpn}]
      /\ status \in Statuses
  BY DEF Typed
<1>2. np # old /\ status[np] = "free"
  BY DEF Mapped
<1>3. /\ maptbl' \in [Lpns -> Pages \cup {Unmapped}]
      /\ \A k \in Lpns : maptbl'[k] = IF k = l THEN np ELSE maptbl[k]
  BY <1>1 DEF Mapped
<1>4. \A p \in Pages : status'[p] = IF p = np THEN "valid" ELSE IF p = old THEN "invalid" ELSE status[p]
  BY DEF Mapped, Statuses
<1>5. \A p \in Pages : rmap'[p] = IF p = np THEN l ELSE IF p = old THEN NoLpn ELSE rmap[p]
  BY DEF Mapped
<1>6. /\ \A k \in Lpns : maptbl[k] # Unmapped => status[maptbl[k]] = "valid" /\ rmap[maptbl[k]] = k
      /\ \A p \in Pages : status[p] = "valid" => rmap[p] \in Lpns /\ maptbl[rmap[p]] = p
  BY <1>1 DEF Tables
<1>7. ASSUME NEW k \in Lpns, maptbl'[k] # Unmapped
      PROVE  status'[maptbl'[k]] = "valid" /\ rmap'[maptbl'[k]] = k
  <2>1. CASE k = l
    BY <1>3, <1>4, <1>5, <2>1
  <2>2. CASE k # l
    <3>1. PICK p : p = maptbl[k]
      OBVIOUS
    <3>2. maptbl'[k] = p /\ p # Unmapped /\ p \in Pages
      BY <1>1, <1>3, <1>7, <2>2, <3>1
    <3>3. status[p] = "valid" /\ rmap[p] = k
      BY <1>6, <3>1, <3>2
    <3>4. p # np
      BY <1>2, <3>3
    <3>5. p # old
      <4>1. old # Unmapped => rmap[old] = l
        BY <1>6
      <4> QED
        BY <2>2, <3>2, <3>3, <4>1
    <3> QED
      BY <1>4, <1>5, <3>2, <3>3, <3>4, <3>5
  <2> QED
    BY <2>1, <2>2
<1>8. ASSUME NEW p \in Pages, status'[p] = "valid"
      PROVE  rmap'[p] \in Lpns /\ maptbl'[rmap'[p]] = p
  <2>1. CASE p = np
    BY <1>3, <1>5, <2>1
  <2>2. CASE p # np
    <3>1. p # old /\ status[p] = "valid"
      BY <1>4, <1>8, <2>2
    <3>2. rmap[p] \in Lpns /\ maptbl[rmap[p]] = p /\ rmap'[p] = rmap[p]
      BY <1>5, <1>6, <2>2, <3>1
    <3>3. rmap[p] # l
      BY <3>1, <3>2
    <3> QED
      BY <1>3, <3>2, <3>3
  <2> QED
    BY <2>1, <2>2
<1> QED
  BY <1>3, <1>7, <1>8

\* A page of a write command keeps the invariant.
LEMMA WritePageKeeps ==
  ASSUME IInv, NEW l \in Lpns, WritePage(l)
  PROVE  IInv'
<1>1. PICK old, np, m, st, m2 :
        /\ old = maptbl[l] /\ np = wp["user"]
        /\ m = IF old = Unmapped THEN lm ELSE MarkInvalid(lm, LineOf(old))
        /\ st = IF old = Unmapped THEN status ELSE [status EXCEPT ![old] = "invalid"]
        /\ m2 = Written(m, "user")
  OBVIOUS
<1>2. Typed /\ Control /\ Tables /\ EnoughRoom /\ Sound(lm, status, wp, gc.victim)
  BY DEF IInv
<1>3. /\ maptbl \in [Lpns -> Pages \cup {Unmapped}] /\ rmap \in [Pages -> Lpns \cup {NoLpn}]
      /\ status \in Statuses /\ lm \in LineMgmt /\ wp \in Pointers /\ wfc \in Credits
  BY <1>2 DEF Typed, Credits
<1>4. gc = Idle /\ gc.victim = NoLine
  BY DEF WritePage, Idle
<1>5. \A p \in Pages : ~ Passed(p) /\ LineOf(p) # NoLine
  BY <1>4, PageFacts, NoLineFact DEF Passed
<1>6. np \in Pages
  BY <1>1, <1>3 DEF Pointers
<1>7. old # Unmapped => old \in Pages /\ status[old] = "valid" /\ rmap[old] = l
  BY <1>1, <1>2, <1>3 DEF Tables
<1>8. m \in LineMgmt /\ st \in Statuses /\ m.free = lm.free /\ Sound(m, st, wp, NoLine)
  <2>1. CASE old = Unmapped
    BY <1>1, <1>2, <1>3, <1>4, <2>1
  <2>2. CASE old # Unmapped
    <3>1. /\ lm \in LineMgmt /\ status \in Statuses /\ wp \in Pointers
          /\ Sound(lm, status, wp, NoLine)
          /\ old \in Pages /\ status[old] = "valid" /\ LineOf(old) # NoLine
      BY <1>2, <1>3, <1>4, <1>5, <1>7, <2>2
    <3>2. m = MarkInvalid(lm, LineOf(old)) /\ st = [status EXCEPT ![old] = "invalid"]
      BY <1>1, <2>2
    <3>3. /\ MarkInvalid(lm, LineOf(old)) \in LineMgmt
          /\ [status EXCEPT ![old] = "invalid"] \in Statuses
          /\ MarkInvalid(lm, LineOf(old)).free = lm.free
          /\ Sound(MarkInvalid(lm, LineOf(old)), [status EXCEPT ![old] = "invalid"], wp, NoLine)
      BY <3>1, Invalidated
    <3> QED
      BY <3>2, <3>3
  <2> QED
    BY <2>1, <2>2
<1>9. PICK c, P, r : c = wfc.credits /\ P = PgsPerLine /\ r = Room(m, wp)
  OBVIOUS
<1>10. c \in Nat /\ c > 0 /\ P \in Nat \ {0} /\ r \in Nat /\ r > c + P + P
  <2>1. Room(lm, wp) = r
    BY <1>8, <1>9 DEF Room
  <2>2. r \in Nat
    <3>1. Pair("user", "gc")
      BY DEF Pair
    <3> QED
      BY <1>3, <1>8, <1>9, <3>1, RoomParts
  <2>3. wfc.credits > 0 /\ Room(lm, wp) > wfc.credits + PgsPerLine + PgsPerLine
    BY <1>2, <1>4 DEF EnoughRoom
  <2>4. c \in Nat
    BY <1>3, <1>9 DEF Credits
  <2> QED
    BY <1>9, <2>1, <2>2, <2>3, <2>4, Sizes
<1>11. ~ Dies(m, "user")
  <2>1. r > P + 1
    BY <1>10
  <2>2. m \in LineMgmt /\ wp \in Pointers /\ Room(m, wp) > PgsPerLine + 1 /\ "user" \in {"user", "gc"}
    BY <1>3, <1>8, <1>9, <2>1
  <2> QED
    BY <2>2, Lives
<1>12. Program(m, st, "user", l) /\ Paid(m2)
       /\ rmap' = IF old = Unmapped THEN [rmap EXCEPT ![np] = l]
                  ELSE [rmap EXCEPT ![old] = NoLpn, ![np] = l]
  BY <1>1, <1>11 DEF WritePage
<1>13. /\ maptbl' = [maptbl EXCEPT ![l] = np] /\ status' = [st EXCEPT ![np] = "valid"]
       /\ wp' = Onward(m, "user")
  BY <1>1, <1>12 DEF Program, Onward
<1>14. /\ st[np] = "free" /\ status' \in Statuses
       /\ m2 \in LineMgmt /\ wp' \in Pointers /\ Sound(m2, status', wp', NoLine)
       /\ Room(m2, wp') = r - 1
  <2>1. /\ m \in LineMgmt /\ st \in Statuses /\ wp \in Pointers /\ Sound(m, st, wp, NoLine)
        /\ "user" \in {"user", "gc"} /\ ~ Dies(m, "user")
        /\ status' = [st EXCEPT ![wp["user"]] = "valid"]
    BY <1>1, <1>3, <1>8, <1>11, <1>13
  <2>2. /\ st[wp["user"]] = "free" /\ status' \in Statuses
        /\ Written(m, "user") \in LineMgmt /\ Onward(m, "user") \in Pointers
        /\ Sound(Written(m, "user"), status', Onward(m, "user"), NoLine)
        /\ Room(Written(m, "user"), Onward(m, "user")) = Room(m, wp) - 1
    BY <2>1, Programmed
  <2> QED
    BY <1>1, <1>9, <1>13, <2>2
<1>15. Mapped(l, np, old, st)
  <2>1. /\ rmap' \in [Pages -> Lpns \cup {NoLpn}]
        /\ \A p \in Pages : rmap'[p] = IF p = np THEN l ELSE IF p = old THEN NoLpn ELSE rmap[p]
    BY <1>3, <1>6, <1>7, <1>12, PageFacts
  <2>2. \A p \in Pages : st[p] = IF p = old THEN "invalid" ELSE status[p]
    BY <1>1, <1>3, <1>7, PageFacts DEF Statuses
  <2> QED
    BY <1>8, <1>13, <2>1, <2>2 DEF Mapped
<1>16. /\ maptbl' \in [Lpns -> Pages \cup {Unmapped}]
       /\ \A k \in Lpns : maptbl'[k] # Unmapped =>
            status'[maptbl'[k]] = "valid" /\ rmap'[maptbl'[k]] = k
       /\ \A p \in Pages : status'[p] = "valid" => rmap'[p] \in Lpns /\ maptbl'[rmap'[p]] = p
  BY <1>1, <1>2, <1>5, <1>6, <1>14, <1>15, TablesKept
<1>17. m2.pq.d = <<>> /\ Len(m2.free) <= Thres => Room(m2, wp') > P + P + P
  <2> SUFFICES ASSUME m2.pq.d = <<>>, Len(m2.free) <= Thres PROVE Room(m2, wp') > P + P + P
    OBVIOUS
  <2>1. status'[np] = "valid"
    BY <1>6, <1>8, <1>13 DEF Statuses
  <2>2. Len(m2.free) = Thres /\ LineOf(np) \in m2.full
    <3>1. /\ m2 \in LineMgmt /\ status' \in Statuses /\ wp' \in Pointers
          /\ Sound(m2, status', wp', NoLine) /\ m2.pq.d = <<>> /\ Len(m2.free) <= Thres
          /\ \A q \in Pages : status'[q] = "valid" => rmap'[q] \in Lpns /\ maptbl'[rmap'[q]] = q
          /\ np \in Pages /\ status'[np] = "valid"
      BY <1>6, <1>14, <1>16, <2>1
    <3> QED
      BY <3>1, NothingToCollect
  <2>3. LineOf(np) # LineOf(wp'["user"])
    <3>1. Pair("user", "gc")
      BY DEF Pair
    <3>2. InOne(m2, LineOf(np), LineOf(wp'["user"]), LineOf(wp'["gc"]), NoLine)
      <4>1. Lists(m2, wp', NoLine) /\ LineOf(np) \in Lines
        BY <1>6, <1>14, PageFacts DEF Sound
      <4> QED
        BY <3>1, <4>1, EitherOrder
    <3> QED
      BY <2>2, <3>2, OnePlace
  <2>4. WPlace(wp'["user"]) = 0
    BY <1>1, <1>3, <1>8, <1>11, <1>13, <2>3, OnwardPlace
  <2>5. LineRoom(wp'["user"]) = P
    BY <1>9, <1>10, <2>4 DEF LineRoom
  <2>6. PICK k, y : k = Len(m2.free) * P /\ y = LineRoom(wp'["gc"])
    OBVIOUS
  <2>7. k \in Nat /\ y \in 1 .. P /\ Room(m2, wp') = k + P + y
    <3>1. Pair("user", "gc")
      BY DEF Pair
    <3> QED
      BY <1>9, <1>14, <2>5, <2>6, <3>1, RoomParts
  <2>8. k >= P + P
    <3>1. \A a, b \in Nat : a >= 2 => a * b >= b + b
      <4> SUFFICES ASSUME NEW a \in Nat, NEW b \in Nat, a >= 2 PROVE a * b >= b + b
        OBVIOUS
      <4>1. PICK d \in Nat : a = 2 + d
        <5>1. a - 2 \in Nat /\ a = 2 + (a - 2)
          OBVIOUS
        <5> QED
          BY <5>1
      <4>2. a * b = b + b + d * b /\ d * b \in Nat
        BY <4>1
      <4> QED
        BY <4>2
    <3>2. Thres \in Nat /\ Thres >= 2 /\ k = Thres * P
      BY <2>2, <2>6, Sizes
    <3> QED
      BY <1>10, <3>1, <3>2
  <2> QED
    BY <1>10, <2>7, <2>8
<1>18. /\ lm' \in LineMgmt /\ gc' \in Progress /\ wfc' \in Credits /\ Control'
       /\ Sound(lm', status', wp', gc'.victim) /\ EnoughRoom'
       /\ (\A p \in Pages : ~ Passed(p)') /\ Cleaned'
  <2>1. r - 1 >= c + P + P
    BY <1>10
  <2>2. /\ gc = Idle /\ wfc \in Credits /\ wfc.credits > 0
        /\ m2 \in LineMgmt /\ status' \in Statuses /\ wp' \in Pointers
        /\ Sound(m2, status', wp', NoLine)
        /\ Room(m2, wp') >= wfc.credits + PgsPerLine + PgsPerLine
        /\ (m2.pq.d = <<>> /\ Len(m2.free) <= Thres =>
             Room(m2, wp') > PgsPerLine + PgsPerLine + PgsPerLine)
        /\ Paid(m2)
    BY <1>3, <1>4, <1>9, <1>10, <1>12, <1>14, <1>17, <2>1
  <2> QED
    BY <2>2, PaidKeeps
<1>19. Typed'
  BY <1>14, <1>15, <1>16, <1>18 DEF Typed, Mapped, Credits, Progress
<1>20. Tables'
  <2>1. \A k \in Lpns : \A p \in Pages : maptbl'[k] = p => status'[p] = "valid" /\ rmap'[p] = k
    BY <1>16, PageFacts
  <2> QED
    BY <1>16, <1>18, <2>1 DEF Tables
<1> QED
  BY <1>18, <1>19, <1>20 DEF IInv

\* Cleaning goes on with a page behind: what is known in the steps that clean one.
LEMMA PageToClean ==
  ASSUME IInv, Cleaning
  PROVE  /\ gc.victim \in Lines /\ GcPage \in Pages /\ LineOf(GcPage) = gc.victim
         /\ ~ Passed(GcPage)
         /\ IsFiniteSet(ToCopy) /\ Cardinality(ToCopy) \in Nat
         /\ (status[GcPage] = "valid" => GcPage \in ToCopy /\ Cardinality(ToCopy) >= 1)
         /\ wfc \in Credits /\ wfc.credits = 0
         /\ Room(lm, wp) \in Nat /\ Room(lm, wp) > PgsPerLine + wfc.refill + Cardinality(ToCopy)
         /\ LineOf(wp["gc"]) # gc.victim /\ wp["gc"] \in Pages
<1>1. Typed /\ Control /\ EnoughRoom /\ Sound(lm, status, wp, gc.victim)
  BY DEF IInv
<1>2. /\ GcPage \in Pages /\ LineOf(GcPage) = gc.victim /\ gc.victim \in Lines
      /\ ReadTo \in Nat /\ RPlace(GcPage) = ReadTo
  BY <1>1, CleaningGoesOn
<1>3. ~ Passed(GcPage)
  BY <1>2 DEF Passed
<1>4. IsFiniteSet(ToCopy) /\ Cardinality(ToCopy) \in Nat
  <2>1. ToCopy \subseteq PagesIn(status, gc.victim, "valid")
    BY DEF ToCopy, PagesIn
  <2> QED
    BY <1>2, <2>1, SomeValid
<1>5. ASSUME status[GcPage] = "valid" PROVE GcPage \in ToCopy /\ Cardinality(ToCopy) >= 1
  <2>1. GcPage \in ToCopy
    BY <1>2, <1>3, <1>5 DEF ToCopy
  <2>2. Cardinality(ToCopy) # 0
    BY <1>4, <2>1, FS_EmptySet
  <2> QED
    BY <1>4, <2>1, <2>2
<1>6. lm \in LineMgmt /\ wp \in Pointers /\ wfc \in Credits
  BY <1>1 DEF Typed, Credits
<1>7. gc.victim # NoLine
  BY <1>2, NoLineFact
<1>8. wfc.credits = 0 /\ Room(lm, wp) > PgsPerLine + wfc.refill + Cardinality(ToCopy)
  BY <1>1, <1>7 DEF EnoughRoom
<1>9. Pair("gc", "user")
  BY DEF Pair
<1>10. Room(lm, wp) \in Nat
  BY <1>6, <1>9, RoomParts
<1>11. LineOf(wp["gc"]) # gc.victim /\ wp["gc"] \in Pages
  <2>1. Lists(lm, wp, gc.victim)
    BY <1>1 DEF Sound
  <2>2. InOne(lm, gc.victim, LineOf(wp["gc"]), LineOf(wp["user"]), gc.victim)
    BY <1>2, <1>9, <2>1, EitherOrder
  <2> QED
    BY <1>6, <2>2, OnePlace DEF Pointers
<1> QED
  BY <1>2, <1>3, <1>4, <1>5, <1>6, <1>8, <1>10, <1>11

\* A page of the victim is copied: the invariant is kept.
LEMMA CopyPageKeeps ==
  ASSUME IInv, CopyPage
  PROVE  IInv'
<1>1. PICK v, np, g, l : v = gc.victim /\ np = wp["gc"] /\ g = GcPage /\ l = rmap[g]
  OBVIOUS
<1>2. Typed /\ Control /\ Tables /\ Cleaned /\ Sound(lm, status, wp, v)
  BY <1>1 DEF IInv
<1>3. /\ maptbl \in [Lpns -> Pages \cup {Unmapped}] /\ rmap \in [Pages -> Lpns \cup {NoLpn}]
      /\ status \in Statuses /\ lm \in LineMgmt /\ wp \in Pointers
  BY <1>2 DEF Typed
<1>4. Cleaning /\ status[g] = "valid"
  BY <1>1 DEF CopyPage
<1>5. /\ v \in Lines /\ g \in Pages /\ LineOf(g) = v /\ ~ Passed(g)
      /\ IsFiniteSet(ToCopy) /\ Cardinality(ToCopy) \in Nat
      /\ g \in ToCopy /\ Cardinality(ToCopy) >= 1
      /\ wfc \in Credits /\ wfc.credits = 0
      /\ Room(lm, wp) \in Nat /\ Room(lm, wp) > PgsPerLine + wfc.refill + Cardinality(ToCopy)
      /\ LineOf(np) # v /\ np \in Pages
  BY <1>1, <1>4, PageToClean
<1>6. PICK t, f, P, r : t = Cardinality(ToCopy) /\ f = wfc.refill /\ P = PgsPerLine /\ r = Room(lm, wp)
  OBVIOUS
<1>7. t \in Nat /\ t >= 1 /\ f \in 1 .. P /\ P \in Nat \ {0} /\ r \in Nat /\ r > P + f + t
  BY <1>5, <1>6, Sizes DEF Credits
<1>8. ~ Dies(lm, "gc")
  <2>1. r > P + 1
    BY <1>7
  <2>2. lm \in LineMgmt /\ wp \in Pointers /\ Room(lm, wp) > PgsPerLine + 1 /\ "gc" \in {"user", "gc"}
    BY <1>3, <1>6, <2>1
  <2> QED
    BY <2>2, Lives
<1>9. /\ Program(lm, Erased, "gc", l) /\ rmap' = [rmap EXCEPT ![np] = l]
      /\ lm' = Written(lm, "gc") /\ gc' = AfterPage /\ wfc' = wfc
  BY <1>1, <1>8 DEF CopyPage
<1>10. /\ maptbl' = [maptbl EXCEPT ![l] = np] /\ status' = [Erased EXCEPT ![np] = "valid"]
       /\ wp' = Onward(lm, "gc")
  BY <1>1, <1>9 DEF Program, Onward
<1>11. /\ \A p \in Pages : Passed(p)' <=> Passed(p) \/ p = g
       /\ Erased \in Statuses
       /\ \A p \in Pages : Erased[p] = status[p] \/ (Erased[p] = "free" /\ Passed(p)')
       /\ \A p \in Pages : LineOf(p) # v => Erased[p] = status[p]
       /\ \A p \in Pages :
            LineOf(p) = v /\ Order(FlashPgs, p[2], PgsPerBlk - 1) < ReadTo' => Erased[p] = "free"
       /\ gc' \in Progress /\ Control' /\ gc'.victim = v
  BY <1>1, <1>2, <1>4, <1>9, PagePassed DEF Progress
<1>12. Sound(lm, Erased, wp, v)
  BY <1>2, <1>3, <1>5, <1>11, Erasing
<1>13. /\ Erased[np] = "free" /\ status' \in Statuses
       /\ lm' \in LineMgmt /\ wp' \in Pointers /\ Sound(lm', status', wp', v)
       /\ Room(lm', wp') = r - 1
  <2>1. /\ lm \in LineMgmt /\ Erased \in Statuses /\ wp \in Pointers /\ Sound(lm, Erased, wp, v)
        /\ "gc" \in {"user", "gc"} /\ ~ Dies(lm, "gc")
        /\ status' = [Erased EXCEPT ![wp["gc"]] = "valid"]
    BY <1>1, <1>3, <1>8, <1>10, <1>11, <1>12
  <2>2. /\ Erased[wp["gc"]] = "free" /\ status' \in Statuses
        /\ Written(lm, "gc") \in LineMgmt /\ Onward(lm, "gc") \in Pointers
        /\ Sound(Written(lm, "gc"), status', Onward(lm, "gc"), v)
        /\ Room(Written(lm, "gc"), Onward(lm, "gc")) = Room(lm, wp) - 1
    BY <2>1, Programmed
  <2> QED
    BY <1>1, <1>6, <1>9, <1>10, <2>2
<1>14. l \in Lpns /\ maptbl[l] = g
  BY <1>1, <1>2, <1>4, <1>5 DEF Tables
<1>15. /\ \A k \in Lpns : maptbl'[k] = IF k = l THEN np ELSE maptbl[k]
       /\ \A p \in Pages : status'[p] = IF p = np THEN "valid" ELSE Erased[p]
       /\ \A p \in Pages : rmap'[p] = IF p = np THEN l ELSE rmap[p]
       /\ maptbl' \in [Lpns -> Pages \cup {Unmapped}] /\ rmap' \in [Pages -> Lpns \cup {NoLpn}]
  <2>1. /\ \A k \in Lpns : maptbl'[k] = IF k = l THEN np ELSE maptbl[k]
        /\ maptbl' \in [Lpns -> Pages \cup {Unmapped}]
    BY <1>3, <1>5, <1>10
  <2>2. \A p \in Pages : status'[p] = IF p = np THEN "valid" ELSE Erased[p]
    BY <1>10, <1>11 DEF Statuses
  <2>3. /\ \A p \in Pages : rmap'[p] = IF p = np THEN l ELSE rmap[p]
        /\ rmap' \in [Pages -> Lpns \cup {NoLpn}]
    BY <1>3, <1>9, <1>14
  <2> QED
    BY <2>1, <2>2, <2>3
<1>16. status[np] = "free" /\ ~ Passed(np)'
  BY <1>5, <1>11, <1>13 DEF Passed
<1>17. Tables'
  <2>1. ASSUME NEW k \in Lpns, NEW p \in Pages, maptbl'[k] = p
        PROVE  status'[p] = "valid" /\ rmap'[p] = k /\ ~ Passed(p)'
    <3>1. CASE k = l
      <4>1. p = np
        BY <1>15, <2>1, <3>1
      <4> QED
        BY <1>5, <1>15, <1>16, <3>1, <4>1
    <3>2. CASE k # l
      <4>1. maptbl[k] = p
        BY <1>15, <2>1, <3>2
      <4>2. status[p] = "valid" /\ rmap[p] = k /\ ~ Passed(p)
        BY <1>2, <4>1 DEF Tables
      <4>3. p # g /\ p # np
        BY <1>1, <1>16, <3>2, <4>2
      <4>4. ~ Passed(p)' /\ Erased[p] = "valid"
        BY <1>11, <4>2, <4>3
      <4> QED
        BY <1>15, <4>2, <4>3, <4>4
    <3> QED
      BY <3>1, <3>2
  <2>2. ASSUME NEW p \in Pages, status'[p] = "valid", ~ Passed(p)'
        PROVE  rmap'[p] \in Lpns /\ maptbl'[rmap'[p]] = p
    <3>1. CASE p = np
      BY <1>14, <1>15, <3>1
    <3>2. CASE p # np
      <4>1. status[p] = "valid" /\ ~ Passed(p) /\ p # g
        BY <1>11, <1>15, <2>2, <3>2
      <4>2. rmap[p] \in Lpns /\ maptbl[rmap[p]] = p /\ rmap'[p] = rmap[p]
        BY <1>2, <1>15, <3>2, <4>1 DEF Tables
      <4>3. rmap[p] # l
        BY <1>14, <4>1, <4>2
      <4> QED
        BY <1>15, <4>2, <4>3
    <3> QED
      BY <3>1, <3>2
  <2> QED
    BY <2>1, <2>2 DEF Tables
<1>18. Cleaned'
  <2> SUFFICES ASSUME NEW p \in Pages, LineOf(p) = v,
                      Order(FlashPgs, p[2], PgsPerBlk - 1) < ReadTo'
               PROVE  status'[p] = "free"
    BY <1>11 DEF Cleaned
  <2> QED
    BY <1>5, <1>11, <1>15
<1>19. EnoughRoom'
  <2>1. ToCopy' \subseteq ToCopy \ {g}
    <3> SUFFICES ASSUME NEW p \in Pages, LineOf(p) = v, status'[p] = "valid", ~ Passed(p)'
                 PROVE  p \in ToCopy \ {g}
      BY <1>11 DEF ToCopy
    <3>1. p # np
      BY <1>5
    <3>2. status[p] = "valid" /\ ~ Passed(p) /\ p # g
      BY <1>11, <1>15, <3>1
    <3> QED
      BY <1>1, <3>2 DEF ToCopy
  <2>2. PICK A, B : A = ToCopy' /\ B = ToCopy \ {g}
    OBVIOUS
  <2>3. IsFiniteSet(B) /\ Cardinality(B) = t - 1 /\ A \in SUBSET B
    BY <1>5, <1>6, <2>1, <2>2, FS_RemoveElement
  <2>4. Cardinality(A) \in Nat /\ Cardinality(A) <= t - 1
    <3>1. IsFiniteSet(A) /\ Cardinality(A) <= Cardinality(B)
      BY <2>3, FS_Subset
    <3> QED
      BY <2>3, <3>1, FS_CardinalityType
  <2>5. PICK a : a = Cardinality(A)
    OBVIOUS
  <2>6. r - 1 > P + f + a
    BY <1>7, <2>4, <2>5
  <2>7. gc'.victim # NoLine /\ wfc'.credits = 0 /\ wfc'.refill = f
    BY <1>5, <1>6, <1>9, <1>11, NoLineFact
  <2> QED
    BY <1>6, <1>13, <2>2, <2>5, <2>6, <2>7 DEF EnoughRoom
<1>20. Typed'
  BY <1>5, <1>9, <1>11, <1>13, <1>15 DEF Typed, Credits, Progress
<1> QED
  BY <1>11, <1>13, <1>17, <1>18, <1>19, <1>20 DEF IInv

\* A page of the victim that is not valid is passed over: the invariant is kept.
LEMMA SkipPageKeeps ==
  ASSUME IInv, SkipPage
  PROVE  IInv'
<1>1. PICK v, g : v = gc.victim /\ g = GcPage
  OBVIOUS
<1>2. Typed /\ Control /\ Tables /\ Cleaned /\ Sound(lm, status, wp, v)
  BY <1>1 DEF IInv
<1>3. /\ maptbl \in [Lpns -> Pages \cup {Unmapped}] /\ rmap \in [Pages -> Lpns \cup {NoLpn}]
      /\ status \in Statuses /\ lm \in LineMgmt /\ wp \in Pointers
  BY <1>2 DEF Typed
<1>4. Cleaning /\ status[g] # "valid"
  BY <1>1 DEF SkipPage
<1>5. /\ v \in Lines /\ IsFiniteSet(ToCopy) /\ Cardinality(ToCopy) \in Nat
      /\ wfc \in Credits /\ wfc.credits = 0
      /\ Room(lm, wp) \in Nat /\ Room(lm, wp) > PgsPerLine + wfc.refill + Cardinality(ToCopy)
  BY <1>1, <1>4, PageToClean
<1>6. /\ gc' = AfterPage /\ status' = Erased
      /\ maptbl' = maptbl /\ rmap' = rmap /\ lm' = lm /\ wp' = wp /\ wfc' = wfc
  BY DEF SkipPage
<1>7. /\ \A p \in Pages : Passed(p)' <=> Passed(p) \/ p = g
      /\ Erased \in Statuses
      /\ \A p \in Pages : Erased[p] = status[p] \/ (Erased[p] = "free" /\ Passed(p)')
      /\ \A p \in Pages : LineOf(p) # v => Erased[p] = status[p]
      /\ \A p \in Pages :
           LineOf(p) = v /\ Order(FlashPgs, p[2], PgsPerBlk - 1) < ReadTo' => Erased[p] = "free"
      /\ gc' \in Progress /\ Control' /\ gc'.victim = v
  BY <1>1, <1>2, <1>4, <1>6, PagePassed DEF Progress
<1>8. Sound(lm', status', wp', v)
  <2>1. Sound(lm, Erased, wp, v)
    BY <1>2, <1>3, <1>5, <1>7, Erasing
  <2> QED
    BY <1>6, <2>1
<1>9. Tables'
  <2>1. ASSUME NEW k \in Lpns, NEW p \in Pages, maptbl'[k] = p
        PROVE  status'[p] = "valid" /\ rmap'[p] = k /\ ~ Passed(p)'
    <3>1. status[p] = "valid" /\ rmap[p] = k /\ ~ Passed(p)
      BY <1>2, <1>6, <2>1 DEF Tables
    <3> QED
      BY <1>4, <1>6, <1>7, <3>1
  <2>2. ASSUME NEW p \in Pages, status'[p] = "valid", ~ Passed(p)'
        PROVE  rmap'[p] \in Lpns /\ maptbl'[rmap'[p]] = p
    <3>1. status[p] = "valid" /\ ~ Passed(p)
      BY <1>6, <1>7, <2>2
    <3> QED
      BY <1>2, <1>6, <3>1 DEF Tables
  <2> QED
    BY <2>1, <2>2 DEF Tables
<1>10. Cleaned'
  BY <1>6, <1>7 DEF Cleaned
<1>11. EnoughRoom'
  <2>1. ToCopy' \in SUBSET ToCopy
    <3> SUFFICES ASSUME NEW p \in Pages, LineOf(p) = v, status'[p] = "valid", ~ Passed(p)'
                 PROVE  p \in ToCopy
      BY <1>7 DEF ToCopy
    <3>1. status[p] = "valid" /\ ~ Passed(p)
      BY <1>6, <1>7
    <3> QED
      BY <1>1, <3>1 DEF ToCopy
  <2>2. IsFiniteSet(ToCopy') /\ Cardinality(ToCopy') <= Cardinality(ToCopy)
    BY <1>5, <2>1, FS_Subset
  <2>3. Cardinality(ToCopy') \in Nat
    BY <2>2, FS_CardinalityType
  <2>4. PICK a, b, P, f, r :
          /\ a = Cardinality(ToCopy') /\ b = Cardinality(ToCopy)
          /\ P = PgsPerLine /\ f = wfc.refill /\ r = Room(lm, wp)
    OBVIOUS
  <2>5. r > P + f + a
    <3>1. P \in Nat /\ f \in 1 .. P
      BY <1>5, <2>4, Sizes DEF Credits
    <3>2. a \in Nat /\ b \in Nat /\ r \in Nat /\ a <= b /\ r > P + f + b
      BY <1>5, <2>2, <2>3, <2>4
    <3> QED
      BY <3>1, <3>2
  <2>6. gc'.victim # NoLine /\ wfc'.credits = 0 /\ wfc'.refill = f
    BY <1>5, <1>6, <1>7, <2>4, NoLineFact
  <2>7. Room(lm', wp') = r
    BY <1>6, <2>4
  <2> QED
    BY <2>4, <2>5, <2>6, <2>7 DEF EnoughRoom
<1>12. Typed'
  BY <1>3, <1>5, <1>6, <1>7 DEF Typed, Credits, Progress
<1> QED
  BY <1>6, <1>7, <1>8, <1>9, <1>10, <1>11, <1>12 DEF IInv

\* The victim becomes a free line: the invariant is kept.
LEMMA FreeLineKeeps ==
  ASSUME IInv, FreeLine
  PROVE  IInv'
<1>1. PICK v : v = gc.victim
  OBVIOUS
<1>2. Typed /\ Control /\ Tables /\ Cleaned /\ EnoughRoom /\ Sound(lm, status, wp, v)
  BY <1>1 DEF IInv
<1>3. /\ maptbl \in [Lpns -> Pages \cup {Unmapped}] /\ rmap \in [Pages -> Lpns \cup {NoLpn}]
      /\ status \in Statuses /\ lm \in LineMgmt /\ wp \in Pointers /\ wfc \in Credits
  BY <1>2 DEF Typed, Credits
<1>4. v # NoLine /\ v \in Lines /\ gc.pg = PgsPerBlk /\ gc.lun = 0
  BY <1>1, <1>2 DEF FreeLine, Typed, Control
<1>5. /\ lm' = Freed(lm, v) /\ wfc' = [wfc EXCEPT !.credits = @ + wfc.refill] /\ gc' = Idle
      /\ maptbl' = maptbl /\ rmap' = rmap /\ status' = status /\ wp' = wp
  BY <1>1 DEF FreeLine, Freed
<1>6. \A p \in Pages : LineOf(p) = v => status[p] = "free"
  <2> SUFFICES ASSUME NEW p \in Pages, LineOf(p) = v PROVE status[p] = "free"
    OBVIOUS
  <2>1. ReadTo = PgsPerLine
    BY <1>4, Sizes, OrderBound DEF ReadTo
  <2>2. Order(FlashPgs, p[2], PgsPerBlk - 1) \in RPlace(p) .. PgsPerLine - 1
        /\ RPlace(p) \in 0 .. PgsPerLine - 1
    BY RPlaces
  <2>3. Order(FlashPgs, p[2], PgsPerBlk - 1) < ReadTo
    BY <2>1, <2>2, Sizes
  <2> QED
    BY <1>1, <1>2, <2>3 DEF Cleaned
<1>7. /\ lm' \in LineMgmt /\ Sound(lm', status', wp', NoLine)
      /\ Room(lm', wp') = Room(lm, wp) + PgsPerLine
  BY <1>2, <1>3, <1>4, <1>5, <1>6, LineFreed
<1>8. PICK t, f, P, r : t = Cardinality(ToCopy) /\ f = wfc.refill /\ P = PgsPerLine /\ r = Room(lm, wp)
  OBVIOUS
<1>9. t \in Nat /\ f \in 1 .. P /\ P \in Nat \ {0} /\ r \in Nat /\ r > P + f + t /\ wfc.credits = 0
  <2>1. t \in Nat
    <3>1. ToCopy \subseteq PagesIn(status, v, "valid")
      BY <1>1 DEF ToCopy, PagesIn
    <3> QED
      BY <1>4, <1>8, <3>1, SomeValid
  <2>2. r \in Nat
    <3>1. Pair("user", "gc")
      BY DEF Pair
    <3> QED
      BY <1>3, <1>8, <3>1, RoomParts
  <2>3. r > P + f + t /\ wfc.credits = 0
    BY <1>1, <1>2, <1>4, <1>8 DEF EnoughRoom
  <2> QED
    BY <1>3, <1>8, <2>1, <2>2, <2>3, Sizes DEF Credits
<1>10. wfc' = [credits |-> f, refill |-> f] /\ wfc' \in Credits
  <2>1. wfc = [credits |-> 0, refill |-> f]
    BY <1>3, <1>8, <1>9 DEF Credits
  <2>2. wfc' = [wfc EXCEPT !.credits = 0 + f] /\ 0 + f = f
    BY <1>5, <1>8, <1>9
  <2>3. wfc' = [credits |-> f, refill |-> f]
    BY <2>1, <2>2
  <2>4. f \in Nat /\ f \in 1 .. PgsPerLine
    BY <1>8, <1>9
  <2> QED
    BY <2>3, <2>4 DEF Credits
<1>11. gc' \in Progress /\ Control' /\ gc'.victim = NoLine /\ gc'.lun = 0 /\ gc'.pg = 0
  BY <1>5, Sizes DEF Progress, Control, Idle, Luns
<1>12. (\A p \in Pages : ~ Passed(p)') /\ Cleaned'
  BY <1>11, NothingPassed
<1>13. EnoughRoom'
  <2>1. f > 0 /\ r + P > f + P + P
    BY <1>9
  <2>2. wfc'.credits = f /\ Room(lm', wp') = r + P
    BY <1>7, <1>8, <1>10
  <2> QED
    BY <1>8, <1>11, <2>1, <2>2 DEF EnoughRoom
<1>14. Tables'
  <2>1. \A p \in Pages : status[p] = "valid" => ~ Passed(p)
    BY <1>1, <1>6 DEF Passed
  <2> QED
    BY <1>2, <1>5, <1>12, <2>1 DEF Tables
<1>15. Typed'
  BY <1>3, <1>5, <1>7, <1>10, <1>11 DEF Typed, Credits, Progress
<1> QED
  BY <1>7, <1>11, <1>12, <1>13, <1>14, <1>15 DEF IInv

-----------------------------------------------------------------------------
(* The theorems. *)

\* At the start every page is free, two lines are open and the rest are free.
LEMMA InitIInv == Init => IInv
<1> SUFFICES ASSUME Init PROVE IInv
  OBVIOUS
<1>1. /\ NrLines \in Nat /\ NrLines >= 4 /\ NrLuns \in Nat \ {0} /\ PgsPerBlk \in Nat \ {0}
      /\ PgsPerLine \in Nat \ {0}
  <2>1. NrLines \in Nat /\ Thres \in Nat /\ Thres >= 2 /\ NrLines >= Thres + 2
    BY Sizes
  <2>2. NrLines >= 4
    BY <2>1
  <2> QED
    BY <2>2, Sizes
<1>2. PICK f, z : f = [i \in 1 .. NrLines - 2 |-> i + 1] /\ z = [n \in Lines |-> 0]
  OBVIOUS
<1>3. /\ f \in Seq(Lines) /\ Len(f) = NrLines - 2 /\ Once(f)
      /\ \A n \in Lines : On(f, n) <=> n # 0 /\ n # 1
  <2>1. NrLines - 2 \in Nat
    BY <1>1
  <2>2. f \in [1 .. NrLines - 2 -> Lines] /\ \A i \in 1 .. NrLines - 2 : f[i] = i + 1
    <3>1. \A i \in 1 .. NrLines - 2 : i + 1 \in Lines
      BY <1>1 DEF Lines
    <3> QED
      BY <1>2, <3>1
  <2>3. f \in Seq(Lines)
    BY <2>1, <2>2, SeqDef
  <2>4. Len(f) = NrLines - 2 /\ DOMAIN f = 1 .. NrLines - 2
    BY <2>1, <2>2, <2>3, LenProperties
  <2>5. Once(f)
    BY <1>1, <2>2, <2>4 DEF Once
  <2>6. ASSUME NEW n \in Lines PROVE On(f, n) <=> n # 0 /\ n # 1
    <3>1. n \in 0 .. NrLines - 1
      BY DEF Lines
    <3>2. ASSUME n # 0, n # 1 PROVE On(f, n)
      <4>1. n - 1 \in 1 .. NrLines - 2 /\ (n - 1) + 1 = n
        BY <1>1, <3>1, <3>2
      <4>2. f[n - 1] = n /\ n - 1 \in DOMAIN f
        BY <2>2, <2>4, <4>1
      <4> QED
        BY <4>2 DEF On
    <3>3. ASSUME On(f, n) PROVE n # 0 /\ n # 1
      <4>1. PICK i \in 1 .. NrLines - 2 : f[i] = n
        BY <2>4, <3>3 DEF On
      <4> QED
        BY <1>1, <2>2, <4>1
    <3> QED
      BY <3>2, <3>3
  <2> QED
    BY <2>3, <2>4, <2>5, <2>6
<1>4. PICK q : q = [d |-> <<>>, pos |-> z]
  OBVIOUS
<1>5. lm = [free |-> f, full |-> {}, pq |-> q, vpc |-> z, ipc |-> z]
  BY <1>2, <1>4 DEF Init, InitLines
<1>6. /\ z \in [Lines -> Nat] /\ z \in [Lines -> Int] /\ \A n \in Lines : z[n] = 0
      /\ q.d = <<>> /\ q.pos = z /\ q \in Queues(Lines) /\ \A n : ~ On(q.d, n)
  <2>1. z \in [Lines -> Nat] /\ z \in [Lines -> Int] /\ \A n \in Lines : z[n] = 0
    BY <1>2
  <2>2. q.d = <<>> /\ q.pos = z /\ q \in Queues(Lines)
    BY <1>4, <2>1, EmptySeq DEF Queues
  <2>3. \A n : ~ On(q.d, n)
    BY <2>2 DEF On
  <2> QED
    BY <2>1, <2>2, <2>3
<1>7. lm \in LineMgmt
  BY <1>3, <1>5, <1>6 DEF LineMgmt
<1>8. /\ lm.free = f /\ lm.full = {} /\ lm.pq = q /\ lm.vpc = z /\ lm.ipc = z
  BY <1>5
<1>9. /\ wp \in Pointers /\ wp["user"] = <<0, 0, 0>> /\ wp["gc"] = <<1, 0, 0>>
      /\ LineOf(wp["user"]) = 0 /\ LineOf(wp["gc"]) = 1
  <2>1. 0 \in Lines /\ 1 \in Lines /\ 0 \in Luns /\ 0 \in Offsets
    BY <1>1 DEF Lines, Luns, Offsets
  <2>2. /\ <<0, 0, 0>> \in Pages /\ <<1, 0, 0>> \in Pages
        /\ LineOf(<<0, 0, 0>>) = 0 /\ LineOf(<<1, 0, 0>>) = 1
    BY <2>1, PageFacts
  <2>3. wp["user"] = <<0, 0, 0>> /\ wp["gc"] = <<1, 0, 0>>
    BY DEF Init, InitPointers
  <2>4. wp \in Pointers
    BY <2>2 DEF Init, InitPointers, Pointers
  <2> QED
    BY <2>2, <2>3, <2>4
<1>10. /\ gc = Idle /\ gc.victim = NoLine /\ gc.lun = 0 /\ gc.pg = 0 /\ ~ gc.dead
       /\ wfc = [credits |-> PgsPerLine, refill |-> PgsPerLine]
       /\ maptbl = [l \in Lpns |-> Unmapped] /\ rmap = [p \in Pages |-> NoLpn]
       /\ status = [p \in Pages |-> "free"]
  BY DEF Init, Idle, InitCredits
<1>11. Typed
  <2>1. gc \in [victim : Lines \cup {NoLine}, lun : Luns, pg : 0 .. PgsPerBlk, dead : BOOLEAN]
    <3>1. 0 \in Luns /\ 0 \in 0 .. PgsPerBlk
      BY <1>1 DEF Luns
    <3> QED
      BY <1>10, <3>1 DEF Idle
  <2>2. wfc \in [credits : Nat, refill : 1 .. PgsPerLine]
    <3>1. PgsPerLine \in Nat /\ PgsPerLine \in 1 .. PgsPerLine
      BY <1>1
    <3> QED
      BY <1>10, <3>1
  <2>3. maptbl \in [Lpns -> Pages \cup {Unmapped}] /\ rmap \in [Pages -> Lpns \cup {NoLpn}]
        /\ status \in Statuses
    BY <1>10 DEF Statuses
  <2> QED
    BY <1>7, <1>9, <2>1, <2>2, <2>3 DEF Typed
<1>12. Control
  BY <1>1, <1>10 DEF Control
<1>13. Lists(lm, wp, NoLine)
  <2>1. Pair("user", "gc")
    BY DEF Pair
  <2>2. ASSUME NEW n \in Lines PROVE InOne(lm, n, LineOf(wp["user"]), LineOf(wp["gc"]), NoLine)
    <3>1. n # NoLine
      BY NoLineFact
    <3>2. /\ (On(lm.free, n) <=> n # 0 /\ n # 1) /\ ~ On(lm.pq.d, n) /\ n \notin lm.full
      BY <1>3, <1>6, <1>8
    <3> QED
      BY <1>9, <3>1, <3>2, OnePlace
  <2> QED
    BY <1>3, <1>8, <2>1, <2>2, EitherOrder
<1>14. Heap(lm)
  <2>1. HeapOf(Lines, q, z)
    <3>1. Len(q.d) = 0 /\ DOMAIN q.d = {}
      BY <1>6
    <3>2. Once(q.d) /\ Knows(q)
      BY <3>1 DEF Once, Knows
    <3>3. Heaped(Values(q, z), Len(q.d))
      BY <3>1 DEF Heaped
    <3> QED
      BY <1>6, <3>2, <3>3 DEF HeapOf
  <2> QED
    BY <1>6, <1>8, <2>1, HeapTold
<1>15. Places(lm, status, wp)
  <2> SUFFICES ASSUME NEW p \in Pages
               PROVE  /\ On(lm.free, LineOf(p)) => status[p] = "free"
                      /\ On(lm.pq.d, LineOf(p)) \/ LineOf(p) \in lm.full => status[p] # "free"
                      /\ \A io \in {"user", "gc"} : LineOf(p) = LineOf(wp[io]) =>
                           (status[p] = "free" <=> WPlace(wp[io]) <= WPlace(p))
    BY DEF Places
  <2>1. status[p] = "free" /\ ~ On(lm.pq.d, LineOf(p)) /\ LineOf(p) \notin lm.full
    BY <1>6, <1>8, <1>10
  <2>2. WPlace(wp["user"]) = 0 /\ WPlace(wp["gc"]) = 0 /\ WPlace(p) \in 0 .. PgsPerLine - 1
    BY <1>9, WPlaces
  <2>3. \A io \in {"user", "gc"} : WPlace(wp[io]) <= WPlace(p)
    BY <2>2
  <2> QED
    BY <2>1, <2>3
<1>16. Counts(lm, status, NoLine)
  <2>1. ASSUME NEW n \in Lines PROVE CountIn(status, n, "valid") = 0 /\ CountIn(status, n, "invalid") = 0
    <3>1. \A p \in LinePages(n) : status[p] # "valid" /\ status[p] # "invalid"
      BY <1>10 DEF LinePages
    <3> QED
      BY <3>1, CountNone
  <2> QED
    BY <1>6, <1>8, <2>1 DEF Counts
<1>17. Tables /\ Cleaned
  <2>1. \A p \in Pages : p # Unmapped /\ LineOf(p) # NoLine /\ status[p] = "free"
    BY <1>10, PageFacts, NoLineFact
  <2> QED
    BY <1>10, <2>1 DEF Tables, Cleaned
<1>18. EnoughRoom
  <2>1. PICK P, k : P = PgsPerLine /\ k = (NrLines - 2) * P
    OBVIOUS
  <2>2. LineRoom(wp["user"]) = P /\ LineRoom(wp["gc"]) = P
    BY <1>1, <1>9, <2>1, WPlaces DEF LineRoom
  <2>3. Room(lm, wp) = k + P + P
    BY <1>3, <1>8, <2>1, <2>2 DEF Room
  <2>4. k \in Nat /\ k >= P + P
    <3>1. \A a, b \in Nat : a >= 2 => a * b \in Nat /\ a * b >= b + b
      <4> SUFFICES ASSUME NEW a \in Nat, NEW b \in Nat, a >= 2
                   PROVE  a * b \in Nat /\ a * b >= b + b
        OBVIOUS
      <4>1. PICK d \in Nat : a = 2 + d
        <5>1. a - 2 \in Nat /\ a = 2 + (a - 2)
          OBVIOUS
        <5> QED
          BY <5>1
      <4>2. a * b = b + b + d * b /\ d * b \in Nat
        BY <4>1
      <4> QED
        BY <4>2
    <3>2. NrLines - 2 \in Nat /\ NrLines - 2 >= 2 /\ P \in Nat
      BY <1>1, <2>1
    <3> QED
      BY <2>1, <3>1, <3>2
  <2>5. P > 0 /\ k + P + P > P + P + P
    BY <1>1, <2>1, <2>4
  <2> QED
    BY <1>10, <2>1, <2>3, <2>5 DEF EnoughRoom
<1> QED
  BY <1>10, <1>11, <1>12, <1>13, <1>14, <1>15, <1>16, <1>17, <1>18 DEF IInv, Sound

\* Every step keeps the invariant.
LEMMA NextIInv ==
  ASSUME IInv, [Next]_vars
  PROVE  IInv'
<1>1. CASE \E l \in Lpns : WritePage(l)
  BY <1>1, WritePageKeeps
<1>2. CASE CopyPage
  BY <1>2, CopyPageKeeps
<1>3. CASE SkipPage
  BY <1>3, SkipPageKeeps
<1>4. CASE FreeLine
  BY <1>4, FreeLineKeeps
<1>5. CASE UNCHANGED vars
  <2>1. /\ maptbl' = maptbl /\ rmap' = rmap /\ status' = status /\ lm' = lm /\ wp' = wp
        /\ wfc' = wfc /\ gc' = gc
    BY <1>5 DEF vars
  <2>2. Typed' /\ Control' /\ Sound(lm', status', wp', gc'.victim)
    BY <2>1 DEF IInv, Typed, Control
  <2>3. ReadTo' = ReadTo /\ ToCopy' = ToCopy /\ \A p \in Pages : Passed(p)' <=> Passed(p)
    BY <2>1 DEF ReadTo, ToCopy, Passed
  <2>4. Tables' /\ Cleaned'
    BY <2>1, <2>3 DEF IInv, Tables, Cleaned
  <2>5. EnoughRoom'
    BY <2>1, <2>3 DEF IInv, EnoughRoom
  <2> QED
    BY <2>2, <2>4, <2>5 DEF IInv
<1> QED
  BY <1>1, <1>2, <1>3, <1>4, <1>5 DEF Next

\* The invariant: the tables, the lists of lines with the heap and the counts,
\* and the room that is left for what the write credits still allow.
THEOREM Invariance == Spec => []IInv
<1>1. Init => IInv
  BY InitIInv
<1>2. IInv /\ [Next]_vars => IInv'
  BY NextIInv
<1> QED
  BY <1>1, <1>2, PTL DEF Spec

\* maptbl and rmap agree after every page written or cleaned: a mapped page is
\* valid and points back, and a valid page that is not mapped is an original of
\* the line being cleaned (conv_write, gc_write_page, clean_one_flashpg).
THEOREM Mapping == Spec => []TablesAgree
<1>1. IInv => TablesAgree
  <2> SUFFICES ASSUME IInv PROVE TablesAgree
    OBVIOUS
  <2>1. Tables /\ maptbl \in [Lpns -> Pages \cup {Unmapped}]
    BY DEF IInv, Typed
  <2>2. \A l \in Lpns : maptbl[l] # Unmapped => status[maptbl[l]] = "valid" /\ rmap[maptbl[l]] = l
    BY <2>1 DEF Tables
  <2>3. \A p \in Pages : status[p] = "valid" => maptbl[rmap[p]] = p \/ LineOf(p) = gc.victim
    BY <2>1 DEF Tables, Passed
  <2> QED
    BY <2>2, <2>3 DEF TablesAgree
<1> QED
  BY <1>1, Invariance, PTL

\* pqueue_is_valid holds between any two steps, whatever pages are overwritten,
\* and pos is zero exactly for the lines that are not in the heap: the test of
\* mark_page_invalid never takes one for the other.
THEOREM HeapAlways == Spec => []HeapSound
<1>1. IInv => HeapSound
  <2> SUFFICES ASSUME IInv PROVE HeapSound
    OBVIOUS
  <2>1. PICK q : q = lm.pq
    OBVIOUS
  <2>2. /\ HeapOf(Lines, q, lm.vpc) /\ \A n \in Lines : InHeap(lm, n) <=> On(q.d, n)
    BY <2>1 DEF IInv, Sound, Heap
  <2>3. q \in Queues(Lines) /\ Knows(q) /\ Heaped(Values(q, lm.vpc), Len(q.d))
    BY <2>2 DEF HeapOf
  <2>4. Len(q.d) \in Nat /\ DOMAIN q.d = 1 .. Len(q.d)
    BY <2>3, QueueParts
  <2>5. \A i \in DOMAIN q.d : q.pos[q.d[i]] = i
    BY <2>3 DEF Knows
  <2>6. ASSUME NEW i \in DOMAIN q.d, i > 1 PROVE lm.vpc[q.d[Parent(i)]] <= lm.vpc[q.d[i]]
    <3>1. PICK v, n : v = Values(q, lm.vpc) /\ n = Len(q.d)
      OBVIOUS
    <3>2. n \in Nat /\ i \in 1 .. n /\ i \in 2 .. n
      BY <2>4, <2>6, <3>1
    <3>3. Parent(i) \in 1 .. n /\ v[Parent(i)] <= v[i]
      BY <2>3, <3>1, <3>2, Parents DEF Heaped
    <3>4. \A j \in 1 .. n : v[j] = lm.vpc[q.d[j]]
      BY <3>1 DEF Values
    <3> QED
      BY <3>2, <3>3, <3>4
  <2> QED
    BY <2>1, <2>2, <2>5, <2>6 DEF HeapSound, IsValid, On
<1> QED
  BY <1>1, Invariance, PTL

\* get_next_free_line never comes back empty-handed, and whenever the host's
\* next page is written there is a credit to pay for it.
THEOREM CollectionInTime == Spec => []CollectionKeepsUp
<1>1. IInv => CollectionKeepsUp
  BY NoLineFact DEF IInv, Control, EnoughRoom, CollectionKeepsUp, Idle
<1> QED
  BY <1>1, Invariance, PTL

\* The types of the variables, and every line in one place with the counts of
\* its pages: what advance_write_pointer, mark_page_invalid,
\* select_victim_line and mark_line_free hand from one list to the next.
THEOREM Partition == Spec => []LinesSound
<1>1. IInv => LinesSound
  <2> SUFFICES ASSUME IInv PROVE LinesSound
    OBVIOUS
  <2>1. /\ lm \in LineMgmt /\ status \in Statuses /\ wp \in Pointers
        /\ Lists(lm, wp, gc.victim) /\ Heap(lm) /\ Places(lm, status, wp)
        /\ Counts(lm, status, gc.victim)
    BY DEF IInv, Typed, Sound
  <2>2. /\ lm.free \in Seq(Lines) /\ lm.full \in SUBSET Lines /\ lm.pq \in Queues(Lines)
        /\ lm.pq.d \in Seq(Lines) /\ lm.pq.pos \in [Lines -> Nat]
    BY <2>1, Fields DEF Queues
  <2>3. lm.pq.pos \in [Lines -> 0 .. NrLines]
    <3> SUFFICES ASSUME NEW n \in Lines PROVE lm.pq.pos[n] \in 0 .. NrLines
      BY <2>2
    <3>1. CASE ~ On(lm.pq.d, n)
      BY <2>1, <3>1, Sizes DEF Heap, InHeap
    <3>2. CASE On(lm.pq.d, n)
      <4>1. PICK j, d : d = lm.pq.d /\ j \in DOMAIN d /\ d[j] = n
        BY <3>2 DEF On
      <4>2. d \in Seq(Lines) /\ Once(d) /\ lm.pq.pos[n] = j
        BY <2>1, <2>2, <4>1 DEF Heap, HeapOf, Knows
      <4>3. Len(d) \in Nat /\ Len(d) <= NrLines /\ j \in 1 .. Len(d)
        <5>1. Len(d) \in Nat /\ DOMAIN d = 1 .. Len(d) /\ \A i \in 1 .. Len(d) : d[i] \in Lines
          BY <4>2, LenProperties, ElementOfSeq
        <5>2. IsFiniteSet(Lines) /\ Cardinality(Lines) = NrLines
          BY Sizes, UpToSize DEF Lines
        <5>3. IsFiniteSet(1 .. Len(d)) /\ Cardinality(1 .. Len(d)) = Len(d)
          <6>1. /\ IsFiniteSet(1 .. Len(d))
                /\ Cardinality(1 .. Len(d)) = IF 1 > Len(d) THEN 0 ELSE Len(d) - 1 + 1
            BY <5>1, FS_Interval
          <6> QED
            BY <5>1, <6>1
        <5>4. [i \in 1 .. Len(d) |-> d[i]] \in Injection(1 .. Len(d), Lines)
          BY <4>2, <5>1 DEF Injection, IsInjective, Once
        <5>5. Cardinality(1 .. Len(d)) <= Cardinality(Lines)
          BY <5>2, <5>4, FS_Injection DEF ExistsInjection
        <5> QED
          BY <4>1, <5>1, <5>2, <5>3, <5>5
      <4> QED
        BY <4>2, <4>3, Sizes
    <3> QED
      BY <3>1, <3>2
  <2>4. TypeOK
    BY <2>1, <2>2, <2>3 DEF IInv, Typed, TypeOK, Statuses, Pointers
  <2>5. ASSUME NEW n \in Lines
        PROVE  Cardinality({k \in 1 .. 5 :
                 \/ k = 1 /\ n \in Open
                 \/ k = 2 /\ \E i \in DOMAIN lm.free : lm.free[i] = n
                 \/ k = 3 /\ \E i \in DOMAIN lm.pq.d : lm.pq.d[i] = n
                 \/ k = 4 /\ n \in lm.full
                 \/ k = 5 /\ n = gc.victim}) = 1
    <3>1. PICK x, y, v, S : /\ x = LineOf(wp["user"]) /\ y = LineOf(wp["gc"]) /\ v = gc.victim
                            /\ S = {k \in 1 .. 5 : \/ k = 1 /\ n \in Open
                                                   \/ k = 2 /\ On(lm.free, n)
                                                   \/ k = 3 /\ On(lm.pq.d, n)
                                                   \/ k = 4 /\ n \in lm.full
                                                   \/ k = 5 /\ n = v}
      OBVIOUS
    <3>2. n \in Open <=> n = x \/ n = y
      BY <3>1 DEF Open
    <3>3. InOne(lm, n, x, y, v)
      <4>1. Pair("user", "gc")
        BY DEF Pair
      <4> QED
        BY <2>1, <3>1, <4>1, EitherOrder
    <3>4. \E k \in 1 .. 5 : S = {k}
      <4>1. ASSUME NEW k \in 1 .. 5, k \in S, \A j \in 1 .. 5 : j \in S => j = k
            PROVE  \E i \in 1 .. 5 : S = {i}
        <5>1. S = {k}
          BY <3>1, <4>1
        <5> QED
          BY <5>1
      <4>2. CASE n \in Open
        <5>1. ~ On(lm.free, n) /\ ~ On(lm.pq.d, n) /\ n \notin lm.full /\ n # v
          BY <3>2, <3>3, <4>2, OnePlace
        <5>2. 1 \in S /\ \A j \in 1 .. 5 : j \in S => j = 1
          BY <3>1, <4>2, <5>1
        <5> QED
          BY <4>1, <5>2
      <4>3. CASE On(lm.free, n)
        <5>1. n \notin Open /\ ~ On(lm.pq.d, n) /\ n \notin lm.full /\ n # v
          BY <3>2, <3>3, <4>3, OnePlace
        <5>2. 2 \in S /\ \A j \in 1 .. 5 : j \in S => j = 2
          BY <3>1, <4>3, <5>1
        <5> QED
          BY <4>1, <5>2
      <4>4. CASE On(lm.pq.d, n)
        <5>1. n \notin Open /\ ~ On(lm.free, n) /\ n \notin lm.full /\ n # v
          BY <3>2, <3>3, <4>4, OnePlace
        <5>2. 3 \in S /\ \A j \in 1 .. 5 : j \in S => j = 3
          BY <3>1, <4>4, <5>1
        <5> QED
          BY <4>1, <5>2
      <4>5. CASE n \in lm.full
        <5>1. n \notin Open /\ ~ On(lm.free, n) /\ ~ On(lm.pq.d, n) /\ n # v
          BY <3>2, <3>3, <4>5, OnePlace
        <5>2. 4 \in S /\ \A j \in 1 .. 5 : j \in S => j = 4
          BY <3>1, <4>5, <5>1
        <5> QED
          BY <4>1, <5>2
      <4>6. CASE n = v
        <5>1. n \notin Open /\ ~ On(lm.free, n) /\ ~ On(lm.pq.d, n) /\ n \notin lm.full
          BY <3>2, <3>3, <4>6, OnePlace
        <5>2. 5 \in S /\ \A j \in 1 .. 5 : j \in S => j = 5
          BY <3>1, <4>6, <5>1
        <5> QED
          BY <4>1, <5>2
      <4> QED
        BY <3>2, <3>3, <4>2, <4>3, <4>4, <4>5, <4>6, OnePlace
    <3>5. Cardinality(S) = 1
      BY <3>4, FS_Singleton
    <3> QED
      BY <3>1, <3>5 DEF On
  <2>6. ASSUME NEW n \in Lines \ {gc.victim}
        PROVE  /\ lm.vpc[n] = Cardinality(PagesOf(n, "valid"))
               /\ lm.ipc[n] = Cardinality(PagesOf(n, "invalid"))
               /\ n \in lm.full => lm.ipc[n] = 0
               /\ InHeap(lm, n) => lm.ipc[n] > 0 /\ lm.vpc[n] + lm.ipc[n] = PgsPerLine
    <3>1. lm.vpc[n] = CountIn(status, n, "valid") /\ lm.ipc[n] = CountIn(status, n, "invalid")
      BY <2>1 DEF Counts
    <3>2. PICK a, b : a = CountIn(status, n, "valid") /\ b = CountIn(status, n, "invalid")
      OBVIOUS
    <3>3. a \in 0 .. PgsPerLine /\ b \in 0 .. PgsPerLine /\ a + b <= PgsPerLine /\ PgsPerLine \in Nat
      BY <2>1, <3>2, CountRange, CountSum, Sizes
    <3>4. ASSUME n \in lm.full PROVE lm.ipc[n] = 0
      <4>1. lm.vpc[n] = PgsPerLine
        BY <2>1, <3>4 DEF Counts
      <4>2. a = PgsPerLine
        BY <3>1, <3>2, <4>1
      <4>3. b = 0
        BY <3>3, <4>2
      <4> QED
        BY <3>1, <3>2, <4>3
    <3>5. ASSUME InHeap(lm, n) PROVE lm.ipc[n] > 0 /\ lm.vpc[n] + lm.ipc[n] = PgsPerLine
      <4>1. On(lm.pq.d, n)
        BY <2>1, <3>5 DEF Heap
      <4>2. lm.ipc[n] > 0
        BY <2>1, <4>1 DEF Counts
      <4>3. \A p \in LinePages(n) : status[p] # "free"
        BY <2>1, <4>1 DEF Places, LinePages
      <4>4. a + b = PgsPerLine
        BY <2>1, <3>2, <4>3, CountSum
      <4> QED
        BY <3>1, <3>2, <4>2, <4>4
    <3> QED
      BY <3>1, <3>4, <3>5 DEF PagesOf, CountIn, PagesIn
  <2> QED
    BY <2>4, <2>5, <2>6 DEF LinesSound
<1> QED
  BY <1>1, Invariance, PTL

=============================================================================
