----------------------------- MODULE IoPathInv ------------------------------
(***************************************************************************)
(* The invariant of IoPath, the terms it is stated in (circular queues,    *)
(* the dispatcher of a queue, the pieces of a command that are in the      *)
(* rings), what the operators of IoPath return, what each operation does   *)
(* to the state of one queue or of one thread, and that every step keeps   *)
(* the invariant: one lemma for each action.                               *)
(***************************************************************************)
EXTENDS IoPath, ListFacts

\* Entry e of a circular queue is one of those from a up to, but without, b.
Inside(a, b, e) == IF a <= b THEN a <= e /\ e < b ELSE a <= e \/ e < b

\* The identifiers of the commands from entry a up to entry b, and that each
\* stands there once.
In(mem, a, b, c) == \E e \in Entries : Inside(a, b, e) /\ mem[e].cid = c
Distinct(mem, a, b) ==
  \A e \in Entries : Inside(a, b, e) =>
    /\ mem[e].cid \in Cids
    /\ \A g \in Entries : Inside(a, b, g) /\ mem[g].cid = mem[e].cid => g = e

\* The dispatcher that serves queue q.
DOf(q) == (q - 1) % NrDispatcher

\* A slot holds a piece of the command, or an answer to one; how many slots
\* of the rings between all dispatchers and all FTL threads do.
Matches(slot, q, c) == slot.q = q /\ slot.cid = c
Cells(ring, n, q, c) ==
  {x \in Dispatchers \X FTLs \X (0 .. n - 1) : Matches(ring[x[1]][x[2]][x[3]], q, c)}
Count(ring, n, q, c) == Cardinality(Cells(ring, n, q, c))

\* The answers an FTL thread has not sent yet, as rings of one slot.
Answers(p) == [d \in Dispatchers |-> [f \in FTLs |->
                [i \in 0 .. 0 |-> IF p[f][d] = <<>> THEN Empty ELSE Head(p[f][d])]]]
-----------------------------------------------------------------------------
(* Sizes and queue numbers. *)

\* The sizes are positive.
LEMMA IoSizes ==
  /\ NrQueues \in Nat \ {0} /\ NrDispatcher \in Nat \ {0}
  /\ NrFTL \in Nat \ {0} /\ NrFTL <= 2
  /\ InSize \in Nat \ {0} /\ OutSize \in Nat \ {0}
  /\ Units \in Nat \ {0} /\ Ratio \in Nat \ {0}
  /\ QSize \in Nat /\ QSize >= 2
  /\ HackNum \in Nat /\ MaxCmds \in Nat /\ MaxTime \in Nat
BY IoPathAssumption

\* The remainder does not change when the divisor is added.
LEMMA ModuloShift ==
  ASSUME NEW a \in Nat, NEW n \in Nat \ {0}
  PROVE  (a + n) % n = a % n
<1>1. \A b \in Nat : b = n * (b \div n) + (b % n) /\ b \div n \in Int /\ b % n \in 0 .. n - 1
  OBVIOUS
<1> DEFINE k  == a \div n
           r  == a % n
           k2 == (a + n) \div n
           r2 == (a + n) % n
<1>2. a = n * k + r /\ k \in Int /\ r \in 0 .. n - 1
  BY <1>1
<1>3. a + n = n * k2 + r2 /\ k2 \in Int /\ r2 \in 0 .. n - 1
  <2>1. a + n \in Nat
    OBVIOUS
  <2> QED
    BY <1>1, <2>1
<1> HIDE DEF k, r, k2, r2
<1> DEFINE j == k2 - k - 1
<1>4. n * j = r - r2 /\ j \in Int
  <2>1. n * (k2 - k - 1) = n * k2 - n * k - n
    BY <1>2, <1>3
  <2> QED
    BY <1>2, <1>3, <2>1
<1> HIDE DEF j
<1>5. \A i \in Int : /\ i >= 1 => n * i >= n
                     /\ i <= -1 => n * i <= -n
                     /\ i = 0 => n * i = 0
  OBVIOUS
<1>6. j = 0
  BY <1>2, <1>3, <1>4, <1>5
<1> QED
  BY <1>2, <1>3, <1>4, <1>5, <1>6 DEF r, r2

\* Every queue has one dispatcher, and a dispatcher goes over its own queues.
LEMMA DOfFacts ==
  /\ \A q \in Nat \ {0} : DOf(q) \in Dispatchers /\ DOf(q + NrDispatcher) = DOf(q)
  /\ \A d \in Dispatchers : d + 1 \in Nat \ {0} /\ DOf(d + 1) = d
<1>1. NrDispatcher \in Nat \ {0}
  BY IoSizes
<1>2. ASSUME NEW q \in Nat \ {0}
      PROVE  DOf(q) \in Dispatchers /\ DOf(q + NrDispatcher) = DOf(q)
  <2> DEFINE n == q + NrDispatcher
  <2>1. q - 1 \in Nat /\ n - 1 = (q - 1) + NrDispatcher
    BY <1>1
  <2> HIDE DEF n
  <2>2. ((q - 1) + NrDispatcher) % NrDispatcher = (q - 1) % NrDispatcher
    BY <1>1, <2>1, ModuloShift
  <2>3. (q - 1) % NrDispatcher \in 0 .. NrDispatcher - 1
    BY <1>1, <2>1
  <2>4. DOf(q) = (q - 1) % NrDispatcher /\ DOf(n) = (n - 1) % NrDispatcher
    BY DEF DOf
  <2>5. DOf(q) \in Dispatchers /\ DOf(n) = DOf(q)
    BY Zenon, <2>1, <2>2, <2>3, <2>4 DEF Dispatchers
  <2> QED
    BY <2>5 DEF n
<1>3. ASSUME NEW d \in Dispatchers PROVE d + 1 \in Nat \ {0} /\ DOf(d + 1) = d
  <2>1. d \in Nat /\ d < NrDispatcher /\ d + 1 - 1 = d
    BY <1>1 DEF Dispatchers
  <2>2. d % NrDispatcher = d
    BY <1>1, <2>1
  <2> QED
    BY <2>1, <2>2 DEF DOf
<1> QED
  BY <1>2, <1>3

\* Queues and dispatchers are numbered, and every dispatcher's first queue is its own.
LEMMA QueueNumbers ==
  /\ \A q \in Queues : q \in Nat \ {0} /\ DOf(q) \in Dispatchers
  /\ \A d \in Dispatchers : d \in Nat /\ d + 1 \in Nat \ {0} /\ DOf(d + 1) = d
<1>1. \A q \in Queues : q \in Nat \ {0}
  BY IoSizes DEF Queues
<1>2. \A d \in Dispatchers : d \in Nat
  BY IoSizes DEF Dispatchers
<1> QED
  BY <1>1, <1>2, DOfFacts

-----------------------------------------------------------------------------
(* Circular queues. *)

\* The entries from a up to b, and how many they are, when a new one is
\* written at b and b does not run into a.
LEMMA InsidePushed ==
  ASSUME NEW a \in Entries, NEW b \in Entries, Succ(b, QSize) # a
  PROVE  /\ Succ(b, QSize) \in Entries
         /\ \A e \in Entries : Inside(a, Succ(b, QSize), e) <=> Inside(a, b, e) \/ e = b
         /\ ~ Inside(a, b, b)
         /\ Distance(a, Succ(b, QSize)) = Distance(a, b) + 1
BY IoSizes DEF Entries, Succ, Inside, Distance

\* The same when the one at a is taken.
LEMMA InsidePopped ==
  ASSUME NEW a \in Entries, NEW b \in Entries, a # b
  PROVE  /\ Succ(a, QSize) \in Entries
         /\ \A e \in Entries : Inside(a, b, e) <=> Inside(Succ(a, QSize), b, e) \/ e = a
         /\ ~ Inside(Succ(a, QSize), b, a)
         /\ Distance(Succ(a, QSize), b) = Distance(a, b) - 1
BY IoSizes DEF Entries, Succ, Inside, Distance

\* How many entries there are from a to b.
LEMMA DistanceFacts ==
  ASSUME NEW a \in Entries, NEW b \in Entries
  PROVE  /\ Distance(a, b) \in Entries
         /\ Distance(a, b) = 0 <=> a = b
         /\ a = b => \A e \in Entries : ~ Inside(a, b, e)
         /\ Succ(a, QSize) \in Entries
BY IoSizes DEF Entries, Inside, Distance, Succ

\* A queue of commands when another command is written at b.
LEMMA Pushed ==
  ASSUME NEW a \in Entries, NEW b \in Entries, Succ(b, QSize) # a,
         NEW mem, NEW new, \A e \in Entries : e # b => new[e].cid = mem[e].cid
  PROVE  /\ \A c : In(new, a, Succ(b, QSize), c) <=> In(mem, a, b, c) \/ c = new[b].cid
         /\ Distinct(mem, a, b) /\ new[b].cid \in Cids /\ ~ In(mem, a, b, new[b].cid)
              => Distinct(new, a, Succ(b, QSize))
<1>1. /\ \A e \in Entries : Inside(a, Succ(b, QSize), e) <=> Inside(a, b, e) \/ e = b
      /\ ~ Inside(a, b, b)
  BY InsidePushed
<1> QED
  BY <1>1 DEF In, Distinct

\* A queue of commands when the one at a is taken.
LEMMA Popped ==
  ASSUME NEW a \in Entries, NEW b \in Entries, a # b, NEW mem, Distinct(mem, a, b)
  PROVE  /\ mem[a].cid \in Cids /\ In(mem, a, b, mem[a].cid)
         /\ \A c : In(mem, Succ(a, QSize), b, c) <=> In(mem, a, b, c) /\ c # mem[a].cid
         /\ Distinct(mem, Succ(a, QSize), b)
<1>1. /\ \A e \in Entries : Inside(a, b, e) <=> Inside(Succ(a, QSize), b, e) \/ e = a
      /\ ~ Inside(Succ(a, QSize), b, a)
  BY InsidePopped
<1> QED
  BY <1>1 DEF In, Distinct

\* A queue that does not hold one of the identifiers is not full.
LEMMA RoomLeft ==
  ASSUME NEW a \in Entries, NEW b \in Entries, NEW mem, Distinct(mem, a, b),
         NEW c \in Cids, ~ In(mem, a, b, c)
  PROVE  Succ(b, QSize) # a
<1> SUFFICES ASSUME Succ(b, QSize) = a PROVE FALSE
  OBVIOUS
<1> DEFINE S == Entries \ {b}
           T == Cids \ {c}
           f == [e \in S |-> mem[e].cid]
<1>1. \A e \in S : Inside(a, b, e)
  BY IoSizes DEF Entries, Succ, Inside
<1>2. f \in Injection(S, T)
  <2>1. \A e \in S : mem[e].cid \in T
    BY <1>1 DEF In, Distinct
  <2>2. \A e, g \in S : mem[e].cid = mem[g].cid => e = g
    BY <1>1 DEF Distinct
  <2> QED
    BY <2>1, <2>2 DEF Injection, IsInjective
<1>3. IsFiniteSet(Entries) /\ Cardinality(Entries) = QSize
  BY IoSizes, FS_Interval DEF Entries
<1>4. IsFiniteSet(Cids) /\ Cardinality(Cids) = QSize - 1
  BY IoSizes, FS_Interval DEF Cids
<1>5. IsFiniteSet(S) /\ Cardinality(S) = QSize - 1
  BY <1>3, FS_RemoveElement, IoSizes
<1>6. IsFiniteSet(T) /\ Cardinality(T) = QSize - 2
  BY <1>4, FS_RemoveElement, IoSizes
<1> HIDE DEF S, T, f
<1> QED
  BY <1>2, <1>5, <1>6, FS_Injection, IoSizes

-----------------------------------------------------------------------------
(* Pieces in the rings. *)

Slots3(n) == Dispatchers \X FTLs \X (0 .. n - 1)

\* Rings have finitely many slots.
LEMMA SlotsFinite ==
  ASSUME NEW n \in Nat
  PROVE  IsFiniteSet(Slots3(n))
<1> DEFINE T == (Dispatchers \X FTLs) \X (0 .. n - 1)
           f == [x \in Slots3(n) |-> <<<<x[1], x[2]>>, x[3]>>]
<1>1. IsFiniteSet(Dispatchers) /\ IsFiniteSet(FTLs) /\ IsFiniteSet(0 .. n - 1)
  BY IoSizes, FS_Interval DEF Dispatchers, FTLs
<1>2. IsFiniteSet(Dispatchers \X FTLs)
  BY <1>1, FS_Product
<1>3. IsFiniteSet(T)
  BY <1>1, <1>2, FS_Product
<1>4. f \in Injection(Slots3(n), T)
  BY DEF Injection, IsInjective, Slots3
<1> HIDE DEF T, f
<1> QED
  BY <1>3, <1>4, FS_Injection

\* The rings new are the rings ring, of n slots, after p has been written to
\* slot i of the one between d and f.
Stored(ring, new, n, d, f, i, p) ==
  /\ new[d][f][i] = p
  /\ \A a \in Dispatchers : \A b \in FTLs : \A j \in 0 .. n - 1 :
       ~ (a = d /\ b = f /\ j = i) => new[a][b][j] = ring[a][b][j]

\* The rings after one slot has changed: every command's count changes by
\* what the slot held and holds.
LEMMA RingChange ==
  ASSUME NEW n \in Nat, NEW ring, NEW new,
         NEW d \in Dispatchers, NEW f \in FTLs, NEW i \in 0 .. n - 1, NEW p,
         Stored(ring, new, n, d, f, i, p), NEW q, NEW c
  PROVE  /\ Count(ring, n, q, c) \in Nat /\ Count(new, n, q, c) \in Nat
         /\ Count(new, n, q, c) = Count(ring, n, q, c) - One(Matches(ring[d][f][i], q, c))
                                    + One(Matches(p, q, c))
<1>s. /\ new[d][f][i] = p
      /\ \A x \in Slots3(n) : x # <<d, f, i>> => new[x[1]][x[2]][x[3]] = ring[x[1]][x[2]][x[3]]
  <2>1. ASSUME NEW x \in Slots3(n), x # <<d, f, i>>
        PROVE  new[x[1]][x[2]][x[3]] = ring[x[1]][x[2]][x[3]]
    <3>1. /\ x[1] \in Dispatchers /\ x[2] \in FTLs /\ x[3] \in 0 .. n - 1
          /\ x = <<x[1], x[2], x[3]>>
      BY DEF Slots3
    <3> QED
      BY <2>1, <3>1 DEF Stored
  <2> QED
    BY <2>1 DEF Stored
<1> DEFINE x0 == <<d, f, i>>
           A  == Cells(ring, n, q, c)
           B  == Cells(new, n, q, c)
           R  == A \ {x0}
<1>1. x0 \in Slots3(n) /\ x0[1] = d /\ x0[2] = f /\ x0[3] = i
  BY DEF Slots3
<1>2. A \subseteq Slots3(n) /\ B \subseteq Slots3(n)
  BY DEF Cells, Slots3
<1>3. /\ x0 \in A <=> Matches(ring[d][f][i], q, c)
      /\ x0 \in B <=> Matches(new[d][f][i], q, c)
  BY <1>1 DEF Cells, Slots3
<1>4. B \ {x0} = R
  BY <1>s, <1>2 DEF Cells, Slots3
<1>5. IsFiniteSet(A) /\ IsFiniteSet(B)
  BY <1>2, SlotsFinite, FS_Subset
<1> HIDE DEF x0, A, B
<1>6. /\ Cardinality(R) = IF x0 \in A THEN Cardinality(A) - 1 ELSE Cardinality(A)
      /\ Cardinality(B \ {x0}) = IF x0 \in B THEN Cardinality(B) - 1 ELSE Cardinality(B)
  BY <1>5, FS_RemoveElement
<1> HIDE DEF R
<1>7. Cardinality(A) \in Nat /\ Cardinality(B) \in Nat
  BY <1>5, FS_CardinalityType
<1>8. /\ Cardinality(R) = Cardinality(A) - One(x0 \in A)
      /\ Cardinality(R) = Cardinality(B) - One(x0 \in B)
  <2>1. Cardinality(R) = IF x0 \in B THEN Cardinality(B) - 1 ELSE Cardinality(B)
    BY <1>4, <1>6
  <2>2. One(x0 \in A) = (IF x0 \in A THEN 1 ELSE 0) /\ One(x0 \in B) = (IF x0 \in B THEN 1 ELSE 0)
    BY DEF One
  <2> QED
    BY <1>6, <1>7, <2>1, <2>2
<1>9. Cardinality(B) = Cardinality(A) - One(x0 \in A) + One(x0 \in B)
  BY <1>7, <1>8 DEF One
<1>10. /\ One(x0 \in A) = One(Matches(ring[d][f][i], q, c))
       /\ One(x0 \in B) = One(Matches(new[d][f][i], q, c))
  BY <1>3 DEF One
<1> QED
  BY <1>s, <1>7, <1>9, <1>10 DEF Count, A, B

\* A ring that holds a piece of the command counts it.
LEMMA CountedHeld ==
  ASSUME NEW n \in Nat, NEW ring,
         NEW d \in Dispatchers, NEW f \in FTLs, NEW i \in 0 .. n - 1, NEW q, NEW c
  PROVE  /\ Count(ring, n, q, c) \in Nat
         /\ Matches(ring[d][f][i], q, c) => Count(ring, n, q, c) >= 1
<1> DEFINE A == Cells(ring, n, q, c)
<1>1. A \subseteq Slots3(n)
  BY DEF Cells, Slots3
<1>2. Matches(ring[d][f][i], q, c) => <<d, f, i>> \in A
  BY DEF Cells
<1>3. IsFiniteSet(A)
  BY <1>1, SlotsFinite, FS_Subset
<1> HIDE DEF A
<1>4. Cardinality(A) \in Nat /\ (Cardinality(A) = 0 <=> A = {})
  BY <1>3, FS_CardinalityType, FS_EmptySet
<1> QED
  BY <1>2, <1>4 DEF Count, A

\* Rings that hold no piece of any command count none.
LEMMA CountedNone ==
  ASSUME NEW n \in Nat, NEW ring, NEW q \in Nat \ {0}, NEW c,
         \A x \in Slots3(n) : ring[x[1]][x[2]][x[3]] = Empty
  PROVE  Count(ring, n, q, c) = 0
<1>1. Cells(ring, n, q, c) = {}
  BY DEF Cells, Matches, Empty, Slots3
<1> QED
  BY <1>1, FS_EmptySet DEF Count

\* The completed list after a finished request has been put into it.
LEMMA PushedOnce ==
  ASSUME NEW S, NEW list \in Seq(S), NEW x \in S, NEW end
  PROVE  LET new == PushCompleted(list, x, end) IN
         /\ new \in Seq(S)
         /\ \A e : On(new, e) <=> On(list, e) \/ e = x
         /\ Once(list) /\ ~ On(list, x) => Once(new)
<1> DEFINE later == {i \in DOMAIN list : end <= EndOf(list[i])}
           first == CHOOSE i \in later : \A j \in later : i <= j
<1>1. Len(list) \in Nat /\ DOMAIN list = 1 .. Len(list)
  BY LenProperties
<1>2. CASE later = {}
  <2>1. PushCompleted(list, x, end) = Append(list, x)
    BY <1>2 DEF PushCompleted
  <2> QED
    BY <2>1, AppendedOnce
<1>3. CASE later # {}
  <2>1. later \subseteq 1 .. Len(list) /\ later \subseteq Nat
    BY <1>1
  <2> HIDE DEF later
  <2>2. \E i \in later : \A j \in later : i <= j
    BY <1>1, <1>3, <2>1, LeastNumber
  <2>3. first \in later
    BY <2>2
  <2>4. first + 1 \in 1 .. Len(list) + 1
    <3>1. first \in 1 .. Len(list)
      BY <2>1, <2>3
    <3> HIDE DEF first
    <3> QED
      BY <1>1, <3>1
  <2>5. PushCompleted(list, x, end) = InsertAt(list, first + 1, x)
    BY <1>3 DEF PushCompleted, later
  <2> HIDE DEF first
  <2> QED
    BY <2>4, <2>5, InsertedOnce
<1> QED
  BY <1>2, <1>3
-----------------------------------------------------------------------------
(* The invariant. *)

\* A dispatcher, being s, is dispatching a batch of entries of its queue.
Batch(s) == s.pc \in {"io", "hack", "split"}

\* The next entry of queue q that its dispatcher, being s, takes: it is ahead
\* of what the device v remembers while a batch is dispatched.
CursorOf(s, v, q) ==
  IF Batch(s) /\ s.q = q
  THEN IF s.pc = "split" THEN Succ(s.entry, QSize) ELSE s.entry
  ELSE v.oldSq
Cursor(q) == CursorOf(disp[DOf(q)], dev[q], q)

\* The parts of the invariant about one queue have its state as parameters:
\* h is the host's, v the device's, sqm and cqm the two queues in memory, and
\* cur the next entry to be taken.

\* A command in use stands in one place, once: it waits in the submission
\* queue, or has a tag, or its completion waits for the host.
Placed(h, sqm, cqm, v, cur) ==
  /\ Distinct(sqm, cur, h.sqTail)
  /\ Distinct(cqm, h.cqHead, v.head)
  /\ \A c \in Cids : One(In(sqm, cur, h.sqTail, c)) + One(v.tag[c] # 0)
                       + One(In(cqm, h.cqHead, v.head, c)) = One(c \in h.busy)
  /\ \A e \in Entries : Inside(cur, h.sqTail, e) => sqm[e].nlb # 0

\* The phase tags tell the completions the host has not taken yet: the device
\* has written the entries before its head in this pass of the queue, and the
\* others in the pass before.
Phases(h, cqm, v) ==
  /\ v.phase = IF v.head >= h.cqHead THEN h.phase ELSE 1 - h.phase
  /\ \A e \in Entries : cqm[e].phase = IF e < v.head THEN v.phase ELSE 1 - v.phase

\* Internal requests are free, or in flight for the command of their tag.
Requested(v) ==
  /\ Once(v.free) /\ ~ On(v.free, 0)
  /\ \A r \in 1 .. QSize :
       /\ v.req[r].flight <=> ~ On(v.free, r)
       /\ v.req[r].flight => v.req[r].cid \in Cids /\ v.tag[v.req[r].cid] = r
       /\ ~ v.req[r].flight => v.req[r].left = 0
  /\ \A c \in Cids : v.tag[c] # 0 => v.req[v.tag[c]].flight /\ v.req[v.tag[c]].cid = c

QueueOk(h, sqm, cqm, v, cur) ==
  Placed(h, sqm, cqm, v, cur) /\ Phases(h, cqm, v) /\ Requested(v)

QueuesOk ==
  \A q \in Queues : /\ QueueOk(host[q], sqMem[q], cqMem[q], dev[q], Cursor(q))
                    /\ sqDb[q] = host[q].sqTail

\* What a dispatcher does makes sense: its queue is one of its own, and a
\* batch does not go beyond the host's tail.
ThreadOk(d) ==
  LET s == disp[d] IN
  /\ s.q \in Nat \ {0} /\ DOf(s.q) = d
  /\ s.pc = "cq" \/ Batch(s) => s.q \in Queues
  /\ Batch(s) => /\ s.todo >= 1
                 /\ s.todo - One(s.pc = "split") <= Distance(Cursor(s.q), host[s.q].sqTail)
  /\ s.pc = "hack" => s.hack # 0
  /\ s.pc = "split" => /\ s.req # 0 /\ s.nlb # 0 /\ dev[s.q].req[s.req].flight
                       /\ ~ On(completed[d], <<s.q, s.req>>)
  /\ s.pc = "fill" => completed[d] # <<>>

\* A finished request has no piece left and stands in one list, once.
CompletedOk(d) ==
  /\ Once(completed[d])
  /\ \A x : On(completed[d], x) =>
       /\ DOf(x[1]) = d /\ x[2] # 0
       /\ dev[x[1]].req[x[2]].flight /\ dev[x[1]].req[x[2]].left = 0

\* An FTL thread has at most one answer for a dispatcher, and none where it
\* takes a request.
FtlOk(f) ==
  /\ \A d \in Dispatchers : Len(pq[f][d]) <= 1
  /\ ftl[f].pc = "req" => \A d \in Dispatchers : d >= ftl[f].d => pq[f][d] = <<>>
  /\ ftl[f].pc = "resp" => /\ \A d \in Dispatchers : d < ftl[f].d => pq[f][d] = <<>>
                           /\ pq[f][ftl[f].d] # <<>>

\* Rings hold pieces of the queues of their dispatcher only.
RoutedTo(ring, n) ==
  \A d \in Dispatchers : \A f \in FTLs : \A i \in 0 .. n - 1 :
    ring[d][f][i] # Empty => DOf(ring[d][f][i].q) = d
Routed == RoutedTo(inQue, InSize) /\ RoutedTo(outQue, OutSize) /\ RoutedTo(Answers(pq), 1)

\* A command has no more pieces in the rings than its request counts, and
\* none without a tag.  (It has fewer when a ring was overrun.)
Pieces(q, c) == Count(inQue, InSize, q, c) + Count(outQue, OutSize, q, c)
                  + Count(Answers(pq), 1, q, c)
LeftOf(v, c) == IF v.tag[c] = 0 THEN 0 ELSE v.req[v.tag[c]].left
PiecesOk == \A q \in Queues : \A c \in Cids : Pieces(q, c) <= LeftOf(dev[q], c)

\* It has exactly as many as its request counts, as long as no ring is overrun.
Exact == \A q \in Queues : \A c \in Cids : Pieces(q, c) = LeftOf(dev[q], c)

IInv == /\ TypeOK /\ QueuesOk /\ Routed /\ PiecesOk
        /\ \A d \in Dispatchers : ThreadOk(d) /\ CompletedOk(d)
        /\ \A f \in FTLs : FtlOk(f)
-----------------------------------------------------------------------------
(* The state of one queue. *)

\* The fields of the records of one queue.
LEMMA RecordFacts ==
  /\ \A h \in Driver : /\ h.sqTail \in Entries /\ h.cqHead \in Entries
                       /\ h.phase \in {0, 1} /\ h.busy \subseteq Cids
  /\ \A v \in Device : /\ v.oldSq \in Entries /\ v.oldCq \in Entries /\ v.head \in Entries
                       /\ v.phase \in {0, 1} /\ v.inFlight \in Int /\ v.ready \in BOOLEAN
                       /\ v.tag \in [Cids -> ReqIds] /\ v.free \in Seq(ReqIds)
                       /\ v.req \in [ReqIds -> Request]
                       /\ \A c \in Cids : v.tag[c] \in ReqIds
  /\ \A v \in Device : \A r \in ReqIds :
                       /\ v.req[r].flight \in BOOLEAN /\ v.req[r].cid \in Cids \cup {0}
                       /\ v.req[r].left \in Int
                       /\ v.req[r].start \in Time /\ v.req[r].end \in Time
<1>1. \A h \in Driver : /\ h.sqTail \in Entries /\ h.cqHead \in Entries
                        /\ h.phase \in {0, 1} /\ h.busy \subseteq Cids
  BY DEF Driver
<1>2. \A v \in Device : /\ v.oldSq \in Entries /\ v.oldCq \in Entries /\ v.head \in Entries
                        /\ v.phase \in {0, 1} /\ v.inFlight \in Int /\ v.ready \in BOOLEAN
                        /\ v.tag \in [Cids -> ReqIds] /\ v.free \in Seq(ReqIds)
                        /\ v.req \in [ReqIds -> Request]
  BY DEF Device
<1>3. \A v \in Device : \A r \in ReqIds : v.req[r] \in Request
  BY <1>2
<1>4. \A x \in Request : /\ x.flight \in BOOLEAN /\ x.cid \in Cids \cup {0}
                         /\ x.left \in Int /\ x.start \in Time /\ x.end \in Time
  BY DEF Request
<1>5. \A v \in Device : \A c \in Cids : v.tag[c] \in ReqIds
  BY <1>2
<1> QED
  BY <1>1, <1>2, <1>3, <1>4, <1>5

\* A command waits, is in flight or is completed only while it is in use.
LEMMA InUse ==
  ASSUME NEW h, NEW sqm, NEW cqm, NEW v, NEW cur, Placed(h, sqm, cqm, v, cur), NEW c \in Cids
  PROVE  /\ c \notin h.busy => /\ ~ In(sqm, cur, h.sqTail, c) /\ v.tag[c] = 0
                               /\ ~ In(cqm, h.cqHead, v.head, c)
         /\ In(sqm, cur, h.sqTail, c) =>
              c \in h.busy /\ v.tag[c] = 0 /\ ~ In(cqm, h.cqHead, v.head, c)
         /\ v.tag[c] # 0 =>
              c \in h.busy /\ ~ In(sqm, cur, h.sqTail, c) /\ ~ In(cqm, h.cqHead, v.head, c)
         /\ In(cqm, h.cqHead, v.head, c) =>
              c \in h.busy /\ v.tag[c] = 0 /\ ~ In(sqm, cur, h.sqTail, c)
         /\ c \in h.busy => \/ In(sqm, cur, h.sqTail, c) \/ v.tag[c] # 0
                            \/ In(cqm, h.cqHead, v.head, c)
<1> DEFINE a == In(sqm, cur, h.sqTail, c)
           b == v.tag[c] # 0
           e == In(cqm, h.cqHead, v.head, c)
           u == c \in h.busy
<1>1. One(a) + One(b) + One(e) = One(u)
  BY DEF Placed
<1> HIDE DEF a, b, e, u
<1>2. /\ ~ u => ~ a /\ ~ b /\ ~ e
      /\ u => a \/ b \/ e
      /\ a => u /\ ~ b /\ ~ e
      /\ b => u /\ ~ a /\ ~ e
      /\ e => u /\ ~ a /\ ~ b
  BY <1>1 DEF One
<1> QED
  BY <1>2 DEF a, b, e, u

\* A queue stays sound when the device changes nothing in it but what it
\* remembers of doorbells, and the pieces left of requests in flight.
LEMMA QueueSame ==
  ASSUME NEW h, NEW sqm, NEW cqm, NEW v, NEW w, NEW cur,
         QueueOk(h, sqm, cqm, v, cur),
         w.head = v.head, w.phase = v.phase, w.tag = v.tag, w.free = v.free,
         \A r \in ReqIds : /\ w.req[r].flight = v.req[r].flight /\ w.req[r].cid = v.req[r].cid
                           /\ ~ v.req[r].flight => w.req[r].left = v.req[r].left,
         \A c \in Cids : v.tag[c] \in ReqIds
  PROVE  QueueOk(h, sqm, cqm, w, cur)
<1>1. Placed(h, sqm, cqm, w, cur) /\ Phases(h, cqm, w)
  BY DEF QueueOk, Placed, Phases
<1>2. Requested(w)
  BY IoSizes DEF QueueOk, Requested, ReqIds
<1> QED
  BY <1>1, <1>2 DEF QueueOk

\* The host writes a command with a free tag at the tail.
LEMMA QueueSubmit ==
  ASSUME NEW h \in Driver, NEW sqm, NEW cqm, NEW v, NEW cur \in Entries,
         QueueOk(h, sqm, cqm, v, cur),
         NEW c \in Cids, c \notin h.busy, NEW g, NEW m,
         g.sqTail = Succ(h.sqTail, QSize), g.busy = h.busy \cup {c},
         g.cqHead = h.cqHead, g.phase = h.phase,
         m[h.sqTail].cid = c, m[h.sqTail].nlb # 0,
         \A e \in Entries : e # h.sqTail => m[e] = sqm[e]
  PROVE  /\ QueueOk(g, m, cqm, v, cur)
         /\ Distance(cur, g.sqTail) = Distance(cur, h.sqTail) + 1
<1> DEFINE t == h.sqTail
<1>1. /\ t \in Entries /\ g.sqTail = Succ(t, QSize) /\ g.busy = h.busy \cup {c}
      /\ g.cqHead = h.cqHead /\ g.phase = h.phase
  BY DEF Driver
<1>2. /\ m[t].cid = c /\ m[t].nlb # 0
      /\ \A e \in Entries : e # t => m[e] = sqm[e]
  OBVIOUS
<1> HIDE DEF t
<1>3. /\ ~ In(sqm, cur, t, c) /\ v.tag[c] = 0 /\ ~ In(cqm, h.cqHead, v.head, c)
  BY InUse DEF QueueOk, t
<1>4. Distinct(sqm, cur, t)
  BY DEF QueueOk, Placed, t
<1>5. Succ(t, QSize) # cur
  BY <1>1, <1>3, <1>4, RoomLeft
<1>6. /\ \A x : In(m, cur, Succ(t, QSize), x) <=> In(sqm, cur, t, x) \/ x = c
      /\ Distinct(m, cur, Succ(t, QSize))
  BY <1>1, <1>2, <1>3, <1>4, <1>5, Pushed
<1>7. ASSUME NEW x \in Cids
      PROVE  One(In(m, cur, g.sqTail, x)) + One(v.tag[x] # 0)
               + One(In(cqm, g.cqHead, v.head, x)) = One(x \in g.busy)
  <2>1. CASE x = c
    <3>1. /\ In(m, cur, g.sqTail, x) /\ x \in g.busy
          /\ ~ (v.tag[x] # 0) /\ ~ In(cqm, g.cqHead, v.head, x)
      BY <1>1, <1>3, <1>6, <2>1
    <3> QED
      BY <3>1 DEF One
  <2>2. CASE x # c
    <3>1. /\ In(m, cur, g.sqTail, x) <=> In(sqm, cur, h.sqTail, x)
          /\ x \in g.busy <=> x \in h.busy
      BY <1>1, <1>6, <2>2 DEF t
    <3>2. One(In(sqm, cur, h.sqTail, x)) + One(v.tag[x] # 0)
               + One(In(cqm, h.cqHead, v.head, x)) = One(x \in h.busy)
      BY DEF QueueOk, Placed
    <3> QED
      BY <1>1, <3>1, <3>2 DEF One
  <2> QED
    BY <2>1, <2>2
<1>8. ASSUME NEW e \in Entries, Inside(cur, g.sqTail, e)
      PROVE  m[e].nlb # 0
  <2>1. Inside(cur, h.sqTail, e) \/ e = t
    BY <1>1, <1>5, <1>8, InsidePushed DEF t
  <2>2. Inside(cur, h.sqTail, e) => sqm[e].nlb # 0
    BY DEF QueueOk, Placed
  <2> QED
    BY <1>2, <2>1, <2>2
<1>9. Distinct(cqm, g.cqHead, v.head)
  BY <1>1 DEF QueueOk, Placed
<1>10. Placed(g, m, cqm, v, cur)
  BY <1>1, <1>6, <1>7, <1>8, <1>9 DEF Placed
<1>11. Phases(g, cqm, v) /\ Requested(v)
  BY <1>1 DEF QueueOk, Phases
<1>12. Distance(cur, g.sqTail) = Distance(cur, t) + 1
  BY <1>1, <1>5, InsidePushed
<1> QED
  BY <1>10, <1>11, <1>12 DEF QueueOk, t

\* The host takes all the completions up to the device's head.
LEMMA QueueReap ==
  ASSUME NEW h \in Driver, NEW sqm, NEW cqm, NEW v \in Device, NEW cur,
         QueueOk(h, sqm, cqm, v, cur), NEW taken, NEW g,
         \A c \in Cids : c \in taken <=> In(cqm, h.cqHead, v.head, c),
         g.sqTail = h.sqTail, g.busy = h.busy \ taken, g.cqHead = v.head,
         g.phase = IF v.head < h.cqHead THEN 1 - h.phase ELSE h.phase
  PROVE  QueueOk(g, sqm, cqm, v, cur)
<1>1. /\ g.sqTail = h.sqTail /\ g.busy = h.busy \ taken
      /\ g.cqHead = v.head /\ g.phase = IF v.head < h.cqHead THEN 1 - h.phase ELSE h.phase
  OBVIOUS
<1>2. /\ v.head \in Entries /\ h.cqHead \in Entries
  BY RecordFacts
<1>3. \A c : ~ In(cqm, v.head, v.head, c)
  BY <1>2, DistanceFacts DEF In
<1>4. Distinct(cqm, v.head, v.head)
  BY <1>2, DistanceFacts DEF Distinct
<1>5. ASSUME NEW c \in Cids
      PROVE  One(In(sqm, cur, g.sqTail, c)) + One(v.tag[c] # 0)
               + One(In(cqm, g.cqHead, v.head, c)) = One(c \in g.busy)
  <2>1. One(In(sqm, cur, h.sqTail, c)) + One(v.tag[c] # 0)
               + One(In(cqm, h.cqHead, v.head, c)) = One(c \in h.busy)
    BY DEF QueueOk, Placed
  <2>2. /\ ~ In(cqm, g.cqHead, v.head, c)
        /\ c \in g.busy <=> c \in h.busy /\ ~ In(cqm, h.cqHead, v.head, c)
    BY <1>1, <1>3
  <2> QED
    BY <1>1, <2>1, <2>2 DEF One
<1>6. Placed(g, sqm, cqm, v, cur)
  BY <1>1, <1>4, <1>5 DEF QueueOk, Placed
<1>7. v.phase = IF v.head >= g.cqHead THEN g.phase ELSE 1 - g.phase
  BY <1>1, <1>2, IoSizes DEF QueueOk, Phases, Entries
<1>8. Phases(g, cqm, v) /\ Requested(v)
  BY <1>7 DEF QueueOk, Phases
<1> QED
  BY <1>6, <1>8 DEF QueueOk

\* The completion queue cqm with a completion of c at the head of the device v.
Written(m, cqm, v, c) ==
  /\ m[v.head].cid = c /\ m[v.head].phase = v.phase
  /\ \A e \in Entries : e # v.head => m[e] = cqm[e]

\* The device posts a completion at its head.
LEMMA QueuePost ==
  ASSUME NEW h \in Driver, NEW cqm, NEW v \in Device, NEW c \in Cids,
         Distinct(cqm, h.cqHead, v.head), Phases(h, cqm, v),
         ~ In(cqm, h.cqHead, v.head, c), NEW m, Written(m, cqm, v, c)
  PROVE  LET w == Posted(v) IN
            /\ Distinct(m, h.cqHead, w.head) /\ Phases(h, m, w)
            /\ \A x : In(m, h.cqHead, w.head, x) <=> In(cqm, h.cqHead, v.head, x) \/ x = c
            /\ ~ Inside(h.cqHead, v.head, v.head)
<1> DEFINE w == Posted(v)
           a == h.cqHead
           b == v.head
<1>1. /\ w.head = Succ(b, QSize)
      /\ w.phase = IF b + 1 = QSize THEN 1 - v.phase ELSE v.phase
  BY DEF Posted, Device
<1>2. a \in Entries /\ b \in Entries /\ h.phase \in {0, 1} /\ v.phase \in {0, 1}
  BY RecordFacts
<1>3. /\ m[b].cid = c /\ m[b].phase = v.phase
      /\ \A e \in Entries : e # b => m[e] = cqm[e]
  BY DEF Written
<1> HIDE DEF w
<1>4. Succ(b, QSize) # a
  BY <1>2, RoomLeft
<1>5. /\ \A x : In(m, a, Succ(b, QSize), x) <=> In(cqm, a, b, x) \/ x = c
      /\ Distinct(m, a, Succ(b, QSize))
  BY <1>2, <1>3, <1>4, Pushed
<1>6. ~ Inside(a, b, b)
  BY <1>2, <1>4, InsidePushed
<1>7. v.phase = IF b >= a THEN h.phase ELSE 1 - h.phase
  BY DEF Phases
<1>8. w.phase = IF w.head >= a THEN h.phase ELSE 1 - h.phase
  <2> HIDE DEF a, b
  <2> QED
    BY <1>1, <1>2, <1>4, <1>7, IoSizes DEF Entries, Succ
<1>9. ASSUME NEW e \in Entries
      PROVE  m[e].phase = IF e < w.head THEN w.phase ELSE 1 - w.phase
  <2>1. cqm[e].phase = IF e < b THEN v.phase ELSE 1 - v.phase
    BY DEF Phases
  <2>2. m[e].phase = IF e = b THEN v.phase ELSE cqm[e].phase
    BY <1>3
  <2> HIDE DEF a, b
  <2> QED
    BY <1>1, <1>2, <2>1, <2>2, IoSizes DEF Entries, Succ
<1>10. Phases(h, m, w)
  BY <1>8, <1>9 DEF Phases
<1> QED
  BY <1>1, <1>5, <1>6, <1>10 DEF w

\* One of the first commands is taken and completed at once.
LEMMA QueueHack ==
  ASSUME NEW h \in Driver, NEW sqm, NEW cqm, NEW v \in Device, NEW cur \in Entries,
         QueueOk(h, sqm, cqm, v, cur), cur # h.sqTail, NEW c, c = sqm[cur].cid,
         NEW m, Written(m, cqm, v, c)
  PROVE  /\ c \in Cids /\ QueueOk(h, sqm, m, Posted(v), Succ(cur, QSize))
         /\ v.tag[c] = 0 /\ ~ In(cqm, h.cqHead, v.head, c)
         /\ ~ Inside(h.cqHead, v.head, v.head)
<1> DEFINE w == Posted(v)
           t == h.sqTail
           next == Succ(cur, QSize)
<1>1. /\ Distinct(sqm, cur, t) /\ Distinct(cqm, h.cqHead, v.head)
      /\ \A x \in Cids : One(In(sqm, cur, t, x)) + One(v.tag[x] # 0)
                           + One(In(cqm, h.cqHead, v.head, x)) = One(x \in h.busy)
      /\ \A e \in Entries : Inside(cur, t, e) => sqm[e].nlb # 0
      /\ Phases(h, cqm, v) /\ Requested(v)
  BY DEF QueueOk, Placed
<1>2. t \in Entries
  BY RecordFacts
<1>3. /\ c \in Cids /\ In(sqm, cur, t, c)
      /\ \A x : In(sqm, next, t, x) <=> In(sqm, cur, t, x) /\ x # c
      /\ Distinct(sqm, next, t)
  BY <1>1, <1>2, Popped
<1>4. /\ c \in h.busy /\ v.tag[c] = 0 /\ ~ In(cqm, h.cqHead, v.head, c)
  BY <1>3, InUse DEF QueueOk
<1>5. /\ Distinct(m, h.cqHead, w.head) /\ Phases(h, m, w)
      /\ \A x : In(m, h.cqHead, w.head, x) <=> In(cqm, h.cqHead, v.head, x) \/ x = c
      /\ ~ Inside(h.cqHead, v.head, v.head)
  BY <1>1, <1>3, <1>4, QueuePost
<1>6. w.tag = v.tag /\ w.free = v.free /\ w.req = v.req
  BY DEF Posted, Device
<1> HIDE DEF w, t, next
<1>7. ASSUME NEW x \in Cids
      PROVE  One(In(sqm, next, t, x)) + One(w.tag[x] # 0)
               + One(In(m, h.cqHead, w.head, x)) = One(x \in h.busy)
  <2>1. CASE x = c
    <3>1. /\ ~ In(sqm, next, t, x) /\ ~ (w.tag[x] # 0) /\ In(m, h.cqHead, w.head, x)
          /\ x \in h.busy
      BY <1>3, <1>4, <1>5, <1>6, <2>1
    <3> QED
      BY <3>1 DEF One
  <2>2. CASE x # c
    <3>1. /\ In(sqm, next, t, x) <=> In(sqm, cur, t, x)
          /\ In(m, h.cqHead, w.head, x) <=> In(cqm, h.cqHead, v.head, x)
      BY <1>3, <1>5, <2>2
    <3>2. One(In(sqm, cur, t, x)) + One(v.tag[x] # 0)
            + One(In(cqm, h.cqHead, v.head, x)) = One(x \in h.busy)
      BY <1>1
    <3> QED
      BY <1>6, <3>1, <3>2 DEF One
  <2> QED
    BY <2>1, <2>2
<1>8. \A e \in Entries : Inside(next, t, e) => sqm[e].nlb # 0
  BY <1>1, <1>2, InsidePopped DEF next, t
<1>9. Placed(h, sqm, m, w, next)
  BY <1>3, <1>5, <1>7, <1>8 DEF Placed, t
<1>10. Requested(w)
  BY <1>1, <1>6 DEF Requested
<1> QED
  BY <1>3, <1>4, <1>5, <1>9, <1>10 DEF QueueOk, w, next

\* There is a free request for every command without a tag.
LEMMA RequestLeft ==
  ASSUME NEW v \in Device, Requested(v)
  PROVE  v.free # <<>>
<1> SUFFICES ASSUME v.free = <<>> PROVE FALSE
  OBVIOUS
<1> DEFINE R == 1 .. QSize
           f == [r \in R |-> v.req[r].cid]
<1>1. \A r \in R : ~ On(v.free, r)
  BY EmptySeq DEF On
<1>2. \A r \in R : v.req[r].flight
  BY <1>1 DEF Requested
<1>3. \A r \in R : v.req[r].cid \in Cids /\ v.tag[v.req[r].cid] = r
  BY <1>2 DEF Requested
<1>4. f \in Injection(R, Cids)
  BY <1>3 DEF Injection, IsInjective
<1>5. IsFiniteSet(R) /\ Cardinality(R) = QSize
  BY IoSizes, FS_Interval
<1>6. IsFiniteSet(Cids) /\ Cardinality(Cids) = QSize - 1
  BY IoSizes, FS_Interval DEF Cids
<1> HIDE DEF f, R
<1> QED
  BY <1>4, <1>5, <1>6, FS_Injection, IoSizes

\* A command is taken and gets the first free request.
LEMMA QueueStart ==
  ASSUME NEW h \in Driver, NEW sqm, NEW cqm, NEW v \in Device, NEW cur \in Entries,
         QueueOk(h, sqm, cqm, v, cur), cur # h.sqTail, NEW c, c = sqm[cur].cid,
         NEW r, r = Head(v.free), NEW w \in Device,
         w.head = v.head, w.phase = v.phase, w.free = Tail(v.free),
         w.tag = [v.tag EXCEPT ![c] = r],
         w.req[r].flight, w.req[r].cid = c,
         \A s \in ReqIds : s # r => w.req[s] = v.req[s]
  PROVE  /\ c \in Cids /\ sqm[cur].nlb # 0 /\ v.tag[c] = 0
         /\ r \in 1 .. QSize /\ ~ v.req[r].flight /\ v.req[r].left = 0
         /\ QueueOk(h, sqm, cqm, w, Succ(cur, QSize))
<1> DEFINE t == h.sqTail
           next == Succ(cur, QSize)
<1>1. /\ Distinct(sqm, cur, t) /\ Distinct(cqm, h.cqHead, v.head)
      /\ \A x \in Cids : One(In(sqm, cur, t, x)) + One(v.tag[x] # 0)
                           + One(In(cqm, h.cqHead, v.head, x)) = One(x \in h.busy)
      /\ \A e \in Entries : Inside(cur, t, e) => sqm[e].nlb # 0
      /\ Phases(h, cqm, v) /\ Requested(v)
  BY DEF QueueOk, Placed
<1>2. t \in Entries
  BY RecordFacts
<1>3. /\ c \in Cids /\ In(sqm, cur, t, c)
      /\ \A x : In(sqm, next, t, x) <=> In(sqm, cur, t, x) /\ x # c
      /\ Distinct(sqm, next, t)
  BY <1>1, <1>2, Popped
<1>4. /\ c \in h.busy /\ v.tag[c] = 0 /\ ~ In(cqm, h.cqHead, v.head, c)
  BY <1>3, InUse DEF QueueOk
<1>5. /\ \A e \in Entries : Inside(next, t, e) => Inside(cur, t, e)
      /\ Inside(cur, t, cur)
  BY <1>2, InsidePopped
<1>6. v.free \in Seq(ReqIds) /\ v.free # <<>> /\ Once(v.free)
  BY <1>1, RecordFacts, RequestLeft DEF Requested
<1>7. /\ r \in ReqIds /\ On(v.free, r) /\ Once(w.free)
      /\ \A s : On(w.free, s) <=> On(v.free, s) /\ s # r
  BY <1>6, TailOnce
<1>8. /\ r \in 1 .. QSize /\ r # 0
      /\ ~ v.req[r].flight /\ v.req[r].left = 0
  <2>1. r # 0
    BY <1>1, <1>7 DEF Requested
  <2>2. r \in 1 .. QSize
    BY <1>7, <2>1, IoSizes DEF ReqIds
  <2> QED
    BY <1>1, <1>7, <2>1, <2>2 DEF Requested
<1>9. v.tag \in [Cids -> ReqIds]
  BY RecordFacts
<1>10. w.tag[c] = r /\ \A x \in Cids : x # c => w.tag[x] = v.tag[x]
  BY <1>3, <1>9
<1>11. ASSUME NEW x \in Cids
       PROVE  One(In(sqm, next, t, x)) + One(w.tag[x] # 0)
                + One(In(cqm, h.cqHead, w.head, x)) = One(x \in h.busy)
  <2>1. CASE x = c
    <3>1. /\ ~ In(sqm, next, t, x) /\ w.tag[x] # 0 /\ ~ In(cqm, h.cqHead, w.head, x)
          /\ x \in h.busy
      BY <1>3, <1>4, <1>8, <1>10, <2>1
    <3> QED
      BY <3>1 DEF One
  <2>2. CASE x # c
    <3>1. In(sqm, next, t, x) <=> In(sqm, cur, t, x)
      BY <1>3, <2>2
    <3>2. One(In(sqm, cur, t, x)) + One(v.tag[x] # 0)
            + One(In(cqm, h.cqHead, v.head, x)) = One(x \in h.busy)
      BY <1>1
    <3> QED
      BY <1>10, <2>2, <3>1, <3>2 DEF One
  <2> QED
    BY <2>1, <2>2
<1>12. Placed(h, sqm, cqm, w, next)
  BY <1>1, <1>3, <1>5, <1>11 DEF Placed
<1>13. Phases(h, cqm, w)
  BY <1>1 DEF Phases
<1>14. Requested(w)
  <2>1. Once(w.free) /\ ~ On(w.free, 0)
    BY <1>1, <1>7 DEF Requested
  <2>2. ASSUME NEW s \in 1 .. QSize
        PROVE  /\ w.req[s].flight <=> ~ On(w.free, s)
               /\ w.req[s].flight => w.req[s].cid \in Cids /\ w.tag[w.req[s].cid] = s
               /\ ~ w.req[s].flight => w.req[s].left = 0
    <3>1. CASE s = r
      BY <1>3, <1>7, <1>10, <3>1
    <3>2. CASE s # r
      <4>1. s \in ReqIds /\ w.req[s] = v.req[s]
        BY <3>2, IoSizes DEF ReqIds
      <4>2. v.req[s].flight => v.req[s].cid \in Cids /\ v.tag[v.req[s].cid] = s
        BY <1>1 DEF Requested
      <4>3. v.req[s].flight => v.req[s].cid # c
        BY <1>4, <4>2
      <4>4. On(w.free, s) <=> On(v.free, s)
        BY <1>7, <3>2
      <4> QED
        BY <1>1, <1>10, <4>1, <4>2, <4>3, <4>4 DEF Requested
    <3> QED
      BY <3>1, <3>2
  <2>3. ASSUME NEW x \in Cids, w.tag[x] # 0
        PROVE  w.req[w.tag[x]].flight /\ w.req[w.tag[x]].cid = x
    <3>1. CASE x = c
      BY <1>10, <3>1
    <3>2. CASE x # c
      <4>1. w.tag[x] = v.tag[x] /\ v.tag[x] \in ReqIds
        BY <1>9, <1>10, <3>2
      <4>2. v.req[v.tag[x]].flight /\ v.req[v.tag[x]].cid = x
        BY <1>1, <2>3, <4>1 DEF Requested
      <4>3. v.tag[x] # r
        BY <1>8, <4>2
      <4> QED
        BY <4>1, <4>2, <4>3
    <3> QED
      BY <3>1, <3>2
  <2> QED
    BY <2>1, <2>2, <2>3 DEF Requested
<1> QED
  BY <1>1, <1>3, <1>4, <1>5, <1>8, <1>12, <1>13, <1>14 DEF QueueOk

\* Request r of the device v is in flight for command c and has no piece left.
Finished(v, r, c) ==
  r \in ReqIds /\ r # 0 /\ v.req[r].flight /\ v.req[r].left = 0 /\ c = v.req[r].cid

\* A finished request is completed and goes back to the free list.
LEMMA QueueFill ==
  ASSUME NEW h \in Driver, NEW sqm, NEW cqm, NEW v \in Device, NEW cur \in Entries,
         QueueOk(h, sqm, cqm, v, cur),
         NEW r, NEW c, Finished(v, r, c), NEW m, Written(m, cqm, v, c)
  PROVE  /\ c \in Cids /\ v.tag[c] = r
         /\ QueueOk(h, sqm, m, Freed(Posted(v), r, c), cur)
         /\ ~ In(cqm, h.cqHead, v.head, c) /\ ~ Inside(h.cqHead, v.head, v.head)
<1> DEFINE w == Freed(Posted(v), r, c)
           t == h.sqTail
<1>1. /\ Distinct(sqm, cur, t) /\ Distinct(cqm, h.cqHead, v.head)
      /\ \A x \in Cids : One(In(sqm, cur, t, x)) + One(v.tag[x] # 0)
                           + One(In(cqm, h.cqHead, v.head, x)) = One(x \in h.busy)
      /\ \A e \in Entries : Inside(cur, t, e) => sqm[e].nlb # 0
      /\ Phases(h, cqm, v) /\ Requested(v)
  BY DEF QueueOk, Placed
<1>r. r \in 1 .. QSize /\ v.req[r].flight /\ v.req[r].left = 0 /\ c = v.req[r].cid
  BY IoSizes DEF ReqIds, Finished
<1>2. /\ c \in Cids /\ v.tag[c] = r /\ r # 0 /\ r \in ReqIds
  BY <1>r, <1>1, IoSizes DEF Requested, ReqIds
<1>3. /\ c \in h.busy /\ ~ In(sqm, cur, t, c) /\ ~ In(cqm, h.cqHead, v.head, c)
  BY <1>2, InUse DEF QueueOk
<1>4. /\ Distinct(m, h.cqHead, Posted(v).head) /\ Phases(h, m, Posted(v))
      /\ \A x : In(m, h.cqHead, Posted(v).head, x) <=> In(cqm, h.cqHead, v.head, x) \/ x = c
      /\ ~ Inside(h.cqHead, v.head, v.head)
  BY <1>1, <1>2, <1>3, QueuePost
<1>5. /\ v.tag \in [Cids -> ReqIds] /\ v.req \in [ReqIds -> Request] /\ v.free \in Seq(ReqIds)
      /\ v.req[r] \in Request
  BY <1>2, RecordFacts
<1>6. /\ Posted(v).tag = v.tag /\ Posted(v).free = v.free /\ Posted(v).req = v.req
      /\ Posted(v) = [Posted(v) EXCEPT !.tag = v.tag]
  BY DEF Posted, Device
<1>7. /\ w.head = Posted(v).head /\ w.phase = Posted(v).phase
      /\ w.free = Append(v.free, r)
      /\ w.tag = [v.tag EXCEPT ![c] = 0]
      /\ w.req = [v.req EXCEPT ![r].flight = FALSE]
  BY DEF Freed, Posted, Device
<1> HIDE DEF w, t
<1>8. /\ w.tag[c] = 0 /\ \A x \in Cids : x # c => w.tag[x] = v.tag[x]
  BY <1>2, <1>5, <1>7
<1>9. /\ w.req[r].flight = FALSE /\ w.req[r].left = 0
      /\ \A s \in ReqIds : s # r => w.req[s] = v.req[s]
  BY <1>r, <1>2, <1>5, <1>7 DEF Request
<1>10. /\ ~ On(v.free, r) /\ Once(v.free) /\ ~ On(v.free, 0)
  BY <1>r, <1>1 DEF Requested
<1>11. /\ Once(w.free) /\ \A s : On(w.free, s) <=> On(v.free, s) \/ s = r
  BY <1>2, <1>5, <1>7, <1>10, AppendedOnce
<1>12. ASSUME NEW x \in Cids
       PROVE  One(In(sqm, cur, t, x)) + One(w.tag[x] # 0)
                + One(In(m, h.cqHead, w.head, x)) = One(x \in h.busy)
  <2>1. CASE x = c
    <3>1. /\ ~ In(sqm, cur, t, x) /\ ~ (w.tag[x] # 0) /\ In(m, h.cqHead, w.head, x)
          /\ x \in h.busy
      BY <1>3, <1>4, <1>7, <1>8, <2>1
    <3> QED
      BY <3>1 DEF One
  <2>2. CASE x # c
    <3>1. In(m, h.cqHead, w.head, x) <=> In(cqm, h.cqHead, v.head, x)
      BY <1>4, <1>7, <2>2
    <3>2. One(In(sqm, cur, t, x)) + One(v.tag[x] # 0)
            + One(In(cqm, h.cqHead, v.head, x)) = One(x \in h.busy)
      BY <1>1
    <3> QED
      BY <1>8, <2>2, <3>1, <3>2 DEF One
  <2> QED
    BY <2>1, <2>2
<1>13. Placed(h, sqm, m, w, cur)
  BY <1>1, <1>4, <1>7, <1>12 DEF Placed, t
<1>14. Phases(h, m, w)
  BY <1>4, <1>7 DEF Phases
<1>15. Requested(w)
  <2>1. ASSUME NEW s \in 1 .. QSize
        PROVE  /\ w.req[s].flight <=> ~ On(w.free, s)
               /\ w.req[s].flight => w.req[s].cid \in Cids /\ w.tag[w.req[s].cid] = s
               /\ ~ w.req[s].flight => w.req[s].left = 0
    <3>1. CASE s = r
      BY <1>9, <1>11, <3>1
    <3>2. CASE s # r
      <4>1. s \in ReqIds /\ w.req[s] = v.req[s]
        BY <1>9, <3>2, IoSizes DEF ReqIds
      <4>2. v.req[s].flight => v.req[s].cid \in Cids /\ v.tag[v.req[s].cid] = s
        BY <1>1 DEF Requested
      <4>3. v.req[s].flight => v.req[s].cid # c
        BY <1>2, <3>2, <4>2
      <4>4. On(w.free, s) <=> On(v.free, s)
        BY <1>11, <3>2
      <4> QED
        BY <1>1, <1>8, <4>1, <4>2, <4>3, <4>4 DEF Requested
    <3> QED
      BY <3>1, <3>2
  <2>2. ASSUME NEW x \in Cids, w.tag[x] # 0
        PROVE  w.req[w.tag[x]].flight /\ w.req[w.tag[x]].cid = x
    <3>1. x # c
      BY <1>8, <2>2
    <3>2. w.tag[x] = v.tag[x] /\ v.tag[x] \in ReqIds /\ v.tag[x] # 0
      BY <1>5, <1>8, <2>2, <3>1
    <3>3. v.req[v.tag[x]].flight /\ v.req[v.tag[x]].cid = x
      BY <1>1, <3>2 DEF Requested
    <3>4. v.tag[x] # r
      BY <1>r, <3>1, <3>3
    <3> QED
      BY <1>9, <3>2, <3>3, <3>4
  <2>3. ~ On(w.free, 0)
    BY <1>2, <1>10, <1>11
  <2> QED
    BY <1>11, <2>1, <2>2, <2>3 DEF Requested
<1> QED
  BY <1>2, <1>3, <1>4, <1>13, <1>14, <1>15 DEF QueueOk, w

-----------------------------------------------------------------------------
(* Types. *)

\* What the device remembers keeps its type when a completion is posted, a
\* request given back, an entry dispatched, an answer taken.
LEMMA DeviceTypes ==
  ASSUME NEW v \in Device
  PROVE  /\ Posted(v) \in Device
         /\ \A r \in ReqIds : \A c \in Cids : Freed(v, r, c) \in Device
         /\ \A d \in Dispatchers : disp[d] \in Thread => Dispatched(d, v) \in Device
         /\ \A x \in Request : \A ans \in Answer : Answered(x, ans) \in Request
         /\ \A r \in ReqIds : \A x \in Request : [v EXCEPT !.req[r] = x] \in Device
<1>1. Posted(v) \in Device
  <2>1. v.head \in Entries => Succ(v.head, QSize) \in Entries
    BY IoSizes DEF Entries, Succ
  <2>2. v.phase \in {0, 1} => 1 - v.phase \in {0, 1}
    OBVIOUS
  <2> QED
    BY <2>1, <2>2 DEF Posted, Device
<1>2. ASSUME NEW r \in ReqIds, NEW c \in Cids PROVE Freed(v, r, c) \in Device
  <2>1. 0 \in ReqIds
    BY IoSizes DEF ReqIds
  <2>2. Append(v.free, r) \in Seq(ReqIds)
    BY AppendProperties, RecordFacts
  <2>3. [v.tag EXCEPT ![c] = 0] \in [Cids -> ReqIds]
    BY <2>1, RecordFacts
  <2>4. [v.req EXCEPT ![r].flight = FALSE] \in [ReqIds -> Request]
    <3>1. v.req \in [ReqIds -> Request] /\ v.req[r] \in Request
      BY RecordFacts
    <3>2. [v.req[r] EXCEPT !.flight = FALSE] \in Request
      BY <3>1 DEF Request
    <3> QED
      BY <3>1, <3>2
  <2>5. Freed(v, r, c) = [v EXCEPT !.tag = [v.tag EXCEPT ![c] = 0], !.free = Append(v.free, r),
                                   !.req = [v.req EXCEPT ![r].flight = FALSE]]
    BY DEF Freed, Device
  <2> QED
    BY <2>2, <2>3, <2>4, <2>5 DEF Device
<1>3. ASSUME NEW d \in Dispatchers, disp[d] \in Thread PROVE Dispatched(d, v) \in Device
  <2>1. Succ(disp[d].entry, QSize) \in Entries
    BY <1>3, IoSizes DEF Thread, Entries, Succ
  <2> DEFINE o == IF disp[d].todo = 1 THEN Succ(disp[d].entry, QSize) ELSE v.oldSq
             n == v.inFlight + 1
  <2>2. o \in Entries /\ n \in Int
    BY <2>1, RecordFacts
  <2>3. Dispatched(d, v) = [v EXCEPT !.inFlight = n, !.oldSq = o]
    BY DEF Dispatched
  <2> HIDE DEF o, n
  <2> QED
    BY <2>2, <2>3 DEF Device
<1>4. ASSUME NEW x \in Request, NEW ans \in Answer PROVE Answered(x, ans) \in Request
  <2> DEFINE e == MaxOf(x.end, ans.nsecs)
             k == IF x.left = 1 THEN ans.cid ELSE x.cid
             l == x.left - 1
  <2>1. /\ x.end \in Time /\ ans.nsecs \in Time /\ ans.cid \in Cids /\ x.cid \in Cids \cup {0}
        /\ x.left \in Int
    BY DEF Request, Answer
  <2>2. e \in Time /\ k \in Cids \cup {0} /\ l \in Int
    BY <2>1 DEF MaxOf
  <2>3. Answered(x, ans) = [x EXCEPT !.left = l, !.end = e, !.cid = k]
    BY DEF Answered
  <2> HIDE DEF e, k, l
  <2> QED
    BY <2>2, <2>3 DEF Request
<1>5. ASSUME NEW r \in ReqIds, NEW x \in Request PROVE [v EXCEPT !.req[r] = x] \in Device
  BY DEF Device
<1> QED
  BY <1>1, <1>2, <1>3, <1>4, <1>5

Pcs == {"sq", "io", "hack", "split", "cq", "deq", "fill", "irq"}

\* The fields of a dispatcher's state.
LEMMA ThreadFields ==
  ASSUME NEW x \in Thread
  PROVE  /\ x.pc \in Pcs /\ x.q \in Nat /\ x.todo \in Int /\ x.entry \in Entries /\ x.f \in FTLs
         /\ x.slpa \in Nat /\ x.nlb \in Nat /\ x.req \in ReqIds /\ x.tick \in Time
         /\ x.hack \in 0 .. HackNum
         /\ x = [pc |-> x.pc, q |-> x.q, todo |-> x.todo, entry |-> x.entry, f |-> x.f,
                 slpa |-> x.slpa, nlb |-> x.nlb, req |-> x.req, tick |-> x.tick,
                 hack |-> x.hack]
         /\ 0 \in Entries /\ 0 \in FTLs /\ 0 \in ReqIds /\ 0 \in Time
         /\ Succ(x.entry, QSize) \in Entries
         /\ Succ(x.f, NrFTL) \in FTLs
         /\ x.f + 1 < NrFTL => x.f + 1 \in FTLs
<1>1. /\ x.pc \in Pcs /\ x.q \in Nat /\ x.todo \in Int /\ x.entry \in Entries /\ x.f \in FTLs
      /\ x.slpa \in Nat /\ x.nlb \in Nat /\ x.req \in ReqIds /\ x.tick \in Time
      /\ x.hack \in 0 .. HackNum
  BY DEF Thread, Pcs
<1>2. x = [pc |-> x.pc, q |-> x.q, todo |-> x.todo, entry |-> x.entry, f |-> x.f,
           slpa |-> x.slpa, nlb |-> x.nlb, req |-> x.req, tick |-> x.tick, hack |-> x.hack]
  BY DEF Thread
<1>3. /\ 0 \in Entries /\ 0 \in FTLs /\ 0 \in ReqIds /\ 0 \in Time
      /\ Succ(x.entry, QSize) \in Entries /\ Succ(x.f, NrFTL) \in FTLs
      /\ x.f + 1 < NrFTL => x.f + 1 \in FTLs
  BY <1>1, IoSizes DEF Entries, FTLs, ReqIds, Time, Succ
<1> QED
  BY <1>1, <1>2, <1>3

\* Where a dispatcher turns to when it is done with a queue.
LEMMA ThreadNext ==
  ASSUME NEW d \in Dispatchers, disp[d] \in Thread, NEW loop \in Pcs, NEW end \in Pcs,
         NEW s, s = NextQueue(d, loop, end)
  PROVE  /\ s \in Thread
         /\ \/ s.pc = loop /\ s.q = disp[d].q + NrDispatcher /\ s.q <= NrQueues
            \/ s.pc = end /\ s.q = d + 1
         /\ s.tick = disp[d].tick /\ s.hack = disp[d].hack
<1> DEFINE x == disp[d]
           y(pc, q) == [pc |-> pc, q |-> q, todo |-> x.todo, entry |-> 0, f |-> 0,
                        slpa |-> 0, nlb |-> x.nlb, req |-> 0, tick |-> x.tick, hack |-> x.hack]
<1>1. /\ x.q \in Nat /\ x.todo \in Int /\ x.nlb \in Nat /\ x.tick \in Time
      /\ x.hack \in 0 .. HackNum
      /\ 0 \in Entries /\ 0 \in FTLs /\ 0 \in ReqIds /\ 0 \in Nat
      /\ x.q + NrDispatcher \in Nat /\ d + 1 \in Nat
  BY ThreadFields, IoSizes DEF Dispatchers
<1>2. CASE x.q + NrDispatcher <= NrQueues
  <2>1. s = [x EXCEPT !.pc = loop, !.q = @ + NrDispatcher, !.entry = 0,
                      !.slpa = 0, !.req = 0, !.f = 0]
    BY <1>2 DEF NextQueue
  <2>2. x \in Thread
    OBVIOUS
  <2> HIDE DEF x
  <2>3. s = y(loop, x.q + NrDispatcher)
    BY <2>1, <2>2 DEF Thread
  <2> QED
    BY <1>1, <1>2, <2>3 DEF Thread, Pcs, x
<1>3. CASE ~ (x.q + NrDispatcher <= NrQueues)
  <2>1. s = [x EXCEPT !.pc = end, !.q = d + 1, !.entry = 0,
                      !.slpa = 0, !.req = 0, !.f = 0]
    BY <1>3 DEF NextQueue
  <2>2. x \in Thread
    OBVIOUS
  <2> HIDE DEF x
  <2>3. s = y(end, d + 1)
    BY <2>1, <2>2 DEF Thread
  <2> QED
    BY <1>1, <2>3 DEF Thread, Pcs, x
<1> QED
  BY <1>2, <1>3

\* Where it turns to when it is done with an entry.
LEMMA ThreadEntry ==
  ASSUME NEW d \in Dispatchers, disp[d] \in Thread, NEW s, s = AfterEntry(d)
  PROVE  /\ s \in Thread /\ s.tick = disp[d].tick
         /\ disp[d].todo = 1 =>
              \/ s.pc = "sq" /\ s.q = disp[d].q + NrDispatcher /\ s.q <= NrQueues
              \/ s.pc = "cq" /\ s.q = d + 1
         /\ disp[d].todo # 1 =>
              /\ s.pc = "io" /\ s.q = disp[d].q /\ s.todo = disp[d].todo - 1
              /\ s.entry = Succ(disp[d].entry, QSize)
<1>1. CASE disp[d].todo = 1
  <2> DEFINE n == NextQueue(d, "sq", "cq")
  <2>1. s = [n EXCEPT !.todo = 0, !.nlb = 0]
    BY <1>1 DEF AfterEntry
  <2>2. /\ n \in Thread /\ n.tick = disp[d].tick
        /\ \/ n.pc = "sq" /\ n.q = disp[d].q + NrDispatcher /\ n.q <= NrQueues
           \/ n.pc = "cq" /\ n.q = d + 1
    BY ThreadNext DEF Pcs
  <2> HIDE DEF n
  <2> DEFINE y == [pc |-> n.pc, q |-> n.q, todo |-> 0, entry |-> n.entry, f |-> n.f,
                   slpa |-> n.slpa, nlb |-> 0, req |-> n.req, tick |-> n.tick, hack |-> n.hack]
  <2>3. s = y
    BY <2>1, <2>2 DEF Thread
  <2>4. y \in Thread
    BY <2>2, ThreadFields DEF Thread, Pcs
  <2> QED
    BY <1>1, <2>2, <2>3, <2>4
<1>2. CASE disp[d].todo # 1
  <2> DEFINE x == disp[d]
             y == [pc |-> "io", q |-> x.q, todo |-> x.todo - 1, entry |-> Succ(x.entry, QSize),
                   f |-> 0, slpa |-> 0, nlb |-> 0, req |-> 0, tick |-> x.tick,
                   hack |-> x.hack]
  <2>1. s = [x EXCEPT !.pc = "io", !.todo = @ - 1, !.entry = Succ(@, QSize),
                      !.slpa = 0, !.nlb = 0, !.req = 0, !.f = 0]
    BY <1>2 DEF AfterEntry
  <2>2. x \in Thread
    OBVIOUS
  <2> HIDE DEF x
  <2>3. s = y
    BY <2>1, <2>2 DEF Thread
  <2>4. y \in Thread
    BY <2>2, ThreadFields DEF Thread
  <2> QED
    BY <1>2, <2>3, <2>4 DEF x
<1> QED
  BY <1>1, <1>2

\* Where it turns to when it has read the clock.
LEMMA ThreadAnswers ==
  ASSUME NEW d \in Dispatchers, disp[d] \in Thread, NEW list, NEW t \in Time,
         NEW s, s = AfterAnswers(d, list, t)
  PROVE  /\ s \in Thread /\ s.q = disp[d].q
         /\ s.pc \in {"fill", "deq", "irq"}
         /\ s.pc = "fill" <=> IsDue(list, t)
         /\ s.tick \in {0, t} /\ (s.pc = "fill" => s.tick = t)
<1> DEFINE x == disp[d]
           y(pc, f, tick) == [pc |-> pc, q |-> x.q, todo |-> x.todo, entry |-> x.entry,
                              f |-> f, slpa |-> x.slpa, nlb |-> x.nlb, req |-> x.req,
                              tick |-> tick, hack |-> x.hack]
<1>1. CASE IsDue(list, t)
  <2>1. s = [x EXCEPT !.pc = "fill", !.tick = t]
    BY <1>1 DEF AfterAnswers
  <2>2. x \in Thread
    OBVIOUS
  <2> HIDE DEF x
  <2>3. s = y("fill", x.f, t)
    BY <2>1, <2>2 DEF Thread
  <2>4. y("fill", x.f, t) \in Thread
    BY <2>2, ThreadFields DEF Thread
  <2> QED
    BY <1>1, <2>3, <2>4 DEF x
<1>2. CASE ~ IsDue(list, t) /\ x.f + 1 < NrFTL
  <2>1. s = [x EXCEPT !.pc = "deq", !.f = @ + 1, !.tick = 0]
    BY <1>2 DEF AfterAnswers
  <2>2. x \in Thread
    OBVIOUS
  <2> HIDE DEF x
  <2>3. s = y("deq", x.f + 1, 0)
    BY <2>1, <2>2 DEF Thread
  <2>4. y("deq", x.f + 1, 0) \in Thread
    BY <1>2, <2>2, ThreadFields DEF Thread, x
  <2> QED
    BY <1>2, <2>3, <2>4 DEF x
<1>3. CASE ~ IsDue(list, t) /\ ~ (x.f + 1 < NrFTL)
  <2>1. s = [x EXCEPT !.pc = "irq", !.f = 0, !.tick = 0]
    BY <1>3 DEF AfterAnswers
  <2>2. x \in Thread
    OBVIOUS
  <2> HIDE DEF x
  <2>3. s = y("irq", 0, 0)
    BY <2>1, <2>2 DEF Thread
  <2>4. y("irq", 0, 0) \in Thread
    BY <2>2, ThreadFields DEF Thread
  <2> QED
    BY <1>3, <2>3, <2>4 DEF x
<1> QED
  BY <1>1, <1>2, <1>3

-----------------------------------------------------------------------------
(* The initial states. *)

\* The invariant holds when the module has been loaded.
LEMMA InitIInv == Init => IInv
<1> SUFFICES ASSUME Init PROVE IInv
  OBVIOUS
<1> USE DEF Init
<1>1. /\ 0 \in Entries /\ 0 \in FTLs /\ 0 \in ReqIds /\ 0 \in Time /\ 0 \in Dispatchers
      /\ 0 \in 0 .. InSize - 1 /\ 0 \in 0 .. OutSize - 1
  BY IoSizes DEF Entries, FTLs, ReqIds, Time, Dispatchers
<1>2. /\ \A q \in Queues : q \in Nat \ {0} /\ DOf(q) \in Dispatchers
      /\ \A d \in Dispatchers : d \in Nat /\ d + 1 \in Nat \ {0} /\ DOf(d + 1) = d
  BY QueueNumbers
<1>3. TypeOK
  <2>1. host \in [Queues -> Driver]
    BY <1>1 DEF Driver
  <2>2. [i \in 1 .. QSize |-> i] \in Seq(ReqIds)
    <3>1. \A i \in 1 .. QSize : i \in ReqIds
      BY IoSizes DEF ReqIds
    <3> QED
      BY <3>1, IoSizes, IsASeq
  <2>3. [r \in ReqIds |-> [flight |-> FALSE, cid |-> 0, left |-> 0, start |-> 0, end |-> 0]]
          \in [ReqIds -> Request]
    BY <1>1 DEF Request
  <2>4. dev \in [Queues -> Device]
    <3> DEFINE fr == [i \in 1 .. QSize |-> i]
               tg == [c \in Cids |-> 0]
               rq == [r \in ReqIds |-> [flight |-> FALSE, cid |-> 0, left |-> 0,
                                         start |-> 0, end |-> 0]]
    <3>1. dev = [q \in Queues |->
                  [oldSq |-> 0, oldCq |-> 0, head |-> 0, phase |-> 1, ready |-> FALSE,
                   inFlight |-> 0, tag |-> tg, free |-> fr, req |-> rq]]
      OBVIOUS
    <3>2. fr \in Seq(ReqIds) /\ tg \in [Cids -> ReqIds] /\ rq \in [ReqIds -> Request]
      BY <1>1, <2>2, <2>3
    <3> HIDE DEF fr, tg, rq, Init
    <3> QED
      BY <1>1, <3>1, <3>2 DEF Device
  <2>5. disp \in [Dispatchers -> Thread]
    BY <1>1, <1>2, IoSizes DEF Thread
  <2>6. completed \in [Dispatchers -> Seq(Queues \X ReqIds)]
    BY EmptySeq
  <2>7. pq \in [FTLs -> [Dispatchers -> Seq(Answer)]]
    BY EmptySeq
  <2>8. /\ inQue \in [Dispatchers -> [FTLs -> [0 .. InSize - 1 -> Piece \cup {Empty}]]]
        /\ outQue \in [Dispatchers -> [FTLs -> [0 .. OutSize - 1 -> Answer \cup {Empty}]]]
    OBVIOUS
  <2>9. /\ inTail \in [Dispatchers -> [FTLs -> 0 .. InSize - 1]]
        /\ inHead \in [Dispatchers -> [FTLs -> 0 .. InSize - 1]]
        /\ outTail \in [Dispatchers -> [FTLs -> 0 .. OutSize - 1]]
        /\ outHead \in [Dispatchers -> [FTLs -> 0 .. OutSize - 1]]
    BY <1>1
  <2>10. /\ sqMem \in [Queues -> [Entries -> [cid : Cids \cup {0}, slba : Nat, nlb : Nat]]]
         /\ cqMem \in [Queues -> [Entries -> [cid : Cids \cup {0}, phase : {0, 1}]]]
         /\ sqDb \in [Queues -> Entries] /\ cqDb \in [Queues -> Entries]
         /\ irq \in [Queues -> BOOLEAN]
         /\ work \in [Queues -> [Cids -> [left : SUBSET Nat, due : Time]]]
    BY <1>1
  <2>11. /\ ftl \in [FTLs -> [pc : {"req", "resp"}, d : Dispatchers]]
         /\ hackLeft \in 0 .. HackNum /\ now \in Time /\ issued \in 0 .. MaxCmds
    BY <1>1, IoSizes
  <2> QED
    BY <2>1, <2>4, <2>5, <2>6, <2>7, <2>8, <2>9, <2>10, <2>11 DEF TypeOK
<1>4. ASSUME NEW q \in Queues
      PROVE  QueueOk(host[q], sqMem[q], cqMem[q], dev[q], Cursor(q)) /\ sqDb[q] = host[q].sqTail
  <2> DEFINE h == host[q]
             v == dev[q]
  <2>1. /\ h.sqTail = 0 /\ h.cqHead = 0 /\ h.phase = 1 /\ h.busy = {} /\ sqDb[q] = 0
        /\ v.head = 0 /\ v.phase = 1 /\ v.oldSq = 0
        /\ v.free = [i \in 1 .. QSize |-> i]
        /\ \A c \in Cids : v.tag[c] = 0
        /\ \A r \in ReqIds : ~ v.req[r].flight /\ v.req[r].left = 0
        /\ \A e \in Entries : cqMem[q][e].phase = 0
    OBVIOUS
  <2>2. Cursor(q) = 0
    BY <1>2, <2>1 DEF Cursor, CursorOf, Batch
  <2>3. Placed(h, sqMem[q], cqMem[q], v, Cursor(q))
    <3>1. \A e \in Entries : ~ Inside(0, 0, e)
      BY <1>1, DistanceFacts
    <3> HIDE DEF h, v
    <3> QED
      BY <2>1, <2>2, <3>1 DEF Placed, Distinct, In, One
  <2>4. Phases(h, cqMem[q], v)
    <3> HIDE DEF h, v
    <3> QED
      BY <2>1, IoSizes DEF Phases, Entries
  <2>5. Requested(v)
    <3>1. DOMAIN v.free = 1 .. QSize /\ \A i \in 1 .. QSize : v.free[i] = i
      BY <2>1
    <3> DEFINE fr == v.free
    <3> HIDE DEF v, fr, Init
    <3>2. Once(fr) /\ ~ On(fr, 0) /\ \A r \in 1 .. QSize : On(fr, r)
      <4>1. DOMAIN fr = 1 .. QSize /\ \A i \in 1 .. QSize : fr[i] = i
        BY <3>1 DEF fr
      <4> QED
        BY <4>1, IoSizes DEF Once, On
    <3>3. 1 .. QSize \subseteq ReqIds
      BY IoSizes DEF ReqIds
    <3> QED
      BY <2>1, <3>2, <3>3 DEF Requested, fr
  <2> QED
    BY <2>1, <2>3, <2>4, <2>5 DEF QueueOk
<1>5. /\ \A x \in Slots3(InSize) : inQue[x[1]][x[2]][x[3]] = Empty
      /\ \A x \in Slots3(OutSize) : outQue[x[1]][x[2]][x[3]] = Empty
      /\ \A x \in Slots3(1) : Answers(pq)[x[1]][x[2]][x[3]] = Empty
  <2>1. /\ \A d \in Dispatchers, f \in FTLs : pq[f][d] = <<>>
        /\ \A d \in Dispatchers, f \in FTLs, i \in 0 .. InSize - 1 : inQue[d][f][i] = Empty
        /\ \A d \in Dispatchers, f \in FTLs, i \in 0 .. OutSize - 1 : outQue[d][f][i] = Empty
    OBVIOUS
  <2> USE DEF Slots3
  <2> HIDE DEF Init
  <2>2. \A x \in Slots3(InSize) : inQue[x[1]][x[2]][x[3]] = Empty
    BY <2>1
  <2>3. \A x \in Slots3(OutSize) : outQue[x[1]][x[2]][x[3]] = Empty
    BY <2>1
  <2>4. \A x \in Slots3(1) : Answers(pq)[x[1]][x[2]][x[3]] = Empty
    <3>1. \A d \in Dispatchers, f \in FTLs, i \in 0 .. 1 - 1 : Answers(pq)[d][f][i] = Empty
      BY <2>1 DEF Answers
    <3> QED
      BY <3>1
  <2> QED
    BY <2>2, <2>3, <2>4
<1>6. ASSUME NEW q \in Queues, NEW c \in Cids
      PROVE  Pieces(q, c) <= LeftOf(dev[q], c)
  <2>1. /\ Count(inQue, InSize, q, c) = 0
        /\ Count(outQue, OutSize, q, c) = 0
        /\ Count(Answers(pq), 1, q, c) = 0
    <3> HIDE DEF Init
    <3>1. q \in Nat \ {0} /\ InSize \in Nat /\ OutSize \in Nat /\ 1 \in Nat
      BY <1>2, IoSizes
    <3>2. Count(inQue, InSize, q, c) = 0
      BY <1>5, <3>1, CountedNone
    <3>3. Count(outQue, OutSize, q, c) = 0
      BY <1>5, <3>1, CountedNone
    <3>4. Count(Answers(pq), 1, q, c) = 0
      BY <1>5, <3>1, CountedNone
    <3> QED
      BY <3>2, <3>3, <3>4
  <2>2. LeftOf(dev[q], c) = 0
    BY DEF LeftOf
  <2> HIDE DEF Init
  <2> QED
    BY <2>1, <2>2 DEF Pieces
<1>7. Routed
  <2>1. RoutedTo(inQue, InSize) /\ RoutedTo(outQue, OutSize)
    BY DEF RoutedTo
  <2>2. RoutedTo(Answers(pq), 1)
    BY DEF RoutedTo, Answers
  <2> QED
    BY <2>1, <2>2 DEF Routed
<1>8. ASSUME NEW d \in Dispatchers PROVE ThreadOk(d) /\ CompletedOk(d)
  <2>1. disp[d].pc = "sq" /\ disp[d].q = d + 1 /\ completed[d] = <<>>
    OBVIOUS
  <2>2. \A x : ~ On(completed[d], x)
    BY <2>1 DEF On
  <2>3. Once(completed[d])
    BY <2>1 DEF Once
  <2> HIDE DEF Init
  <2> QED
    BY <1>2, <2>1, <2>2, <2>3 DEF ThreadOk, CompletedOk, Batch
<1>9. ASSUME NEW f \in FTLs PROVE FtlOk(f)
  BY DEF FtlOk
<1> HIDE DEF Init
<1> QED
  BY <1>3, <1>4, <1>6, <1>7, <1>8, <1>9 DEF IInv, QueuesOk, PiecesOk

-----------------------------------------------------------------------------
(* The steps of the host. *)

\* The invariant and the types, for one queue, one dispatcher or one FTL thread.
LEMMA QueueNow ==
  ASSUME IInv, NEW q \in Queues
  PROVE  /\ host[q] \in Driver /\ dev[q] \in Device
         /\ sqMem[q] \in [Entries -> [cid : Cids \cup {0}, slba : Nat, nlb : Nat]]
         /\ cqMem[q] \in [Entries -> [cid : Cids \cup {0}, phase : {0, 1}]]
         /\ sqDb[q] \in Entries /\ cqDb[q] \in Entries
         /\ DOf(q) \in Dispatchers /\ disp[DOf(q)] \in Thread
         /\ Cursor(q) \in Entries
         /\ QueueOk(host[q], sqMem[q], cqMem[q], dev[q], Cursor(q))
         /\ sqDb[q] = host[q].sqTail
<1>1. /\ host[q] \in Driver /\ dev[q] \in Device
      /\ sqMem[q] \in [Entries -> [cid : Cids \cup {0}, slba : Nat, nlb : Nat]]
      /\ cqMem[q] \in [Entries -> [cid : Cids \cup {0}, phase : {0, 1}]]
      /\ sqDb[q] \in Entries /\ cqDb[q] \in Entries
      /\ disp \in [Dispatchers -> Thread]
  BY DEF IInv, TypeOK
<1>2. DOf(q) \in Dispatchers /\ disp[DOf(q)] \in Thread
  BY <1>1, QueueNumbers
<1>3. Cursor(q) \in Entries
  BY <1>1, <1>2, ThreadFields, RecordFacts DEF Cursor, CursorOf
<1> QED
  BY <1>1, <1>2, <1>3 DEF IInv, QueuesOk

\* What the invariant says of one dispatcher and of its rings.
LEMMA ThreadNow ==
  ASSUME IInv, NEW d \in Dispatchers
  PROVE  /\ disp[d] \in Thread /\ ThreadOk(d)
         /\ completed[d] \in Seq(Queues \X ReqIds) /\ CompletedOk(d)
         /\ \A f \in FTLs : /\ inTail[d][f] \in 0 .. InSize - 1
                            /\ inHead[d][f] \in 0 .. InSize - 1
                            /\ outTail[d][f] \in 0 .. OutSize - 1
                            /\ outHead[d][f] \in 0 .. OutSize - 1
                            /\ \A i \in 0 .. InSize - 1 : inQue[d][f][i] \in Piece \cup {Empty}
                            /\ \A i \in 0 .. OutSize - 1 : outQue[d][f][i] \in Answer \cup {Empty}
<1>1. disp[d] \in Thread /\ completed[d] \in Seq(Queues \X ReqIds)
  BY DEF IInv, TypeOK
<1>2. /\ inTail \in [Dispatchers -> [FTLs -> 0 .. InSize - 1]]
      /\ inHead \in [Dispatchers -> [FTLs -> 0 .. InSize - 1]]
      /\ outTail \in [Dispatchers -> [FTLs -> 0 .. OutSize - 1]]
      /\ outHead \in [Dispatchers -> [FTLs -> 0 .. OutSize - 1]]
  BY DEF IInv, TypeOK
<1>3. /\ inQue \in [Dispatchers -> [FTLs -> [0 .. InSize - 1 -> Piece \cup {Empty}]]]
      /\ outQue \in [Dispatchers -> [FTLs -> [0 .. OutSize - 1 -> Answer \cup {Empty}]]]
  BY DEF IInv, TypeOK
<1>4. ThreadOk(d) /\ CompletedOk(d)
  BY DEF IInv
<1>5. ASSUME NEW f \in FTLs
      PROVE  /\ inTail[d][f] \in 0 .. InSize - 1 /\ inHead[d][f] \in 0 .. InSize - 1
             /\ outTail[d][f] \in 0 .. OutSize - 1 /\ outHead[d][f] \in 0 .. OutSize - 1
  BY <1>2
<1>6. ASSUME NEW f \in FTLs
      PROVE  /\ \A i \in 0 .. InSize - 1 : inQue[d][f][i] \in Piece \cup {Empty}
             /\ \A i \in 0 .. OutSize - 1 : outQue[d][f][i] \in Answer \cup {Empty}
  <2>1. /\ inQue[d][f] \in [0 .. InSize - 1 -> Piece \cup {Empty}]
        /\ outQue[d][f] \in [0 .. OutSize - 1 -> Answer \cup {Empty}]
    BY <1>3
  <2> QED
    BY <2>1
<1> QED
  BY <1>1, <1>4, <1>5, <1>6

\* What the invariant says of one FTL thread.
LEMMA FtlNow ==
  ASSUME IInv, NEW f \in FTLs
  PROVE  /\ ftl[f].pc \in {"req", "resp"} /\ ftl[f].d \in Dispatchers
         /\ ftl[f] = [pc |-> ftl[f].pc, d |-> ftl[f].d]
         /\ FtlOk(f)
         /\ \A d \in Dispatchers : pq[f][d] \in Seq(Answer)
BY DEF IInv, TypeOK

\* The host fills a slot of its submission queue.
LEMMA SubmitKeeps ==
  ASSUME IInv, NEW q \in Queues, Submit(q)
  PROVE  IInv'
<1>1. PICK rq \in Requests, c \in Cids \ host[q].busy :
        /\ sqMem' = [sqMem EXCEPT ![q][host[q].sqTail] =
                                    [cid |-> c, slba |-> rq[1], nlb |-> rq[2]]]
        /\ host' = [host EXCEPT ![q].sqTail = Succ(@, QSize), ![q].busy = @ \cup {c}]
        /\ work' = [work EXCEPT ![q][c] =
                                  [left |-> rq[1] .. rq[1] + rq[2] - 1, due |-> 0]]
  BY DEF Submit
<1>2. /\ issued < MaxCmds /\ issued' = issued + 1
      /\ sqDb' = [sqDb EXCEPT ![q] = Succ(host[q].sqTail, QSize)]
      /\ UNCHANGED <<cqDb, cqMem, irq, dev, disp, completed, inQue, inTail, inHead,
                     outQue, outTail, outHead, ftl, pq, hackLeft, now>>
  BY DEF Submit, ringIn, ringOut
<1>3. rq[1] \in Nat /\ rq[2] \in Nat \ {0}
  BY IoPathAssumption
<1> DEFINE h == host[q]
           g == [h EXCEPT !.sqTail = Succ(@, QSize), !.busy = @ \cup {c}]
           m == [sqMem[q] EXCEPT ![h.sqTail] = [cid |-> c, slba |-> rq[1], nlb |-> rq[2]]]
<1>4. TypeOK
  BY DEF IInv
<1>5. /\ h \in Driver /\ dev[q] \in Device /\ Cursor(q) \in Entries
      /\ sqMem[q] \in [Entries -> [cid : Cids \cup {0}, slba : Nat, nlb : Nat]]
      /\ QueueOk(h, sqMem[q], cqMem[q], dev[q], Cursor(q))
  BY QueueNow
<1>6. /\ host' = [host EXCEPT ![q] = g] /\ sqMem' = [sqMem EXCEPT ![q] = m]
      /\ host'[q] = g /\ sqMem'[q] = m
      /\ \A p \in Queues \ {q} : host'[p] = host[p] /\ sqMem'[p] = sqMem[p] /\ sqDb'[p] = sqDb[p]
      /\ sqDb'[q] = Succ(h.sqTail, QSize)
  BY <1>1, <1>2, <1>4 DEF TypeOK
<1>7. /\ QueueOk(g, m, cqMem[q], dev[q], Cursor(q))
      /\ Distance(Cursor(q), g.sqTail) = Distance(Cursor(q), h.sqTail) + 1
      /\ g.sqTail = Succ(h.sqTail, QSize) /\ h.sqTail \in Entries
  <2>1. c \in Cids /\ c \notin h.busy
    BY <1>1
  <2>2. g.sqTail = Succ(h.sqTail, QSize) /\ h.sqTail \in Entries
    BY <1>5 DEF Driver
  <2>3. /\ g.busy = h.busy \cup {c} /\ g.cqHead = h.cqHead /\ g.phase = h.phase
        /\ m[h.sqTail].cid = c /\ m[h.sqTail].nlb # 0
        /\ \A e \in Entries : e # h.sqTail => m[e] = sqMem[q][e]
    BY <1>3, <1>5, <2>2 DEF Driver
  <2> HIDE DEF h, g, m
  <2>4. /\ QueueOk(g, m, cqMem[q], dev[q], Cursor(q))
        /\ Distance(Cursor(q), g.sqTail) = Distance(Cursor(q), h.sqTail) + 1
    BY <1>5, <2>1, <2>2, <2>3, QueueSubmit
  <2> QED
    BY <2>2, <2>4
<1>8. \A p \in Queues : Cursor(p)' = Cursor(p)
  BY <1>2 DEF Cursor
<1>9. TypeOK'
  <2>1. g \in Driver
    BY <1>1, <1>5, <1>7, DistanceFacts DEF Driver
  <2>2. m \in [Entries -> [cid : Cids \cup {0}, slba : Nat, nlb : Nat]]
    BY <1>3, <1>5
  <2> HIDE DEF g, m
  <2>3. /\ host' \in [Queues -> Driver]
        /\ sqMem' \in [Queues -> [Entries -> [cid : Cids \cup {0}, slba : Nat, nlb : Nat]]]
    BY <1>4, <1>6, <2>1, <2>2 DEF TypeOK
  <2>4. sqDb' \in [Queues -> Entries]
    BY <1>2, <1>4, <1>7, DistanceFacts DEF TypeOK
  <2>5. work' \in [Queues -> [Cids -> [left : SUBSET Nat, due : Time]]]
    <3>1. rq[1] .. rq[1] + rq[2] - 1 \subseteq Nat /\ 0 \in Time
      BY <1>3, IoSizes DEF Time
    <3> QED
      BY <1>1, <1>4, <3>1 DEF TypeOK
  <2>6. issued' \in 0 .. MaxCmds
    BY <1>2, <1>4, IoSizes DEF TypeOK
  <2> QED
    BY <1>2, <1>4, <2>3, <2>4, <2>5, <2>6 DEF TypeOK
<1> HIDE DEF g, m
<1>10. QueuesOk'
  BY <1>2, <1>6, <1>7, <1>8 DEF IInv, QueuesOk
<1>11. Routed' /\ PiecesOk'
  BY <1>2 DEF IInv, Routed, PiecesOk, Pieces, LeftOf
<1>12. ASSUME NEW d \in Dispatchers PROVE ThreadOk(d)' /\ CompletedOk(d)'
  <2>1. ThreadOk(d) /\ CompletedOk(d)
    BY DEF IInv
  <2>2. CompletedOk(d)'
    BY <1>2, <2>1 DEF CompletedOk
  <2>3. ASSUME Batch(disp[d])
        PROVE  disp[d].todo - One(disp[d].pc = "split")
                 <= Distance(Cursor(disp[d].q), host'[disp[d].q].sqTail)
    <3>1. /\ disp[d].q \in Queues /\ disp[d].todo \in Int
          /\ disp[d].todo - One(disp[d].pc = "split")
               <= Distance(Cursor(disp[d].q), host[disp[d].q].sqTail)
      BY <2>1, <2>3, ThreadNow, ThreadFields DEF ThreadOk
    <3>2. CASE disp[d].q = q
      <4>1. Distance(Cursor(q), h.sqTail) \in Int
        <5>1. Distance(Cursor(q), h.sqTail) \in Entries
          BY <1>5, <1>7, DistanceFacts
        <5> QED
          BY <5>1, IoSizes DEF Entries
      <4> QED
        BY <1>6, <1>7, <3>1, <3>2, <4>1 DEF One
    <3>3. CASE disp[d].q # q
      BY <1>6, <3>1, <3>3
    <3> QED
      BY <3>2, <3>3
  <2>4. ThreadOk(d)'
    BY <1>2, <1>8, <2>1, <2>3 DEF ThreadOk, Batch
  <2> QED
    BY <2>2, <2>4
<1>13. ASSUME NEW f \in FTLs PROVE FtlOk(f)'
  BY <1>2 DEF IInv, FtlOk
<1> QED
  BY <1>9, <1>10, <1>11, <1>12, <1>13 DEF IInv

\* What the host finds new in a completion queue are the entries up to the
\* device's head.
LEMMA NewFacts ==
  ASSUME IInv, NEW q \in Queues
  PROVE  LET a == host[q].cqHead
             b == dev[q].head
             n == Distance(a, b)
         IN /\ n \in Nat /\ NewEntries(q) = 0 .. n - 1 /\ Cardinality(NewEntries(q)) = n
            /\ (a + n) % QSize = b /\ (a + n >= QSize <=> b < a)
            /\ \A k \in NewEntries(q) : EntryAt(q, k) \in Entries /\ Inside(a, b, EntryAt(q, k))
            /\ \A c : c \in NewCids(q) <=> In(cqMem[q], a, b, c)
<1> DEFINE a == host[q].cqHead
           b == dev[q].head
           n == Distance(a, b)
           at(k) == IF a + k < QSize THEN a + k ELSE a + k - QSize
<1>1. /\ a \in Entries /\ b \in Entries /\ host[q].phase \in {0, 1} /\ dev[q].phase \in {0, 1}
      /\ Phases(host[q], cqMem[q], dev[q])
  BY QueueNow, RecordFacts DEF QueueOk
<1>2. /\ QSize \in Nat /\ QSize >= 2 /\ a \in Nat /\ a < QSize /\ b \in Nat /\ b < QSize
      /\ n \in Nat /\ n < QSize
  BY <1>1, IoSizes DEF Entries, Distance
<1>3. ASSUME NEW k \in 0 .. QSize - 1
      PROVE  /\ EntryAt(q, k) = at(k) /\ at(k) \in Entries
             /\ Inside(a, b, at(k)) <=> k < n
  <2>1. EntryAt(q, k) = (a + k) % QSize
    BY DEF EntryAt
  <2> HIDE DEF a, b
  <2>2. CASE a + k < QSize
    <3>1. (a + k) % QSize = a + k
      BY <1>2, <2>2
    <3> QED
      BY <1>2, <2>1, <2>2, <3>1 DEF Entries, Inside, Distance
  <2>3. CASE a + k >= QSize
    <3>1. (a + k) % QSize = a + k - QSize
      BY <1>2, <2>3
    <3> QED
      BY <1>2, <2>1, <2>3, <3>1 DEF Entries, Inside, Distance
  <2> QED
    BY <1>2, <2>2, <2>3
<1>4. ASSUME NEW e \in Entries, Inside(a, b, e)
      PROVE  \E k \in 0 .. n - 1 : at(k) = e
  <2> DEFINE k == IF e >= a THEN e - a ELSE e - a + QSize
  <2>1. k \in 0 .. n - 1 /\ at(k) = e
    <3> HIDE DEF a, b
    <3> QED
      BY <1>2, <1>4 DEF Entries, Inside, Distance
  <2> QED
    BY <2>1
<1>5. ASSUME NEW k \in 0 .. QSize - 1
      PROVE  IsNew(q, k) <=> k < n
  <2>1. IsNew(q, k) <=> cqMem[q][at(k)].phase =
                          IF a + k < QSize THEN host[q].phase ELSE 1 - host[q].phase
    BY <1>3 DEF IsNew
  <2>2. /\ cqMem[q][at(k)].phase = IF at(k) < b THEN dev[q].phase ELSE 1 - dev[q].phase
        /\ dev[q].phase = IF b >= a THEN host[q].phase ELSE 1 - host[q].phase
    BY <1>1, <1>3 DEF Phases
  <2>3. host[q].phase # 1 - host[q].phase /\ 1 - (1 - host[q].phase) = host[q].phase
    BY <1>1
  <2> HIDE DEF a, b
  <2> QED
    BY <1>1, <1>2, <2>1, <2>2, <2>3 DEF Distance
<1>6. NewEntries(q) = 0 .. n - 1
  <2>1. ASSUME NEW k \in 0 .. QSize - 1
        PROVE  (\A j \in 0 .. k : IsNew(q, j)) <=> k < n
    <3>1. k \in 0 .. k /\ \A j \in 0 .. k : j \in 0 .. QSize - 1 /\ j <= k
      BY <1>2
    <3>2. \A j \in 0 .. k : IsNew(q, j) <=> j < n
      BY <1>5, <3>1
    <3> HIDE DEF n
    <3> QED
      BY <1>2, <3>1, <3>2
  <2>2. 0 .. n - 1 \subseteq 0 .. QSize - 1
    BY <1>2
  <2> HIDE DEF n
  <2>3. \A k \in 0 .. QSize - 1 : k \in NewEntries(q) <=> k < n
    BY <2>1 DEF NewEntries
  <2>4. NewEntries(q) \subseteq 0 .. QSize - 1
    BY DEF NewEntries
  <2>5. \A k \in 0 .. QSize - 1 : k \in 0 .. n - 1 <=> k < n
    BY <1>2
  <2>6. \A k : k \in NewEntries(q) <=> k \in 0 .. n - 1
    BY <2>2, <2>3, <2>4, <2>5
  <2> QED
    BY <2>6
<1>7. Cardinality(NewEntries(q)) = n
  <2> HIDE DEF n
  <2> QED
    BY <1>2, <1>6, FS_Interval
<1>8. (a + n) % QSize = b /\ (a + n >= QSize <=> b < a)
  <2> HIDE DEF a, b
  <2>1. CASE b < a
    <3>1. a + n = b + QSize
      BY <1>2, <2>1 DEF Distance
    <3>2. (b + QSize) % QSize = b
      BY <1>2
    <3> QED
      BY <1>2, <2>1, <3>1, <3>2
  <2>2. CASE b >= a
    <3>1. a + n = b
      BY <1>2, <2>2 DEF Distance
    <3>2. b % QSize = b
      BY <1>2
    <3> QED
      BY <1>2, <2>2, <3>1, <3>2
  <2> QED
    BY <1>2, <2>1, <2>2
<1>9. 0 .. n - 1 \subseteq 0 .. QSize - 1 /\ \A k \in 0 .. n - 1 : k < n
  BY <1>2
<1>10. \A k \in NewEntries(q) : EntryAt(q, k) \in Entries /\ Inside(a, b, EntryAt(q, k))
  BY <1>3, <1>6, <1>9
<1>11. ASSUME NEW c PROVE c \in NewCids(q) <=> In(cqMem[q], a, b, c)
  <2>1. ASSUME c \in NewCids(q) PROVE In(cqMem[q], a, b, c)
    <3>1. PICK k \in NewEntries(q) : cqMem[q][EntryAt(q, k)].cid = c
      BY <2>1 DEF NewCids
    <3> QED
      BY <1>10, <3>1 DEF In
  <2>2. ASSUME In(cqMem[q], a, b, c) PROVE c \in NewCids(q)
    <3>1. PICK e \in Entries : Inside(a, b, e) /\ cqMem[q][e].cid = c
      BY <2>2 DEF In
    <3>2. PICK k \in 0 .. n - 1 : at(k) = e
      BY <1>4, <3>1
    <3>3. EntryAt(q, k) = e
      BY <1>3, <1>9, <3>2
    <3> QED
      BY <1>6, <3>1, <3>3 DEF NewCids
  <2> QED
    BY <2>1, <2>2
<1> HIDE DEF n, a, b
<1> QED
  BY <1>2, <1>6, <1>7, <1>8, <1>10, <1>11 DEF n, a, b

\* The host takes the new completions.
LEMMA ReapKeeps ==
  ASSUME IInv, NEW q \in Queues, Reap(q)
  PROVE  IInv'
<1> DEFINE h == host[q]
           n == Cardinality(NewEntries(q))
           taken == NewCids(q)
           g == [h EXCEPT !.busy = @ \ taken, !.cqHead = (@ + n) % QSize,
                          !.phase = IF h.cqHead + n >= QSize THEN 1 - @ ELSE @]
<1>1. /\ host' = [host EXCEPT ![q].busy = @ \ taken, ![q].cqHead = (@ + n) % QSize,
                              ![q].phase = IF host[q].cqHead + n >= QSize THEN 1 - @ ELSE @]
      /\ irq' = [irq EXCEPT ![q] = FALSE]
      /\ UNCHANGED <<issued, sqMem, sqDb, cqDb, cqMem, dev, disp, completed, inQue, inTail,
                     inHead, outQue, outTail, outHead, ftl, pq, hackLeft, now, work>>
  BY DEF Reap, ringIn, ringOut
<1>2. TypeOK
  BY DEF IInv
<1>3. /\ h \in Driver /\ dev[q] \in Device /\ Cursor(q) \in Entries
      /\ QueueOk(h, sqMem[q], cqMem[q], dev[q], Cursor(q))
      /\ h.sqTail \in Entries /\ h.cqHead \in Entries
      /\ h.phase \in {0, 1} /\ h.busy \subseteq Cids /\ dev[q].head \in Entries
  BY QueueNow, RecordFacts
<1>4. /\ n = Distance(h.cqHead, dev[q].head) /\ n \in Nat
      /\ (h.cqHead + n) % QSize = dev[q].head /\ (h.cqHead + n >= QSize <=> dev[q].head < h.cqHead)
      /\ \A c \in Cids : c \in taken <=> In(cqMem[q], h.cqHead, dev[q].head, c)
  BY NewFacts
<1>5. /\ host' = [host EXCEPT ![q] = g] /\ host'[q] = g
      /\ \A p \in Queues \ {q} : host'[p] = host[p]
  BY <1>1, <1>2 DEF TypeOK
<1> HIDE DEF n, taken
<1>6. /\ g.sqTail = h.sqTail /\ g.busy = h.busy \ taken /\ g.cqHead = dev[q].head
      /\ g.phase = IF dev[q].head < h.cqHead THEN 1 - h.phase ELSE h.phase
  BY <1>3, <1>4 DEF Driver
<1>7. g \in Driver
  <2> DEFINE b == h.busy \ taken
             i == (h.cqHead + n) % QSize
             p == IF h.cqHead + n >= QSize THEN 1 - h.phase ELSE h.phase
  <2>1. b \in SUBSET Cids /\ i \in Entries /\ p \in {0, 1}
    BY <1>3, <1>4
  <2>2. g = [h EXCEPT !.busy = b, !.cqHead = i, !.phase = p] /\ h \in Driver
    BY <1>3
  <2> HIDE DEF b, i, p, h, g
  <2> QED
    BY <2>1, <2>2 DEF Driver
<1> HIDE DEF g, h
<1>8. QueueOk(g, sqMem[q], cqMem[q], dev[q], Cursor(q))
  BY <1>3, <1>4, <1>6, QueueReap
<1>9. /\ \A p \in Queues : host'[p].sqTail = host[p].sqTail
      /\ \A p \in Queues : Cursor(p)' = Cursor(p)
  BY <1>1, <1>5, <1>6 DEF Cursor, h
<1>10. TypeOK'
  <2>1. host' \in [Queues -> Driver] /\ irq' \in [Queues -> BOOLEAN]
    BY <1>1, <1>2, <1>5, <1>7 DEF TypeOK
  <2> QED
    BY <1>1, <1>2, <2>1 DEF TypeOK
<1>11. QueuesOk'
  BY <1>1, <1>5, <1>8, <1>9 DEF IInv, QueuesOk
<1>12. Routed' /\ PiecesOk'
  BY <1>1 DEF IInv, Routed, PiecesOk, Pieces, LeftOf
<1>13. ASSUME NEW d \in Dispatchers PROVE ThreadOk(d)' /\ CompletedOk(d)'
  <2>1. ThreadOk(d) /\ CompletedOk(d)
    BY DEF IInv
  <2>2. CompletedOk(d)'
    BY <1>1, <2>1 DEF CompletedOk
  <2>3. ThreadOk(d)'
    BY <1>1, <1>9, <2>1 DEF ThreadOk, Batch
  <2> QED
    BY <2>2, <2>3
<1>14. ASSUME NEW f \in FTLs PROVE FtlOk(f)'
  BY <1>1 DEF IInv, FtlOk
<1> QED
  BY <1>10, <1>11, <1>12, <1>13, <1>14 DEF IInv

\* The host rings the head doorbell, or the clock ticks.
LEMMA RingCqKeeps ==
  ASSUME IInv, (\E q \in Queues : RingCq(q)) \/ Tick \/ UNCHANGED vars
  PROVE  IInv'
<1>1. /\ UNCHANGED <<host, issued, sqMem, sqDb, cqMem, dev, disp, completed, inQue, inTail,
                     inHead, outQue, outTail, outHead, ftl, pq, hackLeft, work>>
      /\ cqDb' \in [Queues -> Entries] /\ now' \in Time /\ irq' \in [Queues -> BOOLEAN]
  <2>1. TypeOK
    BY DEF IInv
  <2>2. CASE \E q \in Queues : RingCq(q)
    <3>1. \A q \in Queues : host[q].cqHead \in Entries
      BY QueueNow, RecordFacts
    <3> QED
      BY <2>1, <2>2, <3>1 DEF RingCq, ringIn, ringOut, TypeOK
  <2>3. CASE Tick
    BY <2>1, <2>3, IoSizes DEF Tick, hostVars, ringIn, ringOut, TypeOK, Time
  <2>4. CASE UNCHANGED vars
    BY <2>1, <2>4 DEF vars, hostVars, ringIn, ringOut, TypeOK
  <2> QED
    BY <2>2, <2>3, <2>4
<1>2. TypeOK'
  BY <1>1 DEF IInv, TypeOK
<1>3. \A p \in Queues : Cursor(p)' = Cursor(p)
  BY <1>1 DEF Cursor
<1>4. QueuesOk' /\ Routed' /\ PiecesOk'
  BY <1>1, <1>3 DEF IInv, QueuesOk, Routed, PiecesOk, Pieces, LeftOf
<1>5. ASSUME NEW d \in Dispatchers PROVE ThreadOk(d)' /\ CompletedOk(d)'
  BY <1>1, <1>3 DEF IInv, ThreadOk, CompletedOk, Batch
<1>6. ASSUME NEW f \in FTLs PROVE FtlOk(f)'
  BY <1>1 DEF IInv, FtlOk
<1> QED
  BY <1>2, <1>4, <1>5, <1>6 DEF IInv

-----------------------------------------------------------------------------
(* The steps of the dispatchers. *)

\* The queues of a dispatcher are as many apart as there are dispatchers.
LEMMA NextOwn ==
  ASSUME NEW d \in Dispatchers, NEW q \in Queues, DOf(q) = d
  PROVE  /\ d + 1 \in Queues
         /\ q + NrDispatcher <= NrQueues => q + NrDispatcher \in Queues
         /\ DOf(q + NrDispatcher) = d /\ DOf(d + 1) = d /\ d + 1 \in Nat \ {0}
<1>1. q \in Nat \ {0} /\ q <= NrQueues /\ NrDispatcher \in Nat \ {0} /\ NrQueues \in Nat
  BY IoSizes DEF Queues
<1>2. DOf(q + NrDispatcher) = d /\ DOf(d + 1) = d /\ d + 1 \in Nat \ {0}
  BY <1>1, DOfFacts
<1>3. (q - 1) % NrDispatcher <= q - 1
  <2> DEFINE a == q - 1
             k == a \div NrDispatcher
             r == a % NrDispatcher
  <2>1. a \in Nat
    BY <1>1
  <2> HIDE DEF a
  <2>2. a = NrDispatcher * k + r /\ k \in Nat /\ r \in Nat
    BY <1>1, <2>1
  <2> HIDE DEF k, r
  <2>3. NrDispatcher * k \in Nat
    BY <1>1, <2>2
  <2>4. r <= a
    BY <2>1, <2>2, <2>3
  <2> QED
    BY <2>4 DEF a, r
<1>4. d <= q - 1
  BY <1>3 DEF DOf
<1>5. d \in Nat
  BY <1>1 DEF Dispatchers
<1> QED
  BY <1>1, <1>2, <1>4, <1>5 DEF Queues

\* A step of dispatcher d that is about queue q, a queue of its own, leaves
\* the other queues and the other dispatchers as they are.
LEMMA OneQueue ==
  ASSUME IInv, NEW d \in Dispatchers, NEW q,
         UNCHANGED <<host, sqMem, sqDb>>,
         \A p \in Queues : p # q => dev'[p] = dev[p] /\ cqMem'[p] = cqMem[p],
         \A e \in Dispatchers : e # d => disp'[e] = disp[e] /\ completed'[e] = completed[e],
         Batch(disp[d]) => disp[d].q = q, Batch(disp'[d]) => disp'[d].q = q,
         q \in Queues => /\ DOf(q) = d
                         /\ QueueOk(host[q], sqMem[q], cqMem'[q], dev'[q],
                                    CursorOf(disp'[d], dev'[q], q)),
         ThreadOk(d)', CompletedOk(d)'
  PROVE  QueuesOk' /\ \A e \in Dispatchers : ThreadOk(e)' /\ CompletedOk(e)'
<1>1. ASSUME NEW p \in Queues, p # q PROVE Cursor(p)' = Cursor(p)
  <2>1. CursorOf(disp'[DOf(p)], dev'[p], p) = CursorOf(disp[DOf(p)], dev[p], p)
    BY <1>1, QueueNumbers DEF CursorOf
  <2> QED
    BY <2>1 DEF Cursor
<1>2. QueuesOk'
  <2>1. ASSUME NEW p \in Queues
        PROVE  QueueOk(host'[p], sqMem'[p], cqMem'[p], dev'[p], Cursor(p)')
    <3>1. CASE p = q
      BY <3>1 DEF Cursor
    <3>2. CASE p # q
      BY <1>1, <3>2 DEF IInv, QueuesOk
    <3> QED
      BY <3>1, <3>2
  <2> QED
    BY <2>1 DEF IInv, QueuesOk
<1>3. ASSUME NEW e \in Dispatchers, e # d PROVE ThreadOk(e)' /\ CompletedOk(e)'
  <2>1. /\ disp'[e] = disp[e] /\ completed'[e] = completed[e]
        /\ ThreadOk(e) /\ CompletedOk(e) /\ completed[e] \in Seq(Queues \X ReqIds)
    BY <1>3, ThreadNow
  <2>2. disp[e].q \in Queues => disp[e].q # q
    BY <1>3, <2>1 DEF ThreadOk
  <2>3. ThreadOk(e)'
    BY <1>1, <2>1, <2>2 DEF ThreadOk, Batch
  <2>4. ASSUME NEW x, On(completed[e], x) PROVE x[1] \in Queues /\ x[1] # q
    <3>1. x \in Queues \X ReqIds
      BY <2>1, <2>4, LenProperties, ElementOfSeq DEF On
    <3>2. DOf(x[1]) = e
      BY <2>1, <2>4 DEF CompletedOk
    <3> QED
      BY <1>3, <3>1, <3>2
  <2>5. CompletedOk(e)'
    BY <2>1, <2>4 DEF CompletedOk
  <2> QED
    BY <2>3, <2>5
<1> QED
  BY <1>2, <1>3

\* How many pieces of a command there are is a number.
LEMMA PiecesType ==
  ASSUME NEW q, NEW c
  PROVE  /\ Count(inQue, InSize, q, c) \in Nat
         /\ Count(outQue, OutSize, q, c) \in Nat
         /\ Count(Answers(pq), 1, q, c) \in Nat
         /\ Pieces(q, c) \in Nat
<1>1. /\ 0 \in Dispatchers /\ 0 \in FTLs
      /\ 0 \in 0 .. InSize - 1 /\ 0 \in 0 .. OutSize - 1 /\ 0 \in 0 .. 1 - 1
      /\ InSize \in Nat /\ OutSize \in Nat
  BY IoSizes DEF Dispatchers, FTLs
<1>2. Count(inQue, InSize, q, c) \in Nat
  BY <1>1, CountedHeld
<1>3. Count(outQue, OutSize, q, c) \in Nat
  BY <1>1, CountedHeld
<1>4. Count(Answers(pq), 1, q, c) \in Nat
  BY <1>1, CountedHeld
<1> QED
  BY <1>2, <1>3, <1>4 DEF Pieces

\* A step that leaves the rings and the FTL threads alone.
LEMMA RingsSame ==
  ASSUME IInv, UNCHANGED <<inQue, outQue, ftl, pq>>,
         \A p \in Queues : \A c \in Cids :
           LeftOf(dev'[p], c) = LeftOf(dev[p], c) /\ LeftOf(dev[p], c) \in Int
  PROVE  /\ Routed' /\ PiecesOk' /\ \A f \in FTLs : FtlOk(f)'
         /\ Exact => Exact'
<1>1. Routed' /\ \A f \in FTLs : FtlOk(f)'
  BY DEF IInv, Routed, FtlOk
<1>2. ASSUME NEW p \in Queues, NEW c \in Cids
      PROVE  Pieces(p, c)' <= LeftOf(dev'[p], c)
  <2>1. Pieces(p, c)' = Pieces(p, c) /\ Pieces(p, c) <= LeftOf(dev[p], c)
    BY DEF IInv, PiecesOk, Pieces
  <2>2. Pieces(p, c) \in Int
    BY PiecesType
  <2> QED
    BY <2>1, <2>2
<1>3. ASSUME Exact, NEW p \in Queues, NEW c \in Cids
      PROVE  Pieces(p, c)' = LeftOf(dev'[p], c)
  <2>1. Pieces(p, c)' = Pieces(p, c) /\ Pieces(p, c) = LeftOf(dev[p], c)
    BY <1>3 DEF Exact, Pieces
  <2> QED
    BY <2>1
<1> QED
  BY <1>1, <1>2, <1>3 DEF PiecesOk, Exact

\* The pieces left of a command are a number, and as many as before when its
\* request and its tag are the same.
LEMMA LeftType ==
  ASSUME NEW v \in Device, NEW c \in Cids
  PROVE  LeftOf(v, c) \in Int
BY RecordFacts DEF LeftOf

\* A dispatcher that is not dispatching a batch is where it may be.
LEMMA Idle ==
  ASSUME NEW d \in Dispatchers, disp'[d].pc \in {"sq", "cq", "deq", "fill", "irq"},
         disp'[d].q \in Nat \ {0}, DOf(disp'[d].q) = d,
         disp'[d].pc = "cq" => disp'[d].q \in Queues,
         disp'[d].pc = "fill" => completed'[d] # <<>>
  PROVE  ThreadOk(d)' /\ ~ Batch(disp'[d])
BY DEF ThreadOk, Batch

\* The dispatcher looks at a submission queue.
LEMMA ProcSqKeeps ==
  ASSUME IInv, NEW d \in Dispatchers, ProcSq(d)
  PROVE  IInv'
<1> DEFINE x == disp[d]
           s == disp'[d]
<1>q. PICK q : q = disp[d].q
  OBVIOUS
<1>1. /\ x.pc = "sq"
      /\ disp' = [disp EXCEPT ![d] =
           IF q \notin Queues THEN [@ EXCEPT !.pc = "deq", !.q = d + 1]
           ELSE IF sqDb[q] # dev[q].oldSq
           THEN [@ EXCEPT !.pc = "io", !.entry = dev[q].oldSq,
                          !.todo = Distance(dev[q].oldSq, sqDb[q])]
           ELSE NextQueue(d, "sq", "cq")]
      /\ UNCHANGED <<host, issued, sqMem, sqDb, cqDb, cqMem, irq, dev, completed, inQue, inTail,
                     inHead, outQue, outTail, outHead, ftl, pq, hackLeft, now, work>>
  BY <1>q DEF ProcSq, At, hostVars, ringIn, ringOut
<1>2. TypeOK
  BY DEF IInv
<1>3. /\ q = x.q /\ x \in Thread /\ ThreadOk(d) /\ CompletedOk(d) /\ q \in Nat \ {0} /\ DOf(q) = d
      /\ ~ Batch(x)
  BY <1>q, <1>1, ThreadNow DEF ThreadOk, Batch
<1>4. /\ disp' = [disp EXCEPT ![d] = s]
      /\ \A e \in Dispatchers : e # d => disp'[e] = disp[e]
      /\ s = IF q \notin Queues THEN [x EXCEPT !.pc = "deq", !.q = d + 1]
             ELSE IF sqDb[q] # dev[q].oldSq
             THEN [x EXCEPT !.pc = "io", !.entry = dev[q].oldSq,
                            !.todo = Distance(dev[q].oldSq, sqDb[q])]
             ELSE NextQueue(d, "sq", "cq")
  BY <1>1, <1>2 DEF TypeOK
<1>5. d + 1 \in Nat \ {0} /\ DOf(d + 1) = d
  BY QueueNumbers
<1>6. /\ s \in Thread /\ ThreadOk(d)' /\ (Batch(s) => s.q = q)
      /\ q \in Queues => CursorOf(s, dev[q], q) = Cursor(q)
  <2>1. q \in Queues => Cursor(q) = dev[q].oldSq
    BY <1>3 DEF Cursor, CursorOf
  <2>2. CASE q \notin Queues
    <3>1. s = [x EXCEPT !.pc = "deq", !.q = d + 1]
      BY <1>4, <2>2
    <3>2. s \in Thread /\ s.pc = "deq" /\ s.q = d + 1
      <4> HIDE DEF x, s
      <4> QED
        BY <1>3, <1>5, <3>1 DEF Thread
    <3> QED
      BY <1>5, <2>2, <3>2, Idle
  <2>3. CASE q \in Queues /\ sqDb[q] # dev[q].oldSq
    <3> DEFINE o == dev[q].oldSq
               n == Distance(o, sqDb[q])
    <3>1. /\ o \in Entries /\ sqDb[q] \in Entries /\ n \in Entries /\ n # 0
          /\ sqDb[q] = host[q].sqTail
      BY <2>3, QueueNow, RecordFacts, DistanceFacts
    <3>2. n \in Nat /\ n >= 1
      BY <3>1, IoSizes DEF Entries
    <3>3. s = [x EXCEPT !.pc = "io", !.entry = o, !.todo = n]
      BY <1>4, <2>3
    <3>4. s \in Thread /\ s.pc = "io" /\ s.q = q /\ s.entry = o /\ s.todo = n
      <4> HIDE DEF x, o, n, s
      <4>1. s = [pc |-> "io", q |-> x.q, todo |-> n, entry |-> o, f |-> x.f, slpa |-> x.slpa,
                 nlb |-> x.nlb, req |-> x.req, tick |-> x.tick, hack |-> x.hack]
        BY <1>3, <3>3 DEF Thread
      <4> QED
        BY <1>3, <3>1, <3>2, <4>1, ThreadFields DEF Thread, x
    <3>5. CursorOf(s, dev[q], q) = o
      BY <3>4 DEF CursorOf, Batch
    <3>6. Cursor(q)' = o
      BY <1>1, <1>3, <3>5 DEF Cursor
    <3>7. ThreadOk(d)'
      <4>1. host'[q].sqTail = sqDb[q] /\ Distance(o, sqDb[q]) = n
        BY <1>1, <3>1
      <4> HIDE DEF o, n, s
      <4>2. s.todo - One(s.pc = "split") <= Distance(Cursor(q)', host'[q].sqTail)
        BY <3>2, <3>4, <3>6, <4>1 DEF One
      <4>3. s.q \in Nat \ {0} /\ DOf(s.q) = d /\ s.q \in Queues /\ s.todo >= 1
        BY <1>3, <2>3, <3>2, <3>4
      <4> QED
        BY <3>4, <4>2, <4>3 DEF ThreadOk, s
    <3> QED
      BY <2>1, <3>4, <3>5, <3>7
  <2>4. CASE q \in Queues /\ sqDb[q] = dev[q].oldSq
    <3>1. s = NextQueue(d, "sq", "cq")
      BY <1>4, <2>4
    <3>2. /\ s \in Thread
          /\ \/ s.pc = "sq" /\ s.q = q + NrDispatcher /\ s.q <= NrQueues
             \/ s.pc = "cq" /\ s.q = d + 1
      BY <1>3, <3>1, ThreadNext DEF Pcs
    <3>3. /\ s.q \in Queues /\ DOf(s.q) = d /\ s.pc \in {"sq", "cq"} /\ s.q \in Nat \ {0}
      <4>1. /\ d + 1 \in Queues
            /\ q + NrDispatcher <= NrQueues => q + NrDispatcher \in Queues
            /\ DOf(q + NrDispatcher) = d /\ DOf(d + 1) = d
        BY <1>3, <2>4, NextOwn
      <4> HIDE DEF s
      <4>2. s.q \in Queues /\ DOf(s.q) = d /\ s.pc \in {"sq", "cq"}
        BY <3>2, <4>1
      <4> QED
        BY <4>2, QueueNumbers
    <3>4. ThreadOk(d)' /\ ~ Batch(s)
      BY <3>3, Idle
    <3> QED
      BY <2>1, <3>2, <3>4 DEF CursorOf
  <2> QED
    BY <2>2, <2>3, <2>4
<1>7. TypeOK'
  <2> HIDE DEF s
  <2>1. disp' \in [Dispatchers -> Thread]
    BY <1>2, <1>4, <1>6 DEF TypeOK
  <2> QED
    BY <1>1, <1>2, <2>1 DEF TypeOK
<1>8. CompletedOk(d)'
  BY <1>1, <1>3 DEF CompletedOk
<1>9. q \in Queues => QueueOk(host[q], sqMem[q], cqMem'[q], dev'[q], CursorOf(s, dev'[q], q))
  BY <1>1, <1>6, QueueNow
<1>10. QueuesOk' /\ \A e \in Dispatchers : ThreadOk(e)' /\ CompletedOk(e)'
  BY <1>1, <1>3, <1>4, <1>6, <1>8, <1>9, OneQueue
<1>11. Routed' /\ PiecesOk' /\ \A f \in FTLs : FtlOk(f)'
  BY <1>1 DEF IInv, Routed, PiecesOk, Pieces, LeftOf, FtlOk
<1> QED
  BY <1>7, <1>10, <1>11 DEF IInv

\* It reads the number of commands still to be completed at once.
LEMMA ReadHackKeeps ==
  ASSUME IInv, NEW d \in Dispatchers, ReadHack(d)
  PROVE  IInv'
<1> DEFINE x == disp[d]
           s == disp'[d]
<1>q. PICK q : q = disp[d].q
  OBVIOUS
<1>1. /\ x.pc = "io" /\ hackLeft > 0
      /\ disp' = [disp EXCEPT ![d].pc = "hack", ![d].hack = hackLeft]
      /\ UNCHANGED <<host, issued, sqMem, sqDb, cqDb, cqMem, irq, dev, completed, inQue, inTail,
                     inHead, outQue, outTail, outHead, ftl, pq, hackLeft, now, work>>
  BY DEF ReadHack, At, hostVars, ringIn, ringOut
<1>2. TypeOK
  BY DEF IInv
<1>3. /\ q = x.q /\ x \in Thread /\ ThreadOk(d) /\ CompletedOk(d) /\ q \in Nat \ {0} /\ DOf(q) = d
      /\ Batch(x) /\ q \in Queues
  BY <1>q, <1>1, ThreadNow DEF ThreadOk, Batch
<1>4. hackLeft \in 0 .. HackNum /\ hackLeft # 0
  BY <1>1, <1>2, IoSizes DEF TypeOK
<1>5. /\ disp' = [disp EXCEPT ![d] = s]
      /\ \A e \in Dispatchers : e # d => disp'[e] = disp[e]
      /\ s = [x EXCEPT !.pc = "hack", !.hack = hackLeft]
  BY <1>1, <1>2 DEF TypeOK
<1>6. /\ s \in Thread /\ s.pc = "hack" /\ s.q = q /\ s.entry = x.entry /\ s.todo = x.todo
      /\ s.hack # 0
  <2> HIDE DEF x, s
  <2>1. s = [pc |-> "hack", q |-> x.q, todo |-> x.todo, entry |-> x.entry, f |-> x.f,
             slpa |-> x.slpa, nlb |-> x.nlb, req |-> x.req, tick |-> x.tick, hack |-> hackLeft]
    BY <1>3, <1>5 DEF Thread
  <2> QED
    BY <1>3, <1>4, <2>1, ThreadFields DEF Thread, x
<1>7. CursorOf(s, dev[q], q) = Cursor(q)
  BY <1>1, <1>3, <1>6 DEF Cursor, CursorOf, Batch
<1>8. Cursor(q)' = Cursor(q)
  BY <1>1, <1>3, <1>7 DEF Cursor
<1>9. ThreadOk(d)'
  <2>1. x.todo >= 1 /\ x.todo - One(x.pc = "split") <= Distance(Cursor(q), host[q].sqTail)
    BY <1>3 DEF ThreadOk
  <2>2. s.todo >= 1 /\ s.todo - One(s.pc = "split") <= Distance(Cursor(q)', host'[q].sqTail)
    <3> HIDE DEF s
    <3> QED
      BY <1>1, <1>6, <1>8, <2>1 DEF One
  <2> QED
    BY <1>3, <1>6, <2>2 DEF ThreadOk
<1>10. TypeOK'
  <2> HIDE DEF s
  <2>1. disp' \in [Dispatchers -> Thread]
    BY <1>2, <1>5, <1>6 DEF TypeOK
  <2> QED
    BY <1>1, <1>2, <2>1 DEF TypeOK
<1>11. CompletedOk(d)'
  BY <1>1, <1>3 DEF CompletedOk
<1>12. QueueOk(host[q], sqMem[q], cqMem'[q], dev'[q], CursorOf(s, dev'[q], q))
  BY <1>1, <1>3, <1>7, QueueNow
<1>13. QueuesOk' /\ \A e \in Dispatchers : ThreadOk(e)' /\ CompletedOk(e)'
  BY <1>1, <1>3, <1>5, <1>6, <1>9, <1>11, <1>12, OneQueue
<1>14. Routed' /\ PiecesOk' /\ \A f \in FTLs : FtlOk(f)'
  BY <1>1 DEF IInv, Routed, PiecesOk, Pieces, LeftOf, FtlOk
<1> QED
  BY <1>10, <1>13, <1>14 DEF IInv

\* What dispatching an entry changes in the device's view of a queue.
LEMMA DispatchedFields ==
  ASSUME NEW d, NEW v \in Device
  PROVE  /\ Dispatched(d, v).head = v.head /\ Dispatched(d, v).phase = v.phase
         /\ Dispatched(d, v).tag = v.tag /\ Dispatched(d, v).free = v.free
         /\ Dispatched(d, v).req = v.req
         /\ Dispatched(d, v).oldSq =
              IF disp[d].todo = 1 THEN Succ(disp[d].entry, QSize) ELSE v.oldSq
BY DEF Dispatched, Device

\* A completion is written.
LEMMA PostFacts ==
  ASSUME IInv, NEW q \in Queues, NEW c, Post(q, c)
  PROVE  /\ Written(cqMem'[q], cqMem[q], dev[q], c)
         /\ \A p \in Queues : p # q => cqMem'[p] = cqMem[p]
         /\ c \in Cids =>
              cqMem' \in [Queues -> [Entries -> [cid : Cids \cup {0}, phase : {0, 1}]]]
<1>1. cqMem \in [Queues -> [Entries -> [cid : Cids \cup {0}, phase : {0, 1}]]]
  BY DEF IInv, TypeOK
<1>2. dev[q].head \in Entries /\ dev[q].phase \in {0, 1}
  BY QueueNow, RecordFacts
<1>3. cqMem' = [cqMem EXCEPT ![q][dev[q].head] = [cid |-> c, phase |-> dev[q].phase]]
  BY DEF Post
<1> QED
  BY <1>1, <1>2, <1>3 DEF Written

\* A dispatcher is done with an entry: it turns to the next one of the batch,
\* or to its next queue.
LEMMA EntryDone ==
  ASSUME IInv, NEW d \in Dispatchers, disp[d].pc \in {"hack", "split"},
         NEW q, q = disp[d].q, NEW s, s = disp'[d],
         s = AfterEntry(d) \/ s = [AfterEntry(d) EXCEPT !.hack = 0],
         UNCHANGED host,
         dev'[q].oldSq = IF disp[d].todo = 1 THEN Succ(disp[d].entry, QSize) ELSE dev[q].oldSq
  PROVE  /\ s \in Thread /\ ThreadOk(d)' /\ (Batch(s) => s.q = q)
         /\ CursorOf(s, dev'[q], q) = Succ(disp[d].entry, QSize)
<1> DEFINE x == disp[d]
           n == AfterEntry(d)
           next == Succ(x.entry, QSize)
           t == host[q].sqTail
<1>1. /\ x \in Thread /\ ThreadOk(d) /\ q \in Queues /\ DOf(q) = d /\ Batch(x)
      /\ x.todo \in Int /\ x.todo >= 1 /\ x.entry \in Entries /\ next \in Entries
      /\ host[q] \in Driver /\ t \in Entries
  BY ThreadNow, ThreadFields, QueueNow, RecordFacts DEF ThreadOk, Batch
<1>2. /\ n \in Thread
      /\ x.todo = 1 => \/ n.pc = "sq" /\ n.q = q + NrDispatcher /\ n.q <= NrQueues
                       \/ n.pc = "cq" /\ n.q = d + 1
      /\ x.todo # 1 => n.pc = "io" /\ n.q = q /\ n.todo = x.todo - 1 /\ n.entry = next
  BY <1>1, ThreadEntry
<1>3. /\ s \in Thread /\ s.pc = n.pc /\ s.q = n.q /\ s.todo = n.todo /\ s.entry = n.entry
  <2> HIDE DEF n
  <2>1. CASE s = n
    BY <1>2, <2>1
  <2>2. CASE s = [n EXCEPT !.hack = 0]
    <3>1. 0 \in 0 .. HackNum
      BY IoSizes
    <3> QED
      BY <1>2, <2>2, <3>1 DEF Thread
  <2> QED
    BY <2>1, <2>2 DEF n
<1>4. CASE x.todo = 1
  <2>1. /\ d + 1 \in Queues
        /\ q + NrDispatcher <= NrQueues => q + NrDispatcher \in Queues
        /\ DOf(q + NrDispatcher) = d /\ DOf(d + 1) = d
    BY <1>1, NextOwn
  <2>2. s.q \in Queues /\ DOf(s.q) = d /\ s.pc \in {"sq", "cq"}
    <3> HIDE DEF n
    <3> QED
      BY <1>2, <1>3, <1>4, <2>1
  <2>3. s.q \in Nat \ {0}
    BY <2>2, QueueNumbers
  <2>4. ThreadOk(d)' /\ ~ Batch(s)
    BY <2>2, <2>3, Idle
  <2>5. CursorOf(s, dev'[q], q) = next
    BY <1>4, <2>4 DEF CursorOf
  <2> QED
    BY <1>3, <2>4, <2>5
<1>5. CASE x.todo # 1
  <2>1. s.pc = "io" /\ s.q = q /\ s.todo = x.todo - 1 /\ s.entry = next
    BY <1>2, <1>3, <1>5
  <2>2. CursorOf(s, dev'[q], q) = next
    BY <2>1 DEF CursorOf, Batch
  <2>3. x.todo - 1 >= 1
    BY <1>1, <1>5
  <2>4. x.todo - One(x.pc = "split") <= Distance(Cursor(q), t)
    BY <1>1 DEF ThreadOk
  <2>5. Cursor(q) = IF x.pc = "split" THEN next ELSE x.entry
    BY <1>1 DEF Cursor, CursorOf
  <2>6. x.todo - 1 <= Distance(next, t)
    <3>1. CASE x.pc = "split"
      BY <2>4, <2>5, <3>1 DEF One
    <3>2. CASE x.pc # "split"
      <4>1. x.todo <= Distance(x.entry, t)
        <5>1. One(x.pc = "split") = 0 /\ Cursor(q) = x.entry
          BY <2>5, <3>2 DEF One
        <5> QED
          BY <1>1, <2>4, <5>1
      <4> HIDE DEF t
      <4>2. Distance(x.entry, t) \in Entries
        BY <1>1, DistanceFacts
      <4>3. Distance(x.entry, t) \in Nat /\ Distance(x.entry, t) # 0
        BY <1>1, <4>1, <4>2, IoSizes DEF Entries
      <4>4. x.entry # t
        BY <1>1, <4>3, DistanceFacts
      <4>5. Distance(next, t) = Distance(x.entry, t) - 1
        BY <1>1, <4>4, InsidePopped
      <4> QED
        BY <1>1, <4>1, <4>3, <4>5
    <3> QED
      BY <3>1, <3>2
  <2>7. Cursor(q)' = next /\ host'[q].sqTail = t
    BY <1>1, <2>2 DEF Cursor
  <2>8. s.q \in Nat \ {0} /\ DOf(s.q) = d /\ s.q \in Queues
    BY <1>1, <2>1, QueueNumbers
  <2>9. s.todo >= 1 /\ s.todo - One(s.pc = "split") <= Distance(Cursor(q)', host'[q].sqTail)
    <3> HIDE DEF next, t
    <3> QED
      BY <1>1, <2>1, <2>3, <2>6, <2>7 DEF One
  <2>10. ThreadOk(d)'
    BY <2>1, <2>8, <2>9 DEF ThreadOk
  <2> QED
    BY <1>3, <2>1, <2>2, <2>10
<1> QED
  BY <1>4, <1>5

\* The finished requests of a dispatcher stay what they are.
LEMMA CompletedSame ==
  ASSUME IInv, NEW d \in Dispatchers, completed'[d] = completed[d],
         \A p \in Queues : \A r \in ReqIds : On(completed[d], <<p, r>>) =>
           dev'[p].req[r].flight = dev[p].req[r].flight /\ dev'[p].req[r].left = dev[p].req[r].left
  PROVE  CompletedOk(d)'
<1>1. CompletedOk(d) /\ completed[d] \in Seq(Queues \X ReqIds)
  BY ThreadNow
<1>2. ASSUME NEW x, On(completed[d], x)
      PROVE  /\ DOf(x[1]) = d /\ x[2] # 0
             /\ dev'[x[1]].req[x[2]].flight /\ dev'[x[1]].req[x[2]].left = 0
  <2>1. x \in Queues \X ReqIds
    BY <1>1, <1>2, LenProperties, ElementOfSeq DEF On
  <2>2. x[1] \in Queues /\ x[2] \in ReqIds /\ x = <<x[1], x[2]>>
    BY <2>1
  <2>3. /\ dev'[x[1]].req[x[2]].flight = dev[x[1]].req[x[2]].flight
        /\ dev'[x[1]].req[x[2]].left = dev[x[1]].req[x[2]].left
    BY <1>2, <2>2
  <2> QED
    BY <1>1, <1>2, <2>3 DEF CompletedOk
<1> QED
  BY <1>1, <1>2 DEF CompletedOk

\* One of the first commands is completed at once.
LEMMA HackIoKeeps ==
  ASSUME IInv, NEW d \in Dispatchers, HackIo(d)
  PROVE  IInv' /\ (Exact => Exact')
<1> DEFINE x == disp[d]
           s == disp'[d]
<1>q. PICK q : q = disp[d].q
  OBVIOUS
<1>c. PICK c : c = sqMem[q][disp[d].entry].cid
  OBVIOUS
<1>1. /\ x.pc = "hack" /\ hackLeft' = x.hack - 1 /\ Post(q, c)
      /\ dev' = [dev EXCEPT ![q] = Dispatched(d, Posted(@))]
      /\ work' = [work EXCEPT ![q][c] = [left |-> {}, due |-> now]]
      /\ disp' = [disp EXCEPT ![d] = [AfterEntry(d) EXCEPT !.hack = 0]]
      /\ UNCHANGED <<host, issued, sqMem, sqDb, cqDb, irq, completed, inQue, inTail, inHead,
                     outQue, outTail, outHead, ftl, pq, now>>
  BY <1>q, <1>c DEF HackIo, At, hostVars, ringIn, ringOut
<1>2. TypeOK
  BY DEF IInv
<1>3. /\ q = x.q /\ x \in Thread /\ ThreadOk(d) /\ CompletedOk(d)
      /\ DOf(q) = d /\ Batch(x) /\ q \in Queues /\ x.todo >= 1 /\ x.todo \in Int
      /\ x.hack \in 0 .. HackNum /\ x.hack # 0 /\ x.entry \in Entries
      /\ x.todo <= Distance(x.entry, host[q].sqTail)
  <2>1. /\ q = x.q /\ x \in Thread /\ ThreadOk(d) /\ CompletedOk(d)
        /\ DOf(q) = d /\ Batch(x) /\ q \in Queues /\ x.todo >= 1 /\ x.todo \in Int
        /\ x.hack \in 0 .. HackNum /\ x.hack # 0 /\ x.entry \in Entries
    BY <1>q, <1>1, ThreadNow, ThreadFields DEF ThreadOk, Batch
  <2>2. Cursor(q) = x.entry
    BY <1>1, <2>1 DEF Cursor, CursorOf
  <2>3. x.todo - One(x.pc = "split") <= Distance(Cursor(q), host[q].sqTail)
    BY <2>1 DEF ThreadOk
  <2>4. One(x.pc = "split") = 0
    BY <1>1 DEF One
  <2> QED
    BY <2>1, <2>2, <2>3, <2>4
<1>4. /\ host[q] \in Driver /\ dev[q] \in Device /\ host[q].sqTail \in Entries
      /\ QueueOk(host[q], sqMem[q], cqMem[q], dev[q], x.entry)
  <2>1. Cursor(q) = x.entry
    BY <1>1, <1>3 DEF Cursor, CursorOf
  <2> QED
    BY <1>3, <2>1, QueueNow, RecordFacts
<1>5. x.entry # host[q].sqTail
  <2>1. Distance(x.entry, host[q].sqTail) # 0
    BY <1>3
  <2> QED
    BY <1>3, <1>4, <2>1, DistanceFacts
<1>6. /\ Written(cqMem'[q], cqMem[q], dev[q], c)
      /\ \A p \in Queues : p # q => cqMem'[p] = cqMem[p]
      /\ c \in Cids =>
           cqMem' \in [Queues -> [Entries -> [cid : Cids \cup {0}, phase : {0, 1}]]]
  BY <1>1, <1>3, PostFacts
<1>7. /\ c \in Cids /\ QueueOk(host[q], sqMem[q], cqMem'[q], Posted(dev[q]), Succ(x.entry, QSize))
  BY <1>c, <1>3, <1>4, <1>5, <1>6, QueueHack
<1> DEFINE w == Dispatched(d, Posted(dev[q]))
<1>8. /\ dev' = [dev EXCEPT ![q] = w] /\ dev'[q] = w
      /\ \A p \in Queues : p # q => dev'[p] = dev[p]
      /\ disp' = [disp EXCEPT ![d] = s] /\ s = [AfterEntry(d) EXCEPT !.hack = 0]
      /\ \A e \in Dispatchers : e # d => disp'[e] = disp[e]
  BY <1>1, <1>2, <1>3 DEF TypeOK
<1>9. /\ w \in Device /\ Posted(dev[q]) \in Device
      /\ w.tag = dev[q].tag /\ w.req = dev[q].req
      /\ w.head = Posted(dev[q]).head /\ w.phase = Posted(dev[q]).phase
      /\ w.tag = Posted(dev[q]).tag /\ w.free = Posted(dev[q]).free
      /\ w.req = Posted(dev[q]).req
      /\ w.oldSq = IF x.todo = 1 THEN Succ(x.entry, QSize) ELSE dev[q].oldSq
  <2>1. /\ Posted(dev[q]) \in Device /\ Posted(dev[q]).tag = dev[q].tag
        /\ Posted(dev[q]).req = dev[q].req /\ Posted(dev[q]).oldSq = dev[q].oldSq
    BY <1>4, DeviceTypes DEF Posted, Device
  <2>2. w \in Device
    BY <1>3, <2>1, DeviceTypes
  <2> QED
    BY <2>1, <2>2, DispatchedFields
<1> HIDE DEF w
<1>10. QueueOk(host[q], sqMem[q], cqMem'[q], w, Succ(x.entry, QSize))
  <2>1. \A k \in Cids : Posted(dev[q]).tag[k] \in ReqIds
    BY <1>9, RecordFacts
  <2> QED
    BY <1>7, <1>9, <2>1, QueueSame
<1>11. /\ s \in Thread /\ ThreadOk(d)' /\ (Batch(s) => s.q = q)
       /\ CursorOf(s, dev'[q], q) = Succ(x.entry, QSize)
  <2>1. /\ disp[d].pc \in {"hack", "split"} /\ q = disp[d].q /\ s = disp'[d]
        /\ s = [AfterEntry(d) EXCEPT !.hack = 0] /\ UNCHANGED host
        /\ dev'[q].oldSq = IF disp[d].todo = 1 THEN Succ(disp[d].entry, QSize)
                           ELSE dev[q].oldSq
    BY <1>1, <1>3, <1>8, <1>9
  <2> HIDE DEF s
  <2> QED
    BY <2>1, EntryDone
<1>12. TypeOK'
  <2> HIDE DEF s
  <2>1. disp' \in [Dispatchers -> Thread] /\ dev' \in [Queues -> Device]
    BY <1>2, <1>8, <1>9, <1>11 DEF TypeOK
  <2>2. hackLeft' \in 0 .. HackNum
    BY <1>1, <1>3, IoSizes
  <2>3. work' \in [Queues -> [Cids -> [left : SUBSET Nat, due : Time]]]
    BY <1>1, <1>2, <1>3, <1>7 DEF TypeOK
  <2> QED
    BY <1>1, <1>2, <1>6, <1>7, <2>1, <2>2, <2>3 DEF TypeOK
<1>13. CompletedOk(d)'
  BY <1>1, <1>8, <1>9, CompletedSame
<1>14. QueuesOk' /\ \A e \in Dispatchers : ThreadOk(e)' /\ CompletedOk(e)'
  BY <1>1, <1>3, <1>6, <1>8, <1>10, <1>11, <1>13, OneQueue
<1>15. Routed' /\ PiecesOk' /\ (Exact => Exact') /\ \A f \in FTLs : FtlOk(f)'
  <2>1. ASSUME NEW p \in Queues, NEW k \in Cids
        PROVE  LeftOf(dev'[p], k) = LeftOf(dev[p], k) /\ LeftOf(dev[p], k) \in Int
    <3>1. LeftOf(dev[p], k) \in Int
      BY LeftType, QueueNow
    <3>2. dev'[p].tag = dev[p].tag /\ dev'[p].req = dev[p].req
      BY <1>8, <1>9
    <3> QED
      BY <3>1, <3>2 DEF LeftOf
  <2> QED
    BY <1>1, <2>1, RingsSame
<1> QED
  BY <1>12, <1>14, <1>15 DEF IInv

\* A command gets an internal request.
LEMMA StartIoKeeps ==
  ASSUME IInv, NEW d \in Dispatchers, StartIo(d)
  PROVE  IInv' /\ (Exact => Exact')
<1> DEFINE x == disp[d]
           s == disp'[d]
<1>q. PICK q : q = disp[d].q
  OBVIOUS
<1>c. PICK c : c = sqMem[q][disp[d].entry].cid
  OBVIOUS
<1>m. PICK cmd : cmd = sqMem[q][disp[d].entry]
  OBVIOUS
<1>r. PICK r : r = Head(dev[q].free)
  OBVIOUS
<1>1. /\ x.pc = "io"
      /\ dev' = [dev EXCEPT ![q].free = Tail(@), ![q].tag[c] = r,
                     ![q].req[r] = [@ EXCEPT !.flight = TRUE, !.cid = c,
                                             !.start = now, !.end = now]]
      /\ disp' = [disp EXCEPT ![d].pc = "split", ![d].slpa = cmd.slba,
                      ![d].nlb = cmd.nlb, ![d].req = r, ![d].f = FirstFTL(cmd.slba)]
      /\ UNCHANGED <<host, issued, sqMem, sqDb, cqDb, cqMem, irq, completed, inQue, inTail,
                     inHead, outQue, outTail, outHead, ftl, pq, hackLeft, now, work>>
  BY <1>q, <1>c, <1>m, <1>r DEF StartIo, At, hostVars, ringIn, ringOut
<1>2. TypeOK
  BY DEF IInv
<1>3. /\ q = x.q /\ x \in Thread /\ ThreadOk(d) /\ CompletedOk(d)
      /\ DOf(q) = d /\ Batch(x) /\ q \in Queues /\ x.todo >= 1 /\ x.todo \in Int
      /\ x.entry \in Entries
      /\ Cursor(q) = x.entry /\ x.todo <= Distance(x.entry, host[q].sqTail)
  <2>1. /\ q = x.q /\ x \in Thread /\ ThreadOk(d) /\ CompletedOk(d)
        /\ DOf(q) = d /\ Batch(x) /\ q \in Queues /\ x.todo >= 1 /\ x.todo \in Int
        /\ x.entry \in Entries
    BY <1>q, <1>1, ThreadNow, ThreadFields DEF ThreadOk, Batch
  <2>2. Cursor(q) = x.entry
    BY <1>1, <2>1 DEF Cursor, CursorOf
  <2>3. x.todo - One(x.pc = "split") <= Distance(Cursor(q), host[q].sqTail)
    BY <2>1 DEF ThreadOk
  <2>4. One(x.pc = "split") = 0
    BY <1>1 DEF One
  <2> QED
    BY <2>1, <2>2, <2>3, <2>4
<1> DEFINE v == dev[q]
           next == Succ(x.entry, QSize)
           t == host[q].sqTail
<1>4. /\ host[q] \in Driver /\ v \in Device /\ t \in Entries /\ next \in Entries
      /\ QueueOk(host[q], sqMem[q], cqMem[q], v, x.entry) /\ Requested(v)
      /\ cmd.slba \in Nat /\ cmd.nlb \in Nat /\ cmd.cid = c /\ cmd.cid \in Cids \cup {0}
      /\ now \in Time
  <2>1. sqMem[q][x.entry] \in [cid : Cids \cup {0}, slba : Nat, nlb : Nat]
    BY <1>3, QueueNow
  <2>2. cmd = sqMem[q][x.entry] /\ cmd.cid = c
    BY <1>c, <1>m
  <2>3. cmd.slba \in Nat /\ cmd.nlb \in Nat /\ cmd.cid \in Cids \cup {0}
    BY <2>1, <2>2
  <2>4. now \in Time
    BY <1>2 DEF TypeOK
  <2> QED
    BY <1>3, <2>2, <2>3, <2>4, QueueNow, RecordFacts, DistanceFacts DEF QueueOk
<1>5. /\ x.entry # t /\ x.todo - 1 <= Distance(next, t)
  <2>1. Distance(x.entry, t) # 0 /\ Distance(x.entry, t) \in Int
    <3>1. Distance(x.entry, t) \in Entries
      BY <1>3, <1>4, DistanceFacts
    <3> QED
      BY <1>3, <3>1, IoSizes DEF Entries
  <2>2. x.entry # t
    BY <1>3, <1>4, <2>1, DistanceFacts
  <2>3. Distance(next, t) = Distance(x.entry, t) - 1
    BY <1>3, <1>4, <2>2, InsidePopped
  <2> HIDE DEF next
  <2> QED
    BY <1>3, <2>1, <2>2, <2>3
<1>6. /\ v.free # <<>> /\ v.free \in Seq(ReqIds) /\ r \in ReqIds /\ Tail(v.free) \in Seq(ReqIds)
      /\ v.tag \in [Cids -> ReqIds] /\ v.req \in [ReqIds -> Request] /\ v.req[r] \in Request
  <2>1. v.free # <<>> /\ v.free \in Seq(ReqIds)
    BY <1>4, RequestLeft, RecordFacts
  <2>2. r \in ReqIds /\ Tail(v.free) \in Seq(ReqIds)
    BY <1>r, <2>1, TailOnce
  <2> QED
    BY <1>4, <2>1, <2>2, RecordFacts
<1> DEFINE y == [v.req[r] EXCEPT !.flight = TRUE, !.cid = c, !.start = now, !.end = now]
           w == [v EXCEPT !.free = Tail(@), !.tag[c] = r, !.req[r] = y]
<1>7. /\ dev' = [dev EXCEPT ![q] = w] /\ dev'[q] = w
      /\ \A p \in Queues : p # q => dev'[p] = dev[p]
      /\ disp' = [disp EXCEPT ![d] = s]
      /\ s = [x EXCEPT !.pc = "split", !.slpa = cmd.slba, !.nlb = cmd.nlb,
                       !.req = r, !.f = FirstFTL(cmd.slba)]
      /\ \A e \in Dispatchers : e # d => disp'[e] = disp[e]
  <2>1. dev' = [dev EXCEPT ![q] = w]
    BY <1>1
  <2>2. dev \in [Queues -> Device] /\ disp \in [Dispatchers -> Thread]
    BY <1>2 DEF TypeOK
  <2> HIDE DEF w
  <2>3. dev'[q] = w /\ \A p \in Queues : p # q => dev'[p] = dev[p]
    BY <1>3, <2>1, <2>2
  <2>4. PICK z : z = [x EXCEPT !.pc = "split", !.slpa = cmd.slba, !.nlb = cmd.nlb,
                               !.req = r, !.f = FirstFTL(cmd.slba)]
    OBVIOUS
  <2>5. disp' = [disp EXCEPT ![d] = z]
    BY <1>1, <2>4
  <2>6. s = z /\ \A e \in Dispatchers : e # d => disp'[e] = disp[e]
    BY <2>2, <2>5
  <2>7. disp' = [disp EXCEPT ![d] = s]
    BY <2>5, <2>6
  <2> QED
    BY <2>1, <2>3, <2>4, <2>6, <2>7
<1>8. /\ y \in Request /\ y.flight = TRUE /\ y.cid = c /\ y.left = v.req[r].left
  BY <1>4, <1>6 DEF Request
<1> HIDE DEF y
<1>9. /\ w \in Device
      /\ w.head = v.head /\ w.phase = v.phase /\ w.free = Tail(v.free)
      /\ w.tag = [v.tag EXCEPT ![c] = r] /\ w.req = [v.req EXCEPT ![r] = y]
  <2> DEFINE fr == Tail(v.free)
             tg == [v.tag EXCEPT ![c] = r]
             rq == [v.req EXCEPT ![r] = y]
  <2>1. fr \in Seq(ReqIds) /\ tg \in [Cids -> ReqIds] /\ rq \in [ReqIds -> Request]
    BY <1>6, <1>8
  <2>2. w = [v EXCEPT !.free = fr, !.tag = tg, !.req = rq]
    BY <1>4 DEF Device
  <2> HIDE DEF fr, tg, rq, v, w
  <2>3. /\ w \in Device /\ w.head = v.head /\ w.phase = v.phase /\ w.free = fr
        /\ w.tag = tg /\ w.req = rq
    BY <1>4, <2>1, <2>2 DEF Device
  <2> QED
    BY <2>3 DEF fr, tg, rq
<1> HIDE DEF w
<1>10. /\ w.req[r] = y /\ \A i \in ReqIds : i # r => w.req[i] = v.req[i]
  BY <1>6, <1>9
<1>11. /\ c \in Cids /\ cmd.nlb # 0 /\ v.tag[c] = 0
       /\ r \in 1 .. QSize /\ ~ v.req[r].flight /\ v.req[r].left = 0
       /\ QueueOk(host[q], sqMem[q], cqMem[q], w, next)
  <2>1. /\ w.req[r].flight /\ w.req[r].cid = c
    BY <1>8, <1>10
  <2>2. c = sqMem[q][x.entry].cid /\ cmd.nlb = sqMem[q][x.entry].nlb /\ r = Head(v.free)
    BY <1>c, <1>m, <1>r
  <2>3. /\ host[q] \in Driver /\ v \in Device /\ x.entry \in Entries
        /\ QueueOk(host[q], sqMem[q], cqMem[q], v, x.entry) /\ x.entry # host[q].sqTail
        /\ w \in Device /\ w.head = v.head /\ w.phase = v.phase /\ w.free = Tail(v.free)
        /\ w.tag = [v.tag EXCEPT ![c] = r]
        /\ \A i \in ReqIds : i # r => w.req[i] = v.req[i]
    BY <1>3, <1>4, <1>5, <1>9, <1>10
  <2>4. /\ c \in Cids /\ sqMem[q][x.entry].nlb # 0 /\ v.tag[c] = 0
        /\ r \in 1 .. QSize /\ ~ v.req[r].flight /\ v.req[r].left = 0
        /\ QueueOk(host[q], sqMem[q], cqMem[q], w, next)
    <3> DEFINE h   == host[q]
               sqm == sqMem[q]
               cqm == cqMem[q]
               e   == x.entry
    <3>1. /\ h \in Driver /\ v \in Device /\ e \in Entries /\ QueueOk(h, sqm, cqm, v, e)
          /\ e # h.sqTail /\ c = sqm[e].cid /\ r = Head(v.free) /\ w \in Device
          /\ w.head = v.head /\ w.phase = v.phase /\ w.free = Tail(v.free)
          /\ w.tag = [v.tag EXCEPT ![c] = r] /\ w.req[r].flight /\ w.req[r].cid = c
          /\ \A i \in ReqIds : i # r => w.req[i] = v.req[i]
      BY <2>1, <2>2, <2>3
    <3> HIDE DEF v, x, s, h, sqm, cqm, e, t
    <3>2. /\ c \in Cids /\ sqm[e].nlb # 0 /\ v.tag[c] = 0
          /\ r \in 1 .. QSize /\ ~ v.req[r].flight /\ v.req[r].left = 0
          /\ QueueOk(h, sqm, cqm, w, Succ(e, QSize))
      BY <3>1, QueueStart
    <3> QED
      BY <3>2 DEF h, sqm, cqm, e, next
  <2> QED
    BY <2>2, <2>4
<1>12. /\ s \in Thread /\ s.pc = "split" /\ s.q = q /\ s.entry = x.entry /\ s.todo = x.todo
       /\ s.req = r /\ s.nlb = cmd.nlb
  <2>1. FirstFTL(cmd.slba) \in FTLs
    BY IoPathAssumption DEF FirstFTL, FTLs
  <2> DEFINE f == FirstFTL(cmd.slba)
  <2>2. s = [x EXCEPT !.pc = "split", !.slpa = cmd.slba, !.nlb = cmd.nlb,
                       !.req = r, !.f = f]
    BY <1>7
  <2> HIDE DEF f, s, x
  <2>3. s = [pc |-> "split", q |-> x.q, todo |-> x.todo, entry |-> x.entry, f |-> f,
             slpa |-> cmd.slba, nlb |-> cmd.nlb, req |-> r, tick |-> x.tick, hack |-> x.hack]
    BY <1>3, <2>2 DEF Thread
  <2> QED
    BY <1>3, <1>4, <1>6, <2>1, <2>3, ThreadFields DEF Thread, f
<1>13. CursorOf(s, w, q) = next
  BY <1>12 DEF CursorOf, Batch
<1>14. ThreadOk(d)'
  <2>1. Cursor(q)' = next
    BY <1>3, <1>7, <1>13 DEF Cursor
  <2>2. s.todo >= 1 /\ s.todo - One(s.pc = "split") <= Distance(Cursor(q)', host'[q].sqTail)
    <3>1. s.todo >= 1 /\ s.todo - 1 <= Distance(Cursor(q)', host'[q].sqTail)
      BY <1>1, <1>3, <1>5, <1>12, <2>1
    <3> HIDE DEF s
    <3> QED
      BY <1>12, <3>1 DEF One
  <2>3. s.q \in Nat \ {0} /\ DOf(s.q) = d /\ s.q \in Queues
    BY <1>3, <1>12, QueueNumbers
  <2>4. s.req # 0 /\ s.nlb # 0 /\ dev'[q].req[r].flight
    BY <1>7, <1>8, <1>10, <1>11, <1>12
  <2>5. ~ On(completed'[d], <<q, r>>)
    <3>1. ~ On(completed[d], <<q, r>>)
      BY <1>3, <1>11 DEF CompletedOk
    <3> QED
      BY <1>1, <3>1
  <2> QED
    BY <1>12, <2>2, <2>3, <2>4, <2>5 DEF ThreadOk
<1>15. TypeOK'
  <2> HIDE DEF s
  <2>1. disp' \in [Dispatchers -> Thread] /\ dev' \in [Queues -> Device]
    BY <1>2, <1>7, <1>9, <1>12 DEF TypeOK
  <2> QED
    BY <1>1, <1>2, <2>1 DEF TypeOK
<1>16. CompletedOk(d)'
  <2>1. ~ On(completed[d], <<q, r>>)
    BY <1>3, <1>11 DEF CompletedOk
  <2>2. ASSUME NEW p \in Queues, NEW i \in ReqIds, On(completed[d], <<p, i>>)
        PROVE  dev'[p].req[i].flight = dev[p].req[i].flight /\ dev'[p].req[i].left = dev[p].req[i].left
    BY <1>7, <1>10, <2>1, <2>2
  <2> QED
    BY <1>1, <2>2, CompletedSame
<1>17. QueuesOk' /\ \A e \in Dispatchers : ThreadOk(e)' /\ CompletedOk(e)'
  <2> HIDE DEF next
  <2>1. \A e \in Dispatchers : e # d => completed'[e] = completed[e]
    BY <1>1
  <2>2. \A p \in Queues : p # q => dev'[p] = dev[p] /\ cqMem'[p] = cqMem[p]
    BY <1>1, <1>7
  <2>3. Batch(disp[d]) => disp[d].q = q
    BY <1>3
  <2>4. QueueOk(host[q], sqMem[q], cqMem'[q], dev'[q], CursorOf(disp'[d], dev'[q], q))
    BY <1>1, <1>7, <1>11, <1>13
  <2>5. \A e \in Dispatchers : e # d => disp'[e] = disp[e] /\ completed'[e] = completed[e]
    BY <1>7, <2>1
  <2>6. UNCHANGED <<host, sqMem, sqDb>> /\ DOf(q) = d /\ (Batch(disp'[d]) => disp'[d].q = q)
    BY <1>1, <1>3, <1>12
  <2> HIDE DEF x, v, t, s
  <2> QED
    BY <1>14, <1>16, <2>2, <2>3, <2>4, <2>5, <2>6, OneQueue
<1>18. Routed' /\ PiecesOk' /\ (Exact => Exact') /\ \A f \in FTLs : FtlOk(f)'
  <2>1. ASSUME NEW p \in Queues, NEW k \in Cids
        PROVE  LeftOf(dev'[p], k) = LeftOf(dev[p], k) /\ LeftOf(dev[p], k) \in Int
    <3>1. LeftOf(dev[p], k) \in Int
      BY LeftType, QueueNow
    <3>2. CASE p # q
      BY <1>7, <3>1, <3>2
    <3>3. CASE p = q /\ k = c
      <4>1. LeftOf(v, k) = 0
        BY <1>11, <3>3 DEF LeftOf
      <4>2. w.tag[k] = r /\ w.req[r].left = 0
        BY <1>6, <1>8, <1>9, <1>10, <1>11, <3>3
      <4> QED
        BY <1>7, <3>1, <3>3, <4>1, <4>2 DEF LeftOf
    <3>4. CASE p = q /\ k # c
      <4>1. w.tag[k] = v.tag[k] /\ v.tag[k] \in ReqIds
        BY <1>6, <1>9, <3>4
      <4>2. \A i \in ReqIds : w.req[i].left = v.req[i].left
        BY <1>8, <1>10
      <4>3. LeftOf(w, k) = LeftOf(v, k)
        BY <4>1, <4>2 DEF LeftOf
      <4> QED
        BY <1>7, <3>1, <3>4, <4>3
    <3> QED
      BY <3>2, <3>3, <3>4
  <2>2. UNCHANGED <<inQue, outQue, ftl, pq>>
    BY <1>1
  <2>3. \A p \in Queues : \A k \in Cids :
          LeftOf(dev'[p], k) = LeftOf(dev[p], k) /\ LeftOf(dev[p], k) \in Int
    BY <2>1
  <2> QED
    BY <2>2, <2>3, RingsSame
<1> QED
  BY <1>15, <1>17, <1>18 DEF IInv

\* Rings hold pieces of the right queues after one has been written.
LEMMA RingRouted ==
  ASSUME NEW n \in Nat, NEW ring, NEW new,
         NEW d \in Dispatchers, NEW f \in FTLs, NEW i \in 0 .. n - 1, NEW p,
         Stored(ring, new, n, d, f, i, p), RoutedTo(ring, n), p = Empty \/ DOf(p.q) = d
  PROVE  RoutedTo(new, n)
BY DEF Stored, RoutedTo

\* A piece of a command is sent to an FTL thread.
LEMMA EnqueuePieceKeeps ==
  ASSUME IInv, NEW d \in Dispatchers, EnqueuePiece(d)
  PROVE  IInv' /\ (NoOverrun /\ Exact => Exact')
<1> DEFINE x == disp[d]
           s == disp'[d]
<1>q. PICK q : q = disp[d].q
  OBVIOUS
<1>f. PICK f : f = disp[d].f
  OBVIOUS
<1>r. PICK r : r = disp[d].req
  OBVIOUS
<1>n. PICK n : n = IF disp[d].nlb <= SegUnits(f) THEN disp[d].nlb ELSE SegUnits(f)
  OBVIOUS
<1>i. PICK i : i = inTail[d][f]
  OBVIOUS
<1>p. PICK p : p = [q |-> q, cid |-> dev[q].req[r].cid, slpa |-> disp[d].slpa,
                    nlb |-> n, nsecs |-> dev[q].req[r].start]
  OBVIOUS
<1> DEFINE v == dev[q]
           sent == [v EXCEPT !.req[r].left = @ + 1]
           next == Succ(x.entry, QSize)
<1>1. /\ x.pc = "split"
      /\ inQue' = [inQue EXCEPT ![d][f][i] = p]
      /\ inTail' = [inTail EXCEPT ![d][f] = Succ(@, InSize)]
      /\ \/ /\ n = x.nlb /\ dev' = [dev EXCEPT ![q] = Dispatched(d, sent)]
            /\ disp' = [disp EXCEPT ![d] = AfterEntry(d)]
         \/ /\ n # x.nlb /\ dev' = [dev EXCEPT ![q] = sent]
            /\ disp' = [disp EXCEPT ![d].slpa = @ + n, ![d].nlb = @ - n, ![d].f = Succ(@, NrFTL)]
      /\ UNCHANGED <<host, issued, sqMem, sqDb, cqDb, cqMem, irq, completed, inHead,
                     outQue, outTail, outHead, ftl, pq, hackLeft, now, work>>
  BY <1>q, <1>f, <1>r, <1>n, <1>i, <1>p DEF EnqueuePiece, At, hostVars, ringOut
<1>2. TypeOK
  BY DEF IInv
<1>3. /\ q = x.q /\ f = x.f /\ r = x.req /\ x \in Thread /\ ThreadOk(d) /\ CompletedOk(d)
      /\ DOf(q) = d /\ Batch(x) /\ q \in Queues /\ x.todo >= 1 /\ x.todo \in Int
      /\ x.entry \in Entries /\ f \in FTLs /\ r \in ReqIds /\ r # 0 /\ x.nlb \in Nat \ {0}
      /\ x.slpa \in Nat /\ v.req[r].flight /\ ~ On(completed[d], <<q, r>>)
      /\ Cursor(q) = next /\ x.todo - One(x.pc = "split") <= Distance(next, host[q].sqTail)
  <2>1. /\ q = x.q /\ f = x.f /\ r = x.req /\ x \in Thread /\ ThreadOk(d) /\ CompletedOk(d)
        /\ DOf(q) = d /\ Batch(x) /\ q \in Queues /\ x.todo >= 1 /\ x.todo \in Int
        /\ x.entry \in Entries /\ f \in FTLs /\ r \in ReqIds /\ r # 0 /\ x.nlb \in Nat \ {0}
        /\ x.slpa \in Nat /\ v.req[r].flight /\ ~ On(completed[d], <<q, r>>)
    BY <1>q, <1>f, <1>r, <1>1, ThreadNow, ThreadFields DEF ThreadOk, Batch
  <2>2. Cursor(q) = next
    BY <1>1, <2>1 DEF Cursor, CursorOf
  <2>3. x.todo - One(x.pc = "split") <= Distance(Cursor(q), host[q].sqTail)
    BY <2>1 DEF ThreadOk
  <2> QED
    BY <2>1, <2>2, <2>3
<1>4. /\ host[q] \in Driver /\ v \in Device /\ Requested(v)
      /\ QueueOk(host[q], sqMem[q], cqMem[q], v, next)
      /\ v.req \in [ReqIds -> Request] /\ v.req[r] \in Request
      /\ v.tag \in [Cids -> ReqIds]
  BY <1>3, QueueNow, RecordFacts DEF QueueOk
<1>5. /\ p.cid \in Cids /\ v.tag[p.cid] = r /\ p.q = q /\ p.cid = v.req[r].cid
      /\ p.nsecs \in Time
  <2>1. p.q = q /\ p.cid = v.req[r].cid /\ p.nsecs = v.req[r].start
    BY <1>p
  <2>2. r \in 1 .. QSize
    BY <1>3, IoSizes DEF ReqIds
  <2>3. v.req[r].start \in Time
    BY <1>3, <1>4, RecordFacts
  <2>4. v.req[r].cid \in Cids /\ v.tag[v.req[r].cid] = r
    BY <1>3, <1>4, <2>2 DEF Requested
  <2> QED
    BY <2>1, <2>3, <2>4
<1>6. /\ n \in Nat \ {0} /\ n <= x.nlb
  <2>1. SegUnits(f) \in Nat \ {0}
    BY IoSizes DEF SegUnits
  <2> DEFINE u == SegUnits(f)
  <2> HIDE DEF u, x
  <2>2. u \in Nat \ {0} /\ x.nlb \in Nat \ {0}
    BY <1>3, <2>1 DEF u
  <2>3. n = IF x.nlb <= u THEN x.nlb ELSE u
    BY <1>n DEF x, u
  <2> QED
    BY <2>2, <2>3
<1>7. p \in Piece
  <2>1. p = [q |-> q, cid |-> p.cid, slpa |-> x.slpa, nlb |-> n, nsecs |-> p.nsecs]
    BY <1>p
  <2> QED
    BY <1>3, <1>5, <1>6, <2>1 DEF Piece
<1>8. i \in 0 .. InSize - 1 /\ Succ(i, InSize) \in 0 .. InSize - 1
  <2>1. i \in 0 .. InSize - 1
    BY <1>3, <1>i, ThreadNow
  <2> QED
    BY <2>1, IoSizes DEF Succ
<1>9. /\ sent \in Device /\ sent.head = v.head /\ sent.phase = v.phase /\ sent.tag = v.tag
      /\ sent.free = v.free /\ sent.oldSq = v.oldSq
      /\ sent.req[r].left = v.req[r].left + 1
      /\ sent.req[r].flight = v.req[r].flight /\ sent.req[r].cid = v.req[r].cid
      /\ \A j \in ReqIds : j # r => sent.req[j] = v.req[j]
  <2> DEFINE y == [v.req[r] EXCEPT !.left = @ + 1]
             rq == [v.req EXCEPT ![r] = y]
  <2>1. /\ y \in Request /\ y.left = v.req[r].left + 1 /\ y.flight = v.req[r].flight
        /\ y.cid = v.req[r].cid
    BY <1>4 DEF Request
  <2>2. rq \in [ReqIds -> Request] /\ rq[r] = y /\ \A j \in ReqIds : j # r => rq[j] = v.req[j]
    BY <1>3, <1>4, <2>1
  <2>3. sent = [v EXCEPT !.req = rq]
    BY <1>4 DEF Device
  <2> HIDE DEF y, rq, v, sent
  <2>4. /\ sent \in Device /\ sent.head = v.head /\ sent.phase = v.phase /\ sent.tag = v.tag
        /\ sent.free = v.free /\ sent.oldSq = v.oldSq /\ sent.req = rq
    BY <1>4, <2>2, <2>3 DEF Device
  <2> QED
    BY <2>1, <2>2, <2>4
<1> HIDE DEF sent
<1> DEFINE w == IF n = x.nlb THEN Dispatched(d, sent) ELSE sent
<1>10. /\ w \in Device /\ w.head = v.head /\ w.phase = v.phase /\ w.tag = v.tag
       /\ w.free = v.free /\ w.req = sent.req
       /\ n = x.nlb => w.oldSq = IF x.todo = 1 THEN Succ(x.entry, QSize) ELSE v.oldSq
  <2>1. CASE n = x.nlb
    <3>1. w = Dispatched(d, sent)
      BY <2>1
    <3>2. w \in Device
      BY <1>3, <1>9, <3>1, DeviceTypes
    <3> HIDE DEF w, v
    <3> QED
      BY <1>9, <3>1, <3>2, DispatchedFields
  <2>2. CASE n # x.nlb
    BY <1>9, <2>2
  <2> QED
    BY <2>1, <2>2
<1>11. /\ dev' = [dev EXCEPT ![q] = w] /\ dev'[q] = w
       /\ \A a \in Queues : a # q => dev'[a] = dev[a]
       /\ disp' = [disp EXCEPT ![d] = s]
       /\ \A e \in Dispatchers : e # d => disp'[e] = disp[e]
       /\ n = x.nlb => s = AfterEntry(d)
       /\ n # x.nlb => s = [x EXCEPT !.slpa = @ + n, !.nlb = @ - n, !.f = Succ(@, NrFTL)]
  BY <1>1, <1>2, <1>3 DEF TypeOK
<1> HIDE DEF w
<1>12. QueueOk(host[q], sqMem[q], cqMem[q], w, next)
  <2>1. \A j \in ReqIds : /\ w.req[j].flight = v.req[j].flight /\ w.req[j].cid = v.req[j].cid
                          /\ ~ v.req[j].flight => w.req[j].left = v.req[j].left
    BY <1>3, <1>9, <1>10
  <2>2. \A c \in Cids : v.tag[c] \in ReqIds
    BY <1>4
  <2> HIDE DEF v, next
  <2> QED
    BY <1>4, <1>10, <2>1, <2>2, QueueSame
<1>13. /\ s \in Thread /\ ThreadOk(d)' /\ (Batch(s) => s.q = q) /\ CursorOf(s, dev'[q], q) = next
  <2>1. CASE n = x.nlb
    <3>1. /\ disp[d].pc \in {"hack", "split"} /\ q = disp[d].q /\ s = disp'[d]
          /\ s = AfterEntry(d) /\ UNCHANGED host
          /\ dev'[q].oldSq = IF disp[d].todo = 1 THEN Succ(disp[d].entry, QSize)
                             ELSE dev[q].oldSq
      BY <1>1, <1>3, <1>10, <1>11, <2>1
    <3> HIDE DEF s
    <3> QED
      BY <3>1, EntryDone
  <2>2. CASE n # x.nlb
    <3>1. s = [x EXCEPT !.slpa = @ + n, !.nlb = @ - n, !.f = Succ(@, NrFTL)]
      BY <1>11, <2>2
    <3>2. x.slpa + n \in Nat /\ x.nlb - n \in Nat \ {0}
      BY <1>3, <1>6, <2>2
    <3>3. /\ s \in Thread /\ s.pc = "split" /\ s.q = q /\ s.todo = x.todo /\ s.entry = x.entry
          /\ s.req = r /\ s.nlb # 0
      <4> DEFINE a == x.slpa + n
                 b == x.nlb - n
                 g == Succ(x.f, NrFTL)
      <4>1. s = [x EXCEPT !.slpa = a, !.nlb = b, !.f = g]
        BY <3>1
      <4>2. a \in Nat /\ b \in Nat \ {0} /\ g \in FTLs
        BY <1>3, <3>2, ThreadFields
      <4>3. x.pc = "split" /\ x.q = q /\ x.req = r /\ x \in Thread
        BY <1>1, <1>3
      <4> HIDE DEF a, b, g, x, s
      <4>4. s = [pc |-> x.pc, q |-> x.q, todo |-> x.todo, entry |-> x.entry, f |-> g,
                 slpa |-> a, nlb |-> b, req |-> x.req, tick |-> x.tick, hack |-> x.hack]
        BY <4>1, <4>3 DEF Thread
      <4> QED
        BY <4>2, <4>3, <4>4, ThreadFields DEF Thread
    <3>4. CursorOf(s, dev'[q], q) = next
      BY <3>3 DEF CursorOf, Batch
    <3>5. Cursor(q)' = next
      BY <1>3, <3>4 DEF Cursor
    <3>6. s.q \in Nat \ {0} /\ DOf(s.q) = d /\ s.q \in Queues
      BY <1>3, <3>3, QueueNumbers
    <3>7. dev'[q].req[r].flight /\ ~ On(completed'[d], <<q, r>>)
      <4>1. dev'[q].req[r].flight
        BY <1>3, <1>9, <1>10, <1>11
      <4>2. ~ On(completed'[d], <<q, r>>)
        BY <1>1, <1>3
      <4> QED
        BY <4>1, <4>2
    <3>8. s.todo >= 1 /\ s.todo - One(s.pc = "split") <= Distance(Cursor(q)', host'[q].sqTail)
      <4>1. x.todo - One(x.pc = "split") <= Distance(Cursor(q)', host'[q].sqTail)
        BY <1>1, <1>3, <3>5
      <4> HIDE DEF s
      <4> QED
        BY <1>1, <1>3, <3>3, <4>1
    <3>9. ThreadOk(d)'
      BY <1>3, <3>3, <3>6, <3>7, <3>8 DEF ThreadOk
    <3> QED
      BY <3>3, <3>4, <3>9
  <2> QED
    BY <2>1, <2>2
<1>14. /\ inQue' \in [Dispatchers -> [FTLs -> [0 .. InSize - 1 -> Piece \cup {Empty}]]]
       /\ RoutedTo(inQue', InSize)
       /\ \A a, c : /\ Count(inQue, InSize, a, c) \in Nat /\ Count(inQue', InSize, a, c) \in Nat
                    /\ Count(inQue', InSize, a, c) = Count(inQue, InSize, a, c)
                           - One(Matches(inQue[d][f][i], a, c)) + One(Matches(p, a, c))
  <2>1. InSize \in Nat /\ p \in Piece \cup {Empty} /\ (p # Empty => DOf(p.q) = d)
    BY <1>3, <1>5, <1>7, IoSizes
  <2>2. inQue \in [Dispatchers -> [FTLs -> [0 .. InSize - 1 -> Piece \cup {Empty}]]]
    BY <1>2 DEF TypeOK
  <2>3. RoutedTo(inQue, InSize)
    BY DEF IInv, Routed
  <2>4. inQue' = [inQue EXCEPT ![d][f][i] = p] /\ f \in FTLs
    BY <1>1, <1>3
  <2>5. inQue' \in [Dispatchers -> [FTLs -> [0 .. InSize - 1 -> Piece \cup {Empty}]]]
    BY <2>1, <2>2, <2>4
  <2>6. Stored(inQue, inQue', InSize, d, f, i, p)
    BY <1>8, <2>2, <2>4 DEF Stored
  <2> HIDE DEF x, v, s, next
  <2>7. RoutedTo(inQue', InSize)
    BY <1>8, <2>1, <2>3, <2>4, <2>6, RingRouted
  <2>8. ASSUME NEW a, NEW c
        PROVE  /\ Count(inQue, InSize, a, c) \in Nat /\ Count(inQue', InSize, a, c) \in Nat
               /\ Count(inQue', InSize, a, c) = Count(inQue, InSize, a, c)
                           - One(Matches(inQue[d][f][i], a, c)) + One(Matches(p, a, c))
    BY <1>8, <2>1, <2>4, <2>6, RingChange
  <2> QED
    BY <2>5, <2>7, <2>8
<1>15. TypeOK'
  <2> HIDE DEF s
  <2>1. disp' \in [Dispatchers -> Thread] /\ dev' \in [Queues -> Device]
    BY <1>2, <1>10, <1>11, <1>13 DEF TypeOK
  <2>2. inTail' \in [Dispatchers -> [FTLs -> 0 .. InSize - 1]]
    BY <1>1, <1>2, <1>8, <1>i DEF TypeOK
  <2>3. UNCHANGED <<host, issued, sqMem, sqDb, cqDb, cqMem, irq, completed, inHead,
                    outQue, outTail, outHead, ftl, pq, hackLeft, now, work>>
    BY <1>1
  <2>4. inQue' \in [Dispatchers -> [FTLs -> [0 .. InSize - 1 -> Piece \cup {Empty}]]]
    BY <1>14
  <2> HIDE DEF x, v, next
  <2> QED
    BY <1>2, <2>1, <2>2, <2>3, <2>4 DEF TypeOK
<1>16. CompletedOk(d)'
  <2>1. ASSUME NEW a \in Queues, NEW j \in ReqIds, On(completed[d], <<a, j>>)
        PROVE  dev'[a].req[j].flight = dev[a].req[j].flight /\ dev'[a].req[j].left = dev[a].req[j].left
    <3>1. CASE a # q
      BY <1>11, <3>1
    <3>2. CASE a = q
      <4>1. ~ On(completed[d], <<q, r>>)
        BY <1>3
      <4>2. j # r
        BY <2>1, <3>2, <4>1
      <4>3. dev'[q].req[j] = dev[q].req[j]
        BY <1>9, <1>10, <1>11, <4>2
      <4> QED
        BY <3>2, <4>3
    <3> QED
      BY <3>1, <3>2
  <2> QED
    BY <1>1, <2>1, CompletedSame
<1>17. QueuesOk' /\ \A e \in Dispatchers : ThreadOk(e)' /\ CompletedOk(e)'
  <2>1. \A e \in Dispatchers : e # d => disp'[e] = disp[e] /\ completed'[e] = completed[e]
    BY <1>1, <1>11
  <2>2. \A a \in Queues : a # q => dev'[a] = dev[a] /\ cqMem'[a] = cqMem[a]
    BY <1>1, <1>11
  <2>3. (Batch(disp[d]) => disp[d].q = q) /\ (Batch(disp'[d]) => disp'[d].q = q) /\ DOf(q) = d
    BY <1>3, <1>13
  <2>4. QueueOk(host[q], sqMem[q], cqMem'[q], dev'[q], CursorOf(disp'[d], dev'[q], q))
    BY <1>1, <1>11, <1>12, <1>13
  <2>5. UNCHANGED <<host, sqMem, sqDb>>
    BY <1>1
  <2> HIDE DEF x, v, s
  <2> QED
    BY <1>13, <1>16, <2>1, <2>2, <2>3, <2>4, <2>5, OneQueue
<1>18. PiecesOk' /\ (NoOverrun /\ Exact => Exact')
  <2>1. ASSUME NEW a \in Queues, NEW c \in Cids
        PROVE  LeftOf(dev'[a], c) = LeftOf(dev[a], c) + One(Matches(p, a, c))
    <3>1. LeftOf(dev[a], c) \in Int
      BY LeftType, QueueNow
    <3>2. CASE a # q
      <4>1. ~ Matches(p, a, c)
        BY <1>5, <3>2 DEF Matches
      <4>2. dev'[a] = dev[a]
        BY <1>11, <3>2
      <4> QED
        BY <3>1, <4>1, <4>2 DEF One
    <3>3. CASE a = q /\ c = p.cid
      <4>1. Matches(p, a, c)
        BY <1>5, <3>3 DEF Matches
      <4>2. LeftOf(v, c) = v.req[r].left
        BY <1>3, <1>5, <3>3 DEF LeftOf
      <4>3. LeftOf(w, c) = v.req[r].left + 1
        <5>1. w.tag[c] = r /\ r # 0 /\ w.req[r].left = v.req[r].left + 1
          BY <1>3, <1>5, <1>9, <1>10, <3>3
        <5> HIDE DEF v
        <5> QED
          BY <5>1 DEF LeftOf
      <4> QED
        BY <1>11, <3>3, <4>1, <4>2, <4>3 DEF One
    <3>4. CASE a = q /\ c # p.cid
      <4>1. ~ Matches(p, a, c)
        BY <3>4 DEF Matches
      <4>2. v.tag[c] # r /\ v.tag[c] \in ReqIds
        BY <1>3, <1>4, <1>5, <3>4 DEF Requested
      <4>3. LeftOf(w, c) = LeftOf(v, c)
        BY <1>9, <1>10, <4>2 DEF LeftOf
      <4> QED
        BY <1>11, <3>1, <3>4, <4>1, <4>3 DEF One
    <3> QED
      BY <3>2, <3>3, <3>4
  <2>2. ASSUME NEW a \in Queues, NEW c \in Cids
        PROVE  Pieces(a, c)' <= LeftOf(dev'[a], c)
    <3>1. /\ Pieces(a, c) <= LeftOf(dev[a], c) /\ LeftOf(dev[a], c) \in Int
          /\ LeftOf(dev'[a], c) = LeftOf(dev[a], c) + One(Matches(p, a, c))
      BY <2>1, LeftType, QueueNow DEF IInv, PiecesOk
    <3>2. /\ Count(outQue, OutSize, a, c) \in Nat /\ Count(Answers(pq), 1, a, c) \in Nat
          /\ Count(inQue, InSize, a, c) \in Nat /\ Count(inQue', InSize, a, c) \in Nat
          /\ Count(inQue', InSize, a, c) = Count(inQue, InSize, a, c)
                           - One(Matches(inQue[d][f][i], a, c)) + One(Matches(p, a, c))
      BY <1>14, PiecesType
    <3>3. Pieces(a, c)' = Count(inQue', InSize, a, c) + Count(outQue, OutSize, a, c)
                            + Count(Answers(pq), 1, a, c)
      BY <1>1 DEF Pieces
    <3>4. One(Matches(inQue[d][f][i], a, c)) \in {0, 1} /\ One(Matches(p, a, c)) \in {0, 1}
      BY DEF One
    <3> QED
      BY <3>1, <3>2, <3>3, <3>4 DEF Pieces
  <2>3. ASSUME NoOverrun, Exact, NEW a \in Queues, NEW c \in Cids
        PROVE  Pieces(a, c)' = LeftOf(dev'[a], c)
    <3>1. /\ Pieces(a, c) = LeftOf(dev[a], c) /\ LeftOf(dev[a], c) \in Int
          /\ LeftOf(dev'[a], c) = LeftOf(dev[a], c) + One(Matches(p, a, c))
      BY <2>1, <2>3, LeftType, QueueNow DEF Exact
    <3>2. /\ Count(outQue, OutSize, a, c) \in Nat /\ Count(Answers(pq), 1, a, c) \in Nat
          /\ Count(inQue, InSize, a, c) \in Nat /\ Count(inQue', InSize, a, c) \in Nat
          /\ Count(inQue', InSize, a, c) = Count(inQue, InSize, a, c)
                           - One(Matches(inQue[d][f][i], a, c)) + One(Matches(p, a, c))
      BY <1>14, PiecesType
    <3>3. Pieces(a, c)' = Count(inQue', InSize, a, c) + Count(outQue, OutSize, a, c)
                            + Count(Answers(pq), 1, a, c)
      BY <1>1 DEF Pieces
    <3>4. One(Matches(inQue[d][f][i], a, c)) = 0 /\ One(Matches(p, a, c)) \in {0, 1}
      <4>1. inQue[d][f][i] = Empty
        BY <1>1, <1>f, <1>i, <2>3 DEF NoOverrun, At
      <4>2. a # 0
        BY QueueNumbers
      <4>3. ~ Matches(inQue[d][f][i], a, c)
        BY <4>1, <4>2 DEF Matches, Empty
      <4> QED
        BY <4>3 DEF One
    <3> QED
      BY <3>1, <3>2, <3>3, <3>4 DEF Pieces
  <2> QED
    BY <2>2, <2>3 DEF PiecesOk, Exact
<1>19. Routed' /\ \A e \in FTLs : FtlOk(e)'
  BY <1>1, <1>14 DEF IInv, Routed, FtlOk
<1> QED
  BY <1>15, <1>17, <1>18, <1>19 DEF IInv

\* The dispatcher looks at a completion queue.
LEMMA ProcCqKeeps ==
  ASSUME IInv, NEW d \in Dispatchers, ProcCq(d)
  PROVE  IInv'
<1> DEFINE x == disp[d]
           s == disp'[d]
<1>q. PICK q : q = disp[d].q
  OBVIOUS
<1> DEFINE v == dev[q]
           n == v.inFlight - Distance(v.oldCq, cqDb[q])
           w == [v EXCEPT !.inFlight = n, !.oldCq = cqDb[q]]
<1>1. /\ x.pc = "cq"
      /\ dev' = [dev EXCEPT ![q].inFlight = @ - Distance(dev[q].oldCq, cqDb[q]),
                            ![q].oldCq = cqDb[q]]
      /\ disp' = [disp EXCEPT ![d] = NextQueue(d, "cq", "deq")]
      /\ UNCHANGED <<host, issued, sqMem, sqDb, cqDb, cqMem, irq, completed, inQue, inTail,
                     inHead, outQue, outTail, outHead, ftl, pq, hackLeft, now, work>>
  BY <1>q DEF ProcCq, At, hostVars, ringIn, ringOut
<1>2. TypeOK
  BY DEF IInv
<1>3. /\ q = x.q /\ x \in Thread /\ ThreadOk(d) /\ CompletedOk(d) /\ q \in Queues /\ DOf(q) = d
      /\ ~ Batch(x)
  BY <1>q, <1>1, ThreadNow DEF ThreadOk, Batch
<1>4. /\ host[q] \in Driver /\ v \in Device /\ cqDb[q] \in Entries
      /\ QueueOk(host[q], sqMem[q], cqMem[q], v, Cursor(q)) /\ Cursor(q) = v.oldSq
      /\ v.oldCq \in Entries /\ v.inFlight \in Int
  BY <1>3, QueueNow, RecordFacts DEF Cursor, CursorOf
<1>5. n \in Int
  <2>1. Distance(v.oldCq, cqDb[q]) \in Entries
    BY <1>4, DistanceFacts
  <2>2. Distance(v.oldCq, cqDb[q]) \in Int
    BY <2>1, IoSizes DEF Entries
  <2> QED
    BY <1>4, <2>2
<1>6. /\ dev' = [dev EXCEPT ![q] = w] /\ dev'[q] = w
      /\ \A p \in Queues : p # q => dev'[p] = dev[p]
      /\ disp' = [disp EXCEPT ![d] = s] /\ s = NextQueue(d, "cq", "deq")
      /\ \A e \in Dispatchers : e # d => disp'[e] = disp[e]
  <2>1. dev' = [dev EXCEPT ![q] = w]
    BY <1>1
  <2> HIDE DEF w
  <2> QED
    BY <1>1, <1>2, <1>3, <2>1 DEF TypeOK
<1>7. /\ w \in Device /\ w.head = v.head /\ w.phase = v.phase /\ w.tag = v.tag
      /\ w.free = v.free /\ w.req = v.req /\ w.oldSq = v.oldSq
  <2> HIDE DEF v, n
  <2> QED
    BY <1>4, <1>5 DEF Device
<1> HIDE DEF w
<1>8. QueueOk(host[q], sqMem[q], cqMem[q], w, v.oldSq)
  <2>1. \A c \in Cids : v.tag[c] \in ReqIds
    BY <1>4, RecordFacts
  <2>2. QueueOk(host[q], sqMem[q], cqMem[q], v, v.oldSq)
    BY <1>4
  <2> HIDE DEF v
  <2> QED
    BY <1>7, <2>1, <2>2, QueueSame
<1>9. s \in Thread /\ ThreadOk(d)' /\ ~ Batch(s)
  <2>1. /\ s \in Thread
        /\ \/ s.pc = "cq" /\ s.q = x.q + NrDispatcher /\ s.q <= NrQueues
           \/ s.pc = "deq" /\ s.q = d + 1
    BY <1>3, <1>6, ThreadNext DEF Pcs
  <2>2. /\ d + 1 \in Queues
        /\ q + NrDispatcher <= NrQueues => q + NrDispatcher \in Queues
        /\ DOf(q + NrDispatcher) = d /\ DOf(d + 1) = d
    BY <1>3, NextOwn
  <2>3. s.q \in Queues /\ DOf(s.q) = d /\ s.pc \in {"cq", "deq"}
    <3> HIDE DEF s
    <3> QED
      BY <1>3, <2>1, <2>2
  <2>4. s.q \in Nat \ {0}
    BY <2>3, QueueNumbers
  <2> QED
    BY <2>1, <2>3, <2>4, Idle
<1>10. TypeOK'
  <2> HIDE DEF s
  <2>1. disp' \in [Dispatchers -> Thread] /\ dev' \in [Queues -> Device]
    BY <1>2, <1>6, <1>7, <1>9 DEF TypeOK
  <2> QED
    BY <1>1, <1>2, <2>1 DEF TypeOK
<1>11. CompletedOk(d)'
  <2>1. \A p \in Queues : dev'[p].req = dev[p].req
    BY <1>6, <1>7
  <2> QED
    BY <1>1, <2>1, CompletedSame
<1>12. QueuesOk' /\ \A e \in Dispatchers : ThreadOk(e)' /\ CompletedOk(e)'
  <2>1. \A e \in Dispatchers : e # d => disp'[e] = disp[e] /\ completed'[e] = completed[e]
    BY <1>1, <1>6
  <2>2. \A p \in Queues : p # q => dev'[p] = dev[p] /\ cqMem'[p] = cqMem[p]
    BY <1>1, <1>6
  <2>3. (Batch(disp[d]) => disp[d].q = q) /\ (Batch(disp'[d]) => disp'[d].q = q) /\ DOf(q) = d
    BY <1>3, <1>9
  <2>4. QueueOk(host[q], sqMem[q], cqMem'[q], dev'[q], CursorOf(disp'[d], dev'[q], q))
    BY <1>1, <1>6, <1>7, <1>8, <1>9 DEF CursorOf
  <2>5. UNCHANGED <<host, sqMem, sqDb>>
    BY <1>1
  <2> HIDE DEF x, v, s
  <2> QED
    BY <1>9, <1>11, <2>1, <2>2, <2>3, <2>4, <2>5, OneQueue
<1>13. Routed' /\ PiecesOk' /\ \A f \in FTLs : FtlOk(f)'
  <2>1. \A p \in Queues : \A k \in Cids : LeftOf(dev'[p], k) = LeftOf(dev[p], k)
    BY <1>6, <1>7 DEF LeftOf
  <2> QED
    BY <1>1, <2>1 DEF IInv, Routed, PiecesOk, Pieces, FtlOk
<1> QED
  BY <1>10, <1>12, <1>13 DEF IInv

\* The dispatcher has read the clock.
LEMMA AnswersDone ==
  ASSUME IInv, NEW d \in Dispatchers, NEW list, completed'[d] = list, NEW t \in Time,
         disp'[d] = AfterAnswers(d, list, t)
  PROVE  disp'[d] \in Thread /\ ThreadOk(d)' /\ ~ Batch(disp'[d])
<1> DEFINE s == disp'[d]
<1>1. disp[d] \in Thread /\ disp[d].q \in Nat \ {0} /\ DOf(disp[d].q) = d
  BY ThreadNow DEF ThreadOk
<1>2. /\ s \in Thread /\ s.q = disp[d].q /\ s.pc \in {"fill", "deq", "irq"}
      /\ s.pc = "fill" <=> IsDue(list, t)
  BY <1>1, ThreadAnswers
<1>3. s.pc = "fill" => completed'[d] # <<>>
  BY <1>2 DEF IsDue
<1> QED
  BY <1>1, <1>2, <1>3, Idle

\* The dispatcher finds no answer and reads the clock.
LEMMA NoAnswerKeeps ==
  ASSUME IInv, NEW d \in Dispatchers, Dequeue(d),
         outQue[d][disp[d].f][outHead[d][disp[d].f]] = Empty
  PROVE  IInv'
<1> DEFINE s == disp'[d]
<1>1. /\ disp[d].pc = "deq"
      /\ disp' = [disp EXCEPT ![d] = AfterAnswers(d, completed[d], now)]
      /\ UNCHANGED <<host, issued, sqMem, sqDb, cqDb, cqMem, irq, dev, completed, inQue, inTail,
                     inHead, outQue, outTail, outHead, ftl, pq, hackLeft, now, work>>
  BY DEF Dequeue, At, hostVars, ringIn
<1>2. TypeOK /\ now \in Time
  BY DEF IInv, TypeOK
<1>3. /\ disp' = [disp EXCEPT ![d] = s] /\ s = AfterAnswers(d, completed[d], now)
      /\ \A e \in Dispatchers : e # d => disp'[e] = disp[e]
  BY <1>1, <1>2 DEF TypeOK
<1>4. s \in Thread /\ ThreadOk(d)' /\ ~ Batch(s)
  <2>1. completed'[d] = completed[d]
    BY <1>1
  <2> QED
    BY <1>2, <1>3, <2>1, AnswersDone
<1>5. TypeOK'
  <2> HIDE DEF s
  <2>1. disp' \in [Dispatchers -> Thread]
    BY <1>2, <1>3, <1>4 DEF TypeOK
  <2> QED
    BY <1>1, <1>2, <2>1 DEF TypeOK
<1>6. CompletedOk(d)'
  BY <1>1 DEF IInv, CompletedOk
<1>7. ~ Batch(disp[d])
  BY <1>1 DEF Batch
<1>8. QueuesOk' /\ \A e \in Dispatchers : ThreadOk(e)' /\ CompletedOk(e)'
  <2>1. 0 \notin Queues
    BY QueueNumbers
  <2>2. \A e \in Dispatchers : e # d => disp'[e] = disp[e] /\ completed'[e] = completed[e]
    BY <1>1, <1>3
  <2>3. \A p \in Queues : Cursor(p)' = Cursor(p)
    <3>1. ASSUME NEW p \in Queues
          PROVE  CursorOf(disp'[DOf(p)], dev[p], p) = CursorOf(disp[DOf(p)], dev[p], p)
      BY <1>4, <1>7, <2>2, QueueNumbers DEF CursorOf
    <3> QED
      BY <1>1, <3>1 DEF Cursor
  <2>4. QueuesOk'
    BY <1>1, <2>3 DEF IInv, QueuesOk
  <2>5. ASSUME NEW e \in Dispatchers, e # d PROVE ThreadOk(e)' /\ CompletedOk(e)'
    BY <1>1, <2>2, <2>3, <2>5 DEF IInv, ThreadOk, CompletedOk, Batch
  <2> QED
    BY <1>4, <1>6, <2>4, <2>5
<1>9. Routed' /\ PiecesOk' /\ \A f \in FTLs : FtlOk(f)'
  BY <1>1 DEF IInv, Routed, PiecesOk, Pieces, LeftOf, FtlOk
<1> QED
  BY <1>5, <1>8, <1>9 DEF IInv

\* The dispatcher takes an answer.
LEMMA AnswerKeeps ==
  ASSUME IInv, NEW d \in Dispatchers, Dequeue(d),
         outQue[d][disp[d].f][outHead[d][disp[d].f]] # Empty
  PROVE  IInv' /\ (Exact => Exact')
<1>f. PICK f : f = disp[d].f
  OBVIOUS
<1>i. PICK i : i = outHead[d][f]
  OBVIOUS
<1>a. PICK ans : ans = outQue[d][f][i]
  OBVIOUS
<1>q. PICK q : q = ans.q
  OBVIOUS
<1>c. PICK c : c = ans.cid
  OBVIOUS
<1>r. PICK r : r = dev[q].tag[c]
  OBVIOUS
<1> DEFINE v  == dev[q]
           rq == Answered(v.req[r], ans)
           w  == [v EXCEPT !.req[r] = rq]
<1>1. /\ disp[d].pc = "deq" /\ ans # Empty
      /\ dev' = [dev EXCEPT ![q].req[r] = rq]
      /\ completed' = IF rq.left # 0 THEN completed
                      ELSE [completed EXCEPT ![d] = PushCompleted(@, <<q, r>>, rq.end)]
      /\ outQue' = [outQue EXCEPT ![d][f][i] = Empty]
      /\ outHead' = [outHead EXCEPT ![d][f] = Succ(@, OutSize)]
      /\ UNCHANGED <<host, issued, sqMem, sqDb, cqDb, cqMem, irq, disp, inQue, inTail,
                     inHead, outTail, ftl, pq, hackLeft, now, work>>
  BY <1>f, <1>i, <1>a, <1>q, <1>c, <1>r DEF Dequeue, At, hostVars, ringIn
<1>2. TypeOK
  BY DEF IInv
<1>3. /\ disp[d] \in Thread /\ ThreadOk(d) /\ CompletedOk(d) /\ f \in FTLs
      /\ completed[d] \in Seq(Queues \X ReqIds) /\ ~ Batch(disp[d])
      /\ i \in 0 .. OutSize - 1 /\ Succ(i, OutSize) \in 0 .. OutSize - 1
      /\ ans \in Answer
  <2>1. disp[d] \in Thread /\ ThreadOk(d) /\ CompletedOk(d) /\ f \in FTLs
        /\ completed[d] \in Seq(Queues \X ReqIds) /\ ~ Batch(disp[d])
    BY <1>f, <1>1, ThreadNow, ThreadFields DEF Batch
  <2>2. i \in 0 .. OutSize - 1
    BY <1>i, <2>1, ThreadNow
  <2>3. Succ(i, OutSize) \in 0 .. OutSize - 1
    BY <2>2, IoSizes DEF Succ
  <2>4. ans \in Answer \cup {Empty}
    BY <1>a, <2>1, <2>2, ThreadNow
  <2> QED
    BY <1>1, <2>1, <2>2, <2>3, <2>4
<1>4. /\ q \in Queues /\ c \in Cids /\ ans.q = q /\ ans.cid = c /\ Matches(outQue[d][f][i], q, c)
  BY <1>a, <1>q, <1>c, <1>3 DEF Answer, Matches
<1>5. DOf(q) = d
  BY <1>a, <1>1, <1>3, <1>4 DEF IInv, Routed, RoutedTo
<1>6. /\ v \in Device /\ v.req \in [ReqIds -> Request] /\ v.tag \in [Cids -> ReqIds]
      /\ r \in ReqIds /\ v.req[r] \in Request /\ v.req[r].left \in Int /\ Requested(v)
      /\ QueueOk(host[q], sqMem[q], cqMem[q], v, Cursor(q)) /\ Cursor(q) = v.oldSq
  <2>1. /\ v \in Device /\ QueueOk(host[q], sqMem[q], cqMem[q], v, Cursor(q))
    BY <1>4, QueueNow
  <2>2. r \in ReqIds
    BY <1>r, <1>4, <2>1, RecordFacts
  <2>3. Cursor(q) = v.oldSq
    BY <1>3, <1>5 DEF Cursor, CursorOf
  <2> QED
    BY <2>1, <2>2, <2>3, RecordFacts DEF QueueOk
<1>7. /\ r # 0 /\ v.req[r].left >= 1
  <2>1. Count(outQue, OutSize, q, c) >= 1
    BY <1>3, <1>4, CountedHeld, IoSizes
  <2>2. Pieces(q, c) >= 1
    BY <2>1, PiecesType DEF Pieces
  <2>3. Pieces(q, c) <= LeftOf(v, c) /\ LeftOf(v, c) \in Int
    BY <1>4, <1>6, LeftType DEF IInv, PiecesOk
  <2>4. LeftOf(v, c) >= 1
    BY <2>2, <2>3, PiecesType
  <2>5. LeftOf(v, c) = IF r = 0 THEN 0 ELSE v.req[r].left
    BY <1>r DEF LeftOf
  <2> HIDE DEF v
  <2> QED
    BY <2>4, <2>5
<1>8. /\ v.req[r].flight /\ v.req[r].cid = c /\ r \in 1 .. QSize
      /\ ~ On(completed[d], <<q, r>>)
  <2>1. v.req[r].flight /\ v.req[r].cid = c
    BY <1>r, <1>4, <1>6, <1>7 DEF Requested
  <2>2. ~ On(completed[d], <<q, r>>)
    BY <1>3, <1>7 DEF CompletedOk
  <2> QED
    BY <1>6, <1>7, <2>1, <2>2, IoSizes DEF ReqIds
<1>9. /\ rq \in Request /\ rq.left = v.req[r].left - 1
      /\ rq.flight = v.req[r].flight /\ rq.cid = v.req[r].cid
  <2>1. rq \in Request
    BY <1>3, <1>6, DeviceTypes
  <2>2. rq = [v.req[r] EXCEPT !.left = @ - 1, !.end = MaxOf(@, ans.nsecs),
                              !.cid = IF v.req[r].left = 1 THEN c ELSE @]
    BY <1>4 DEF Answered
  <2>3. PICK y : y = v.req[r]
    OBVIOUS
  <2>4. /\ y \in Request /\ y.cid = c
        /\ rq = [y EXCEPT !.left = @ - 1, !.end = MaxOf(@, ans.nsecs),
                          !.cid = IF y.left = 1 THEN c ELSE @]
    BY <1>6, <1>8, <2>2, <2>3
  <2> HIDE DEF rq, v
  <2>5. rq.left = y.left - 1 /\ rq.flight = y.flight /\ rq.cid = y.cid
    BY <2>4 DEF Request
  <2> QED
    BY <2>1, <2>3, <2>5
<1> HIDE DEF rq
<1>10. /\ w \in Device /\ w.head = v.head /\ w.phase = v.phase /\ w.tag = v.tag
       /\ w.free = v.free /\ w.oldSq = v.oldSq /\ w.req[r] = rq
       /\ \A j \in ReqIds : j # r => w.req[j] = v.req[j]
  <2>1. w \in Device
    BY <1>6, <1>9, DeviceTypes
  <2> HIDE DEF v
  <2> QED
    BY <1>6, <2>1 DEF Device
<1>11. /\ dev' = [dev EXCEPT ![q] = w] /\ dev'[q] = w
       /\ \A p \in Queues : p # q => dev'[p] = dev[p]
  <2>1. dev' = [dev EXCEPT ![q] = w]
    BY <1>1
  <2> HIDE DEF w
  <2> QED
    BY <1>2, <1>4, <2>1 DEF TypeOK
<1> HIDE DEF w
<1>12. QueueOk(host[q], sqMem[q], cqMem[q], w, v.oldSq)
  <2>1. \A j \in ReqIds : /\ w.req[j].flight = v.req[j].flight /\ w.req[j].cid = v.req[j].cid
                          /\ ~ v.req[j].flight => w.req[j].left = v.req[j].left
    BY <1>8, <1>9, <1>10
  <2>2. \A k \in Cids : v.tag[k] \in ReqIds
    BY <1>6
  <2>3. QueueOk(host[q], sqMem[q], cqMem[q], v, v.oldSq)
    BY <1>6
  <2> HIDE DEF v
  <2> QED
    BY <1>10, <2>1, <2>2, <2>3, QueueSame
<1>13. /\ completed' = [completed EXCEPT ![d] = completed'[d]]
       /\ completed'[d] \in Seq(Queues \X ReqIds) /\ Once(completed'[d])
       /\ \A x : On(completed'[d], x) => On(completed[d], x) \/ (rq.left = 0 /\ x = <<q, r>>)
       /\ \A e \in Dispatchers : e # d => completed'[e] = completed[e]
  <2>1. completed \in [Dispatchers -> Seq(Queues \X ReqIds)] /\ Once(completed[d])
    BY <1>2, <1>3 DEF TypeOK, CompletedOk
  <2>2. CASE rq.left # 0
    BY <1>1, <1>3, <2>1, <2>2
  <2>3. CASE rq.left = 0
    <3> DEFINE new == PushCompleted(completed[d], <<q, r>>, rq.end)
    <3>1. <<q, r>> \in Queues \X ReqIds
      BY <1>4, <1>6
    <3>2. /\ new \in Seq(Queues \X ReqIds)
          /\ \A e : On(new, e) <=> On(completed[d], e) \/ e = <<q, r>>
          /\ Once(completed[d]) /\ ~ On(completed[d], <<q, r>>) => Once(new)
      BY <1>3, <3>1, PushedOnce
    <3>3. completed' = [completed EXCEPT ![d] = new]
      BY <1>1, <2>3
    <3> HIDE DEF new
    <3> QED
      BY <1>8, <2>1, <2>3, <3>2, <3>3
  <2> QED
    BY <2>2, <2>3
<1>14. CompletedOk(d)'
  <2>1. ASSUME NEW x, On(completed'[d], x)
        PROVE  /\ DOf(x[1]) = d /\ x[2] # 0
               /\ dev'[x[1]].req[x[2]].flight /\ dev'[x[1]].req[x[2]].left = 0
    <3>1. CASE On(completed[d], x)
      <4>1. x \in Queues \X ReqIds
        BY <1>3, <3>1, LenProperties, ElementOfSeq DEF On
      <4>2. x[1] \in Queues /\ x[2] \in ReqIds /\ x = <<x[1], x[2]>>
        BY <4>1
      <4>3. DOf(x[1]) = d /\ x[2] # 0 /\ dev[x[1]].req[x[2]].flight /\ dev[x[1]].req[x[2]].left = 0
        BY <1>3, <3>1 DEF CompletedOk
      <4>4. dev'[x[1]].req[x[2]] = dev[x[1]].req[x[2]]
        <5>1. CASE x[1] # q
          BY <1>11, <4>2, <5>1
        <5>2. CASE x[1] = q
          <6>1. x[2] # r
            BY <1>8, <3>1, <4>2, <5>2
          <6> QED
            BY <1>10, <1>11, <4>2, <5>2, <6>1
        <5> QED
          BY <5>1, <5>2
      <4> QED
        BY <4>3, <4>4
    <3>2. CASE rq.left = 0 /\ x = <<q, r>>
      <4>1. x[1] = q /\ x[2] = r
        BY <3>2
      <4> QED
        BY <1>5, <1>7, <1>8, <1>9, <1>10, <1>11, <3>2, <4>1
    <3> QED
      BY <1>13, <2>1, <3>1, <3>2
  <2> QED
    BY <1>13, <2>1 DEF CompletedOk
<1>15. ThreadOk(d)' /\ ~ Batch(disp'[d])
  <2>1. disp'[d] = disp[d]
    BY <1>1
  <2>2. disp'[d].pc = "deq" /\ disp'[d].q \in Nat \ {0} /\ DOf(disp'[d].q) = d
    BY <1>1, <1>3, <2>1 DEF ThreadOk
  <2> QED
    BY <2>2, Idle
<1>16. /\ outQue' \in [Dispatchers -> [FTLs -> [0 .. OutSize - 1 -> Answer \cup {Empty}]]]
       /\ RoutedTo(outQue', OutSize)
       /\ \A a, k : /\ Count(outQue, OutSize, a, k) \in Nat /\ Count(outQue', OutSize, a, k) \in Nat
                    /\ Count(outQue', OutSize, a, k) = Count(outQue, OutSize, a, k)
                           - One(Matches(ans, a, k)) + One(Matches(Empty, a, k))
  <2>1. OutSize \in Nat
    BY IoSizes
  <2>2. outQue \in [Dispatchers -> [FTLs -> [0 .. OutSize - 1 -> Answer \cup {Empty}]]]
    BY <1>2 DEF TypeOK
  <2>3. RoutedTo(outQue, OutSize)
    BY DEF IInv, Routed
  <2>4. outQue' = [outQue EXCEPT ![d][f][i] = Empty] /\ f \in FTLs
    BY <1>1, <1>3
  <2>5. outQue' \in [Dispatchers -> [FTLs -> [0 .. OutSize - 1 -> Answer \cup {Empty}]]]
    BY <2>1, <2>2, <2>4
  <2>6. Stored(outQue, outQue', OutSize, d, f, i, Empty)
    BY <1>3, <2>2, <2>4 DEF Stored
  <2> HIDE DEF v
  <2>7. RoutedTo(outQue', OutSize)
    BY <1>3, <2>1, <2>3, <2>4, <2>6, RingRouted
  <2>8. ASSUME NEW a, NEW k
        PROVE  /\ Count(outQue, OutSize, a, k) \in Nat /\ Count(outQue', OutSize, a, k) \in Nat
               /\ Count(outQue', OutSize, a, k) = Count(outQue, OutSize, a, k)
                           - One(Matches(outQue[d][f][i], a, k)) + One(Matches(Empty, a, k))
    BY <1>3, <2>1, <2>4, <2>6, RingChange
  <2> QED
    BY <1>a, <2>5, <2>7, <2>8
<1>17. TypeOK'
  <2>1. dev' \in [Queues -> Device] /\ completed' \in [Dispatchers -> Seq(Queues \X ReqIds)]
    BY <1>2, <1>10, <1>11, <1>13 DEF TypeOK
  <2>2. outHead' \in [Dispatchers -> [FTLs -> 0 .. OutSize - 1]]
    BY <1>1, <1>2, <1>3, <1>i DEF TypeOK
  <2>3. UNCHANGED <<host, issued, sqMem, sqDb, cqDb, cqMem, irq, disp, inQue, inTail,
                     inHead, outTail, ftl, pq, hackLeft, now, work>>
    BY <1>1
  <2> HIDE DEF v
  <2> QED
    BY <1>2, <1>16, <2>1, <2>2, <2>3 DEF TypeOK
<1>18. QueuesOk' /\ \A e \in Dispatchers : ThreadOk(e)' /\ CompletedOk(e)'
  <2>1. \A e \in Dispatchers : e # d => disp'[e] = disp[e] /\ completed'[e] = completed[e]
    BY <1>1, <1>13
  <2>2. \A p \in Queues : p # q => dev'[p] = dev[p] /\ cqMem'[p] = cqMem[p]
    BY <1>1, <1>11
  <2>3. (Batch(disp[d]) => disp[d].q = q) /\ (Batch(disp'[d]) => disp'[d].q = q) /\ DOf(q) = d
    BY <1>3, <1>5, <1>15
  <2>4. QueueOk(host[q], sqMem[q], cqMem'[q], dev'[q], CursorOf(disp'[d], dev'[q], q))
    BY <1>1, <1>10, <1>11, <1>12, <1>15 DEF CursorOf
  <2>5. UNCHANGED <<host, sqMem, sqDb>>
    BY <1>1
  <2> HIDE DEF v
  <2> QED
    BY <1>14, <1>15, <2>1, <2>2, <2>3, <2>4, <2>5, OneQueue
<1>19. PiecesOk' /\ (Exact => Exact')
  <2>1. ASSUME NEW a \in Queues, NEW k \in Cids
        PROVE  LeftOf(dev'[a], k) = LeftOf(dev[a], k) - One(Matches(ans, a, k))
    <3>1. LeftOf(dev[a], k) \in Int
      BY LeftType, QueueNow
    <3>2. CASE a # q
      <4>1. ~ Matches(ans, a, k)
        BY <1>4, <3>2 DEF Matches
      <4>2. dev'[a] = dev[a]
        BY <1>11, <3>2
      <4> QED
        BY <3>1, <4>1, <4>2 DEF One
    <3>3. CASE a = q /\ k = c
      <4>1. Matches(ans, a, k)
        BY <1>4, <3>3 DEF Matches
      <4>2. LeftOf(v, k) = v.req[r].left
        BY <1>r, <1>7, <3>3 DEF LeftOf
      <4>3. LeftOf(w, k) = v.req[r].left - 1
        <5>1. w.tag[k] = r /\ r # 0 /\ w.req[r].left = v.req[r].left - 1
          BY <1>r, <1>7, <1>9, <1>10, <3>3
        <5> HIDE DEF v
        <5> QED
          BY <5>1 DEF LeftOf
      <4> QED
        BY <1>11, <3>3, <4>1, <4>2, <4>3 DEF One
    <3>4. CASE a = q /\ k # c
      <4>1. ~ Matches(ans, a, k)
        BY <1>4, <3>4 DEF Matches
      <4>2. v.tag[k] # r /\ v.tag[k] \in ReqIds
        BY <1>6, <1>7, <1>8, <3>4 DEF Requested
      <4>3. LeftOf(w, k) = LeftOf(v, k)
        BY <1>10, <4>2 DEF LeftOf
      <4> QED
        BY <1>11, <3>1, <3>4, <4>1, <4>3 DEF One
    <3> QED
      BY <3>2, <3>3, <3>4
  <2>2. ASSUME NEW a \in Queues, NEW k \in Cids
        PROVE  /\ Pieces(a, k)' <= LeftOf(dev'[a], k)
               /\ Exact => Pieces(a, k)' = LeftOf(dev'[a], k)
    <3>1. /\ Pieces(a, k) <= LeftOf(dev[a], k) /\ LeftOf(dev[a], k) \in Int
          /\ Exact => Pieces(a, k) = LeftOf(dev[a], k)
          /\ LeftOf(dev'[a], k) = LeftOf(dev[a], k) - One(Matches(ans, a, k))
      BY <2>1, LeftType, QueueNow DEF IInv, PiecesOk, Exact
    <3>2. /\ Count(inQue, InSize, a, k) \in Nat /\ Count(Answers(pq), 1, a, k) \in Nat
          /\ Count(outQue, OutSize, a, k) \in Nat /\ Count(outQue', OutSize, a, k) \in Nat
          /\ Count(outQue', OutSize, a, k) = Count(outQue, OutSize, a, k)
                           - One(Matches(ans, a, k)) + One(Matches(Empty, a, k))
      BY <1>16, PiecesType
    <3>3. Pieces(a, k)' = Count(inQue, InSize, a, k) + Count(outQue', OutSize, a, k)
                            + Count(Answers(pq), 1, a, k)
      BY <1>1 DEF Pieces
    <3>4. One(Matches(ans, a, k)) \in {0, 1} /\ One(Matches(Empty, a, k)) = 0
      <4>1. a # 0
        BY QueueNumbers
      <4>2. ~ Matches(Empty, a, k)
        BY <4>1 DEF Matches, Empty
      <4> QED
        BY <4>2 DEF One
    <3> QED
      BY <3>1, <3>2, <3>3, <3>4 DEF Pieces
  <2> QED
    BY <2>2 DEF PiecesOk, Exact
<1>20. Routed' /\ \A e \in FTLs : FtlOk(e)'
  BY <1>1, <1>16 DEF IInv, Routed, FtlOk
<1> QED
  BY <1>17, <1>18, <1>19, <1>20 DEF IInv

\* The dispatcher completes a finished request that is due.
LEMMA FillCqKeeps ==
  ASSUME IInv, NEW d \in Dispatchers, FillCq(d)
  PROVE  IInv' /\ (Exact => Exact')
<1> DEFINE s == disp'[d]
<1>q. PICK q : q = Head(completed[d])[1]
  OBVIOUS
<1>r. PICK r : r = Head(completed[d])[2]
  OBVIOUS
<1>c. PICK c : c = dev[q].req[r].cid
  OBVIOUS
<1> DEFINE v == dev[q]
           w == Freed(Posted(v), r, c)
<1>1. /\ disp[d].pc = "fill" /\ Post(q, c)
      /\ dev' = [dev EXCEPT ![q] = Freed(Posted(@), r, c)]
      /\ completed' = [completed EXCEPT ![d] = Tail(@)]
      /\ disp' = [disp EXCEPT ![d] = AfterAnswers(d, Tail(completed[d]), disp[d].tick)]
      /\ UNCHANGED <<host, issued, sqMem, sqDb, cqDb, irq, inQue, inTail,
                     inHead, outQue, outTail, outHead, ftl, pq, hackLeft, now, work>>
  BY <1>q, <1>r, <1>c DEF FillCq, At, hostVars, ringIn, ringOut
<1>2. TypeOK
  BY DEF IInv
<1>3. /\ disp[d] \in Thread /\ disp[d].tick \in Time /\ ThreadOk(d) /\ CompletedOk(d)
      /\ completed[d] \in Seq(Queues \X ReqIds) /\ completed[d] # <<>> /\ ~ Batch(disp[d])
  BY <1>1, ThreadNow, ThreadFields DEF ThreadOk, Batch
<1>4. /\ q \in Queues /\ r \in ReqIds /\ Head(completed[d]) = <<q, r>>
      /\ On(completed[d], <<q, r>>)
      /\ Tail(completed[d]) \in Seq(Queues \X ReqIds) /\ Once(Tail(completed[d]))
      /\ \A x : On(Tail(completed[d]), x) <=> On(completed[d], x) /\ x # <<q, r>>
  <2>1. /\ Head(completed[d]) \in Queues \X ReqIds /\ On(completed[d], Head(completed[d]))
        /\ Tail(completed[d]) \in Seq(Queues \X ReqIds) /\ Once(Tail(completed[d]))
        /\ \A x : On(Tail(completed[d]), x) <=> On(completed[d], x) /\ x # Head(completed[d])
    BY <1>3, TailOnce DEF CompletedOk
  <2>2. PICK h : h = Head(completed[d])
    OBVIOUS
  <2>3. h \in Queues \X ReqIds /\ q = h[1] /\ r = h[2]
    BY <1>q, <1>r, <2>1, <2>2
  <2>4. q \in Queues /\ r \in ReqIds /\ h = <<q, r>>
    BY <2>3
  <2> QED
    BY <2>1, <2>2, <2>4
<1>5. /\ DOf(q) = d /\ r # 0 /\ v.req[r].flight /\ v.req[r].left = 0 /\ r \in 1 .. QSize
  <2>1. DOf(q) = d /\ r # 0 /\ v.req[r].flight /\ v.req[r].left = 0
    <3>1. DOf(<<q, r>>[1]) = d /\ <<q, r>>[2] # 0
          /\ dev[<<q, r>>[1]].req[<<q, r>>[2]].flight /\ dev[<<q, r>>[1]].req[<<q, r>>[2]].left = 0
      BY <1>3, <1>4 DEF CompletedOk
    <3> QED
      BY <3>1
  <2> QED
    BY <1>4, <2>1, IoSizes DEF ReqIds
<1>6. /\ v \in Device /\ host[q] \in Driver /\ v.oldSq \in Entries
      /\ v.tag \in [Cids -> ReqIds] /\ v.req \in [ReqIds -> Request] /\ Requested(v)
      /\ QueueOk(host[q], sqMem[q], cqMem[q], v, v.oldSq)
  <2>1. Cursor(q) = v.oldSq
    BY <1>3, <1>5 DEF Cursor, CursorOf
  <2> QED
    BY <1>4, <2>1, QueueNow, RecordFacts DEF QueueOk
<1>7. /\ Written(cqMem'[q], cqMem[q], v, c)
      /\ \A p \in Queues : p # q => cqMem'[p] = cqMem[p]
      /\ c \in Cids =>
           cqMem' \in [Queues -> [Entries -> [cid : Cids \cup {0}, phase : {0, 1}]]]
  BY <1>1, <1>4, PostFacts
<1>8. c \in Cids /\ v.tag[c] = r /\ QueueOk(host[q], sqMem[q], cqMem'[q], w, v.oldSq)
  <2>1. PICK cur \in Entries : cur = v.oldSq
    BY <1>6
  <2>2. w = Freed(Posted(v), r, c) /\ QueueOk(host[q], sqMem[q], cqMem[q], v, cur)
    BY <1>6, <2>1
  <2>3. PICK m : m = cqMem'[q]
    OBVIOUS
  <2>4. v \in Device /\ host[q] \in Driver /\ Finished(v, r, c) /\ Written(m, cqMem[q], v, c)
    BY <1>c, <1>4, <1>5, <1>6, <1>7, <2>3 DEF Finished
  <2> HIDE DEF v, w
  <2>5. c \in Cids /\ v.tag[c] = r /\ QueueOk(host[q], sqMem[q], m, Freed(Posted(v), r, c), cur)
    BY <2>1, <2>2, <2>4, QueueFill
  <2> QED
    BY <2>1, <2>2, <2>3, <2>5
<1>9. /\ dev' = [dev EXCEPT ![q] = w] /\ dev'[q] = w
      /\ \A p \in Queues : p # q => dev'[p] = dev[p]
      /\ disp' = [disp EXCEPT ![d] = s]
      /\ s = AfterAnswers(d, Tail(completed[d]), disp[d].tick)
      /\ \A e \in Dispatchers : e # d => disp'[e] = disp[e]
      /\ completed'[d] = Tail(completed[d])
      /\ \A e \in Dispatchers : e # d => completed'[e] = completed[e]
  <2>1. dev' = [dev EXCEPT ![q] = w]
    BY <1>1
  <2> HIDE DEF w
  <2> QED
    BY <1>1, <1>2, <1>4, <2>1 DEF TypeOK
<1>10. /\ w \in Device /\ w.oldSq = v.oldSq
       /\ w.tag = [v.tag EXCEPT ![c] = 0] /\ w.req = [v.req EXCEPT ![r].flight = FALSE]
  <2>1. Posted(v) \in Device
    BY <1>6, DeviceTypes
  <2>2. w \in Device
    BY <1>4, <1>8, <2>1, DeviceTypes
  <2>3. Posted(v).oldSq = v.oldSq /\ Posted(v).tag = v.tag /\ Posted(v).req = v.req
    BY <1>6 DEF Posted, Device
  <2>4. PICK u : u = Posted(v)
    OBVIOUS
  <2>5. u \in Device /\ u.oldSq = v.oldSq /\ u.tag = v.tag /\ u.req = v.req
        /\ w = [u EXCEPT !.tag[c] = 0, !.free = Append(@, r), !.req[r].flight = FALSE]
    BY <2>1, <2>3, <2>4 DEF Freed
  <2> HIDE DEF v, w
  <2> QED
    BY <2>2, <2>5 DEF Device
<1> HIDE DEF w
<1>11. \A j \in ReqIds : j # r => w.req[j] = v.req[j]
  BY <1>6, <1>10
<1>12. s \in Thread /\ ThreadOk(d)' /\ ~ Batch(s)
  <2>1. completed'[d] = Tail(completed[d]) /\ disp[d].tick \in Time
        /\ disp'[d] = AfterAnswers(d, Tail(completed[d]), disp[d].tick)
    BY <1>3, <1>9
  <2>2. PICK list : list = Tail(completed[d])
    OBVIOUS
  <2>3. PICK t \in Time : t = disp[d].tick
    BY <2>1
  <2>4. completed'[d] = list /\ disp'[d] = AfterAnswers(d, list, t)
    BY <2>1, <2>2, <2>3
  <2> QED
    BY <2>4, AnswersDone
<1>13. CompletedOk(d)'
  <2>1. ASSUME NEW x, On(completed'[d], x)
        PROVE  /\ DOf(x[1]) = d /\ x[2] # 0
               /\ dev'[x[1]].req[x[2]].flight /\ dev'[x[1]].req[x[2]].left = 0
    <3>1. On(completed[d], x) /\ x # <<q, r>>
      BY <1>4, <1>9, <2>1
    <3>2. x \in Queues \X ReqIds
      BY <1>3, <3>1, LenProperties, ElementOfSeq DEF On
    <3>3. x[1] \in Queues /\ x[2] \in ReqIds /\ x = <<x[1], x[2]>>
      BY <3>2
    <3>4. DOf(x[1]) = d /\ x[2] # 0 /\ dev[x[1]].req[x[2]].flight /\ dev[x[1]].req[x[2]].left = 0
      BY <1>3, <3>1 DEF CompletedOk
    <3>5. dev'[x[1]].req[x[2]] = dev[x[1]].req[x[2]]
      <4>1. CASE x[1] # q
        BY <1>9, <3>3, <4>1
      <4>2. CASE x[1] = q
        <5>1. x[2] # r
          BY <3>1, <3>3, <4>2
        <5> QED
          BY <1>9, <1>11, <3>3, <4>2, <5>1
      <4> QED
        BY <4>1, <4>2
    <3> QED
      BY <3>4, <3>5
  <2> QED
    BY <1>4, <1>9, <2>1 DEF CompletedOk
<1>14. TypeOK'
  <2> HIDE DEF s
  <2>1. disp' \in [Dispatchers -> Thread] /\ dev' \in [Queues -> Device]
    BY <1>2, <1>9, <1>10, <1>12 DEF TypeOK
  <2>2. completed' \in [Dispatchers -> Seq(Queues \X ReqIds)]
    BY <1>1, <1>2, <1>4 DEF TypeOK
  <2>3. UNCHANGED <<host, issued, sqMem, sqDb, cqDb, irq, inQue, inTail,
                     inHead, outQue, outTail, outHead, ftl, pq, hackLeft, now, work>>
    BY <1>1
  <2> HIDE DEF v
  <2> QED
    BY <1>2, <1>7, <1>8, <2>1, <2>2, <2>3 DEF TypeOK
<1>15. QueuesOk' /\ \A e \in Dispatchers : ThreadOk(e)' /\ CompletedOk(e)'
  <2>1. \A e \in Dispatchers : e # d => disp'[e] = disp[e] /\ completed'[e] = completed[e]
    BY <1>9
  <2>2. \A p \in Queues : p # q => dev'[p] = dev[p] /\ cqMem'[p] = cqMem[p]
    BY <1>7, <1>9
  <2>3. (Batch(disp[d]) => disp[d].q = q) /\ (Batch(disp'[d]) => disp'[d].q = q) /\ DOf(q) = d
    BY <1>3, <1>5, <1>12
  <2>4. QueueOk(host[q], sqMem[q], cqMem'[q], dev'[q], CursorOf(disp'[d], dev'[q], q))
    BY <1>8, <1>9, <1>10, <1>12 DEF CursorOf
  <2>5. UNCHANGED <<host, sqMem, sqDb>>
    BY <1>1
  <2> HIDE DEF v, s
  <2> QED
    BY <1>12, <1>13, <2>1, <2>2, <2>3, <2>4, <2>5, OneQueue
<1>16. Routed' /\ PiecesOk' /\ (Exact => Exact') /\ \A f \in FTLs : FtlOk(f)'
  <2>1. ASSUME NEW p \in Queues, NEW k \in Cids
        PROVE  LeftOf(dev'[p], k) = LeftOf(dev[p], k) /\ LeftOf(dev[p], k) \in Int
    <3>1. LeftOf(dev[p], k) \in Int
      BY LeftType, QueueNow
    <3>2. CASE p # q
      BY <1>9, <3>1, <3>2
    <3>3. CASE p = q /\ k = c
      <4>1. LeftOf(v, k) = 0
        BY <1>5, <1>8, <3>3 DEF LeftOf
      <4>2. w.tag[k] = 0
        BY <1>6, <1>8, <1>10, <3>3
      <4>3. LeftOf(w, k) = 0
        BY <4>2 DEF LeftOf
      <4> QED
        BY <1>9, <3>1, <3>3, <4>1, <4>3
    <3>4. CASE p = q /\ k # c
      <4>1. w.tag[k] = v.tag[k] /\ v.tag[k] \in ReqIds
        BY <1>6, <1>10, <3>4
      <4>2. v.tag[k] # r
        <5>1. v.tag[k] # 0 => v.req[v.tag[k]].cid = k
          BY <1>6 DEF Requested
        <5> QED
          BY <1>c, <1>5, <3>4, <5>1
      <4>3. LeftOf(w, k) = LeftOf(v, k)
        BY <1>11, <4>1, <4>2 DEF LeftOf
      <4> QED
        BY <1>9, <3>1, <3>4, <4>3
    <3> QED
      BY <3>2, <3>3, <3>4
  <2>2. UNCHANGED <<inQue, outQue, ftl, pq>>
    BY <1>1
  <2>3. \A p \in Queues : \A k \in Cids :
          LeftOf(dev'[p], k) = LeftOf(dev[p], k) /\ LeftOf(dev[p], k) \in Int
    BY <2>1
  <2> HIDE DEF v, s
  <2> QED
    BY <2>2, <2>3, RingsSame
<1> QED
  BY <1>14, <1>15, <1>16 DEF IInv

\* The dispatcher raises the interrupts of its completion queues.
LEMMA RaiseIrqKeeps ==
  ASSUME IInv, NEW d \in Dispatchers, RaiseIrq(d)
  PROVE  IInv'
<1> DEFINE s == disp'[d]
<1>m. PICK mine : mine = {q \in Queues : (q - 1) % NrDispatcher = d /\ dev[q].ready}
  OBVIOUS
<1>1. /\ disp[d].pc = "irq"
      /\ irq' = [q \in Queues |-> irq[q] \/ q \in mine]
      /\ dev' = [q \in Queues |-> IF q \in mine THEN [dev[q] EXCEPT !.ready = FALSE]
                                                ELSE dev[q]]
      /\ disp' = [disp EXCEPT ![d].pc = "sq", ![d].q = d + 1]
      /\ UNCHANGED <<host, issued, sqMem, sqDb, cqDb, cqMem, completed, inQue, inTail,
                     inHead, outQue, outTail, outHead, ftl, pq, hackLeft, now, work>>
  BY <1>m DEF RaiseIrq, At, hostVars, ringIn, ringOut
<1>2. TypeOK
  BY DEF IInv
<1>3. disp[d] \in Thread /\ ThreadOk(d) /\ CompletedOk(d) /\ ~ Batch(disp[d])
  BY <1>1, ThreadNow DEF Batch
<1>4. /\ disp' = [disp EXCEPT ![d] = s] /\ s = [disp[d] EXCEPT !.pc = "sq", !.q = d + 1]
      /\ \A e \in Dispatchers : e # d => disp'[e] = disp[e]
  BY <1>1, <1>2 DEF TypeOK
<1>5. s \in Thread /\ s.pc = "sq" /\ s.q = d + 1
  <2>1. d + 1 \in Nat
    BY QueueNumbers
  <2>2. PICK n \in Nat : n = d + 1
    BY <2>1
  <2>3. PICK x : x = disp[d]
    OBVIOUS
  <2>4. x \in Thread /\ s = [x EXCEPT !.pc = "sq", !.q = n]
    BY <1>3, <1>4, <2>2, <2>3
  <2> HIDE DEF s
  <2>5. s = [pc |-> "sq", q |-> n, todo |-> x.todo, entry |-> x.entry, f |-> x.f,
             slpa |-> x.slpa, nlb |-> x.nlb, req |-> x.req, tick |-> x.tick, hack |-> x.hack]
    BY <2>4 DEF Thread
  <2> QED
    BY <2>2, <2>4, <2>5, ThreadFields DEF Thread
<1>6. ThreadOk(d)' /\ ~ Batch(s)
  <2>1. d + 1 \in Nat \ {0} /\ DOf(d + 1) = d
    BY QueueNumbers
  <2> QED
    BY <1>5, <2>1, Idle
<1>7. ASSUME NEW p \in Queues
      PROVE  /\ dev'[p] \in Device /\ dev'[p].oldSq = dev[p].oldSq
             /\ dev'[p].head = dev[p].head /\ dev'[p].phase = dev[p].phase
             /\ dev'[p].tag = dev[p].tag /\ dev'[p].free = dev[p].free
             /\ dev'[p].req = dev[p].req
  <2>1. PICK v \in Device : v = dev[p]
    BY QueueNow
  <2>2. dev'[p] = [v EXCEPT !.ready = FALSE] \/ dev'[p] = v
    BY <1>1, <2>1
  <2>3. PICK w : w = dev'[p]
    OBVIOUS
  <2>4. /\ w \in Device /\ w.oldSq = v.oldSq /\ w.head = v.head /\ w.phase = v.phase
        /\ w.tag = v.tag /\ w.free = v.free /\ w.req = v.req
    BY <2>2, <2>3 DEF Device
  <2> QED
    BY <2>1, <2>3, <2>4
<1>8. TypeOK'
  <2> HIDE DEF s
  <2>1. disp' \in [Dispatchers -> Thread]
    BY <1>2, <1>4, <1>5 DEF TypeOK
  <2>2. dev' \in [Queues -> Device]
    <3>1. DOMAIN dev' = Queues /\ dev' = [q \in Queues |-> dev'[q]]
      BY <1>1
    <3> QED
      BY <1>7, <3>1
  <2>3. irq' \in [Queues -> BOOLEAN]
    BY <1>1
  <2>4. UNCHANGED <<host, issued, sqMem, sqDb, cqDb, cqMem, completed, inQue, inTail,
                     inHead, outQue, outTail, outHead, ftl, pq, hackLeft, now, work>>
    BY <1>1
  <2> QED
    BY <1>2, <2>1, <2>2, <2>3, <2>4 DEF TypeOK
<1>9. ASSUME NEW p \in Queues PROVE Cursor(p)' = Cursor(p)
  <2>1. CursorOf(disp'[DOf(p)], dev'[p], p) = CursorOf(disp[DOf(p)], dev[p], p)
    BY <1>3, <1>4, <1>6, <1>7, QueueNumbers DEF CursorOf
  <2> QED
    BY <2>1 DEF Cursor
<1>10. QueuesOk'
  <2>1. ASSUME NEW p \in Queues
        PROVE  QueueOk(host'[p], sqMem'[p], cqMem'[p], dev'[p], Cursor(p)')
    <3>1. /\ dev[p] \in Device /\ QueueOk(host[p], sqMem[p], cqMem[p], dev[p], Cursor(p))
          /\ \A k \in Cids : dev[p].tag[k] \in ReqIds
      BY QueueNow, RecordFacts
    <3>2. QueueOk(host[p], sqMem[p], cqMem[p], dev'[p], Cursor(p))
      BY <1>7, <3>1, QueueSame
    <3> QED
      BY <1>1, <1>9, <3>2
  <2>2. \A p \in Queues : sqDb'[p] = host'[p].sqTail
    BY <1>1 DEF IInv, QueuesOk
  <2> QED
    BY <2>1, <2>2 DEF QueuesOk
<1>11. ASSUME NEW e \in Dispatchers PROVE CompletedOk(e)'
  <2>1. \A p \in Queues : dev'[p].req = dev[p].req
    BY <1>7
  <2> QED
    BY <1>1, <2>1, CompletedSame
<1>12. ASSUME NEW e \in Dispatchers, e # d PROVE ThreadOk(e)'
  <2>1. disp'[e] = disp[e] /\ completed'[e] = completed[e] /\ ThreadOk(e)
    BY <1>1, <1>4, <1>12, ThreadNow
  <2>2. \A p \in Queues : dev'[p].req = dev[p].req
    BY <1>7
  <2> QED
    BY <1>1, <1>9, <2>1, <2>2 DEF ThreadOk, Batch
<1>13. Routed' /\ PiecesOk' /\ \A f \in FTLs : FtlOk(f)'
  <2>1. \A p \in Queues : \A k \in Cids : LeftOf(dev'[p], k) = LeftOf(dev[p], k)
    BY <1>7 DEF LeftOf
  <2> QED
    BY <1>1, <2>1 DEF IInv, Routed, PiecesOk, Pieces, FtlOk
<1> QED
  BY <1>6, <1>8, <1>10, <1>11, <1>12, <1>13 DEF IInv

-----------------------------------------------------------------------------
(* The steps of the FTL threads. *)

\* Where an FTL thread turns to when its answers are p.
LEMMA NextAnswersFacts ==
  ASSUME NEW f, NEW p, NEW d \in Nat, NEW n, n = NextAnswers(f, d, p)
  PROVE  /\ n = [pc |-> n.pc, d |-> n.d] /\ n.pc \in {"req", "resp"} /\ n.d \in Dispatchers
         /\ n.pc = "req" => /\ n.d = 0
                            /\ \A e \in Dispatchers : e >= d => p[f][e] = <<>>
         /\ n.pc = "resp" => /\ n.d >= d /\ p[f][n.d] # <<>>
                             /\ \A e \in Dispatchers : e >= d /\ e < n.d => p[f][e] = <<>>
<1> DEFINE owed == {e \in Dispatchers : e >= d /\ p[f][e] # <<>>}
           m == CHOOSE i \in owed : \A j \in owed : i <= j
<1>1. 0 \in Dispatchers /\ Dispatchers \subseteq Nat
  BY IoSizes DEF Dispatchers
<1>2. CASE owed = {}
  <2>1. n = [pc |-> "req", d |-> 0]
    BY <1>2 DEF NextAnswers
  <2>2. n.pc = "req" /\ n.d = 0
    BY <2>1
  <2> QED
    BY <1>1, <1>2, <2>1, <2>2
<1>3. CASE owed # {}
  <2>1. n = [pc |-> "resp", d |-> m]
    BY <1>3 DEF NextAnswers
  <2>2. \E i \in owed : \A j \in owed : i <= j
    BY <1>1, <1>3, LeastNumber
  <2>3. m \in owed /\ \A j \in owed : m <= j
    BY <2>2
  <2>4. PICK k : k = m
    OBVIOUS
  <2>5. k \in owed /\ (\A j \in owed : k <= j) /\ n = [pc |-> "resp", d |-> k]
    BY <2>1, <2>3, <2>4
  <2> HIDE DEF m
  <2>6. k \in Dispatchers /\ k >= d /\ p[f][k] # <<>> /\ n.pc = "resp" /\ n.d = k
    BY <2>5
  <2>7. \A e \in Dispatchers : e >= d /\ e < k => p[f][e] = <<>>
    <3>1. ASSUME NEW e \in Dispatchers, e >= d, e < k, p[f][e] # <<>> PROVE FALSE
      <4>1. e \in owed
        BY <3>1
      <4>2. k <= e
        BY <2>5, <4>1
      <4> QED
        BY <1>1, <2>6, <3>1, <4>2
    <3> QED
      BY <3>1
  <2> QED
    BY <2>5, <2>6, <2>7
<1> QED
  BY <1>2, <1>3

\* The answers not sent yet, p, become new: only those of f for d change, and
\* a is now the first of them.
Owes(p, new, f, d, a) ==
  /\ \A e \in FTLs : \A g \in Dispatchers : ~ (e = f /\ g = d) => new[e][g] = p[e][g]
  /\ a = IF new[f][d] = <<>> THEN Empty ELSE Head(new[f][d])

\* Those answers, seen as rings.
LEMMA AnswersStored ==
  ASSUME NEW p, NEW new, NEW f \in FTLs, NEW d \in Dispatchers, NEW a, Owes(p, new, f, d, a)
  PROVE  Stored(Answers(p), Answers(new), 1, d, f, 0, a)
<1>1. ASSUME NEW r, NEW g \in Dispatchers, NEW e \in FTLs
      PROVE  Answers(r)[g][e][0] = IF r[e][g] = <<>> THEN Empty ELSE Head(r[e][g])
  BY DEF Answers
<1>2. Answers(new)[d][f][0] = a
  BY <1>1 DEF Owes
<1>3. ASSUME NEW g \in Dispatchers, NEW e \in FTLs, NEW j \in 0 .. 1 - 1,
             ~ (g = d /\ e = f /\ j = 0)
      PROVE  Answers(new)[g][e][j] = Answers(p)[g][e][j]
  <2>1. j = 0
    OBVIOUS
  <2>2. new[e][g] = p[e][g]
    BY <1>3, <2>1 DEF Owes
  <2> QED
    BY <1>1, <2>1, <2>2
<1> QED
  BY <1>1, <1>2, <1>3 DEF Stored

\* A step of an FTL thread leaves the queues and the dispatchers alone.
LEMMA FtlStep ==
  ASSUME IInv, UNCHANGED <<host, sqMem, sqDb, cqMem, dev, disp, completed>>,
         \A q \in Queues : \A c \in Cids : Pieces(q, c)' = Pieces(q, c)
  PROVE  /\ QueuesOk' /\ \A e \in Dispatchers : ThreadOk(e)' /\ CompletedOk(e)'
         /\ PiecesOk' /\ (Exact => Exact')
<1>1. \A p \in Queues : Cursor(p)' = Cursor(p)
  BY DEF Cursor
<1>2. QueuesOk'
  BY <1>1 DEF IInv, QueuesOk
<1>3. ASSUME NEW e \in Dispatchers PROVE ThreadOk(e)' /\ CompletedOk(e)'
  BY <1>1 DEF IInv, ThreadOk, CompletedOk, Batch
<1>4. PiecesOk' /\ (Exact => Exact')
  BY DEF IInv, PiecesOk, Exact, LeftOf
<1> QED
  BY <1>2, <1>3, <1>4

\* FTL thread f takes piece p from slot i of dispatcher d's ring and owes the
\* answer a for it: no command has more or fewer pieces than before.
Takes(f, d, i, p, a) ==
  /\ d \in Dispatchers /\ i \in 0 .. InSize - 1 /\ p \in Piece /\ p = inQue[d][f][i]
  /\ a \in Answer /\ a.q = p.q /\ a.cid = p.cid
  /\ pq' = [pq EXCEPT ![f][d] = <<a>>]
  /\ work' = [work EXCEPT ![p.q][p.cid] =
                [left |-> @.left \ (p.slpa .. p.slpa + p.nlb - 1),
                 due |-> MaxOf(@.due, a.nsecs)]]
  /\ inQue' = [inQue EXCEPT ![d][f][i] = Empty]
  /\ inHead' = [inHead EXCEPT ![d][f] = Succ(@, InSize)]
  /\ Stored(inQue, inQue', InSize, d, f, i, Empty)
  /\ Answers(pq)[d][f][0] = Empty /\ Stored(Answers(pq), Answers(pq'), 1, d, f, 0, a)
  /\ \A q \in Queues : \A c \in Cids : Pieces(q, c)' = Pieces(q, c)

\* An FTL thread that finds a piece takes it.
LEMMA PieceTaken ==
  ASSUME IInv, NEW f \in FTLs, CheckReq(f),
         inQue[ftl[f].d][f][inHead[ftl[f].d][f]] # Empty
  PROVE  \E d, i, p, a : /\ d = ftl[f].d /\ i = inHead[d][f] /\ p = inQue[d][f][i]
                         /\ Takes(f, d, i, p, a)
<1>d. PICK d : d = ftl[f].d
  OBVIOUS
<1>i. PICK i : i = inHead[d][f]
  OBVIOUS
<1>p. PICK p : p = inQue[d][f][i]
  OBVIOUS
<1>1. UNCHANGED outQue /\ ftl[f].pc = "req"
  BY DEF CheckReq, ringOut
<1>2. TypeOK
  BY DEF IInv
<1>3. /\ d \in Dispatchers /\ pq[f][d] = <<>>
      /\ pq \in [FTLs -> [Dispatchers -> Seq(Answer)]]
      /\ inQue \in [Dispatchers -> [FTLs -> [0 .. InSize - 1 -> Piece \cup {Empty}]]]
      /\ i \in 0 .. InSize - 1 /\ p \in Piece
  <2>1. d \in Dispatchers /\ FtlOk(f)
    BY <1>d, FtlNow
  <2>2. d >= d
    BY <2>1, QueueNumbers
  <2>3. pq[f][d] = <<>>
    BY <1>d, <1>1, <2>1, <2>2 DEF FtlOk
  <2>4. i \in 0 .. InSize - 1
    BY <1>i, <2>1, ThreadNow
  <2>5. p \in Piece
    BY <1>d, <1>i, <1>p, <2>1, <2>4, ThreadNow
  <2> QED
    BY <1>2, <2>1, <2>3, <2>4, <2>5 DEF TypeOK
<1>4. PICK lat \in Lats :
        LET end == IF p.nsecs + lat <= MaxTime THEN p.nsecs + lat ELSE MaxTime
        IN /\ pq' = [pq EXCEPT ![f][d] =
                       <<[q |-> p.q, cid |-> p.cid, nsecs |-> end]>> \o @]
           /\ work' = [work EXCEPT ![p.q][p.cid] =
                 [left |-> @.left \ (p.slpa .. p.slpa + p.nlb - 1),
                  due |-> MaxOf(@.due, end)]]
           /\ inQue' = [inQue EXCEPT ![d][f][i] = Empty]
           /\ inHead' = [inHead EXCEPT ![d][f] = Succ(@, InSize)]
  BY <1>d, <1>i, <1>p DEF CheckReq
<1>5. PICK end : end = IF p.nsecs + lat <= MaxTime THEN p.nsecs + lat ELSE MaxTime
  OBVIOUS
<1>6. PICK a : a = [q |-> p.q, cid |-> p.cid, nsecs |-> end]
  OBVIOUS
<1>7. p.q \in Queues /\ p.cid \in Cids /\ p.nsecs \in Time
  BY <1>3 DEF Piece
<1>8. end \in Time
  <2>1. lat \in Nat /\ p.nsecs \in Nat /\ MaxTime \in Nat
    BY <1>7, IoSizes, IoPathAssumption DEF Time
  <2> QED
    BY <1>5, <2>1 DEF Time
<1>9. a \in Answer /\ a.q = p.q /\ a.cid = p.cid /\ a.nsecs = end
  BY <1>6, <1>7, <1>8 DEF Answer
<1>10. /\ pq' = [pq EXCEPT ![f][d] = <<a>> \o @]
       /\ work' = [work EXCEPT ![p.q][p.cid] =
                    [left |-> @.left \ (p.slpa .. p.slpa + p.nlb - 1),
                     due |-> MaxOf(@.due, a.nsecs)]]
       /\ inQue' = [inQue EXCEPT ![d][f][i] = Empty]
       /\ inHead' = [inHead EXCEPT ![d][f] = Succ(@, InSize)]
  BY <1>4, <1>5, <1>6, <1>9
<1>11. pq' = [pq EXCEPT ![f][d] = <<a>>]
  BY <1>3, <1>9, <1>10
<1>12. Stored(inQue, inQue', InSize, d, f, i, Empty)
  <2>1. inQue' = [inQue EXCEPT ![d][f][i] = Empty]
    BY <1>10
  <2>2. inQue \in [Dispatchers -> [FTLs -> [0 .. InSize - 1 -> Piece \cup {Empty}]]]
    BY <1>3
  <2>3. d \in Dispatchers /\ i \in 0 .. InSize - 1
    BY <1>3
  <2> QED
    BY <2>1, <2>2, <2>3 DEF Stored
<1>13. /\ \A e \in FTLs : \A g \in Dispatchers : ~ (e = f /\ g = d) => pq'[e][g] = pq[e][g]
       /\ pq'[f][d] = <<a>>
  BY <1>3, <1>11
<1>14. PICK p1, p2 : p1 = pq /\ p2 = pq'
  OBVIOUS
<1>15. PICK r1, r2 : r1 = Answers(pq) /\ r2 = Answers(pq')
  OBVIOUS
<1>16. Stored(r1, r2, 1, d, f, 0, a) /\ r1[d][f][0] = Empty
  <2>1. a = IF pq'[f][d] = <<>> THEN Empty ELSE Head(pq'[f][d])
    BY <1>13
  <2>2. Owes(p1, p2, f, d, a)
    BY <1>13, <1>14, <2>1 DEF Owes
  <2>3. Stored(Answers(p1), Answers(p2), 1, d, f, 0, a)
    BY <1>3, <2>2, AnswersStored
  <2>4. Answers(pq)[d][f][0] = Empty
    BY <1>3 DEF Answers
  <2> QED
    BY <1>14, <1>15, <2>3, <2>4
<1>17. ASSUME NEW q \in Queues, NEW c \in Cids PROVE Pieces(q, c)' = Pieces(q, c)
  <2>1. 0 \in 0 .. 1 - 1 /\ 1 \in Nat /\ InSize \in Nat
    BY IoSizes
  <2>2. /\ Count(inQue, InSize, q, c) \in Nat /\ Count(inQue', InSize, q, c) \in Nat
        /\ Count(inQue', InSize, q, c) = Count(inQue, InSize, q, c)
             - One(Matches(inQue[d][f][i], q, c)) + One(Matches(Empty, q, c))
    BY <1>3, <1>12, <2>1, RingChange
  <2>3. /\ Count(r1, 1, q, c) \in Nat /\ Count(r2, 1, q, c) \in Nat
        /\ Count(r2, 1, q, c) = Count(r1, 1, q, c)
             - One(Matches(r1[d][f][0], q, c)) + One(Matches(a, q, c))
    BY <1>3, <1>16, <2>1, RingChange
  <2>4. ~ Matches(Empty, q, c)
    BY QueueNumbers DEF Matches, Empty
  <2>5. Matches(a, q, c) <=> Matches(p, q, c)
    BY <1>9 DEF Matches
  <2>6. Count(inQue', InSize, q, c) = Count(inQue, InSize, q, c) - One(Matches(a, q, c))
    BY <1>p, <2>2, <2>4, <2>5 DEF One
  <2>7. Count(r2, 1, q, c) = Count(r1, 1, q, c) + One(Matches(a, q, c))
    BY <1>16, <2>3, <2>4 DEF One
  <2>8. One(Matches(a, q, c)) \in {0, 1} /\ Count(outQue, OutSize, q, c) \in Nat
    BY PiecesType DEF One
  <2>9. /\ Pieces(q, c)' = Count(inQue', InSize, q, c) + Count(outQue, OutSize, q, c)
                             + Count(r2, 1, q, c)
        /\ Pieces(q, c) = Count(inQue, InSize, q, c) + Count(outQue, OutSize, q, c)
                             + Count(r1, 1, q, c)
    BY <1>1, <1>15 DEF Pieces
  <2> QED
    BY <2>2, <2>3, <2>6, <2>7, <2>8, <2>9
<1> QED
  <2>1. Stored(Answers(pq), Answers(pq'), 1, d, f, 0, a) /\ Answers(pq)[d][f][0] = Empty
    BY <1>15, <1>16
  <2>2. Takes(f, d, i, p, a)
    BY <1>p, <1>3, <1>9, <1>10, <1>11, <1>12, <1>17, <2>1 DEF Takes
  <2> QED
    BY <1>d, <1>i, <1>p, <2>2

\* An FTL thread looks at the request of the next dispatcher.
LEMMA CheckReqKeeps ==
  ASSUME IInv, NEW f \in FTLs, CheckReq(f)
  PROVE  IInv' /\ (Exact => Exact')
<1>d. PICK d : d = ftl[f].d
  OBVIOUS
<1>i. PICK i : i = inHead[d][f]
  OBVIOUS
<1>p. PICK p : p = inQue[d][f][i]
  OBVIOUS
<1>n. PICK n : n = ftl'[f]
  OBVIOUS
<1>1. /\ ftl[f].pc = "req"
      /\ ftl' = [ftl EXCEPT ![f] = IF d + 1 < NrDispatcher THEN [@ EXCEPT !.d = d + 1]
                                   ELSE NextAnswers(f, 0, pq')]
      /\ UNCHANGED <<host, issued, sqMem, sqDb, cqDb, cqMem, irq, dev, disp, completed,
                     inTail, outQue, outTail, outHead, hackLeft, now>>
  BY <1>d DEF CheckReq, hostVars, ringOut
<1>2. TypeOK
  BY DEF IInv
<1>3. /\ d \in Dispatchers /\ d \in Nat /\ FtlOk(f) /\ ftl[f] = [pc |-> "req", d |-> d]
      /\ ftl \in [FTLs -> [pc : {"req", "resp"}, d : Dispatchers]]
      /\ pq \in [FTLs -> [Dispatchers -> Seq(Answer)]]
      /\ inQue \in [Dispatchers -> [FTLs -> [0 .. InSize - 1 -> Piece \cup {Empty}]]]
      /\ i \in 0 .. InSize - 1 /\ Succ(i, InSize) \in 0 .. InSize - 1
      /\ p \in Piece \cup {Empty}
  <2>1. d \in Dispatchers /\ FtlOk(f) /\ ftl[f] = [pc |-> "req", d |-> d]
    BY <1>d, <1>1, FtlNow
  <2>2. i \in 0 .. InSize - 1
    BY <1>i, <2>1, ThreadNow
  <2>3. Succ(i, InSize) \in 0 .. InSize - 1
    BY <2>2, IoSizes DEF Succ
  <2>4. p \in Piece \cup {Empty}
    BY <1>p, <2>1, <2>2, ThreadNow
  <2> QED
    BY <1>2, <2>1, <2>2, <2>3, <2>4, QueueNumbers DEF TypeOK
<1>4. /\ \A e \in Dispatchers : Len(pq[f][e]) <= 1
      /\ \A e \in Dispatchers : e >= d => pq[f][e] = <<>>
      /\ pq[f][d] = <<>>
  BY <1>3 DEF FtlOk
<1>5. /\ pq' \in [FTLs -> [Dispatchers -> Seq(Answer)]]
      /\ work' \in [Queues -> [Cids -> [left : SUBSET Nat, due : Time]]]
      /\ inQue' \in [Dispatchers -> [FTLs -> [0 .. InSize - 1 -> Piece \cup {Empty}]]]
      /\ inHead' \in [Dispatchers -> [FTLs -> 0 .. InSize - 1]]
      /\ \A e \in FTLs : \A g \in Dispatchers : ~ (e = f /\ g = d) => pq'[e][g] = pq[e][g]
      /\ Len(pq'[f][d]) <= 1
      /\ RoutedTo(inQue', InSize) /\ RoutedTo(Answers(pq'), 1)
      /\ \A q \in Queues : \A c \in Cids : Pieces(q, c)' = Pieces(q, c)
  <2>1. CASE p = Empty
    <3>1. UNCHANGED <<inQue, inHead, pq, work, outQue>>
      BY <1>d, <1>i, <1>p, <1>1, <2>1 DEF CheckReq
    <3> QED
      BY <1>2, <1>4, <1>3, <3>1 DEF IInv, TypeOK, Routed, Pieces
  <2>2. CASE p # Empty
    <3>1. PICK a : Takes(f, d, i, p, a)
      BY <1>d, <1>i, <1>p, <2>2, PieceTaken
    <3>2. /\ p \in Piece /\ a \in Answer /\ a.q = p.q /\ a.cid = p.cid
          /\ pq' = [pq EXCEPT ![f][d] = <<a>>]
          /\ work' = [work EXCEPT ![p.q][p.cid] =
                       [left |-> @.left \ (p.slpa .. p.slpa + p.nlb - 1),
                        due |-> MaxOf(@.due, a.nsecs)]]
          /\ inQue' = [inQue EXCEPT ![d][f][i] = Empty]
          /\ inHead' = [inHead EXCEPT ![d][f] = Succ(@, InSize)]
          /\ Stored(inQue, inQue', InSize, d, f, i, Empty)
          /\ Stored(Answers(pq), Answers(pq'), 1, d, f, 0, a)
          /\ \A q \in Queues : \A c \in Cids : Pieces(q, c)' = Pieces(q, c)
      BY <3>1 DEF Takes
    <3>3. p.q \in Queues /\ p.cid \in Cids /\ a.nsecs \in Time
      BY <3>2 DEF Piece, Answer
    <3>4. /\ pq' \in [FTLs -> [Dispatchers -> Seq(Answer)]]
          /\ \A e \in FTLs : \A g \in Dispatchers : ~ (e = f /\ g = d) => pq'[e][g] = pq[e][g]
          /\ Len(pq'[f][d]) <= 1
      <4>1. <<a>> \in Seq(Answer) /\ Len(<<a>>) <= 1
        BY <3>2
      <4> QED
        BY <1>3, <3>2, <4>1
    <3>5. work' \in [Queues -> [Cids -> [left : SUBSET Nat, due : Time]]]
      <4>1. work \in [Queues -> [Cids -> [left : SUBSET Nat, due : Time]]]
        BY <1>2 DEF TypeOK
      <4>2. PICK l, u : /\ l = work[p.q][p.cid].left \ (p.slpa .. p.slpa + p.nlb - 1)
                        /\ u = MaxOf(work[p.q][p.cid].due, a.nsecs)
        OBVIOUS
      <4>3. work[p.q][p.cid] \in [left : SUBSET Nat, due : Time]
        BY <3>3, <4>1
      <4>4. l \in SUBSET Nat /\ u \in Time
        BY <3>3, <4>2, <4>3 DEF MaxOf
      <4>5. work' = [work EXCEPT ![p.q][p.cid] = [left |-> l, due |-> u]]
        BY <3>2, <4>2
      <4> QED
        BY <3>3, <4>1, <4>4, <4>5
    <3>6. inQue' \in [Dispatchers -> [FTLs -> [0 .. InSize - 1 -> Piece \cup {Empty}]]]
      <4>1. inQue' = [inQue EXCEPT ![d][f][i] = Empty]
        BY <3>2
      <4>2. inQue \in [Dispatchers -> [FTLs -> [0 .. InSize - 1 -> Piece \cup {Empty}]]]
        BY <1>3
      <4> QED
        BY <4>1, <4>2
    <3>7. inHead' \in [Dispatchers -> [FTLs -> 0 .. InSize - 1]]
      BY <1>2, <1>3, <1>i, <3>2 DEF TypeOK
    <3>8. DOf(p.q) = d
      BY <1>p, <1>3, <2>2 DEF IInv, Routed, RoutedTo
    <3>9. 0 \in 0 .. 1 - 1 /\ 1 \in Nat /\ InSize \in Nat
      BY IoSizes
    <3>10. RoutedTo(inQue', InSize)
      <4>1. RoutedTo(inQue, InSize) /\ Stored(inQue, inQue', InSize, d, f, i, Empty)
        BY <3>2 DEF IInv, Routed
      <4> QED
        BY <1>3, <3>9, <4>1, RingRouted
    <3>11. RoutedTo(Answers(pq'), 1)
      <4>1. RoutedTo(Answers(pq), 1) /\ DOf(a.q) = d
        BY <3>2, <3>8 DEF IInv, Routed
      <4>2. PICK r1, r2 : r1 = Answers(pq) /\ r2 = Answers(pq')
        OBVIOUS
      <4>3. RoutedTo(r1, 1) /\ Stored(r1, r2, 1, d, f, 0, a)
        BY <3>2, <4>1, <4>2
      <4>4. RoutedTo(r2, 1)
        BY <1>3, <3>9, <4>1, <4>3, RingRouted
      <4> QED
        BY <4>2, <4>4
    <3> QED
      BY <3>2, <3>4, <3>5, <3>6, <3>7, <3>10, <3>11
  <2> QED
    BY <2>1, <2>2
<1>6. /\ n \in [pc : {"req", "resp"}, d : Dispatchers]
      /\ n.pc = "req" => \A e \in Dispatchers : e >= n.d => pq'[f][e] = <<>>
      /\ n.pc = "resp" => /\ \A e \in Dispatchers : e < n.d => pq'[f][e] = <<>>
                          /\ pq'[f][n.d] # <<>>
  <2>1. n = IF d + 1 < NrDispatcher THEN [ftl[f] EXCEPT !.d = d + 1] ELSE NextAnswers(f, 0, pq')
    BY <1>n, <1>1, <1>3
  <2>2. Dispatchers \subseteq Nat /\ 0 \in Nat
    BY QueueNumbers
  <2>3. CASE d + 1 < NrDispatcher
    <3>1. n = [pc |-> "req", d |-> d + 1]
      BY <1>3, <2>1, <2>3
    <3>2. d + 1 \in Dispatchers
      BY <1>3, <2>3, IoSizes DEF Dispatchers
    <3>3. \A e \in Dispatchers : e >= d + 1 => pq'[f][e] = <<>>
      <4>1. ASSUME NEW e \in Dispatchers, e >= d + 1 PROVE pq'[f][e] = <<>>
        <5>1. e # d /\ e >= d
          BY <1>3, <2>2, <4>1
        <5> QED
          BY <1>4, <1>5, <5>1
      <4> QED
        BY <4>1
    <3> QED
      BY <3>1, <3>2, <3>3
  <2>4. CASE ~ (d + 1 < NrDispatcher)
    <3>1. PICK p2 : p2 = pq'
      OBVIOUS
    <3>2. n = NextAnswers(f, 0, p2)
      BY <2>1, <2>4, <3>1
    <3>3. /\ n = [pc |-> n.pc, d |-> n.d] /\ n.pc \in {"req", "resp"} /\ n.d \in Dispatchers
          /\ n.pc = "req" => /\ n.d = 0
                             /\ \A e \in Dispatchers : e >= 0 => p2[f][e] = <<>>
          /\ n.pc = "resp" => /\ n.d >= 0 /\ p2[f][n.d] # <<>>
                              /\ \A e \in Dispatchers : e >= 0 /\ e < n.d => p2[f][e] = <<>>
      BY <2>2, <3>2, NextAnswersFacts
    <3> QED
      BY <2>2, <3>1, <3>3
  <2> QED
    BY <2>3, <2>4
<1>7. ftl' = [ftl EXCEPT ![f] = n] /\ \A e \in FTLs : e # f => ftl'[e] = ftl[e]
  BY <1>n, <1>1, <1>3
<1>8. TypeOK'
  <2>1. ftl' \in [FTLs -> [pc : {"req", "resp"}, d : Dispatchers]]
    BY <1>3, <1>6, <1>7
  <2> QED
    BY <1>1, <1>2, <1>5, <2>1 DEF TypeOK
<1>9. ASSUME NEW e \in FTLs PROVE FtlOk(e)'
  <2>1. CASE e = f
    <3>1. \A g \in Dispatchers : Len(pq'[f][g]) <= 1
      BY <1>4, <1>5
    <3> QED
      BY <1>n, <1>6, <2>1, <3>1 DEF FtlOk
  <2>2. CASE e # f
    <3>1. ftl'[e] = ftl[e] /\ \A g \in Dispatchers : pq'[e][g] = pq[e][g]
      BY <1>5, <1>7, <2>2
    <3>2. FtlOk(e) /\ ftl[e].d \in Dispatchers
      BY FtlNow
    <3> QED
      BY <3>1, <3>2 DEF FtlOk
  <2> QED
    BY <2>1, <2>2
<1>10. RoutedTo(outQue', OutSize)
  BY <1>1 DEF IInv, Routed
<1>11. QueuesOk' /\ PiecesOk' /\ (Exact => Exact') /\ \A e \in Dispatchers : ThreadOk(e)' /\ CompletedOk(e)'
  <2>1. UNCHANGED <<host, sqMem, sqDb, cqMem, dev, disp, completed>>
    BY <1>1
  <2> QED
    BY <1>5, <2>1, FtlStep
<1> QED
  BY <1>5, <1>8, <1>9, <1>10, <1>11 DEF IInv, Routed

\* FTL thread f sends the answer a it owes to dispatcher d in slot i: no command
\* has more or fewer pieces than before.
Sends(f, d, i, a) ==
  /\ d \in Dispatchers /\ i \in 0 .. OutSize - 1 /\ a \in Answer
  /\ pq' = [pq EXCEPT ![f][d] = <<>>]
  /\ outQue' = [outQue EXCEPT ![d][f][i] = a]
  /\ outQue[d][f][i] = Empty /\ Stored(outQue, outQue', OutSize, d, f, i, a)
  /\ Answers(pq)[d][f][0] = a /\ Stored(Answers(pq), Answers(pq'), 1, d, f, 0, Empty)
  /\ \A q \in Queues : \A c \in Cids : Pieces(q, c)' = Pieces(q, c)

\* An FTL thread that finds room sends the answer.
LEMMA AnswerSent ==
  ASSUME IInv, NEW f \in FTLs, CheckResp(f)
  PROVE  \E d, i, a : /\ d = ftl[f].d /\ i = outTail[d][f] /\ a = Head(pq[f][d])
                      /\ Sends(f, d, i, a)
<1>d. PICK d : d = ftl[f].d
  OBVIOUS
<1>i. PICK i : i = outTail[d][f]
  OBVIOUS
<1>a. PICK a : a = Head(pq[f][d])
  OBVIOUS
<1>1. /\ ftl[f].pc = "resp" /\ outQue[d][f][i] = Empty
      /\ outQue' = [outQue EXCEPT ![d][f][i] = a]
      /\ pq' = [pq EXCEPT ![f][d] = Tail(@)]
      /\ UNCHANGED inQue
  BY <1>d, <1>i, <1>a DEF CheckResp, ringIn
<1>2. TypeOK
  BY DEF IInv
<1>3. /\ d \in Dispatchers /\ d \in Nat /\ FtlOk(f) /\ i \in 0 .. OutSize - 1
      /\ pq \in [FTLs -> [Dispatchers -> Seq(Answer)]]
      /\ outQue \in [Dispatchers -> [FTLs -> [0 .. OutSize - 1 -> Answer \cup {Empty}]]]
  <2>1. d \in Dispatchers /\ FtlOk(f)
    BY <1>d, FtlNow
  <2>2. i \in 0 .. OutSize - 1
    BY <1>i, <2>1, ThreadNow
  <2> QED
    BY <1>2, <2>1, <2>2, QueueNumbers DEF TypeOK
<1>4. Len(pq[f][d]) <= 1 /\ pq[f][d] # <<>>
  BY <1>d, <1>1, <1>3 DEF FtlOk
<1>5. a \in Answer /\ Tail(pq[f][d]) = <<>>
  <2>1. PICK s \in Seq(Answer) : s = pq[f][d]
    BY <1>3
  <2>2. s # <<>> /\ Len(s) <= 1
    BY <1>4, <2>1
  <2>3. Head(s) \in Answer /\ Tail(s) = <<>>
    BY <2>2
  <2> QED
    BY <1>a, <2>1, <2>3
<1>6. pq' = [pq EXCEPT ![f][d] = <<>>]
  BY <1>1, <1>3, <1>5
<1>7. /\ \A e \in FTLs : \A g \in Dispatchers : ~ (e = f /\ g = d) => pq'[e][g] = pq[e][g]
      /\ pq'[f][d] = <<>>
  BY <1>3, <1>6
<1>8. Stored(outQue, outQue', OutSize, d, f, i, a)
  <2>1. outQue' = [outQue EXCEPT ![d][f][i] = a]
    BY <1>1
  <2>2. outQue \in [Dispatchers -> [FTLs -> [0 .. OutSize - 1 -> Answer \cup {Empty}]]]
    BY <1>3
  <2>3. d \in Dispatchers /\ i \in 0 .. OutSize - 1
    BY <1>3
  <2> QED
    BY <2>1, <2>2, <2>3 DEF Stored
<1>9. PICK p1, p2 : p1 = pq /\ p2 = pq'
  OBVIOUS
<1>10. PICK r1, r2 : r1 = Answers(pq) /\ r2 = Answers(pq')
  OBVIOUS
<1>11. Stored(r1, r2, 1, d, f, 0, Empty) /\ r1[d][f][0] = a
  <2>1. Owes(p1, p2, f, d, Empty)
    BY <1>7, <1>9 DEF Owes
  <2>2. Stored(Answers(p1), Answers(p2), 1, d, f, 0, Empty)
    BY <1>3, <2>1, AnswersStored
  <2>3. Answers(pq)[d][f][0] = a
    BY <1>a, <1>3, <1>4 DEF Answers
  <2> QED
    BY <1>9, <1>10, <2>2, <2>3
<1>12. ASSUME NEW q \in Queues, NEW c \in Cids PROVE Pieces(q, c)' = Pieces(q, c)
  <2>1. 0 \in 0 .. 1 - 1 /\ 1 \in Nat /\ OutSize \in Nat
    BY IoSizes
  <2>2. /\ Count(outQue, OutSize, q, c) \in Nat /\ Count(outQue', OutSize, q, c) \in Nat
        /\ Count(outQue', OutSize, q, c) = Count(outQue, OutSize, q, c)
             - One(Matches(outQue[d][f][i], q, c)) + One(Matches(a, q, c))
    BY <1>3, <1>8, <2>1, RingChange
  <2>3. /\ Count(r1, 1, q, c) \in Nat /\ Count(r2, 1, q, c) \in Nat
        /\ Count(r2, 1, q, c) = Count(r1, 1, q, c)
             - One(Matches(r1[d][f][0], q, c)) + One(Matches(Empty, q, c))
    BY <1>3, <1>11, <2>1, RingChange
  <2>4. ~ Matches(Empty, q, c)
    BY QueueNumbers DEF Matches, Empty
  <2>5. Count(outQue', OutSize, q, c) = Count(outQue, OutSize, q, c) + One(Matches(a, q, c))
    BY <1>1, <2>2, <2>4 DEF One
  <2>6. Count(r2, 1, q, c) = Count(r1, 1, q, c) - One(Matches(a, q, c))
    BY <1>11, <2>3, <2>4 DEF One
  <2>7. One(Matches(a, q, c)) \in {0, 1} /\ Count(inQue, InSize, q, c) \in Nat
    BY PiecesType DEF One
  <2>8. /\ Pieces(q, c)' = Count(inQue, InSize, q, c) + Count(outQue', OutSize, q, c)
                             + Count(r2, 1, q, c)
        /\ Pieces(q, c) = Count(inQue, InSize, q, c) + Count(outQue, OutSize, q, c)
                             + Count(r1, 1, q, c)
    BY <1>1, <1>10 DEF Pieces
  <2> QED
    BY <2>2, <2>3, <2>5, <2>6, <2>7, <2>8
<1> QED
  <2>1. Stored(Answers(pq), Answers(pq'), 1, d, f, 0, Empty) /\ Answers(pq)[d][f][0] = a
    BY <1>10, <1>11
  <2>2. Sends(f, d, i, a)
    BY <1>1, <1>3, <1>5, <1>6, <1>8, <1>12, <2>1 DEF Sends
  <2> QED
    BY <1>d, <1>i, <1>a, <2>2

\* An FTL thread sends an answer.
LEMMA CheckRespKeeps ==
  ASSUME IInv, NEW f \in FTLs, CheckResp(f)
  PROVE  IInv' /\ (Exact => Exact')
<1>d. PICK d : d = ftl[f].d
  OBVIOUS
<1>i. PICK i : i = outTail[d][f]
  OBVIOUS
<1>a. PICK a : a = Head(pq[f][d])
  OBVIOUS
<1>n. PICK n : n = ftl'[f]
  OBVIOUS
<1>1. /\ ftl[f].pc = "resp" /\ outQue[d][f][i] = Empty
      /\ outQue' = [outQue EXCEPT ![d][f][i] = a]
      /\ outTail' = [outTail EXCEPT ![d][f] = Succ(@, OutSize)]
      /\ pq' = [pq EXCEPT ![f][d] = Tail(@)]
      /\ ftl' = [ftl EXCEPT ![f] = NextAnswers(f, d, pq')]
      /\ UNCHANGED <<host, issued, sqMem, sqDb, cqDb, cqMem, irq, dev, disp, completed,
                     inQue, inTail, inHead, outHead, hackLeft, now, work>>
  BY <1>d, <1>i, <1>a DEF CheckResp, hostVars, ringIn
<1>2. TypeOK
  BY DEF IInv
<1>3. /\ d \in Dispatchers /\ d \in Nat /\ FtlOk(f)
      /\ ftl \in [FTLs -> [pc : {"req", "resp"}, d : Dispatchers]]
      /\ pq \in [FTLs -> [Dispatchers -> Seq(Answer)]]
      /\ i \in 0 .. OutSize - 1 /\ Succ(i, OutSize) \in 0 .. OutSize - 1
  <2>1. d \in Dispatchers /\ FtlOk(f)
    BY <1>d, FtlNow
  <2>2. i \in 0 .. OutSize - 1
    BY <1>i, <2>1, ThreadNow
  <2>3. Succ(i, OutSize) \in 0 .. OutSize - 1
    BY <2>2, IoSizes DEF Succ
  <2> QED
    BY <1>2, <2>1, <2>2, <2>3, QueueNumbers DEF TypeOK
<1>4. /\ \A e \in Dispatchers : Len(pq[f][e]) <= 1
      /\ \A e \in Dispatchers : e < d => pq[f][e] = <<>>
      /\ pq[f][d] # <<>>
  BY <1>d, <1>1, <1>3 DEF FtlOk
<1>5. /\ a \in Answer /\ Answers(pq)[d][f][0] = a /\ pq' = [pq EXCEPT ![f][d] = <<>>]
      /\ Stored(outQue, outQue', OutSize, d, f, i, a)
      /\ Stored(Answers(pq), Answers(pq'), 1, d, f, 0, Empty)
      /\ \A q \in Queues : \A c \in Cids : Pieces(q, c)' = Pieces(q, c)
  BY <1>d, <1>i, <1>a, AnswerSent DEF Sends
<1>6. /\ pq' \in [FTLs -> [Dispatchers -> Seq(Answer)]]
      /\ \A e \in FTLs : \A g \in Dispatchers : ~ (e = f /\ g = d) => pq'[e][g] = pq[e][g]
      /\ pq'[f][d] = <<>>
  <2>1. <<>> \in Seq(Answer)
    OBVIOUS
  <2> QED
    BY <1>3, <1>5, <2>1
<1>7. DOf(a.q) = d
  <2>1. PICK r1 : r1 = Answers(pq)
    OBVIOUS
  <2>2. RoutedTo(r1, 1) /\ r1[d][f][0] = a /\ 0 \in 0 .. 1 - 1
    BY <1>5, <2>1 DEF IInv, Routed
  <2>3. a # Empty
    <3>1. a.q \in Queues
      BY <1>5 DEF Answer
    <3> QED
      BY <3>1, QueueNumbers DEF Empty
  <2> QED
    BY <1>3, <2>2, <2>3 DEF RoutedTo
<1>8. outQue' \in [Dispatchers -> [FTLs -> [0 .. OutSize - 1 -> Answer \cup {Empty}]]]
  <2>1. outQue \in [Dispatchers -> [FTLs -> [0 .. OutSize - 1 -> Answer \cup {Empty}]]]
    BY <1>2 DEF TypeOK
  <2> QED
    BY <1>1, <1>5, <2>1
<1>10. 0 \in 0 .. 1 - 1 /\ 1 \in Nat /\ OutSize \in Nat
  BY IoSizes
<1>11. RoutedTo(outQue', OutSize)
  <2>1. RoutedTo(outQue, OutSize)
    BY DEF IInv, Routed
  <2> QED
    BY <1>3, <1>5, <1>7, <1>10, <2>1, RingRouted
<1>12. RoutedTo(Answers(pq'), 1)
  <2>1. PICK r1, r2 : r1 = Answers(pq) /\ r2 = Answers(pq')
    OBVIOUS
  <2>2. RoutedTo(r1, 1) /\ Stored(r1, r2, 1, d, f, 0, Empty)
    BY <1>5, <2>1 DEF IInv, Routed
  <2>3. RoutedTo(r2, 1)
    BY <1>3, <1>10, <2>2, RingRouted
  <2> QED
    BY <2>1, <2>3
<1>14. /\ n \in [pc : {"req", "resp"}, d : Dispatchers]
       /\ n.pc = "req" => \A e \in Dispatchers : e >= n.d => pq'[f][e] = <<>>
       /\ n.pc = "resp" => /\ \A e \in Dispatchers : e < n.d => pq'[f][e] = <<>>
                           /\ pq'[f][n.d] # <<>>
  <2>1. PICK p2 : p2 = pq'
    OBVIOUS
  <2>2. n = NextAnswers(f, d, p2)
    BY <1>n, <1>1, <1>3, <2>1
  <2>3. /\ n = [pc |-> n.pc, d |-> n.d] /\ n.pc \in {"req", "resp"} /\ n.d \in Dispatchers
        /\ n.pc = "req" => /\ n.d = 0
                           /\ \A e \in Dispatchers : e >= d => p2[f][e] = <<>>
        /\ n.pc = "resp" => /\ n.d >= d /\ p2[f][n.d] # <<>>
                            /\ \A e \in Dispatchers : e >= d /\ e < n.d => p2[f][e] = <<>>
    BY <1>3, <2>2, NextAnswersFacts
  <2>4. \A e \in Dispatchers : e \in Nat /\ (e < d => p2[f][e] = <<>>)
    <3>1. \A e \in Dispatchers : e \in Nat
      BY QueueNumbers
    <3>2. ASSUME NEW e \in Dispatchers, e < d PROVE p2[f][e] = <<>>
      BY <1>3, <1>4, <1>6, <2>1, <3>1, <3>2
    <3> QED
      BY <3>1, <3>2
  <2> QED
    BY <1>3, <2>1, <2>3, <2>4
<1>15. ftl' = [ftl EXCEPT ![f] = n] /\ \A e \in FTLs : e # f => ftl'[e] = ftl[e]
  BY <1>n, <1>1, <1>3
<1>16. TypeOK'
  <2>1. ftl' \in [FTLs -> [pc : {"req", "resp"}, d : Dispatchers]]
    BY <1>3, <1>14, <1>15
  <2>2. outTail' \in [Dispatchers -> [FTLs -> 0 .. OutSize - 1]]
    BY <1>1, <1>2, <1>3, <1>i DEF TypeOK
  <2>3. UNCHANGED <<host, issued, sqMem, sqDb, cqDb, cqMem, irq, dev, disp, completed,
                    inQue, inTail, inHead, outHead, hackLeft, now, work>>
    BY <1>1
  <2>4. /\ pq' \in [FTLs -> [Dispatchers -> Seq(Answer)]]
        /\ outQue' \in [Dispatchers -> [FTLs -> [0 .. OutSize - 1 -> Answer \cup {Empty}]]]
    BY <1>6, <1>8
  <2> QED
    BY <1>2, <2>1, <2>2, <2>3, <2>4 DEF TypeOK
<1>17. ASSUME NEW e \in FTLs PROVE FtlOk(e)'
  <2>1. CASE e = f
    <3>1. \A g \in Dispatchers : Len(pq'[f][g]) <= 1
      <4>1. Len(pq'[f][d]) <= 1
        BY <1>6
      <4> QED
        BY <1>4, <1>6, <4>1
    <3> QED
      BY <1>n, <1>14, <2>1, <3>1 DEF FtlOk
  <2>2. CASE e # f
    <3>1. ftl'[e] = ftl[e] /\ \A g \in Dispatchers : pq'[e][g] = pq[e][g]
      BY <1>6, <1>15, <2>2
    <3>2. FtlOk(e) /\ ftl[e].d \in Dispatchers
      BY FtlNow
    <3> QED
      BY <3>1, <3>2 DEF FtlOk
  <2> QED
    BY <2>1, <2>2
<1>18. RoutedTo(inQue', InSize)
  BY <1>1 DEF IInv, Routed
<1>19. QueuesOk' /\ PiecesOk' /\ (Exact => Exact') /\ \A e \in Dispatchers : ThreadOk(e)' /\ CompletedOk(e)'
  <2>1. UNCHANGED <<host, sqMem, sqDb, cqMem, dev, disp, completed>>
    BY <1>1
  <2> QED
    BY <1>5, <2>1, FtlStep
<1> QED
  BY <1>11, <1>12, <1>16, <1>17, <1>18, <1>19 DEF IInv, Routed
=============================================================================
