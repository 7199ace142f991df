--------------------------- MODULE SgxFtl_proofs ---------------------------
(***************************************************************************)
(* Theorems about SgxFtl, for every geometry, logical size and threshold   *)
(* that its assumptions admit.                                             *)
(***************************************************************************)
EXTENDS SgxFtl, ListFacts

Statuses == [Pages -> {"free", "valid", "invalid"}]
LineMgmt == [free : Seq(Lines), victim : Seq(Lines), full : Seq(Lines),
             vpc : [Lines -> 0 .. PgsPerLine], ipc : [Lines -> 0 .. PgsPerLine]]

Doing == [pc : {"warm", "idle", "gc", "write", "background", "clean", "erase", "dead"},
          lpn : Nat, last : Int, victim : Lines \cup {NoLine},
          lun : 0 .. NrLuns - 1, pg : 0 .. PgsPerBlk - 1, after : {"idle", "gc"}]

\* The parts of the invariant that a write disturbs twice, once for the old
\* page and once for the new one, have the state as parameters: m for lm, st
\* for status, w for wp, and v for the line being cleaned.
AheadOf(w, p) == p[3] > w[3] \/ (p[3] = w[3] /\ p[2] >= w[2])
PagesIn(st, n, s) == {p \in Pages : LineOf(p) = n /\ st[p] = s}
CountIn(st, n, s) == Cardinality(PagesIn(st, n, s))

\* Every line is in one place, once.
Lists(m, w, v) ==
  /\ Once(m.free) /\ Once(m.victim) /\ Once(m.full)
  /\ \A n \in Lines : One(On(m.free, n)) + One(On(m.victim, n)) + One(On(m.full, n))
                        + One(n = LineOf(w)) + One(n = v) = 1

\* Free lines are erased, closed ones are written, and the line at the write
\* pointer is written up to the pointer.
Places(m, st, w) ==
  \A p \in Pages :
    /\ On(m.free, LineOf(p)) => st[p] = "free"
    /\ On(m.victim, LineOf(p)) \/ On(m.full, LineOf(p)) => st[p] # "free"
    /\ LineOf(p) = LineOf(w) => (st[p] = "free" <=> AheadOf(w, p))

\* The counts are those of the pages, and the lists those of the counts.
Counts(m, st, v) ==
  /\ \A n \in Lines \ {v} : /\ m.vpc[n] = CountIn(st, n, "valid")
                            /\ m.ipc[n] = CountIn(st, n, "invalid")
  /\ \A n \in Lines : On(m.full, n) => m.vpc[n] = PgsPerLine
  /\ \A n \in Lines : On(m.victim, n) => m.ipc[n] > 0

Sound(m, st, w, v) == Lists(m, w, v) /\ Places(m, st, w) /\ Counts(m, st, v)

\* Pages that can still be written before the thread has to ask for a line
\* that is not there.
Written(w) == w[3] * NrLuns + w[2]
FreePages(m) == Len(m.free) * PgsPerLine
Room(m, w) == FreePages(m) + PgsPerLine - Written(w)

\* Pages of the line being cleaned that the collector has still to look at,
\* when it has dealt with u blocks and k pages of the next one.
Left(u, k) == PgsPerLine - u * PgsPerBlk - k
Remaining  == Left(ctl.lun, IF ctl.pc = "erase" THEN PgsPerBlk ELSE ctl.pg)

\* The tables agree, and no logical page is left in a page already passed.
Tables ==
  /\ \A l \in Lpns : maptbl[l] # Unmapped =>
       status[maptbl[l]] = "valid" /\ rmap[maptbl[l]] = l /\ ~ Passed(maptbl[l])
  /\ \A p \in Pages : status[p] = "valid" /\ ~ Passed(p) =>
       rmap[p] \in Lpns /\ maptbl[rmap[p]] = p

\* The blocks of the victim line before the present one are erased.
Cleaned == \A p \in Pages : LineOf(p) = ctl.victim /\ LunOf(p) < ctl.lun => status[p] = "free"

Cleaning == ctl.pc \in {"clean", "erase"}
Writing  == ctl.pc \in {"gc", "write"} \/ (Cleaning /\ ctl.after = "gc")

\* What the thread is doing makes sense.
Control ==
  /\ ctl.pc # "dead"
  /\ Cleaning <=> ctl.victim \in Lines
  /\ Writing => ctl.lpn <= ctl.last /\ ctl.last < NrLpns /\ ctl.last < ctl.lpn + MaxPages
  /\ ctl.pc = "warm" => ctl.last = NrWarm - 1 /\ ctl.lpn <= NrWarm

\* There is room for all that the thread may write before it can next make
\* room.
EnoughRoom ==
  /\ ctl.pc = "warm" => Room(lm, wp) >= NrLines * PgsPerLine - ctl.lpn
  /\ ctl.pc \in {"idle", "background", "gc"} => Room(lm, wp) > PgsPerLine
  /\ ctl.pc = "write" => Room(lm, wp) > PgsPerLine + ctl.last - ctl.lpn + 1
  /\ Cleaning => Room(lm, wp) > Remaining

IInv == /\ TypeOK /\ Control
        /\ Sound(lm, status, wp, ctl.victim)
        /\ Tables /\ Cleaned /\ EnoughRoom
-----------------------------------------------------------------------------
(* Pages, and how many of them have a status. *)

\* A page is its line, its LUN and its place in the block.
LEMMA PageFacts ==
  /\ \A p \in Pages : /\ LineOf(p) \in Lines /\ p[1] = LineOf(p)
                      /\ LunOf(p) \in 0 .. NrLuns - 1 /\ p[2] = LunOf(p)
                      /\ p[3] \in 0 .. PgsPerBlk - 1
                      /\ p = <<p[1], p[2], p[3]>>
  /\ \A n \in Lines, i \in 0 .. NrLuns - 1, j \in 0 .. PgsPerBlk - 1 :
       /\ <<n, i, j>> \in Pages
       /\ LineOf(<<n, i, j>>) = n /\ LunOf(<<n, i, j>>) = i
  /\ Unmapped \notin Pages
  BY DEF Pages, LineOf, LunOf, Unmapped

\* The sizes are positive, and so is the number of pages of a line.
LEMMA Sizes ==
  /\ NrLines \in Nat \ {0} /\ NrLuns \in Nat \ {0} /\ PgsPerBlk \in Nat \ {0}
  /\ NrLpns \in Nat \ {0} /\ MaxPages \in Nat \ {0}
  /\ PgsPerLine \in Nat \ {0}
  /\ NrWarm \in 0 .. NrLpns
  /\ MaxPages <= PgsPerLine
  /\ ThresHigh \in Nat \ {0}
<1>1. /\ NrLines \in Nat \ {0} /\ NrLuns \in Nat \ {0} /\ PgsPerBlk \in Nat \ {0}
      /\ NrLpns \in Nat \ {0} /\ MaxPages \in Nat \ {0} /\ NrWarm \in 0 .. NrLpns
  BY SizesAssumption
<1>2. \A a, b \in Nat \ {0} : a * b \in Nat \ {0}
  OBVIOUS
<1>3. PgsPerLine \in Nat \ {0}
  BY <1>1, <1>2 DEF PgsPerLine
<1>4. ThresHigh \in Nat \ {0} /\ MaxPages <= PgsPerLine
  BY ThresAssumption, SpareAssumption
<1> QED
  BY <1>1, <1>3, <1>4

\* There are k numbers from 0 to k - 1.
LEMMA UpToSize ==
  ASSUME NEW k \in Nat
  PROVE  IsFiniteSet(0 .. k - 1) /\ Cardinality(0 .. k - 1) = k
<1>1. /\ IsFiniteSet(0 .. k - 1)
      /\ Cardinality(0 .. k - 1) = IF 0 > k - 1 THEN 0 ELSE k - 1 - 0 + 1
  BY FS_Interval
<1> QED
  BY <1>1

PagesOf(n) == {p \in Pages : LineOf(p) = n}

\* A line has PgsPerLine pages.
LEMMA LinePages ==
  ASSUME NEW n \in Lines
  PROVE  IsFiniteSet(PagesOf(n)) /\ Cardinality(PagesOf(n)) = PgsPerLine
<1> DEFINE U == 0 .. NrLuns - 1
           B == 0 .. PgsPerBlk - 1
           f == [x \in U \X B |-> <<n, x[1], x[2]>>]
<1>1. /\ IsFiniteSet(U) /\ Cardinality(U) = NrLuns
      /\ IsFiniteSet(B) /\ Cardinality(B) = PgsPerBlk
  BY Sizes, UpToSize
<1>2. f \in Bijection(U \X B, PagesOf(n))
  <2>1. f \in [U \X B -> PagesOf(n)]
    BY PageFacts DEF PagesOf
  <2>2. \A x, y \in U \X B : f[x] = f[y] => x = y
    OBVIOUS
  <2>3. \A p \in PagesOf(n) : \E x \in U \X B : f[x] = p
    <3> SUFFICES ASSUME NEW p \in PagesOf(n) PROVE \E x \in U \X B : f[x] = p
      OBVIOUS
    <3>1. <<p[2], p[3]>> \in U \X B /\ f[<<p[2], p[3]>>] = p
      BY PageFacts DEF PagesOf
    <3> QED
      BY <3>1
  <2> HIDE DEF f
  <2> QED
    BY <2>1, <2>2, <2>3 DEF Bijection, Injection, Surjection, IsInjective
<1> HIDE DEF U, B, f
<1>3. IsFiniteSet(U \X B) /\ Cardinality(U \X B) = NrLuns * PgsPerBlk
  BY <1>1, FS_Product
<1> QED
  BY <1>2, <1>3, FS_Bijection DEF PgsPerLine, ExistsBijection

\* The pages of a line that have a status are finitely many.
LEMMA PagesInFinite ==
  ASSUME NEW st, NEW n \in Lines, NEW s
  PROVE  IsFiniteSet(PagesIn(st, n, s))
<1>1. PagesIn(st, n, s) \in SUBSET PagesOf(n)
  BY DEF PagesIn, PagesOf
<1> QED
  BY <1>1, LinePages, FS_Subset

\* How many pages of a line have a status: between none of them and all.
LEMMA CountRange ==
  ASSUME NEW st, NEW n \in Lines, NEW s
  PROVE  CountIn(st, n, s) \in 0 .. PgsPerLine
<1>1. PagesIn(st, n, s) \in SUBSET PagesOf(n)
  BY DEF PagesIn, PagesOf
<1>2. /\ IsFiniteSet(PagesIn(st, n, s))
      /\ Cardinality(PagesIn(st, n, s)) <= PgsPerLine
  BY <1>1, LinePages, FS_Subset
<1>3. Cardinality(PagesIn(st, n, s)) \in Nat
  BY <1>2, FS_CardinalityType
<1> QED
  BY <1>2, <1>3, Sizes DEF CountIn

\* All of them.
LEMMA CountAll ==
  ASSUME NEW st, NEW n \in Lines, NEW s, CountIn(st, n, s) = PgsPerLine
  PROVE  \A p \in PagesOf(n) : st[p] = s
<1>1. PagesIn(st, n, s) \in SUBSET PagesOf(n)
  BY DEF PagesIn, PagesOf
<1>2. PagesOf(n) = PagesIn(st, n, s)
  <2>1. Cardinality(PagesOf(n)) = Cardinality(PagesIn(st, n, s))
    BY LinePages DEF CountIn
  <2> QED
    BY <1>1, <2>1, LinePages, FS_Subset
<1> QED
  BY <1>2 DEF PagesIn

\* None of them.
LEMMA CountNone ==
  ASSUME NEW st, NEW n \in Lines, NEW s
  PROVE  CountIn(st, n, s) = 0 <=> \A p \in PagesOf(n) : st[p] # s
<1>1. IsFiniteSet(PagesIn(st, n, s))
  BY PagesInFinite
<1>2. CountIn(st, n, s) = 0 <=> PagesIn(st, n, s) = {}
  BY <1>1, FS_EmptySet DEF CountIn
<1> QED
  BY <1>2 DEF PagesIn, PagesOf

\* The valid and the invalid pages are all pages that are not free.
LEMMA CountSum ==
  ASSUME NEW st \in Statuses, NEW n \in Lines
  PROVE  /\ CountIn(st, n, "valid") + CountIn(st, n, "invalid") <= PgsPerLine
         /\ (\A p \in PagesOf(n) : st[p] # "free") =>
              CountIn(st, n, "valid") + CountIn(st, n, "invalid") = PgsPerLine
<1> DEFINE V == PagesIn(st, n, "valid")
           I == PagesIn(st, n, "invalid")
<1>1. V \cup I \in SUBSET PagesOf(n) /\ V \cap I = {}
  BY DEF PagesIn, PagesOf
<1>2. (\A p \in PagesOf(n) : st[p] # "free") => V \cup I = PagesOf(n)
  BY DEF PagesIn, PagesOf, Statuses
<1>3. IsFiniteSet(V) /\ IsFiniteSet(I)
  BY PagesInFinite
<1> HIDE DEF V, I
<1>4. Cardinality(V \cup I) = Cardinality(V) + Cardinality(I) - Cardinality(V \cap I)
  BY <1>3, FS_Union
<1>5. Cardinality(V \cap I) = 0
  BY <1>1, FS_EmptySet
<1>6. CountIn(st, n, "valid") = Cardinality(V) /\ CountIn(st, n, "invalid") = Cardinality(I)
  BY DEF CountIn, V, I
<1>7. CountIn(st, n, "valid") \in Nat /\ CountIn(st, n, "invalid") \in Nat
  BY CountRange
<1>8. Cardinality(V \cup I) = CountIn(st, n, "valid") + CountIn(st, n, "invalid")
  BY <1>4, <1>5, <1>6, <1>7
<1>9. CountIn(st, n, "valid") + CountIn(st, n, "invalid") <= PgsPerLine
  BY <1>1, <1>8, LinePages, FS_Subset
<1> QED
  BY <1>2, <1>8, <1>9, LinePages

\* The count of a status that no page of the line takes on or loses.
LEMMA CountSame ==
  ASSUME NEW st, NEW new, NEW n \in Lines, NEW s,
         \A q \in Pages : LineOf(q) = n => (new[q] = s <=> st[q] = s)
  PROVE  CountIn(new, n, s) = CountIn(st, n, s)
<1>1. PagesIn(new, n, s) = PagesIn(st, n, s)
  BY DEF PagesIn
<1> QED
  BY <1>1 DEF CountIn

\* The counts of the new and of the old status of a page that changes it.
LEMMA CountChange ==
  ASSUME NEW st, NEW new, NEW p \in Pages, NEW s, NEW o,
         \A q \in Pages : new[q] = IF q = p THEN s ELSE st[q],
         st[p] = o, o # s
  PROVE  /\ CountIn(new, LineOf(p), s) = CountIn(st, LineOf(p), s) + 1
         /\ CountIn(new, LineOf(p), o) = CountIn(st, LineOf(p), o) - 1
<1>1. LineOf(p) \in Lines
  BY PageFacts
<1>2. IsFiniteSet(PagesIn(st, LineOf(p), s)) /\ IsFiniteSet(PagesIn(st, LineOf(p), o))
  BY <1>1, PagesInFinite
<1>3. /\ PagesIn(new, LineOf(p), s) = PagesIn(st, LineOf(p), s) \cup {p}
      /\ p \notin PagesIn(st, LineOf(p), s)
  BY DEF PagesIn
<1>4. /\ PagesIn(new, LineOf(p), o) = PagesIn(st, LineOf(p), o) \ {p}
      /\ p \in PagesIn(st, LineOf(p), o)
  BY DEF PagesIn
<1>5. CountIn(new, LineOf(p), s) = CountIn(st, LineOf(p), s) + 1
  BY <1>2, <1>3, FS_AddElement DEF CountIn
<1>6. CountIn(new, LineOf(p), o) = CountIn(st, LineOf(p), o) - 1
  BY <1>2, <1>4, FS_RemoveElement DEF CountIn
<1> QED
  BY <1>5, <1>6
-----------------------------------------------------------------------------
(* What the operations on lines do to the parts of the invariant. *)

\* A list without one of its nodes.
LEMMA WithoutOnce ==
  ASSUME NEW S, NEW s \in Seq(S), Once(s), NEW e, On(s, e)
  PROVE  /\ Without(s, e) \in Seq(S)
         /\ Once(Without(s, e))
         /\ \A f : On(Without(s, e), f) <=> On(s, f) /\ f # e
<1> DEFINE k == CHOOSE i \in DOMAIN s : s[i] = e
<1>1. k \in DOMAIN s /\ s[k] = e
  BY DEF On
<1>2. Without(s, e) = RemoveAt(s, k)
  BY DEF Without
<1> HIDE DEF k
<1> QED
  BY <1>1, <1>2, RemovedOnce

\* A valid page becomes invalid: a full line that loses it becomes a
\* candidate for collection, and everything else keeps its place.
LEMMA Invalidated ==
  ASSUME NEW m \in LineMgmt, NEW st \in Statuses, NEW w \in Pages, NEW v,
         Sound(m, st, w, v),
         NEW p \in Pages, st[p] = "valid", LineOf(p) # v
  PROVE  LET m2  == MarkInvalid(m, LineOf(p))
             st2 == [st EXCEPT ![p] = "invalid"]
         IN m2 \in LineMgmt /\ st2 \in Statuses /\ m2.free = m.free /\ Sound(m2, st2, w, v)
<1> DEFINE n == LineOf(p)
           m2 == MarkInvalid(m, n)
           st2 == [st EXCEPT ![p] = "invalid"]
<1>1. /\ n \in Lines /\ p \in PagesOf(n)
      /\ LineOf(w) \in Lines /\ w \in PagesOf(LineOf(w))
  BY PageFacts DEF PagesOf
<1>2. Lists(m, w, v) /\ Places(m, st, w) /\ Counts(m, st, v)
  BY DEF Sound
<1>3. /\ m.free \in Seq(Lines) /\ m.victim \in Seq(Lines) /\ m.full \in Seq(Lines)
      /\ m.vpc \in [Lines -> 0 .. PgsPerLine] /\ m.ipc \in [Lines -> 0 .. PgsPerLine]
  BY DEF LineMgmt
<1>4. st2 \in Statuses /\ \A q \in Pages : st2[q] = IF q = p THEN "invalid" ELSE st[q]
  BY DEF Statuses
<1> HIDE DEF st2
<1>5. /\ CountIn(st2, n, "invalid") = CountIn(st, n, "invalid") + 1
      /\ CountIn(st2, n, "valid") = CountIn(st, n, "valid") - 1
      /\ \A k \in Lines : \A t : k # n => CountIn(st2, k, t) = CountIn(st, k, t)
  <2>1. /\ CountIn(st2, n, "invalid") = CountIn(st, n, "invalid") + 1
        /\ CountIn(st2, n, "valid") = CountIn(st, n, "valid") - 1
    BY <1>4, CountChange
  <2>2. ASSUME NEW k \in Lines, NEW t, k # n PROVE CountIn(st2, k, t) = CountIn(st, k, t)
    <3>1. \A q \in Pages : LineOf(q) = k => (st2[q] = t <=> st[q] = t)
      BY <1>4, <2>2
    <3> QED
      BY <3>1, CountSame
  <2> QED
    BY <2>1, <2>2
<1> HIDE DEF n
<1>6. /\ m.vpc[n] = CountIn(st, n, "valid") /\ m.ipc[n] = CountIn(st, n, "invalid")
      /\ CountIn(st2, n, "valid") \in 0 .. PgsPerLine
      /\ CountIn(st2, n, "invalid") \in 0 .. PgsPerLine
      /\ CountIn(st, n, "valid") + CountIn(st, n, "invalid") <= PgsPerLine
      /\ CountIn(st, n, "valid") \in 0 .. PgsPerLine
      /\ CountIn(st, n, "invalid") \in 0 .. PgsPerLine
  <2>1. m.vpc[n] = CountIn(st, n, "valid") /\ m.ipc[n] = CountIn(st, n, "invalid")
    BY <1>1, <1>2 DEF Counts, n
  <2>2. /\ CountIn(st2, n, "valid") \in 0 .. PgsPerLine
        /\ CountIn(st2, n, "invalid") \in 0 .. PgsPerLine
    BY <1>1, CountRange
  <2>3. /\ CountIn(st, n, "valid") + CountIn(st, n, "invalid") <= PgsPerLine
        /\ CountIn(st, n, "valid") \in 0 .. PgsPerLine
        /\ CountIn(st, n, "invalid") \in 0 .. PgsPerLine
    BY <1>1, CountRange, CountSum
  <2> QED
    BY <2>1, <2>2, <2>3
<1>7. m.vpc[n] = PgsPerLine <=> On(m.full, n)
  <2>1. ASSUME m.vpc[n] = PgsPerLine PROVE On(m.full, n)
    <3>1. \A q \in PagesOf(n) : st[q] = "valid"
      BY <1>1, <1>6, <2>1, CountAll
    <3>2. ~ On(m.free, n)
      BY <1>1, <1>2, <3>1 DEF Places, n
    <3>3. ~ On(m.victim, n)
      BY <1>1, <1>2, <1>6, <2>1 DEF Counts
    <3>4. n # LineOf(w)
      BY <1>1, <1>2, <3>1, PageFacts DEF Places, AheadOf
    <3> QED
      BY <1>1, <1>2, <3>2, <3>3, <3>4 DEF Lists, One, n
  <2> QED
    BY <1>1, <1>2, <2>1 DEF Counts
<1>8. /\ m2.free = m.free
      /\ m2.vpc = [m.vpc EXCEPT ![n] = @ - 1] /\ m2.ipc = [m.ipc EXCEPT ![n] = @ + 1]
      /\ m2.victim = IF m.vpc[n] = PgsPerLine THEN Append(m.victim, n) ELSE m.victim
      /\ m2.full = IF m.vpc[n] = PgsPerLine THEN Without(m.full, n) ELSE m.full
      /\ m2 = [free |-> m2.free, victim |-> m2.victim, full |-> m2.full,
               vpc |-> m2.vpc, ipc |-> m2.ipc]
  BY DEF MarkInvalid, LineMgmt
<1> HIDE DEF m2
<1>9. /\ m2.full \in Seq(Lines) /\ Once(m2.full)
      /\ \A k : On(m2.full, k) <=> On(m.full, k) /\ k # n
  <2>1. CASE On(m.full, n)
    BY <1>2, <1>3, <1>7, <1>8, <2>1, WithoutOnce DEF Lists
  <2>2. CASE ~ On(m.full, n)
    BY <1>2, <1>3, <1>7, <1>8, <2>2 DEF Lists
  <2> QED
    BY <2>1, <2>2
<1>10. /\ m2.victim \in Seq(Lines) /\ Once(m2.victim)
       /\ \A k : On(m2.victim, k) <=> On(m.victim, k) \/ (k = n /\ On(m.full, n))
  <2>1. CASE On(m.full, n)
    <3>1. ~ On(m.victim, n)
      BY <1>1, <1>2, <2>1 DEF Lists, One
    <3> QED
      BY <1>1, <1>2, <1>3, <1>7, <1>8, <2>1, <3>1, AppendedOnce DEF Lists
  <2>2. CASE ~ On(m.full, n)
    BY <1>2, <1>3, <1>7, <1>8, <2>2 DEF Lists
  <2> QED
    BY <2>1, <2>2
<1>11. m2.vpc \in [Lines -> 0 .. PgsPerLine] /\ m2.ipc \in [Lines -> 0 .. PgsPerLine]
  BY <1>1, <1>3, <1>5, <1>6, <1>8
<1>12. m2 \in LineMgmt
  BY <1>3, <1>8, <1>9, <1>10, <1>11 DEF LineMgmt
<1>13. Lists(m2, w, v)
  BY <1>2, <1>8, <1>9, <1>10 DEF Lists, One
<1>14. Places(m2, st2, w)
  BY <1>2, <1>4, <1>8, <1>9, <1>10 DEF Places, n
<1>15. Counts(m2, st2, v)
  <2>1. \A k \in Lines \ {v} : m2.vpc[k] = CountIn(st2, k, "valid")
                               /\ m2.ipc[k] = CountIn(st2, k, "invalid")
    BY <1>1, <1>2, <1>3, <1>5, <1>6, <1>8 DEF Counts
  <2>2. \A k \in Lines : On(m2.full, k) => m2.vpc[k] = PgsPerLine
    BY <1>2, <1>3, <1>8, <1>9 DEF Counts
  <2>3. \A k \in Lines : On(m2.victim, k) => m2.ipc[k] > 0
    BY <1>1, <1>2, <1>3, <1>6, <1>8, <1>10 DEF Counts
  <2> QED
    BY <2>1, <2>2, <2>3 DEF Counts
<1> QED
  BY <1>4, <1>8, <1>12, <1>13, <1>14, <1>15 DEF Sound, m2, st2, n

\* The pages of a line that are written, by the place of the pointer.
LEMMA WrittenBounds ==
  ASSUME NEW w \in Pages
  PROVE  /\ Written(w) \in 0 .. PgsPerLine - 1
         /\ w[2] = NrLuns - 1 /\ w[3] = PgsPerBlk - 1 => Written(w) = PgsPerLine - 1
         /\ w[2] = NrLuns - 1 => Written(<<w[1], 0, w[3] + 1>>) = Written(w) + 1
         /\ Written(<<w[1], w[2] + 1, w[3]>>) = Written(w) + 1
         /\ \A n : Written(<<n, 0, 0>>) = 0
<1>1. w[2] \in 0 .. NrLuns - 1 /\ w[3] \in 0 .. PgsPerBlk - 1
  BY PageFacts
<1>2. \A a, b, c \in Nat : /\ a <= b => a * c <= b * c
                           /\ (a + 1) * c = a * c + c /\ a * c \in Nat
  OBVIOUS
<1>3. w[3] * NrLuns \in Nat /\ (w[3] + 1) * NrLuns = w[3] * NrLuns + NrLuns
  BY <1>1, <1>2, Sizes
<1>4. (w[3] + 1) * NrLuns <= PgsPerBlk * NrLuns
  <2>1. w[3] + 1 \in Nat /\ PgsPerBlk \in Nat /\ NrLuns \in Nat /\ w[3] + 1 <= PgsPerBlk
    BY <1>1, Sizes
  <2> QED
    BY <1>2, <2>1
<1>5. PgsPerBlk * NrLuns = PgsPerLine
  BY Sizes DEF PgsPerLine
<1>6. Written(w) \in 0 .. PgsPerLine - 1
  BY <1>1, <1>3, <1>4, <1>5, Sizes DEF Written
<1>7. w[2] = NrLuns - 1 /\ w[3] = PgsPerBlk - 1 => Written(w) = PgsPerLine - 1
  <2>1. w[3] = PgsPerBlk - 1 => w[3] + 1 = PgsPerBlk
    BY <1>1, Sizes
  <2>2. w[3] = PgsPerBlk - 1 => w[3] * NrLuns + NrLuns = PgsPerLine
    BY <1>3, <1>5, <2>1
  <2> QED
    BY <1>1, <1>3, <2>2, Sizes DEF Written
<1>8. w[2] = NrLuns - 1 => Written(<<w[1], 0, w[3] + 1>>) = Written(w) + 1
  BY <1>1, <1>3, Sizes DEF Written
<1>9. Written(<<w[1], w[2] + 1, w[3]>>) = Written(w) + 1
  BY <1>1, <1>3, Sizes DEF Written
<1>10. \A n : Written(<<n, 0, 0>>) = 0
  <2>1. 0 * NrLuns = 0
    BY Sizes
  <2> QED
    BY <2>1 DEF Written
<1> QED
  BY <1>6, <1>7, <1>8, <1>9, <1>10

\* The pages of the free lines are PgsPerLine more for every line more.
LEMMA FreePagesFacts ==
  ASSUME NEW m, m.free \in Seq(Lines)
  PROVE  /\ Len(m.free) \in Nat /\ FreePages(m) \in Nat
         /\ \A k : Len(k.free) = Len(m.free) - 1 => FreePages(k) = FreePages(m) - PgsPerLine
         /\ \A k : Len(k.free) = Len(m.free) + 1 => FreePages(k) = FreePages(m) + PgsPerLine
         /\ Len(m.free) >= 2 => FreePages(m) >= PgsPerLine + PgsPerLine
<1>1. \A a, b \in Nat : /\ a * b \in Nat /\ (a - 1) * b = a * b - b
                         /\ (a + 1) * b = a * b + b
                         /\ a >= 2 => a * b >= b + b
  OBVIOUS
<1>2. Len(m.free) \in Nat /\ PgsPerLine \in Nat
  BY LenProperties, Sizes
<1> QED
  BY <1>1, <1>2 DEF FreePages

\* The page at the write pointer has been written: the pointer moves on, to
\* the next line if it has to, and there is room for one page less.
LEMMA Programmed ==
  ASSUME NEW m \in LineMgmt, NEW st \in Statuses, NEW v,
         wp \in Pages, Sound(m, st, wp, v),
         ~ (LastOfLine /\ m.free = <<>>)
  PROVE  LET valid == MarkValid(m, LineOf(wp))
             m2    == Advanced(valid)
             st2   == [st EXCEPT ![wp] = "valid"]
         IN /\ st[wp] = "free" /\ st2 \in Statuses
            /\ m2 \in LineMgmt /\ NextPage(valid) \in Pages
            /\ Sound(m2, st2, NextPage(valid), v)
            /\ Room(m2, NextPage(valid)) = Room(m, wp) - 1
<1> DEFINE n == LineOf(wp)
           valid == MarkValid(m, n)
           m2 == Advanced(valid)
           w2 == NextPage(valid)
           st2 == [st EXCEPT ![wp] = "valid"]
<1>1. /\ n \in Lines /\ wp \in PagesOf(n) /\ n = wp[1]
      /\ wp[2] \in 0 .. NrLuns - 1 /\ wp[3] \in 0 .. PgsPerBlk - 1
  BY PageFacts DEF PagesOf
<1>2. Lists(m, wp, v) /\ Places(m, st, wp) /\ Counts(m, st, v)
  BY DEF Sound
<1>3. /\ m.free \in Seq(Lines) /\ m.victim \in Seq(Lines) /\ m.full \in Seq(Lines)
      /\ m.vpc \in [Lines -> 0 .. PgsPerLine] /\ m.ipc \in [Lines -> 0 .. PgsPerLine]
  BY DEF LineMgmt
<1>4. st[wp] = "free"
  BY <1>1, <1>2 DEF Places, AheadOf
<1>5. st2 \in Statuses /\ \A q \in Pages : st2[q] = IF q = wp THEN "valid" ELSE st[q]
  BY DEF Statuses
<1> HIDE DEF st2
<1>6. /\ CountIn(st2, n, "valid") = CountIn(st, n, "valid") + 1
      /\ CountIn(st2, n, "invalid") = CountIn(st, n, "invalid")
      /\ \A k \in Lines : k # n => /\ CountIn(st2, k, "valid") = CountIn(st, k, "valid")
                                   /\ CountIn(st2, k, "invalid") = CountIn(st, k, "invalid")
  <2>1. CountIn(st2, n, "valid") = CountIn(st, n, "valid") + 1
    BY <1>4, <1>5, CountChange
  <2>2. CountIn(st2, n, "invalid") = CountIn(st, n, "invalid")
    <3>1. \A q \in Pages : LineOf(q) = n => (st2[q] = "invalid" <=> st[q] = "invalid")
      BY <1>4, <1>5
    <3> HIDE DEF n
    <3> QED
      BY <1>1, <3>1, CountSame
  <2>3. ASSUME NEW k \in Lines, NEW t, k # n PROVE CountIn(st2, k, t) = CountIn(st, k, t)
    <3>1. \A q \in Pages : LineOf(q) = k => (st2[q] = t <=> st[q] = t)
      BY <1>5, <2>3
    <3> QED
      BY <3>1, CountSame
  <2> QED
    BY <2>1, <2>2, <2>3
<1> HIDE DEF n
<1>7. n # v /\ ~ On(m.free, n) /\ ~ On(m.victim, n) /\ ~ On(m.full, n)
  BY <1>1, <1>2 DEF Lists, One, n
<1>8. /\ valid.free = m.free /\ valid.victim = m.victim /\ valid.full = m.full
      /\ valid.vpc = [m.vpc EXCEPT ![n] = @ + 1] /\ valid.ipc = m.ipc
      /\ valid = [free |-> valid.free, victim |-> valid.victim, full |-> valid.full,
                  vpc |-> valid.vpc, ipc |-> valid.ipc]
  <2> HIDE DEF m2, w2
  <2>1. /\ valid = [m EXCEPT !.vpc = [m.vpc EXCEPT ![n] = @ + 1]]
        /\ m = [free |-> m.free, victim |-> m.victim, full |-> m.full,
                vpc |-> m.vpc, ipc |-> m.ipc]
    BY DEF MarkValid, LineMgmt
  <2> HIDE DEF valid
  <2> QED
    BY <2>1
<1>9. /\ valid.vpc \in [Lines -> 0 .. PgsPerLine]
      /\ valid.vpc[n] = CountIn(st2, n, "valid")
      /\ \A k \in Lines : k # n => valid.vpc[k] = m.vpc[k]
      /\ \A k \in Lines \ {v} : /\ valid.vpc[k] = CountIn(st2, k, "valid")
                                /\ valid.ipc[k] = CountIn(st2, k, "invalid")
  <2>1. CountIn(st2, n, "valid") \in 0 .. PgsPerLine /\ CountIn(st, n, "valid") \in 0 .. PgsPerLine
    BY <1>1, CountRange
  <2>2. m.vpc[n] = CountIn(st, n, "valid")
    BY <1>1, <1>2, <1>7 DEF Counts
  <2> QED
    BY <1>1, <1>2, <1>3, <1>6, <1>8, <2>1, <2>2 DEF Counts
<1> HIDE DEF valid
<1>10. CASE ~ LastOfLine
  <2>1. m2 = valid
    BY <1>10 DEF Advanced
  <2>2. \/ wp[2] = NrLuns - 1 /\ wp[3] < PgsPerBlk - 1 /\ w2 = <<wp[1], 0, wp[3] + 1>>
        \/ wp[2] < NrLuns - 1 /\ w2 = <<wp[1], wp[2] + 1, wp[3]>>
    <3>1. CASE wp[2] = NrLuns - 1
      <4>1. w2 = <<wp[1], 0, wp[3] + 1>>
        BY <1>10, <3>1 DEF NextPage
      <4>2. wp[3] < PgsPerBlk - 1
        BY <1>1, <1>10, <3>1, Sizes DEF LastOfLine
      <4> QED
        BY <3>1, <4>1, <4>2
    <3>2. CASE wp[2] # NrLuns - 1
      <4>1. w2 = <<wp[1], wp[2] + 1, wp[3]>>
        BY <1>10, <3>2 DEF NextPage
      <4>2. wp[2] < NrLuns - 1
        BY <1>1, <3>2, Sizes
      <4> QED
        BY <4>1, <4>2
    <3> QED
      BY <3>1, <3>2
  <2> HIDE DEF m2, w2
  <2>3. w2 \in Pages /\ LineOf(w2) = n
    <3>1. CASE w2 = <<wp[1], 0, wp[3] + 1>> /\ wp[3] < PgsPerBlk - 1
      <4>1. 0 \in 0 .. NrLuns - 1 /\ wp[3] + 1 \in 0 .. PgsPerBlk - 1
        BY <1>1, <3>1, Sizes
      <4> QED
        BY <1>1, <3>1, <4>1, PageFacts
    <3>2. CASE w2 = <<wp[1], wp[2] + 1, wp[3]>> /\ wp[2] < NrLuns - 1
      <4>1. wp[2] + 1 \in 0 .. NrLuns - 1
        BY <1>1, <3>2, Sizes
      <4> QED
        BY <1>1, <3>2, <4>1, PageFacts
    <3> QED
      BY <2>2, <3>1, <3>2
  <2>4. \A q \in Pages : LineOf(q) = n => (AheadOf(w2, q) <=> AheadOf(wp, q) /\ q # wp)
    <3> SUFFICES ASSUME NEW q \in Pages, LineOf(q) = n
                 PROVE  AheadOf(w2, q) <=> AheadOf(wp, q) /\ q # wp
      OBVIOUS
    <3>1. /\ q[1] = wp[1] /\ q[2] \in 0 .. NrLuns - 1 /\ q[3] \in 0 .. PgsPerBlk - 1
          /\ q = <<q[1], q[2], q[3]>> /\ wp = <<wp[1], wp[2], wp[3]>>
      BY <1>1, PageFacts
    <3>2. q = wp <=> q[2] = wp[2] /\ q[3] = wp[3]
      BY <3>1
    <3>3. CASE wp[2] = NrLuns - 1 /\ w2[2] = 0 /\ w2[3] = wp[3] + 1
      BY <1>1, <3>1, <3>2, <3>3, Sizes DEF AheadOf
    <3>4. CASE w2[2] = wp[2] + 1 /\ w2[3] = wp[3]
      BY <1>1, <3>1, <3>2, <3>4, Sizes DEF AheadOf
    <3> QED
      BY <2>2, <3>3, <3>4
  <2>5. m2 \in LineMgmt
    BY <1>3, <1>8, <1>9, <2>1 DEF LineMgmt
  <2>6. Lists(m2, w2, v)
    BY <1>2, <1>8, <2>1, <2>3 DEF Lists, n
  <2>7. Places(m2, st2, w2)
    BY <1>1, <1>2, <1>5, <1>7, <1>8, <2>1, <2>3, <2>4 DEF Places, n
  <2>8. Counts(m2, st2, v)
    BY <1>2, <1>7, <1>8, <1>9, <2>1 DEF Counts
  <2>9. Room(m2, w2) = Room(m, wp) - 1
    <3>1. Written(w2) = Written(wp) + 1 /\ Written(wp) \in Nat
      <4>1. /\ Written(wp) \in 0 .. PgsPerLine - 1
            /\ wp[2] = NrLuns - 1 => Written(<<wp[1], 0, wp[3] + 1>>) = Written(wp) + 1
            /\ Written(<<wp[1], wp[2] + 1, wp[3]>>) = Written(wp) + 1
        BY WrittenBounds
      <4> QED
        BY <2>2, <4>1
    <3>2. FreePages(m) \in Nat
      BY <1>3, FreePagesFacts
    <3>3. FreePages(m2) = FreePages(m)
      BY <1>8, <2>1 DEF FreePages
    <3> QED
      BY <3>1, <3>2, <3>3, Sizes DEF Room
  <2> QED
    BY <1>4, <1>5, <2>3, <2>5, <2>6, <2>7, <2>8, <2>9 DEF Sound, m2, w2, valid, st2, n
<1>11. CASE LastOfLine
  <2> DEFINE h == Head(m.free)
  <2>1. /\ m.free # <<>> /\ h \in Lines /\ On(m.free, h)
        /\ Tail(m.free) \in Seq(Lines) /\ Once(Tail(m.free))
        /\ \A k : On(Tail(m.free), k) <=> On(m.free, k) /\ k # h
        /\ Len(m.free) \in Nat \ {0} /\ Len(Tail(m.free)) = Len(m.free) - 1
    BY <1>2, <1>3, <1>11, TailOnce DEF Lists
  <2>2. w2 = <<h, 0, 0>>
    BY <1>8, <1>11 DEF NextPage
  <2>3. /\ m2.free = Tail(m.free) /\ m2.vpc = valid.vpc /\ m2.ipc = valid.ipc
        /\ m2.full = IF valid.vpc[n] = PgsPerLine THEN Append(m.full, n) ELSE m.full
        /\ m2.victim = IF valid.vpc[n] = PgsPerLine THEN m.victim ELSE Append(m.victim, n)
        /\ m2 = [free |-> m2.free, victim |-> m2.victim, full |-> m2.full,
                 vpc |-> m2.vpc, ipc |-> m2.ipc]
    <3>1. CASE valid.vpc[n] = PgsPerLine
      BY <1>1, <1>8, <1>11, <2>1, <3>1 DEF Advanced
    <3>2. CASE valid.vpc[n] # PgsPerLine
      BY <1>1, <1>8, <1>11, <2>1, <3>2 DEF Advanced
    <3> QED
      BY <3>1, <3>2
  <2> HIDE DEF m2, w2, h
  <2>4. w2 \in Pages /\ LineOf(w2) = h /\ w2[2] = 0 /\ w2[3] = 0
    <3>1. 0 \in 0 .. NrLuns - 1 /\ 0 \in 0 .. PgsPerBlk - 1
      BY Sizes
    <3> QED
      BY <2>1, <2>2, <3>1, PageFacts
  <2>5. /\ m2.full \in Seq(Lines) /\ Once(m2.full)
        /\ \A k : On(m2.full, k) <=> On(m.full, k) \/ (k = n /\ valid.vpc[n] = PgsPerLine)
    <3>1. CASE valid.vpc[n] = PgsPerLine
      BY <1>1, <1>2, <1>3, <1>7, <2>3, <3>1, AppendedOnce DEF Lists
    <3>2. CASE valid.vpc[n] # PgsPerLine
      BY <1>2, <1>3, <2>3, <3>2 DEF Lists
    <3> QED
      BY <3>1, <3>2
  <2>6. /\ m2.victim \in Seq(Lines) /\ Once(m2.victim)
        /\ \A k : On(m2.victim, k) <=> On(m.victim, k) \/ (k = n /\ valid.vpc[n] # PgsPerLine)
    <3>1. CASE valid.vpc[n] # PgsPerLine
      <4>1. m2.victim = Append(m.victim, n) /\ Once(m.victim)
        BY <1>2, <2>3, <3>1 DEF Lists
      <4> QED
        BY <1>1, <1>3, <1>7, <3>1, <4>1, AppendedOnce
    <3>2. CASE valid.vpc[n] = PgsPerLine
      BY <1>2, <1>3, <2>3, <3>2 DEF Lists
    <3> QED
      BY <3>1, <3>2
  <2>7. m2 \in LineMgmt
    BY <1>3, <1>8, <1>9, <2>1, <2>3, <2>5, <2>6 DEF LineMgmt
  <2>8. Lists(m2, w2, v)
    <3>1. h # n /\ h # v
      BY <1>2, <1>7, <2>1 DEF Lists, One
    <3> QED
      BY <1>2, <1>7, <2>1, <2>3, <2>4, <2>5, <2>6, <3>1 DEF Lists, One, n
  <2>9. \A q \in PagesOf(n) : st2[q] # "free"
    <3> SUFFICES ASSUME NEW q \in PagesOf(n), q # wp PROVE st[q] # "free"
      BY <1>5 DEF PagesOf
    <3>1. /\ q \in Pages /\ LineOf(q) = n /\ q[1] = wp[1]
          /\ q[2] \in 0 .. NrLuns - 1 /\ q[3] \in 0 .. PgsPerBlk - 1
          /\ q = <<q[1], q[2], q[3]>> /\ wp = <<wp[1], wp[2], wp[3]>>
      BY <1>1, PageFacts DEF PagesOf
    <3>2. ~ AheadOf(wp, q)
      BY <1>1, <1>11, <3>1, Sizes DEF LastOfLine, AheadOf
    <3> QED
      BY <1>2, <3>1, <3>2 DEF Places, n
  <2>10. Places(m2, st2, w2)
    <3> SUFFICES ASSUME NEW q \in Pages
                 PROVE  /\ On(m2.free, LineOf(q)) => st2[q] = "free"
                        /\ On(m2.victim, LineOf(q)) \/ On(m2.full, LineOf(q)) => st2[q] # "free"
                        /\ LineOf(q) = LineOf(w2) => (st2[q] = "free" <=> AheadOf(w2, q))
      BY DEF Places
    <3>1. q[2] \in 0 .. NrLuns - 1 /\ q[3] \in 0 .. PgsPerBlk - 1
      BY PageFacts
    <3>2. AheadOf(w2, q)
      BY <2>4, <3>1, Sizes DEF AheadOf
    <3>3. On(m2.free, LineOf(q)) => st2[q] = "free"
      BY <1>2, <1>5, <1>7, <2>1, <2>3 DEF Places, n
    <3>4. On(m2.victim, LineOf(q)) \/ On(m2.full, LineOf(q)) => st2[q] # "free"
      BY <1>2, <1>5, <2>5, <2>6, <2>9 DEF Places, PagesOf
    <3>5. LineOf(q) = LineOf(w2) => st2[q] = "free"
      BY <1>2, <1>5, <1>7, <2>1, <2>4 DEF Places, n
    <3> QED
      BY <3>2, <3>3, <3>4, <3>5
  <2>11. Counts(m2, st2, v)
    <3>1. valid.vpc[n] # PgsPerLine => m2.ipc[n] > 0
      <4>1. CountIn(st2, n, "valid") + CountIn(st2, n, "invalid") = PgsPerLine
        BY <1>1, <1>5, <2>9, CountSum
      <4>2. CountIn(st2, n, "valid") \in 0 .. PgsPerLine /\ CountIn(st2, n, "invalid") \in 0 .. PgsPerLine
        BY <1>1, CountRange
      <4>3. valid.vpc[n] = CountIn(st2, n, "valid") /\ m2.ipc[n] = CountIn(st2, n, "invalid")
        BY <1>1, <1>7, <1>9, <2>3
      <4> QED
        BY <4>1, <4>2, <4>3, Sizes
    <3> QED
      BY <1>2, <1>7, <1>8, <1>9, <2>3, <2>5, <2>6, <3>1 DEF Counts
  <2>12. Room(m2, w2) = Room(m, wp) - 1
    <3>1. Written(w2) = 0 /\ Written(wp) = PgsPerLine - 1
      BY <1>11, <2>2, WrittenBounds DEF LastOfLine
    <3>2. FreePages(m) \in Nat /\ FreePages(m2) = FreePages(m) - PgsPerLine
      BY <1>3, <2>1, <2>3, <2>7, FreePagesFacts DEF LineMgmt
    <3> QED
      BY <3>1, <3>2, Sizes DEF Room
  <2> QED
    BY <1>4, <1>5, <2>4, <2>7, <2>8, <2>10, <2>11, <2>12 DEF Sound, m2, w2, valid, st2, n
<1> QED
  BY <1>10, <1>11

\* What line_mgmt is made of.
LEMMA Fields ==
  ASSUME NEW m \in LineMgmt
  PROVE  m = [free |-> m.free, victim |-> m.victim, full |-> m.full,
              vpc |-> m.vpc, ipc |-> m.ipc]
  BY DEF LineMgmt

\* No line is called NoLine.
LEMMA NoLineFact == NoLine \notin Lines
  BY DEF NoLine, Lines

\* The line chosen for collection stands on the victim list.
LEMMA FewestListed ==
  ASSUME lm \in LineMgmt, lm.victim # <<>>
  PROVE  Fewest \in Lines /\ On(lm.victim, Fewest)
<1> DEFINE list == lm.victim
           count(i) == lm.vpc[list[i]]
           least == {i \in DOMAIN list : \A j \in DOMAIN list :
                       count(i) < count(j) \/ (count(i) = count(j) /\ i <= j)}
<1>1. /\ list \in Seq(Lines) /\ DOMAIN list = 1 .. Len(list) /\ Len(list) \in Nat \ {0}
      /\ \A i \in DOMAIN list : list[i] \in Lines
  <2>1. list \in Seq(Lines)
    BY DEF LineMgmt
  <2> QED
    BY <2>1, LenProperties, EmptySeq, ElementOfSeq
<1>2. \A i \in DOMAIN list : count(i) \in Nat
  <2>1. lm.vpc \in [Lines -> 0 .. PgsPerLine]
    BY DEF LineMgmt
  <2> QED
    BY <1>1, <2>1
<1>3. Fewest = list[CHOOSE i \in least : TRUE]
  BY DEF Fewest
<1> HIDE DEF list, count
<1>4. PICK c \in {count(i) : i \in DOMAIN list} : \A d \in {count(i) : i \in DOMAIN list} : c <= d
  <2>1. {count(i) : i \in DOMAIN list} \subseteq Nat /\ {count(i) : i \in DOMAIN list} # {}
    <3>1. 1 \in DOMAIN list
      BY <1>1
    <3> QED
      BY <1>2, <3>1
  <2> QED
    BY <2>1, LeastNumber
<1>5. PICK k \in {i \in DOMAIN list : count(i) = c} : \A j \in {i \in DOMAIN list : count(i) = c} : k <= j
  <2>1. {i \in DOMAIN list : count(i) = c} \subseteq Nat /\ {i \in DOMAIN list : count(i) = c} # {}
    BY <1>1, <1>4
  <2> QED
    BY <2>1, LeastNumber
<1>6. k \in least
  <2>1. k \in DOMAIN list /\ count(k) = c
    BY <1>5
  <2>2. ASSUME NEW j \in DOMAIN list
        PROVE  count(k) < count(j) \/ (count(k) = count(j) /\ k <= j)
    <3>1. c <= count(j) /\ c \in Nat /\ count(j) \in Nat
      BY <1>2, <1>4, <2>1
    <3>2. CASE count(j) = c
      BY <1>5, <2>1, <3>2
    <3>3. CASE count(j) # c
      BY <2>1, <3>1, <3>3
    <3> QED
      BY <3>2, <3>3
  <2> QED
    BY <2>1, <2>2
<1>7. (CHOOSE i \in least : TRUE) \in DOMAIN list
  <2>1. (CHOOSE i \in least : TRUE) \in least
    <3> HIDE DEF least
    <3> QED
      BY <1>6
  <2> QED
    BY <2>1
<1> QED
  BY <1>1, <1>3, <1>7 DEF On, list

\* A candidate leaves its list to be cleaned.
LEMMA Taken ==
  ASSUME NEW m \in LineMgmt, NEW st \in Statuses, NEW w, Sound(m, st, w, NoLine),
         NEW k \in Lines, On(m.victim, k)
  PROVE  LET m2 == [m EXCEPT !.victim = Without(@, k)]
         IN m2 \in LineMgmt /\ m2.free = m.free /\ Sound(m2, st, w, k)
<1> DEFINE m2 == [m EXCEPT !.victim = Without(@, k)]
<1>1. Lists(m, w, NoLine) /\ Places(m, st, w) /\ Counts(m, st, NoLine)
  BY DEF Sound
<1>2. m.victim \in Seq(Lines)
  BY DEF LineMgmt
<1>3. /\ m2.free = m.free /\ m2.full = m.full /\ m2.vpc = m.vpc /\ m2.ipc = m.ipc
      /\ m2.victim = Without(m.victim, k)
      /\ m2 = [free |-> m2.free, victim |-> m2.victim, full |-> m2.full,
               vpc |-> m2.vpc, ipc |-> m2.ipc]
  BY Fields
<1> HIDE DEF m2
<1>4. /\ m2.victim \in Seq(Lines) /\ Once(m2.victim)
      /\ \A n : On(m2.victim, n) <=> On(m.victim, n) /\ n # k
  <2>1. Once(m.victim)
    BY <1>1 DEF Lists
  <2> QED
    BY <1>2, <1>3, <2>1, WithoutOnce
<1>5. m2 \in LineMgmt
  BY <1>3, <1>4 DEF LineMgmt
<1>6. Lists(m2, w, k)
  BY <1>1, <1>3, <1>4, NoLineFact DEF Lists, One
<1>7. Places(m2, st, w) /\ Counts(m2, st, k)
  BY <1>1, <1>3, <1>4, NoLineFact DEF Places, Counts
<1> QED
  BY <1>3, <1>5, <1>6, <1>7 DEF Sound, m2

\* Only pages of the line being cleaned change.
LEMMA Erasing ==
  ASSUME NEW m, NEW st, NEW w, NEW v \in Lines, Sound(m, st, w, v), LineOf(w) \in Lines,
         NEW st2, \A p \in Pages : LineOf(p) # v => st2[p] = st[p]
  PROVE  Sound(m, st2, w, v)
<1>1. Lists(m, w, v) /\ Places(m, st, w) /\ Counts(m, st, v)
  BY DEF Sound
<1>2. ~ On(m.free, v) /\ ~ On(m.victim, v) /\ ~ On(m.full, v) /\ v # LineOf(w)
  BY <1>1 DEF Lists, One
<1>3. Places(m, st2, w)
  BY <1>1, <1>2 DEF Places
<1>4. Counts(m, st2, v)
  <2>1. ASSUME NEW n \in Lines \ {v}, NEW s PROVE CountIn(st2, n, s) = CountIn(st, n, s)
    <3>1. \A q \in Pages : LineOf(q) = n => (st2[q] = s <=> st[q] = s)
      OBVIOUS
    <3> QED
      BY <3>1, CountSame
  <2> QED
    BY <1>1, <2>1 DEF Counts
<1> QED
  BY <1>1, <1>3, <1>4 DEF Sound

\* The clean line becomes a free one.
LEMMA Freed ==
  ASSUME NEW m \in LineMgmt, NEW st \in Statuses, NEW w, LineOf(w) \in Lines,
         ctl.victim \in Lines, Sound(m, st, w, ctl.victim),
         \A p \in Pages : LineOf(p) = ctl.victim => st[p] = "free"
  PROVE  /\ FreedLine(m) \in LineMgmt
         /\ Sound(FreedLine(m), st, w, NoLine)
         /\ Room(FreedLine(m), w) = FreePages(m) + PgsPerLine + PgsPerLine - Written(w)
<1> DEFINE v == ctl.victim
           m2 == FreedLine(m)
<1>1. Lists(m, w, v) /\ Places(m, st, w) /\ Counts(m, st, v)
  BY DEF Sound
<1>2. /\ m.free \in Seq(Lines)
      /\ m.vpc \in [Lines -> 0 .. PgsPerLine] /\ m.ipc \in [Lines -> 0 .. PgsPerLine]
  BY DEF LineMgmt
<1>3. /\ m2.free = Append(m.free, v) /\ m2.victim = m.victim /\ m2.full = m.full
      /\ m2.vpc = [m.vpc EXCEPT ![v] = 0] /\ m2.ipc = [m.ipc EXCEPT ![v] = 0]
      /\ m2 = [free |-> m2.free, victim |-> m2.victim, full |-> m2.full,
               vpc |-> m2.vpc, ipc |-> m2.ipc]
  <2> DEFINE m1 == [m EXCEPT !.free = Append(@, v)]
  <2>1. m2 = [[m1 EXCEPT !.vpc[v] = 0] EXCEPT !.ipc[v] = 0]
    BY DEF FreedLine
  <2>2. m1 = [free |-> Append(m.free, v), victim |-> m.victim, full |-> m.full,
              vpc |-> m.vpc, ipc |-> m.ipc]
    <3> HIDE DEF m2, v
    <3>1. m = [free |-> m.free, victim |-> m.victim, full |-> m.full,
               vpc |-> m.vpc, ipc |-> m.ipc]
      BY Fields
    <3>2. \A f : [m EXCEPT !.free = f] = [free |-> f, victim |-> m.victim, full |-> m.full,
                                          vpc |-> m.vpc, ipc |-> m.ipc]
      <4> HIDE DEF m1
      <4> QED
        BY <3>1
    <3> QED
      BY <3>2
  <2> HIDE DEF m1, m2, v
  <2> QED
    BY <2>1, <2>2
<1> HIDE DEF m2, v
<1>4. v \in Lines /\ \A p \in Pages : LineOf(p) = v => st[p] = "free"
  BY DEF v
<1>5. ~ On(m.free, v) /\ ~ On(m.victim, v) /\ ~ On(m.full, v) /\ v # LineOf(w)
  BY <1>1, <1>4 DEF Lists, One
<1>6. /\ m2.free \in Seq(Lines) /\ Once(m2.free)
      /\ \A n : On(m2.free, n) <=> On(m.free, n) \/ n = v
  <2>1. Once(m.free)
    BY <1>1 DEF Lists
  <2> QED
    BY <1>2, <1>3, <1>4, <1>5, <2>1, AppendedOnce
<1>7. m2.vpc \in [Lines -> 0 .. PgsPerLine] /\ m2.ipc \in [Lines -> 0 .. PgsPerLine]
  BY <1>2, <1>3, <1>4, Sizes
<1>8. m2 \in LineMgmt
  BY <1>3, <1>6, <1>7 DEF LineMgmt
<1>9. Lists(m2, w, NoLine)
  BY <1>1, <1>3, <1>5, <1>6, NoLineFact DEF Lists, One
<1>10. Places(m2, st, w)
  BY <1>1, <1>3, <1>4, <1>5, <1>6 DEF Places
<1>11. Counts(m2, st, NoLine)
  <2>1. CountIn(st, v, "valid") = 0 /\ CountIn(st, v, "invalid") = 0
    <3>1. \A p \in PagesOf(v) : st[p] # "valid" /\ st[p] # "invalid"
      BY <1>4 DEF PagesOf
    <3> QED
      BY <1>4, <3>1, CountNone
  <2>2. \A n \in Lines : m2.vpc[n] = IF n = v THEN 0 ELSE m.vpc[n]
    BY <1>2, <1>3
  <2>3. \A n \in Lines : m2.ipc[n] = IF n = v THEN 0 ELSE m.ipc[n]
    BY <1>2, <1>3
  <2> QED
    BY <1>1, <1>3, <1>5, <2>1, <2>2, <2>3 DEF Counts
<1>12. Room(m2, w) = FreePages(m) + PgsPerLine + PgsPerLine - Written(w)
  <2>1. Len(m2.free) = Len(m.free) + 1
    BY <1>2, <1>3, <1>4, AppendProperties
  <2>2. FreePages(m2) = FreePages(m) + PgsPerLine
    BY <1>2, <2>1, FreePagesFacts
  <2> QED
    BY <2>2 DEF Room
<1> QED
  BY <1>8, <1>9, <1>10, <1>11, <1>12 DEF Sound, m2, v
-----------------------------------------------------------------------------
(* The invariant. *)

\* What the invariant says of the types of the variables.
LEMMA Typed ==
  ASSUME TypeOK
  PROVE  /\ maptbl \in [Lpns -> Pages \cup {Unmapped}]
         /\ rmap \in [Pages -> Lpns \cup {NoLpn}]
         /\ status \in Statuses /\ lm \in LineMgmt /\ wp \in Pages
         /\ LineOf(wp) \in Lines
         /\ ctl.lpn \in Nat /\ ctl.last \in Int /\ ctl.after \in {"idle", "gc"}
         /\ ctl.victim \in Lines \cup {NoLine}
         /\ ctl.lun \in 0 .. NrLuns - 1 /\ ctl.pg \in 0 .. PgsPerBlk - 1
         /\ ctl.pc \in {"warm", "idle", "gc", "write", "background", "clean", "erase", "dead"}
         /\ Room(lm, wp) \in Int /\ FreePages(lm) \in Nat
         /\ Written(wp) \in 0 .. PgsPerLine - 1
         /\ ctl = [pc |-> ctl.pc, lpn |-> ctl.lpn, last |-> ctl.last, victim |-> ctl.victim,
                   lun |-> ctl.lun, pg |-> ctl.pg, after |-> ctl.after]
<1>1. /\ maptbl \in [Lpns -> Pages \cup {Unmapped}]
      /\ rmap \in [Pages -> Lpns \cup {NoLpn}]
      /\ status \in Statuses /\ lm \in LineMgmt /\ wp \in Pages
  BY DEF TypeOK, Statuses, LineMgmt
<1>2. /\ ctl.lpn \in Nat /\ ctl.last \in Int /\ ctl.after \in {"idle", "gc"}
      /\ ctl.victim \in Lines \cup {NoLine}
      /\ ctl.lun \in 0 .. NrLuns - 1 /\ ctl.pg \in 0 .. PgsPerBlk - 1
      /\ ctl.pc \in {"warm", "idle", "gc", "write", "background", "clean", "erase", "dead"}
      /\ ctl = [pc |-> ctl.pc, lpn |-> ctl.lpn, last |-> ctl.last, victim |-> ctl.victim,
                lun |-> ctl.lun, pg |-> ctl.pg, after |-> ctl.after]
  BY DEF TypeOK
<1>3. LineOf(wp) \in Lines
  BY <1>1, PageFacts
<1>4. FreePages(lm) \in Nat
  BY <1>1, FreePagesFacts DEF LineMgmt
<1>5. Written(wp) \in 0 .. PgsPerLine - 1
  BY <1>1, WrittenBounds
<1>6. Room(lm, wp) \in Int
  BY <1>4, <1>5, Sizes DEF Room
<1> QED
  BY <1>1, <1>2, <1>3, <1>4, <1>5, <1>6

\* The flash is larger than the logical pages by more than the line at the
\* write pointer and the lines kept for forced collection.
LEMMA Spare ==
  /\ NrLpns + PgsPerLine + PgsPerLine < NrLines * PgsPerLine
  /\ NrLines * PgsPerLine \in Nat
  /\ \A f \in Nat : f * PgsPerLine <= NrLpns => f < NrLines - 1 - ThresHigh
<1>1. \A a, b, c \in Nat : b >= 1 => /\ (a - 1 - b) * c <= a * c - c - c
                                   /\ a * c \in Nat /\ (a - 1 - b) * c \in Int
  <2> SUFFICES ASSUME NEW a \in Nat, NEW b \in Nat, NEW c \in Nat, b >= 1
               PROVE  /\ (a - 1 - b) * c <= a * c - c - c
                      /\ a * c \in Nat /\ (a - 1 - b) * c \in Int
    OBVIOUS
  <2>1. (a - 1 - b) * c = a * c - c - b * c
    OBVIOUS
  <2>2. b * c >= c /\ b * c \in Nat /\ a * c \in Nat
    OBVIOUS
  <2> QED
    BY <2>1, <2>2
<1>2. NrLpns < (NrLines - 1 - ThresHigh) * PgsPerLine
  BY SpareAssumption
<1>3. NrLines \in Nat /\ ThresHigh \in Nat /\ ThresHigh >= 1 /\ PgsPerLine \in Nat /\ NrLpns \in Nat
  BY Sizes
<1>4. NrLpns + PgsPerLine + PgsPerLine < NrLines * PgsPerLine /\ NrLines * PgsPerLine \in Nat
  BY <1>1, <1>2, <1>3
<1>5. \A a, b \in Int : \A c \in Nat : a <= b => a * c <= b * c
  OBVIOUS
<1>6. ASSUME NEW f \in Nat, f * PgsPerLine <= NrLpns PROVE f < NrLines - 1 - ThresHigh
  <2>1. SUFFICES ASSUME NrLines - 1 - ThresHigh <= f PROVE FALSE
    BY <1>3
  <2>2. (NrLines - 1 - ThresHigh) * PgsPerLine <= f * PgsPerLine
    BY <1>3, <1>5, <2>1
  <2> DEFINE x == (NrLines - 1 - ThresHigh) * PgsPerLine
             y == f * PgsPerLine
  <2>3. x \in Int /\ y \in Int
    BY <1>3
  <2>4. NrLpns < x /\ x <= y /\ y <= NrLpns
    BY <1>2, <1>6, <2>2
  <2> HIDE DEF x, y
  <2> QED
    BY <1>3, <2>3, <2>4
<1> QED
  BY <1>4, <1>6

\* When there is nothing to collect, the closed lines are full of valid
\* pages, each with a logical page of its own: they are so few that more
\* than ThresHigh lines are free.
LEMMA NothingToCollect ==
  ASSUME IInv, ctl.pc = "gc", lm.victim = <<>>
  PROVE  Len(lm.free) > ThresHigh
<1> DEFINE F == {n \in Lines : On(lm.full, n)}
           G == {n \in Lines : On(lm.free, n)}
           U == 0 .. NrLuns - 1
           B == 0 .. PgsPerBlk - 1
           f == [x \in F \X (U \X B) |-> rmap[<<x[1], x[2][1], x[2][2]>>]]
<1>1. /\ lm \in LineMgmt /\ status \in Statuses /\ LineOf(wp) \in Lines
      /\ ctl.victim = NoLine /\ ctl.victim \notin Lines
      /\ Lists(lm, wp, ctl.victim) /\ Counts(lm, status, ctl.victim)
      /\ Tables
  BY Typed, NoLineFact DEF IInv, Sound, Control, Cleaning
<1>2. /\ lm.free \in Seq(Lines) /\ lm.full \in Seq(Lines)
      /\ \A n : ~ On(lm.victim, n)
  BY <1>1 DEF LineMgmt, On
<1>3. \A p \in Pages : On(lm.full, LineOf(p)) => status[p] = "valid"
  <2> SUFFICES ASSUME NEW p \in Pages, On(lm.full, LineOf(p)) PROVE status[p] = "valid"
    OBVIOUS
  <2>1. LineOf(p) \in Lines /\ p \in PagesOf(LineOf(p))
    BY PageFacts DEF PagesOf
  <2>2. CountIn(status, LineOf(p), "valid") = PgsPerLine
    BY <1>1, <2>1 DEF Counts
  <2> QED
    BY <2>1, <2>2, CountAll
<1>4. \A p \in Pages : On(lm.full, LineOf(p)) => rmap[p] \in Lpns /\ maptbl[rmap[p]] = p
  <2>1. \A p \in Pages : ~ Passed(p)
    BY <1>1, PageFacts DEF Passed
  <2> QED
    BY <1>1, <1>3, <2>1 DEF Tables
<1>5. f \in Injection(F \X (U \X B), Lpns)
  <2>1. \A x \in F \X (U \X B) : /\ <<x[1], x[2][1], x[2][2]>> \in Pages
                                 /\ On(lm.full, LineOf(<<x[1], x[2][1], x[2][2]>>))
    BY PageFacts
  <2>2. f \in [F \X (U \X B) -> Lpns]
    BY <1>4, <2>1
  <2>3. ASSUME NEW x \in F \X (U \X B), NEW y \in F \X (U \X B), f[x] = f[y] PROVE x = y
    <3>1. <<x[1], x[2][1], x[2][2]>> = <<y[1], y[2][1], y[2][2]>>
      <4> HIDE DEF F, U, B
      <4>1. rmap[<<x[1], x[2][1], x[2][2]>>] = rmap[<<y[1], y[2][1], y[2][2]>>]
        BY <2>3
      <4> QED
        BY <1>4, <2>1, <4>1
    <3>2. x = <<x[1], <<x[2][1], x[2][2]>>>> /\ y = <<y[1], <<y[2][1], y[2][2]>>>>
      OBVIOUS
    <3> QED
      BY <3>1, <3>2
  <2> HIDE DEF f
  <2> QED
    BY <2>2, <2>3 DEF Injection, IsInjective
<1>6. /\ IsFiniteSet(U) /\ Cardinality(U) = NrLuns
      /\ IsFiniteSet(B) /\ Cardinality(B) = PgsPerBlk
      /\ IsFiniteSet(Lpns) /\ Cardinality(Lpns) = NrLpns
      /\ IsFiniteSet(Lines) /\ Cardinality(Lines) = NrLines
  BY Sizes, UpToSize DEF Lpns, Lines
<1>7. IsFiniteSet(F) /\ Cardinality(F) \in Nat
  <2>1. F \in SUBSET Lines
    OBVIOUS
  <2> HIDE DEF F
  <2>2. IsFiniteSet(F)
    BY <1>6, <2>1, FS_Subset
  <2> QED
    BY <2>2, FS_CardinalityType
<1>8. IsFiniteSet(G) /\ Cardinality(G) \in Nat /\ Cardinality(G) <= Len(lm.free)
  BY <1>2, HeldCounted, FS_CardinalityType
<1>9. Lines \subseteq (F \cup G) \cup {LineOf(wp)}
  BY <1>1, <1>2 DEF Lists, One
<1> HIDE DEF F, G, U, B, f
<1>10. Cardinality(F) * PgsPerLine <= NrLpns
  <2>1. IsFiniteSet(U \X B) /\ Cardinality(U \X B) = PgsPerLine
    BY <1>6, FS_Product DEF PgsPerLine
  <2>2. Cardinality(F \X (U \X B)) = Cardinality(F) * PgsPerLine
    BY <1>7, <2>1, FS_Product
  <2>3. Cardinality(F \X (U \X B)) <= Cardinality(Lpns)
    BY <1>5, <1>6, FS_Injection
  <2> QED
    BY <1>6, <2>2, <2>3
<1>11. NrLines <= Cardinality(F) + Cardinality(G) + 1
  <2>1. /\ IsFiniteSet(F \cup G) /\ Cardinality(F \cup G) \in Nat
        /\ Cardinality(F \cup G) <= Cardinality(F) + Cardinality(G)
    <3>1. /\ IsFiniteSet(F \cup G)
          /\ Cardinality(F \cup G) = Cardinality(F) + Cardinality(G) - Cardinality(F \cap G)
      BY <1>7, <1>8, FS_Union
    <3>2. IsFiniteSet(F \cap G)
      BY <1>7, FS_Intersection
    <3>3. Cardinality(F \cap G) \in Nat /\ Cardinality(F \cup G) \in Nat
      BY <3>1, <3>2, FS_CardinalityType
    <3> QED
      BY <1>7, <1>8, <3>1, <3>3
  <2>2. /\ IsFiniteSet((F \cup G) \cup {LineOf(wp)})
        /\ Cardinality((F \cup G) \cup {LineOf(wp)}) <= Cardinality(F \cup G) + 1
    <3>1. /\ IsFiniteSet((F \cup G) \cup {LineOf(wp)})
          /\ Cardinality((F \cup G) \cup {LineOf(wp)}) =
               IF LineOf(wp) \in F \cup G THEN Cardinality(F \cup G) ELSE Cardinality(F \cup G) + 1
      BY <2>1, FS_AddElement
    <3> QED
      BY <2>1, <3>1
  <2>3. Cardinality(Lines) <= Cardinality((F \cup G) \cup {LineOf(wp)})
    BY <1>9, <2>2, FS_Subset
  <2>4. Cardinality((F \cup G) \cup {LineOf(wp)}) \in Nat
    BY <2>2, FS_CardinalityType
  <2> QED
    BY <1>6, <1>7, <1>8, <2>1, <2>2, <2>3, <2>4, Sizes
<1>12. Cardinality(F) < NrLines - 1 - ThresHigh
  BY <1>7, <1>10, Spare
<1>13. Len(lm.free) \in Nat
  BY <1>2, LenProperties
<1> QED
  BY <1>7, <1>8, <1>11, <1>12, <1>13, Sizes

\* How many pages the collector has still to look at, as it goes on.
LEMMA LeftFacts ==
  ASSUME NEW u \in 0 .. NrLuns - 1, NEW k \in 0 .. PgsPerBlk
  PROVE  /\ Left(u, k) \in Nat
         /\ Left(u, k + 1) = Left(u, k) - 1
         /\ k < PgsPerBlk => Left(u, k) >= 1
         /\ Left(u + 1, 0) = Left(u, PgsPerBlk)
         /\ Left(0, 0) = PgsPerLine
         /\ u + 1 = NrLuns => Left(u, PgsPerBlk) = 0
<1>1. \A a, b, c \in Nat : /\ a <= b => a * c <= b * c
                           /\ (a + 1) * c = a * c + c /\ a * c \in Nat /\ 0 * c = 0
  OBVIOUS
<1>2. /\ u \in Nat /\ u + 1 \in Nat /\ u + 1 <= NrLuns /\ NrLuns \in Nat
      /\ PgsPerBlk \in Nat /\ k \in Nat /\ k <= PgsPerBlk /\ PgsPerLine \in Nat
  BY Sizes
<1>3. /\ u * PgsPerBlk \in Nat /\ (u + 1) * PgsPerBlk = u * PgsPerBlk + PgsPerBlk
      /\ (u + 1) * PgsPerBlk <= NrLuns * PgsPerBlk /\ 0 * PgsPerBlk = 0
  BY <1>1, <1>2
<1>4. NrLuns * PgsPerBlk = PgsPerLine
  BY DEF PgsPerLine
<1>5. u + 1 = NrLuns => (u + 1) * PgsPerBlk = PgsPerLine
  BY <1>4
<1> DEFINE x == u * PgsPerBlk
           y == (u + 1) * PgsPerBlk
<1>6. /\ Left(u, k) = PgsPerLine - x - k /\ Left(u, k + 1) = PgsPerLine - x - (k + 1)
      /\ Left(u, PgsPerBlk) = PgsPerLine - x - PgsPerBlk
      /\ Left(u + 1, 0) = PgsPerLine - y - 0
  BY DEF Left
<1>7. Left(0, 0) = PgsPerLine
  BY <1>2, <1>3 DEF Left
<1>8. x \in Nat /\ y = x + PgsPerBlk /\ y <= PgsPerLine /\ (u + 1 = NrLuns => y = PgsPerLine)
  BY <1>3, <1>4, <1>5
<1> HIDE DEF x, y
<1> QED
  BY <1>2, <1>6, <1>7, <1>8

\* A page is written at the write pointer while there is room: the thread
\* does not die of it.
LEMMA ProgramStep ==
  ASSUME TypeOK, NEW m \in LineMgmt, NEW st \in Statuses,
         Sound(m, st, wp, ctl.victim), Room(m, wp) > 1,
         NEW l \in Lpns, NEW c, Program(m, l, c),
         status' = [st EXCEPT ![wp] = "valid"]
  PROVE  /\ lm' \in LineMgmt /\ wp' \in Pages /\ status' \in Statuses
         /\ st[wp] = "free"
         /\ maptbl' = [maptbl EXCEPT ![l] = wp]
         /\ ctl' = c
         /\ Sound(lm', status', wp', ctl.victim)
         /\ Room(lm', wp') = Room(m, wp) - 1
<1> DEFINE valid == MarkValid(m, LineOf(wp))
<1>1. wp \in Pages /\ wp[1] = LineOf(wp)
  BY Typed, PageFacts
<1>2. ~ (LastOfLine /\ m.free = <<>>)
  <2>1. SUFFICES ASSUME LastOfLine, m.free = <<>> PROVE FALSE
    OBVIOUS
  <2>2. Written(wp) = PgsPerLine - 1
    BY <1>1, <2>1, WrittenBounds DEF LastOfLine
  <2>3. FreePages(m) = 0
    <3>1. Len(m.free) = 0 /\ 0 * PgsPerLine = 0
      BY <2>1, Sizes
    <3> QED
      BY <3>1 DEF FreePages
  <2> QED
    BY <2>2, <2>3, Sizes DEF Room
<1>3. /\ maptbl' = [maptbl EXCEPT ![l] = wp]
      /\ lm' = Advanced(valid) /\ wp' = NextPage(valid) /\ ctl' = c
  BY <1>1, <1>2 DEF Program
<1>4. /\ st[wp] = "free" /\ [st EXCEPT ![wp] = "valid"] \in Statuses
      /\ Advanced(valid) \in LineMgmt /\ NextPage(valid) \in Pages
      /\ Sound(Advanced(valid), [st EXCEPT ![wp] = "valid"], NextPage(valid), ctl.victim)
      /\ Room(Advanced(valid), NextPage(valid)) = Room(m, wp) - 1
  BY <1>1, <1>2, Programmed
<1> QED
  BY <1>3, <1>4

\* The invariant holds of the flash that is all erased.
LEMMA InitIInv == Init => IInv
<1> SUFFICES ASSUME Init PROVE IInv
  OBVIOUS
<1> DEFINE first == [i \in 1 .. NrLines - 1 |-> i]
<1>1. NrLines - 1 \in Nat /\ \A i \in 1 .. NrLines - 1 : i \in Lines
  BY Sizes DEF Lines
<1>2. /\ first \in Seq(Lines) /\ Len(first) = NrLines - 1
      /\ DOMAIN first = 1 .. NrLines - 1 /\ \A i \in 1 .. NrLines - 1 : first[i] = i
  BY <1>1
<1>3. /\ lm.free = first /\ lm.victim = <<>> /\ lm.full = <<>>
      /\ lm.vpc = [n \in Lines |-> 0] /\ lm.ipc = [n \in Lines |-> 0]
      /\ lm = [free |-> lm.free, victim |-> lm.victim, full |-> lm.full,
               vpc |-> lm.vpc, ipc |-> lm.ipc]
  BY DEF Init
<1> HIDE DEF first
<1>4. lm \in LineMgmt
  <2>1. lm.vpc \in [Lines -> 0 .. PgsPerLine] /\ lm.ipc \in [Lines -> 0 .. PgsPerLine]
    BY <1>3, Sizes
  <2>2. lm.free \in Seq(Lines) /\ lm.victim \in Seq(Lines) /\ lm.full \in Seq(Lines)
    BY <1>2, <1>3, EmptySeq
  <2> QED
    BY <1>3, <2>1, <2>2 DEF LineMgmt
<1>5. /\ status \in Statuses /\ \A p \in Pages : status[p] = "free"
      /\ maptbl \in [Lpns -> Pages \cup {Unmapped}] /\ \A l \in Lpns : maptbl[l] = Unmapped
      /\ rmap \in [Pages -> Lpns \cup {NoLpn}]
  BY DEF Init, Statuses
<1>6. wp = <<0, 0, 0>> /\ wp \in Pages /\ LineOf(wp) = 0
  <2>1. 0 \in Lines /\ 0 \in 0 .. NrLuns - 1 /\ 0 \in 0 .. PgsPerBlk - 1
    BY Sizes DEF Lines
  <2> QED
    BY <2>1, PageFacts DEF Init
<1>7. /\ ctl.pc = "warm" /\ ctl.lpn = 0 /\ ctl.last = NrWarm - 1 /\ ctl.victim = NoLine
      /\ ctl.lun = 0 /\ ctl.pg = 0 /\ ctl.after = "idle"
      /\ ctl = [pc |-> "warm", lpn |-> 0, last |-> NrWarm - 1, victim |-> NoLine,
                lun |-> 0, pg |-> 0, after |-> "idle"]
  BY DEF Init
<1>8. TypeOK
  <2>1. ctl \in Doing
    BY <1>7, Sizes DEF Doing
  <2> QED
    BY <1>4, <1>5, <1>6, <2>1 DEF TypeOK, LineMgmt, Statuses, Doing
<1>9. Control
  BY <1>7, NoLineFact, Sizes DEF Control, Cleaning, Writing
<1>10. Lists(lm, wp, ctl.victim)
  <2>1. Once(lm.free) /\ Once(lm.victim) /\ Once(lm.full)
    BY <1>2, <1>3 DEF Once
  <2>2. \A n \in Lines : /\ On(lm.free, n) <=> n # 0
                         /\ ~ On(lm.victim, n) /\ ~ On(lm.full, n)
    <3>1. \A n : ~ On(lm.victim, n) /\ ~ On(lm.full, n)
      BY <1>3 DEF On
    <3>2. ASSUME NEW n \in Lines, n # 0 PROVE On(lm.free, n)
      <4>1. n \in 1 .. NrLines - 1
        BY <3>2, Sizes DEF Lines
      <4> QED
        BY <1>2, <1>3, <4>1 DEF On
    <3>3. ~ On(lm.free, 0)
      BY <1>2, <1>3 DEF On
    <3> QED
      BY <3>1, <3>2, <3>3
  <2> QED
    BY <1>6, <1>7, <2>1, <2>2, NoLineFact DEF Lists, One
<1>11. Places(lm, status, wp)
  <2>1. \A n : ~ On(lm.victim, n) /\ ~ On(lm.full, n)
    BY <1>3 DEF On
  <2>2. \A p \in Pages : AheadOf(wp, p)
    BY <1>6, PageFacts, Sizes DEF AheadOf
  <2> QED
    BY <1>5, <2>1, <2>2 DEF Places
<1>12. Counts(lm, status, ctl.victim)
  <2>1. \A n : ~ On(lm.victim, n) /\ ~ On(lm.full, n)
    BY <1>3 DEF On
  <2>2. ASSUME NEW n \in Lines
        PROVE  CountIn(status, n, "valid") = 0 /\ CountIn(status, n, "invalid") = 0
    <3>1. \A p \in PagesOf(n) : status[p] # "valid" /\ status[p] # "invalid"
      BY <1>5 DEF PagesOf
    <3> QED
      BY <3>1, CountNone
  <2> QED
    BY <1>3, <2>1, <2>2 DEF Counts
<1>13. Tables
  BY <1>5 DEF Tables
<1>14. Cleaned
  BY <1>5 DEF Cleaned
<1>15. EnoughRoom
  <2>1. Written(wp) = 0
    BY <1>6, WrittenBounds
  <2>2. FreePages(lm) = NrLines * PgsPerLine - PgsPerLine
    <3>1. \A a, b \in Nat : (a - 1) * b = a * b - b
      OBVIOUS
    <3> QED
      BY <1>2, <1>3, <3>1, Sizes DEF FreePages
  <2>3. Room(lm, wp) = NrLines * PgsPerLine
    BY <2>1, <2>2, Spare, Sizes DEF Room
  <2> QED
    BY <1>7, <2>3, Spare DEF EnoughRoom, Cleaning
<1> QED
  BY <1>8, <1>9, <1>10, <1>11, <1>12, <1>13, <1>14, <1>15 DEF IInv, Sound
-----------------------------------------------------------------------------
(* Every action keeps the invariant. *)

\* The variables of a next state have their types.
LEMMA TypedNext ==
  ASSUME maptbl' \in [Lpns -> Pages \cup {Unmapped}],
         rmap' \in [Pages -> Lpns \cup {NoLpn}],
         status' \in Statuses, lm' \in LineMgmt, wp' \in Pages, ctl' \in Doing
  PROVE  TypeOK'
  BY DEF TypeOK, Statuses, LineMgmt, Doing

\* Nothing changes but what the thread is doing, and it is not cleaning.
LEMMA OnlyControl ==
  ASSUME IInv, UNCHANGED <<maptbl, rmap, status, lm, wp>>,
         ctl' \in Doing, Control', EnoughRoom',
         ctl.victim = NoLine, ctl'.victim = NoLine
  PROVE  IInv'
<1>1. TypeOK /\ Sound(lm, status, wp, ctl.victim) /\ Tables
  BY DEF IInv
<1>2. TypeOK'
  BY <1>1, Typed, TypedNext
<1>3. Sound(lm', status', wp', ctl'.victim)
  BY <1>1
<1>4. Tables'
  <2>1. \A p \in Pages : ~ Passed(p) /\ ~ Passed(p)'
    BY NoLineFact, PageFacts DEF Passed
  <2>2. \A l \in Lpns : maptbl[l] # Unmapped => maptbl[l] \in Pages
    BY <1>1, Typed
  <2> QED
    BY <1>1, <2>1, <2>2 DEF Tables
<1>5. Cleaned'
  BY NoLineFact, PageFacts DEF Cleaned
<1> QED
  BY <1>2, <1>3, <1>4, <1>5 DEF IInv

\* A write request arrives.
LEMMA StartWriteKeeps ==
  ASSUME IInv, NEW l \in Lpns, NEW n \in 1 .. MaxPages, l + n <= NrLpns, StartWrite(l, n)
  PROVE  IInv'
<1>1. TypeOK /\ Control /\ EnoughRoom
  BY DEF IInv
<1>2. /\ ctl.pc = "idle" /\ ctl.victim = NoLine /\ UNCHANGED <<maptbl, rmap, status, lm, wp>>
      /\ ctl'.pc = "gc" /\ ctl'.lpn = l /\ ctl'.last = l + n - 1 /\ ctl'.victim = NoLine
      /\ ctl' \in Doing
  <2>1. ctl.pc = "idle" /\ ctl.victim = NoLine
    BY <1>1, Typed DEF StartWrite, Control, Cleaning
  <2>2. l \in Nat /\ l + n - 1 \in Int
    BY Sizes DEF Lpns
  <2>3. ctl' = [pc |-> "gc", lpn |-> l, last |-> l + n - 1, victim |-> ctl.victim,
                lun |-> ctl.lun, pg |-> ctl.pg, after |-> ctl.after]
    BY <1>1, Typed DEF StartWrite
  <2> QED
    BY <1>1, <2>1, <2>2, <2>3, Typed DEF Doing, StartWrite
<1>3. Control'
  BY <1>2, NoLineFact, Sizes DEF Control, Cleaning, Writing, Lpns
<1>4. EnoughRoom'
  BY <1>1, <1>2 DEF EnoughRoom, Cleaning
<1> QED
  BY <1>2, <1>3, <1>4, OnlyControl

\* A read, or a deallocation.
LEMMA OtherRequestKeeps ==
  ASSUME IInv, OtherRequest
  PROVE  IInv'
<1>1. TypeOK /\ Control /\ EnoughRoom
  BY DEF IInv
<1>2. /\ ctl.pc = "idle" /\ ctl.victim = NoLine /\ UNCHANGED <<maptbl, rmap, status, lm, wp>>
      /\ ctl'.pc = "background" /\ ctl'.victim = NoLine
      /\ ctl' \in Doing
  <2>1. ctl.pc = "idle" /\ ctl.victim = NoLine
    BY <1>1, Typed DEF OtherRequest, Control, Cleaning
  <2>2. ctl' = [pc |-> "background", lpn |-> ctl.lpn, last |-> ctl.last, victim |-> ctl.victim,
                lun |-> ctl.lun, pg |-> ctl.pg, after |-> ctl.after]
    BY <1>1, Typed DEF OtherRequest
  <2> QED
    BY <1>1, <2>1, <2>2, Typed DEF Doing, OtherRequest
<1>3. Control'
  BY <1>2, NoLineFact DEF Control, Cleaning, Writing
<1>4. EnoughRoom'
  BY <1>1, <1>2 DEF EnoughRoom, Cleaning
<1> QED
  BY <1>2, <1>3, <1>4, OnlyControl

\* A line is taken for collection, from where there is room for all of it.
LEMMA StartGcKeeps ==
  ASSUME IInv, NEW after \in {"idle", "gc"}, lm.victim # <<>>, StartGc(after),
         ctl.pc = (IF after = "gc" THEN "gc" ELSE "background")
  PROVE  IInv'
<1>1. TypeOK /\ Control /\ EnoughRoom /\ Tables /\ Sound(lm, status, wp, ctl.victim)
  BY DEF IInv
<1>2. ctl.pc \in {"gc", "background"} /\ ctl.victim = NoLine
  BY <1>1, Typed DEF Control, Cleaning
<1>3. Fewest \in Lines /\ On(lm.victim, Fewest)
  BY <1>1, Typed, FewestListed
<1>4. /\ ctl' = [pc |-> "clean", lpn |-> ctl.lpn, last |-> ctl.last, victim |-> Fewest,
                 lun |-> 0, pg |-> 0, after |-> after]
      /\ lm' = [lm EXCEPT !.victim = Without(@, Fewest)]
      /\ UNCHANGED <<maptbl, rmap, status, wp>>
  BY <1>1, Typed DEF StartGc
<1>5. ctl' \in Doing
  BY <1>1, <1>3, <1>4, Typed, Sizes DEF Doing
<1>6. /\ lm' \in LineMgmt /\ lm'.free = lm.free
      /\ Sound(lm', status, wp, Fewest)
  <2>1. lm \in LineMgmt /\ status \in Statuses /\ Sound(lm, status, wp, NoLine)
    BY <1>1, <1>2, Typed
  <2> HIDE DEF Fewest
  <2> QED
    BY <1>3, <1>4, <2>1, Taken
<1>7. TypeOK'
  BY <1>1, <1>4, <1>5, <1>6, Typed, TypedNext
<1>8. Control'
  BY <1>1, <1>2, <1>3, <1>4 DEF Control, Cleaning, Writing
<1>9. Sound(lm', status', wp', ctl'.victim)
  BY <1>4, <1>6
<1>10. Tables'
  <2>1. \A p \in Pages : ~ Passed(p) /\ ~ Passed(p)'
    BY <1>2, <1>4, NoLineFact, PageFacts DEF Passed
  <2>2. \A l \in Lpns : maptbl[l] # Unmapped => maptbl[l] \in Pages
    BY <1>1, Typed
  <2> QED
    BY <1>1, <1>4, <2>1, <2>2 DEF Tables
<1>11. Cleaned'
  BY <1>4, PageFacts DEF Cleaned
<1>12. EnoughRoom'
  <2>1. Room(lm', wp') = Room(lm, wp)
    BY <1>4, <1>6 DEF Room, FreePages
  <2>2. Remaining' = PgsPerLine
    <3>1. 0 \in 0 .. NrLuns - 1 /\ 0 \in 0 .. PgsPerBlk
      BY Sizes
    <3> QED
      BY <1>4, <3>1, LeftFacts DEF Remaining
  <2> QED
    BY <1>1, <1>2, <1>4, <2>1, <2>2 DEF EnoughRoom, Cleaning
<1> QED
  BY <1>7, <1>8, <1>9, <1>10, <1>11, <1>12 DEF IInv

\* Before a write: a collection, or the write, for which there is room.
LEMMA ForcedGcKeeps ==
  ASSUME IInv, ForcedGc
  PROVE  IInv'
<1>1. TypeOK /\ Control /\ EnoughRoom
  BY DEF IInv
<1>2. ctl.pc = "gc" /\ ctl.victim = NoLine
  BY <1>1, Typed DEF ForcedGc, Control, Cleaning
<1>3. CASE ShouldGcHigh /\ HasVictim(TRUE)
  <2>1. StartGc("gc") /\ lm.victim # <<>>
    BY <1>3 DEF ForcedGc, HasVictim
  <2> QED
    BY <1>2, <2>1, StartGcKeeps
<1>4. CASE ~ (ShouldGcHigh /\ HasVictim(TRUE))
  <2>1. /\ ctl' = [pc |-> "write", lpn |-> ctl.lpn, last |-> ctl.last, victim |-> ctl.victim,
                   lun |-> ctl.lun, pg |-> ctl.pg, after |-> ctl.after]
        /\ UNCHANGED <<maptbl, rmap, status, lm, wp>>
    BY <1>1, <1>4, Typed DEF ForcedGc
  <2>2. ctl' \in Doing
    BY <1>1, <2>1, Typed DEF Doing
  <2>3. Control'
    BY <1>1, <1>2, <2>1 DEF Control, Cleaning, Writing
  <2>4. Len(lm.free) \in Nat /\ Len(lm.free) > ThresHigh
    <3>1. Len(lm.free) \in Nat
      BY <1>1, Typed, LenProperties DEF LineMgmt
    <3>2. CASE lm.victim = <<>>
      BY <1>2, <3>1, <3>2, NothingToCollect
    <3>3. CASE lm.victim # <<>>
      BY <1>4, <3>1, <3>3, Sizes DEF ShouldGcHigh, HasVictim
    <3> QED
      BY <3>2, <3>3, <3>1
  <2>5. FreePages(lm) >= PgsPerLine + PgsPerLine
    <3>1. Len(lm.free) >= 2
      BY <2>4, Sizes
    <3>2. lm.free \in Seq(Lines)
      BY <1>1, Typed DEF LineMgmt
    <3> QED
      BY <3>1, <3>2, FreePagesFacts
  <2>6. Room(lm, wp) > PgsPerLine + ctl.last - ctl.lpn + 1
    <3>1. ctl.last < ctl.lpn + MaxPages
      BY <1>1, <1>2 DEF Control, Writing
    <3> QED
      BY <1>1, <2>5, <3>1, Typed, Sizes DEF Room
  <2>7. EnoughRoom'
    BY <2>1, <2>6 DEF EnoughRoom, Cleaning
  <2> QED
    BY <1>2, <2>1, <2>2, <2>3, <2>7, OnlyControl
<1> QED
  BY <1>3, <1>4

\* After a request: a collection, or nothing.
LEMMA BackgroundGcKeeps ==
  ASSUME IInv, BackgroundGc
  PROVE  IInv'
<1>1. TypeOK /\ Control /\ EnoughRoom
  BY DEF IInv
<1>2. ctl.pc = "background" /\ ctl.victim = NoLine
  BY <1>1, Typed DEF BackgroundGc, Control, Cleaning
<1>3. CASE ShouldGc /\ HasVictim(FALSE)
  <2>1. StartGc("idle") /\ lm.victim # <<>>
    BY <1>3 DEF BackgroundGc, HasVictim
  <2> QED
    BY <1>2, <2>1, StartGcKeeps
<1>4. CASE ~ (ShouldGc /\ HasVictim(FALSE))
  <2>1. /\ ctl' = [pc |-> "idle", lpn |-> ctl.lpn, last |-> ctl.last, victim |-> ctl.victim,
                   lun |-> ctl.lun, pg |-> ctl.pg, after |-> ctl.after]
        /\ UNCHANGED <<maptbl, rmap, status, lm, wp>>
    BY <1>1, <1>4, Typed DEF BackgroundGc
  <2>2. ctl' \in Doing
    BY <1>1, <2>1, Typed DEF Doing
  <2>3. Control'
    BY <1>1, <1>2, <2>1, NoLineFact DEF Control, Cleaning, Writing
  <2>4. EnoughRoom'
    BY <1>1, <1>2, <2>1 DEF EnoughRoom, Cleaning
  <2> QED
    BY <1>2, <2>1, <2>2, <2>3, <2>4, OnlyControl
<1> QED
  BY <1>3, <1>4

\* The tables after a logical page that was not mapped has been written.
LEMMA NewMapping ==
  ASSUME TypeOK, Tables, ctl.victim = NoLine, ctl'.victim = NoLine,
         NEW l \in Lpns, maptbl[l] = Unmapped, status[wp] = "free",
         maptbl' = [maptbl EXCEPT ![l] = wp],
         rmap' = [rmap EXCEPT ![wp] = l],
         status' = [status EXCEPT ![wp] = "valid"]
  PROVE  Tables'
<1>1. /\ maptbl \in [Lpns -> Pages \cup {Unmapped}] /\ wp \in Pages
      /\ rmap \in [Pages -> Lpns \cup {NoLpn}] /\ status \in Statuses
  BY Typed
<1>2. /\ \A k \in Lpns : maptbl'[k] = IF k = l THEN wp ELSE maptbl[k]
      /\ \A p \in Pages : rmap'[p] = IF p = wp THEN l ELSE rmap[p]
      /\ \A p \in Pages : status'[p] = IF p = wp THEN "valid" ELSE status[p]
  BY <1>1 DEF Statuses
<1>3. \A p \in Pages : ~ Passed(p) /\ ~ Passed(p)'
  BY NoLineFact, PageFacts DEF Passed
<1>4. ASSUME NEW k \in Lpns, maptbl'[k] # Unmapped
      PROVE  maptbl'[k] \in Pages /\ status'[maptbl'[k]] = "valid" /\ rmap'[maptbl'[k]] = k
  <2>1. CASE k = l
    BY <1>1, <1>2, <2>1
  <2>2. CASE k # l
    <3>1. /\ maptbl'[k] = maptbl[k] /\ maptbl[k] # Unmapped /\ maptbl[k] \in Pages
          /\ status[maptbl[k]] = "valid" /\ rmap[maptbl[k]] = k
      BY <1>1, <1>2, <1>4, <2>2 DEF Tables
    <3> QED
      BY <1>2, <3>1
  <2> QED
    BY <2>1, <2>2
<1>5. ASSUME NEW p \in Pages, status'[p] = "valid"
      PROVE  rmap'[p] \in Lpns /\ maptbl'[rmap'[p]] = p
  BY <1>1, <1>2, <1>3, <1>5, PageFacts DEF Tables
<1> QED
  BY <1>3, <1>4, <1>5 DEF Tables, Passed

\* A page of the warm-up, or the end of it.
LEMMA WarmUpKeeps ==
  ASSUME IInv, WarmUp
  PROVE  IInv'
<1>1. TypeOK /\ Control /\ EnoughRoom /\ Tables /\ Cleaned /\ Sound(lm, status, wp, ctl.victim)
  BY DEF IInv
<1>2. /\ ctl.pc = "warm" /\ ctl.victim = NoLine /\ ctl.last = NrWarm - 1 /\ ctl.lpn <= NrWarm
      /\ Room(lm, wp) >= NrLines * PgsPerLine - ctl.lpn
  BY <1>1, Typed DEF WarmUp, Control, Cleaning, EnoughRoom
<1>3. Room(lm, wp) > PgsPerLine + PgsPerLine
  BY <1>1, <1>2, Typed, Spare, Sizes
<1>4. CASE ctl.lpn > ctl.last
  <2>1. /\ ctl' = [pc |-> "idle", lpn |-> 0, last |-> 0, victim |-> ctl.victim,
                   lun |-> ctl.lun, pg |-> ctl.pg, after |-> ctl.after]
        /\ UNCHANGED <<maptbl, rmap, status, lm, wp>>
    BY <1>1, <1>4, Typed DEF WarmUp
  <2>2. ctl' \in Doing
    BY <1>1, <2>1, Typed DEF Doing
  <2>3. Control'
    BY <1>1, <1>2, <2>1, NoLineFact DEF Control, Cleaning, Writing
  <2>4. EnoughRoom'
    BY <1>1, <1>3, <2>1, Typed, Sizes DEF EnoughRoom, Cleaning
  <2> QED
    BY <1>2, <2>1, <2>2, <2>3, <2>4, OnlyControl
<1>5. CASE ~ (ctl.lpn > ctl.last)
  <2> DEFINE l == ctl.lpn
             c == NextLpn("idle")
  <2>1. l \in Lpns /\ l < NrWarm /\ l \in Nat
    <3>1. l \in Nat /\ ctl.last \in Int
      BY <1>1, Typed
    <3> HIDE DEF l, c
    <3>2. l <= ctl.last
      BY <1>5, <3>1 DEF l
    <3> QED
      BY <1>2, <3>1, <3>2, Sizes DEF Lpns
  <2>2. /\ Program(lm, l, c) /\ maptbl[l] = Unmapped
        /\ rmap' = [rmap EXCEPT ![wp] = l] /\ status' = [status EXCEPT ![wp] = "valid"]
    BY <1>5 DEF WarmUp
  <2>3. /\ c \in Doing /\ c.victim = NoLine
        /\ \/ c.pc = "idle" /\ l = ctl.last
           \/ c.pc = "warm" /\ c.lpn = l + 1 /\ c.last = ctl.last /\ l # ctl.last
    <3>1. CASE l = ctl.last
      <4>1. c = [pc |-> "idle", lpn |-> 0, last |-> 0, victim |-> ctl.victim,
                 lun |-> ctl.lun, pg |-> ctl.pg, after |-> ctl.after]
        BY <1>1, <3>1, Typed DEF NextLpn
      <4> QED
        BY <1>1, <1>2, <3>1, <4>1, Typed DEF Doing
    <3>2. CASE l # ctl.last
      <4>1. c = [pc |-> "warm", lpn |-> l + 1, last |-> ctl.last, victim |-> ctl.victim,
                 lun |-> ctl.lun, pg |-> ctl.pg, after |-> ctl.after]
        BY <1>1, <1>2, <3>2, Typed DEF NextLpn
      <4> QED
        BY <1>1, <1>2, <2>1, <3>2, <4>1, Typed DEF Doing
    <3> QED
      BY <3>1, <3>2
  <2> HIDE DEF c
  <2>4. /\ lm' \in LineMgmt /\ wp' \in Pages /\ status' \in Statuses
        /\ status[wp] = "free" /\ maptbl' = [maptbl EXCEPT ![l] = wp] /\ ctl' = c
        /\ Sound(lm', status', wp', ctl.victim)
        /\ Room(lm', wp') = Room(lm, wp) - 1
    <3>1. lm \in LineMgmt /\ status \in Statuses /\ Room(lm, wp) > 1
      BY <1>1, <1>3, Typed, Sizes
    <3> HIDE DEF l
    <3> QED
      BY <1>1, <2>1, <2>2, <3>1, ProgramStep
  <2>5. TypeOK'
    BY <1>1, <2>1, <2>2, <2>3, <2>4, Typed, TypedNext
  <2>6. Control'
    BY <1>1, <1>2, <2>1, <2>3, <2>4, NoLineFact, Sizes DEF Control, Cleaning, Writing
  <2>7. Tables'
    BY <1>1, <1>2, <2>1, <2>2, <2>3, <2>4, NewMapping
  <2>8. Cleaned'
    BY <2>3, <2>4, NoLineFact, PageFacts DEF Cleaned
  <2>9. EnoughRoom'
    BY <1>1, <1>2, <1>3, <2>1, <2>3, <2>4, Typed, Spare, Sizes DEF EnoughRoom, Cleaning
  <2> QED
    BY <1>2, <2>3, <2>4, <2>5, <2>6, <2>7, <2>8, <2>9 DEF IInv
<1> QED
  BY <1>4, <1>5

\* A page of a write request: the page it takes the place of becomes invalid.
LEMMA WritePageKeeps ==
  ASSUME IInv, WritePage
  PROVE  IInv'
<1> DEFINE l == ctl.lpn
           old == maptbl[l]
           c == NextLpn("background")
           m == IF old = Unmapped THEN lm ELSE MarkInvalid(lm, LineOf(old))
           st == IF old = Unmapped THEN status ELSE [status EXCEPT ![old] = "invalid"]
<1>1. TypeOK /\ Control /\ EnoughRoom /\ Tables /\ Cleaned /\ Sound(lm, status, wp, ctl.victim)
  BY DEF IInv
<1>2. /\ ctl.pc = "write" /\ ctl.victim = NoLine
      /\ l <= ctl.last /\ ctl.last < NrLpns /\ ctl.last < l + MaxPages
      /\ Room(lm, wp) > PgsPerLine + ctl.last - l + 1
  BY <1>1, Typed DEF WritePage, Control, Cleaning, Writing, EnoughRoom
<1>3. l \in Lpns /\ l \in Nat
  <2>1. l \in Nat /\ ctl.last \in Int
    BY <1>1, Typed
  <2> HIDE DEF l
  <2> QED
    BY <1>2, <2>1, Sizes DEF Lpns
<1>4. /\ Program(m, l, c)
      /\ old = Unmapped => rmap' = [rmap EXCEPT ![wp] = l]
      /\ old # Unmapped => rmap' = [rmap EXCEPT ![old] = NoLpn, ![wp] = l]
      /\ status' = [st EXCEPT ![wp] = "valid"]
  BY DEF WritePage
<1>5. /\ c \in Doing /\ c.victim = NoLine
      /\ \/ c.pc = "background" /\ l = ctl.last
         \/ c.pc = "write" /\ c.lpn = l + 1 /\ c.last = ctl.last /\ l # ctl.last
  <2>1. CASE l = ctl.last
    <3>1. c = [pc |-> "background", lpn |-> 0, last |-> 0, victim |-> ctl.victim,
               lun |-> ctl.lun, pg |-> ctl.pg, after |-> ctl.after]
      BY <1>1, <2>1, Typed DEF NextLpn
    <3> QED
      BY <1>1, <1>2, <2>1, <3>1, Typed DEF Doing
  <2>2. CASE l # ctl.last
    <3>1. c = [pc |-> "write", lpn |-> l + 1, last |-> ctl.last, victim |-> ctl.victim,
               lun |-> ctl.lun, pg |-> ctl.pg, after |-> ctl.after]
      BY <1>1, <1>2, <2>2, Typed DEF NextLpn
    <3> QED
      BY <1>1, <1>2, <1>3, <2>2, <3>1, Typed DEF Doing
  <2> QED
    BY <2>1, <2>2
<1> HIDE DEF c
<1>6. /\ m \in LineMgmt /\ st \in Statuses /\ m.free = lm.free
      /\ Sound(m, st, wp, ctl.victim)
  <2>1. CASE old = Unmapped
    BY <1>1, <2>1, Typed
  <2>2. CASE old # Unmapped
    <3>1. /\ lm \in LineMgmt /\ status \in Statuses /\ wp \in Pages
          /\ old \in Pages /\ status[old] = "valid" /\ LineOf(old) # ctl.victim
      BY <1>1, <1>2, <1>3, <2>2, Typed, PageFacts, NoLineFact DEF Tables
    <3> HIDE DEF old
    <3> QED
      BY <1>1, <2>2, <3>1, Invalidated
  <2> QED
    BY <2>1, <2>2
<1> HIDE DEF m
<1>7. /\ lm' \in LineMgmt /\ wp' \in Pages /\ status' \in Statuses
      /\ st[wp] = "free" /\ maptbl' = [maptbl EXCEPT ![l] = wp] /\ ctl' = c
      /\ Sound(lm', status', wp', ctl.victim)
      /\ Room(lm', wp') = Room(lm, wp) - 1
  <2>1. Room(m, wp) = Room(lm, wp) /\ Room(m, wp) > 1
    <3>1. Room(m, wp) = Room(lm, wp)
      BY <1>6 DEF Room, FreePages
    <3> QED
      BY <1>1, <1>2, <1>3, <3>1, Typed, Sizes
  <2> HIDE DEF l, st
  <2> QED
    BY <1>1, <1>3, <1>4, <1>6, <2>1, ProgramStep
<1>8. rmap' \in [Pages -> Lpns \cup {NoLpn}]
  BY <1>1, <1>3, <1>4, Typed
<1>9. TypeOK'
  BY <1>1, <1>3, <1>5, <1>7, <1>8, Typed, TypedNext
<1>10. Control'
  <2>1. ctl.last \in Int
    BY <1>1, Typed
  <2>2. CASE c.pc = "background"
    BY <1>5, <1>7, <2>2, NoLineFact DEF Control, Cleaning, Writing
  <2>3. CASE c.pc = "write"
    <3>1. c.lpn = l + 1 /\ c.last = ctl.last /\ l + 1 <= ctl.last
      BY <1>2, <1>3, <1>5, <2>1, <2>3
    <3> HIDE DEF l
    <3> QED
      BY <1>2, <1>3, <1>5, <1>7, <2>1, <2>3, <3>1, NoLineFact, Sizes DEF Control, Cleaning, Writing
  <2> QED
    BY <1>5, <2>2, <2>3
<1>11. Tables'
  <2>1. CASE old = Unmapped
    BY <1>1, <1>2, <1>3, <1>4, <1>5, <1>7, <2>1, NewMapping
  <2>2. CASE old # Unmapped
    <3>1. /\ maptbl \in [Lpns -> Pages \cup {Unmapped}] /\ wp \in Pages
          /\ rmap \in [Pages -> Lpns \cup {NoLpn}] /\ status \in Statuses
          /\ old \in Pages /\ status[old] = "valid" /\ wp # old
      BY <1>1, <1>3, <1>7, <2>2, Typed DEF Tables
    <3>2. /\ \A k \in Lpns : maptbl'[k] = IF k = l THEN wp ELSE maptbl[k]
          /\ \A p \in Pages : rmap'[p] = IF p = wp THEN l ELSE IF p = old THEN NoLpn ELSE rmap[p]
          /\ \A p \in Pages : status'[p] = IF p = wp THEN "valid"
                                           ELSE IF p = old THEN "invalid" ELSE status[p]
      BY <1>3, <1>4, <1>7, <2>2, <3>1 DEF Statuses
    <3>3. \A p \in Pages : ~ Passed(p) /\ ~ Passed(p)'
      BY <1>2, <1>5, <1>7, NoLineFact, PageFacts DEF Passed
    <3>4. ASSUME NEW k \in Lpns, maptbl'[k] # Unmapped
          PROVE  maptbl'[k] \in Pages /\ status'[maptbl'[k]] = "valid" /\ rmap'[maptbl'[k]] = k
      <4>1. CASE k = l
        BY <1>3, <3>1, <3>2, <4>1
      <4>2. CASE k # l
        <5>1. /\ maptbl'[k] = maptbl[k] /\ maptbl[k] # Unmapped /\ maptbl[k] \in Pages
              /\ status[maptbl[k]] = "valid" /\ rmap[maptbl[k]] = k
          BY <1>1, <3>1, <3>2, <3>4, <4>2 DEF Tables
        <5>2. maptbl[k] # wp /\ maptbl[k] # old
          <6>1. rmap[old] = l
            BY <1>1, <1>3, <2>2 DEF Tables
          <6>2. status[wp] = "free"
            BY <1>7, <3>1, <2>2 DEF Statuses
          <6> QED
            BY <4>2, <5>1, <6>1, <6>2
        <5> QED
          BY <3>2, <5>1, <5>2
      <4> QED
        BY <4>1, <4>2
    <3>5. ASSUME NEW p \in Pages, status'[p] = "valid"
          PROVE  rmap'[p] \in Lpns /\ maptbl'[rmap'[p]] = p
      BY <1>1, <1>3, <3>1, <3>2, <3>3, <3>5 DEF Tables
    <3> QED
      BY <3>3, <3>4, <3>5 DEF Tables, Passed
  <2> QED
    BY <2>1, <2>2
<1>12. Cleaned'
  BY <1>5, <1>7, NoLineFact, PageFacts DEF Cleaned
<1>13. EnoughRoom'
  BY <1>1, <1>2, <1>3, <1>5, <1>7, Typed, Sizes DEF EnoughRoom, Cleaning
<1> QED
  BY <1>2, <1>5, <1>7, <1>9, <1>10, <1>11, <1>12, <1>13 DEF IInv

\* The collector has dealt with a page of the victim's block.
LEMMA PageDone ==
  ASSUME TypeOK, Control, ctl.pc = "clean", ctl' = AfterPage,
         NEW p, p = <<ctl.victim, ctl.lun, ctl.pg>>
  PROVE  /\ p \in Pages /\ LineOf(p) = ctl.victim /\ ~ Passed(p) /\ ctl.victim \in Lines
         /\ ctl' \in Doing /\ Control' /\ ctl'.victim = ctl.victim /\ ctl'.lun = ctl.lun
         /\ Cleaning /\ ctl'.pc \in {"clean", "erase"}
         /\ Remaining \in Nat \ {0} /\ Remaining' = Remaining - 1
         /\ \A q \in Pages : Passed(q)' <=> Passed(q) \/ q = p
<1>1. /\ ctl.victim \in Lines /\ Cleaning
      /\ ctl.lun \in 0 .. NrLuns - 1 /\ ctl.pg \in 0 .. PgsPerBlk - 1
      /\ PgsPerBlk \in Nat \ {0} /\ ctl.lpn \in Nat /\ ctl.last \in Int /\ ctl.after \in {"idle", "gc"}
      /\ ctl.pg + 1 \in 0 .. PgsPerBlk /\ ctl.pg \in 0 .. PgsPerBlk
  BY Typed, Sizes DEF Control, Cleaning
<1>2. /\ p \in Pages /\ LineOf(p) = ctl.victim /\ LunOf(p) = ctl.lun /\ p[3] = ctl.pg
  BY <1>1, PageFacts
<1>3. \/ /\ ctl.pg + 1 < PgsPerBlk
         /\ ctl' = [pc |-> "clean", lpn |-> ctl.lpn, last |-> ctl.last, victim |-> ctl.victim,
                    lun |-> ctl.lun, pg |-> ctl.pg + 1, after |-> ctl.after]
      \/ /\ ctl.pg + 1 = PgsPerBlk
         /\ ctl' = [pc |-> "erase", lpn |-> ctl.lpn, last |-> ctl.last, victim |-> ctl.victim,
                    lun |-> ctl.lun, pg |-> ctl.pg, after |-> ctl.after]
  <2>1. CASE ctl.pg + 1 < PgsPerBlk
    BY <1>1, <2>1, Typed DEF AfterPage
  <2>2. CASE ~ (ctl.pg + 1 < PgsPerBlk)
    <3>1. ctl.pg + 1 = PgsPerBlk
      BY <1>1, <2>2
    <3> QED
      BY <1>1, <2>2, <3>1, Typed DEF AfterPage
  <2> QED
    BY <2>1, <2>2
<1>4. ctl' \in Doing
  BY <1>1, <1>3 DEF Doing
<1>5. /\ ctl'.victim = ctl.victim /\ ctl'.lun = ctl.lun /\ ctl'.after = ctl.after
      /\ ctl'.lpn = ctl.lpn /\ ctl'.last = ctl.last /\ ctl'.pc \in {"clean", "erase"}
  BY <1>3
<1>6. Control'
  BY <1>1, <1>5 DEF Control, Cleaning, Writing
<1>7. Remaining \in Nat \ {0} /\ Remaining' = Remaining - 1
  <2>1. Remaining = Left(ctl.lun, ctl.pg)
    BY DEF Remaining
  <2>2. Remaining' = Left(ctl.lun, ctl.pg + 1)
    BY <1>3 DEF Remaining
  <2>3. /\ Left(ctl.lun, ctl.pg) \in Nat /\ Left(ctl.lun, ctl.pg) >= 1
        /\ Left(ctl.lun, ctl.pg + 1) = Left(ctl.lun, ctl.pg) - 1
    BY <1>1, LeftFacts
  <2> QED
    BY <2>1, <2>2, <2>3
<1>8. ASSUME NEW q \in Pages PROVE Passed(q)' <=> Passed(q) \/ q = p
  <2>1. /\ q[3] \in 0 .. PgsPerBlk - 1
        /\ q = <<LineOf(q), LunOf(q), q[3]>>
    BY PageFacts
  <2>2. q = p <=> LineOf(q) = ctl.victim /\ LunOf(q) = ctl.lun /\ q[3] = ctl.pg
    BY <1>2, <2>1
  <2>3. CASE ctl'.pc = "clean"
    <3>1. ctl'.pg = ctl.pg + 1
      BY <1>3, <2>3
    <3> QED
      BY <1>1, <1>5, <2>1, <2>2, <2>3, <3>1 DEF Passed
  <2>4. CASE ctl'.pc = "erase"
    <3>1. ctl.pg + 1 = PgsPerBlk
      BY <1>3, <2>4
    <3>2. q[3] < ctl.pg \/ q[3] = ctl.pg
      BY <1>1, <2>1, <3>1
    <3> QED
      BY <1>1, <1>5, <2>2, <2>4, <3>2 DEF Passed
  <2> QED
    BY <1>5, <2>3, <2>4
<1>9. ~ Passed(p)
  BY <1>1, <1>2 DEF Passed
<1> QED
  BY <1>1, <1>2, <1>4, <1>5, <1>6, <1>7, <1>8, <1>9

\* A page of the victim's block is copied, or holds nothing to copy.
LEMMA CleanPageKeeps ==
  ASSUME IInv, CleanPage
  PROVE  IInv'
<1> DEFINE p == <<ctl.victim, ctl.lun, ctl.pg>>
           l == rmap[p]
           c == AfterPage
<1>1. TypeOK /\ Control /\ EnoughRoom /\ Tables /\ Cleaned /\ Sound(lm, status, wp, ctl.victim)
  BY DEF IInv
<1>2. ctl.pc = "clean" /\ Cleaning /\ ctl.victim \in Lines /\ Room(lm, wp) > Remaining
  BY <1>1 DEF CleanPage, Control, Cleaning, EnoughRoom
<1>3. LineOf(wp) # ctl.victim
  BY <1>1, <1>2, Typed DEF Sound, Lists, One
<1>4. /\ maptbl \in [Lpns -> Pages \cup {Unmapped}] /\ wp \in Pages
      /\ rmap \in [Pages -> Lpns \cup {NoLpn}] /\ status \in Statuses /\ lm \in LineMgmt
  BY <1>1, Typed
<1>5. IF status[p] = "valid"
      THEN /\ Program(lm, l, c)
           /\ rmap' = [rmap EXCEPT ![wp] = l] /\ status' = [status EXCEPT ![wp] = "valid"]
      ELSE ctl' = c /\ UNCHANGED <<maptbl, rmap, status, lm, wp>>
  BY DEF CleanPage
<1> HIDE DEF c
<1>6. CASE status[p] # "valid"
  <2>1. ctl' = AfterPage /\ UNCHANGED <<maptbl, rmap, status, lm, wp>>
    BY <1>5, <1>6 DEF c
  <2>2. /\ ctl' \in Doing /\ Control' /\ ctl'.victim = ctl.victim /\ ctl'.lun = ctl.lun
        /\ ctl'.pc \in {"clean", "erase"}
        /\ Remaining \in Nat \ {0} /\ Remaining' = Remaining - 1
        /\ \A q \in Pages : Passed(q)' <=> Passed(q) \/ q = p
    BY <1>1, <1>2, <2>1, PageDone
  <2>3. TypeOK'
    BY <1>4, <2>1, <2>2, TypedNext
  <2>4. Tables'
    <3>1. \A q \in Pages : status[q] = "valid" => (Passed(q)' <=> Passed(q))
      BY <1>6, <2>2
    <3>2. \A k \in Lpns : maptbl[k] # Unmapped => maptbl[k] \in Pages
      BY <1>4
    <3> HIDE DEF p
    <3>3. ASSUME NEW k \in Lpns, maptbl[k] # Unmapped
          PROVE  (status[maptbl[k]] = "valid" /\ rmap[maptbl[k]] = k /\ ~ Passed(maptbl[k]))'
      <4>1. PICK q \in Pages : q = maptbl[k]
        BY <3>2, <3>3
      <4>2. status[q] = "valid" /\ rmap[q] = k /\ ~ Passed(q)
        BY <1>1, <3>3, <4>1 DEF Tables
      <4>3. ~ Passed(q)'
        BY <3>1, <4>2
      <4> QED
        BY <2>1, <4>1, <4>2, <4>3 DEF Passed
    <3>4. ASSUME NEW q \in Pages, status[q] = "valid", ~ Passed(q)'
          PROVE  rmap[q] \in Lpns /\ maptbl[rmap[q]] = q
      BY <1>1, <3>1, <3>4 DEF Tables
    <3> QED
      BY <2>1, <3>3, <3>4 DEF Tables
  <2>5. Cleaned'
    BY <1>1, <2>1, <2>2 DEF Cleaned
  <2>6. EnoughRoom'
    <3>1. Room(lm', wp') = Room(lm, wp) /\ Room(lm, wp) \in Int
      BY <1>1, <2>1, Typed
    <3>2. Room(lm', wp') > Remaining'
      BY <1>2, <2>2, <3>1
    <3> QED
      BY <2>2, <3>2 DEF EnoughRoom, Cleaning
  <2> QED
    BY <1>1, <2>1, <2>2, <2>3, <2>4, <2>5, <2>6 DEF IInv
<1>7. CASE status[p] = "valid"
  <2>1. /\ Program(lm, l, c)
        /\ rmap' = [rmap EXCEPT ![wp] = l] /\ status' = [status EXCEPT ![wp] = "valid"]
    BY <1>5, <1>7
  <2>2. p \in Pages /\ LineOf(p) = ctl.victim /\ ~ Passed(p)
    <3>1. ctl.lun \in 0 .. NrLuns - 1 /\ ctl.pg \in 0 .. PgsPerBlk - 1
      BY <1>1, Typed
    <3> QED
      BY <1>2, <3>1, PageFacts DEF Passed
  <2>3. l \in Lpns /\ maptbl[l] = p /\ p # wp
    BY <1>1, <1>3, <1>7, <2>2 DEF Tables
  <2>4. Room(lm, wp) > 1
    <3>1. Remaining \in Nat \ {0}
      <4>1. Remaining = Left(ctl.lun, ctl.pg)
        BY <1>2 DEF Remaining
      <4>2. /\ ctl.lun \in 0 .. NrLuns - 1 /\ ctl.pg \in 0 .. PgsPerBlk /\ ctl.pg < PgsPerBlk
        BY <1>1, Typed, Sizes
      <4> QED
        BY <4>1, <4>2, LeftFacts
    <3> QED
      BY <1>1, <1>2, <3>1, Typed
  <2> HIDE DEF l
  <2>5. /\ lm' \in LineMgmt /\ wp' \in Pages /\ status' \in Statuses
        /\ status[wp] = "free" /\ maptbl' = [maptbl EXCEPT ![l] = wp] /\ ctl' = c
        /\ Sound(lm', status', wp', ctl.victim)
        /\ Room(lm', wp') = Room(lm, wp) - 1
    BY <1>1, <1>4, <2>1, <2>3, <2>4, ProgramStep
  <2>6. /\ ctl' \in Doing /\ Control' /\ ctl'.victim = ctl.victim /\ ctl'.lun = ctl.lun
        /\ ctl'.pc \in {"clean", "erase"}
        /\ Remaining \in Nat \ {0} /\ Remaining' = Remaining - 1
        /\ \A q \in Pages : Passed(q)' <=> Passed(q) \/ q = p
    <3>1. ctl' = AfterPage
      BY <2>5 DEF c
    <3> QED
      BY <1>1, <1>2, <3>1, PageDone
  <2> HIDE DEF p
  <2>7. /\ \A k \in Lpns : maptbl'[k] = IF k = l THEN wp ELSE maptbl[k]
        /\ \A q \in Pages : rmap'[q] = IF q = wp THEN l ELSE rmap[q]
        /\ \A q \in Pages : status'[q] = IF q = wp THEN "valid" ELSE status[q]
    BY <1>4, <2>1, <2>5 DEF Statuses
  <2>8. TypeOK'
    <3>1. /\ maptbl' \in [Lpns -> Pages \cup {Unmapped}]
          /\ rmap' \in [Pages -> Lpns \cup {NoLpn}]
      BY <1>4, <2>1, <2>3, <2>5
    <3> QED
      BY <2>5, <2>6, <3>1, TypedNext
  <2>9. Tables'
    <3>1. \A q \in Pages : LineOf(q) # ctl.victim => ~ Passed(q)'
      BY <2>6 DEF Passed
    <3>2. ASSUME NEW k \in Lpns, maptbl'[k] # Unmapped
          PROVE  (status[maptbl[k]] = "valid" /\ rmap[maptbl[k]] = k /\ ~ Passed(maptbl[k]))'
      <4>1. CASE k = l
        <5>1. /\ maptbl'[k] = wp /\ status'[wp] = "valid" /\ rmap'[wp] = k
          BY <1>4, <2>7, <4>1
        <5>2. ASSUME NEW q \in Pages, q = wp PROVE ~ Passed(q)'
          BY <1>3, <3>1, <5>2
        <5> QED
          BY <1>4, <5>1, <5>2 DEF Passed
      <4>2. CASE k # l
        <5>1. PICK q \in Pages : q = maptbl[k]
          BY <1>4, <2>7, <3>2, <4>2
        <5>2. status[q] = "valid" /\ rmap[q] = k /\ ~ Passed(q)
          BY <1>1, <2>7, <3>2, <4>2, <5>1 DEF Tables
        <5>3. rmap[p] = l
          BY DEF l
        <5>4. q # wp /\ ~ Passed(q)'
          BY <2>5, <2>6, <4>2, <5>2, <5>3
        <5>5. maptbl'[k] = q /\ status'[q] = "valid" /\ rmap'[q] = k
          BY <2>7, <4>2, <5>1, <5>2, <5>4
        <5> QED
          BY <5>4, <5>5 DEF Passed
      <4> QED
        BY <4>1, <4>2
    <3>3. ASSUME NEW q \in Pages, status'[q] = "valid", ~ Passed(q)'
          PROVE  rmap'[q] \in Lpns /\ maptbl'[rmap'[q]] = q
      <4>1. CASE q = wp
        BY <2>3, <2>7, <4>1
      <4>2. CASE q # wp
        <5>1. status[q] = "valid" /\ ~ Passed(q) /\ q # p
          BY <2>6, <2>7, <3>3, <4>2
        <5>2. rmap[q] \in Lpns /\ maptbl[rmap[q]] = q
          BY <1>1, <5>1 DEF Tables
        <5>3. rmap[q] # l /\ rmap'[q] = rmap[q]
          BY <2>3, <2>7, <4>2, <5>1, <5>2
        <5> QED
          BY <2>7, <5>2, <5>3
      <4> QED
        BY <4>1, <4>2
    <3> QED
      BY <3>2, <3>3 DEF Tables
  <2>10. Cleaned'
    BY <1>1, <1>3, <2>6, <2>7 DEF Cleaned
  <2>11. EnoughRoom'
    <3>1. Room(lm, wp) \in Int
      BY <1>1, Typed
    <3>2. Room(lm', wp') > Remaining'
      BY <1>2, <2>5, <2>6, <3>1
    <3> QED
      BY <2>6, <3>2 DEF EnoughRoom, Cleaning
  <2>12. Sound(lm', status', wp', ctl'.victim)
    BY <2>5, <2>6
  <2> QED
    BY <2>6, <2>8, <2>9, <2>10, <2>11, <2>12 DEF IInv
<1> QED
  BY <1>6, <1>7

\* A block is erased; after the last one the line is free again.
LEMMA EraseBlockKeeps ==
  ASSUME IInv, EraseBlock
  PROVE  IInv'
<1> DEFINE v == ctl.victim
           u == ctl.lun
<1>1. TypeOK /\ Control /\ EnoughRoom /\ Tables /\ Cleaned /\ Sound(lm, status, wp, v)
  BY DEF IInv
<1>2. /\ ctl.pc = "erase" /\ Cleaning /\ v \in Lines /\ v # NoLine
      /\ u \in 0 .. NrLuns - 1 /\ u \in Nat /\ NrLuns \in Nat
      /\ Room(lm, wp) > Remaining /\ Remaining = Left(u, PgsPerBlk)
  BY <1>1, Typed, NoLineFact, Sizes DEF EraseBlock, Control, Cleaning, EnoughRoom, Remaining
<1>3. /\ maptbl \in [Lpns -> Pages \cup {Unmapped}] /\ wp \in Pages
      /\ rmap \in [Pages -> Lpns \cup {NoLpn}] /\ status \in Statuses /\ lm \in LineMgmt
      /\ LineOf(wp) \in Lines
  BY <1>1, Typed
<1>4. /\ UNCHANGED <<maptbl, rmap, wp>>
      /\ \A q \in Pages : status'[q] = IF LineOf(q) = v /\ LunOf(q) = u THEN "free" ELSE status[q]
      /\ status' \in Statuses
  BY <1>3 DEF EraseBlock, Erased, Statuses
<1>5. \A q \in Pages : Passed(q) <=> LineOf(q) = v /\ LunOf(q) = u
  BY <1>2 DEF Passed
<1>6. Sound(lm, status', wp, v)
  <2>1. \A q \in Pages : LineOf(q) # v => status'[q] = status[q]
    BY <1>4
  <2> HIDE DEF v
  <2> QED
    BY <1>1, <1>2, <1>3, <2>1, Erasing
<1>7. \A q \in Pages : LineOf(q) = v /\ LunOf(q) < u + 1 => status'[q] = "free"
  <2> SUFFICES ASSUME NEW q \in Pages, LineOf(q) = v, LunOf(q) < u + 1
               PROVE  status'[q] = "free"
    OBVIOUS
  <2>1. LunOf(q) \in Nat
    BY PageFacts
  <2>2. LunOf(q) < u \/ LunOf(q) = u
    BY <1>2, <2>1
  <2> QED
    BY <1>1, <1>4, <2>2 DEF Cleaned
<1>8. ASSUME \A q \in Pages : ~ Passed(q)' PROVE Tables'
  <2>1. ASSUME NEW k \in Lpns, maptbl[k] # Unmapped
        PROVE  (status[maptbl[k]] = "valid" /\ rmap[maptbl[k]] = k /\ ~ Passed(maptbl[k]))'
    <3>1. PICK q \in Pages : q = maptbl[k]
      BY <1>3, <2>1
    <3>2. status[q] = "valid" /\ rmap[q] = k /\ ~ Passed(q)
      BY <1>1, <2>1, <3>1 DEF Tables
    <3>3. status'[q] = "valid" /\ ~ Passed(q)'
      BY <1>4, <1>5, <1>8, <3>2
    <3> QED
      BY <1>4, <3>1, <3>2, <3>3 DEF Passed
  <2>2. ASSUME NEW q \in Pages, status'[q] = "valid"
        PROVE  rmap[q] \in Lpns /\ maptbl[rmap[q]] = q
    <3>1. status[q] = "valid" /\ ~ Passed(q)
      BY <1>4, <1>5, <2>2
    <3> QED
      BY <1>1, <3>1 DEF Tables
  <2> QED
    BY <1>4, <2>1, <2>2 DEF Tables
<1>9. CASE u + 1 < NrLuns
  <2>1. /\ ctl' = [pc |-> "clean", lpn |-> ctl.lpn, last |-> ctl.last, victim |-> v,
                   lun |-> u + 1, pg |-> 0, after |-> ctl.after]
        /\ lm' = lm
    BY <1>1, <1>9, Typed DEF EraseBlock
  <2>2. ctl' \in Doing
    BY <1>1, <1>2, <1>9, <2>1, Typed, Sizes DEF Doing
  <2>3. TypeOK'
    BY <1>3, <1>4, <2>1, <2>2, TypedNext
  <2>4. Control'
    BY <1>1, <1>2, <2>1 DEF Control, Cleaning, Writing
  <2>5. Tables'
    <3>1. \A q \in Pages : ~ Passed(q)'
      BY <2>1, PageFacts DEF Passed
    <3> QED
      BY <1>8, <3>1
  <2>6. Cleaned'
    BY <1>7, <2>1 DEF Cleaned
  <2>7. EnoughRoom'
    <3>1. Remaining' = Left(u + 1, 0)
      BY <2>1 DEF Remaining
    <3>2. Left(u + 1, 0) = Left(u, PgsPerBlk)
      <4>1. PgsPerBlk \in 0 .. PgsPerBlk
        BY Sizes
      <4> QED
        BY <1>2, <4>1, LeftFacts
    <3>3. Room(lm', wp') = Room(lm, wp)
      BY <1>4, <2>1
    <3> QED
      BY <1>2, <2>1, <3>1, <3>2, <3>3 DEF EnoughRoom, Cleaning
  <2> QED
    BY <1>4, <1>6, <2>1, <2>3, <2>4, <2>5, <2>6, <2>7 DEF IInv
<1>10. CASE ~ (u + 1 < NrLuns)
  <2>1. /\ ctl' = [pc |-> ctl.after, lpn |-> ctl.lpn, last |-> ctl.last, victim |-> NoLine,
                   lun |-> 0, pg |-> 0, after |-> "idle"]
        /\ lm' = FreedLine(lm)
    BY <1>1, <1>10, Typed DEF EraseBlock
  <2>2. ctl' \in Doing
    BY <1>1, <2>1, Typed, Sizes DEF Doing
  <2>3. \A q \in Pages : LineOf(q) = v => status'[q] = "free"
    <3>1. \A q \in Pages : LunOf(q) < u + 1
      BY <1>2, <1>10, PageFacts
    <3> QED
      BY <1>7, <3>1
  <2>4. /\ FreedLine(lm) \in LineMgmt /\ Sound(FreedLine(lm), status', wp, NoLine)
        /\ Room(FreedLine(lm), wp) = FreePages(lm) + PgsPerLine + PgsPerLine - Written(wp)
    BY <1>2, <1>3, <1>4, <1>6, <2>3, Freed
  <2>5. TypeOK'
    BY <1>3, <1>4, <2>1, <2>2, <2>4, TypedNext
  <2>6. Control'
    BY <1>1, <1>2, <2>1, Typed, NoLineFact DEF Control, Cleaning, Writing
  <2>7. Tables'
    <3>1. \A q \in Pages : ~ Passed(q)'
      BY <2>1, NoLineFact, PageFacts DEF Passed
    <3> QED
      BY <1>8, <3>1
  <2>8. Cleaned'
    BY <2>1, NoLineFact, PageFacts DEF Cleaned
  <2>9. EnoughRoom'
    <3>1. Room(lm', wp') > PgsPerLine
      BY <1>1, <1>4, <2>1, <2>4, Typed, Sizes
    <3> QED
      BY <1>1, <2>1, <3>1, Typed DEF EnoughRoom, Cleaning
  <2>10. Sound(lm', status', wp', ctl'.victim)
    BY <1>4, <2>1, <2>4
  <2> QED
    BY <2>5, <2>6, <2>7, <2>8, <2>9, <2>10 DEF IInv
<1> QED
  BY <1>9, <1>10
-----------------------------------------------------------------------------
(* What follows for every behaviour. *)

\* Every step keeps the invariant.
LEMMA NextIInv == IInv /\ [Next]_vars => IInv'
<1> SUFFICES ASSUME IInv, [Next]_vars PROVE IInv'
  OBVIOUS
<1>1. CASE WarmUp
  BY <1>1, WarmUpKeeps
<1>2. CASE ForcedGc
  BY <1>2, ForcedGcKeeps
<1>3. CASE WritePage
  BY <1>3, WritePageKeeps
<1>4. CASE BackgroundGc
  BY <1>4, BackgroundGcKeeps
<1>5. CASE CleanPage
  BY <1>5, CleanPageKeeps
<1>6. CASE EraseBlock
  BY <1>6, EraseBlockKeeps
<1>7. CASE Request
  BY <1>7, StartWriteKeeps, OtherRequestKeeps DEF Request
<1>8. CASE UNCHANGED vars
  <2>1. TypeOK' /\ Control' /\ Cleaned' /\ Sound(lm', status', wp', ctl'.victim)
    BY <1>8 DEF vars, IInv, TypeOK, Control, Cleaned, Cleaning, Writing
  <2>2. Tables' /\ EnoughRoom'
    BY <1>8 DEF vars, IInv, Tables, EnoughRoom, Passed, Remaining, Cleaning
  <2> QED
    BY <2>1, <2>2 DEF IInv
<1> QED
  BY <1>1, <1>2, <1>3, <1>4, <1>5, <1>6, <1>7, <1>8 DEF Next, Work

\* The inductive invariant: at every step of a write and of a collection the
\* mapping tables (maptbl, rmap), the page statuses, the line lists and
\* counters, and the write pointer of sgx_ftl.cpp fit together, and there is
\* room left for all that the thread may write before it can make room.
THEOREM Invariance == Spec => []IInv
<1>1. Init => IInv
  BY InitIInv
<1>2. IInv /\ [Next]_vars => IInv'
  BY NextIInv
<1> QED
  BY <1>1, <1>2, PTL DEF Spec

\* The variables keep their types; the counts of valid and invalid pages of a
\* line never leave 0 .. pgs_per_line (the NVMEV_ASSERTs around vpc and ipc).
THEOREM Typing == Spec => []TypeOK
<1>1. IInv => TypeOK
  BY DEF IInv
<1> QED
  BY <1>1, Invariance, PTL

\* The forward and the reverse mapping are inverse to one another on the valid
\* pages, between any two pages of a write request or of a collection
\* (set_maptbl_ent, set_rmap_ent, mark_page_invalid, gc_write_page).
THEOREM Mapping == Spec => []TablesAgree
<1>1. IInv => TablesAgree
  BY DEF IInv, Tables, TablesAgree
<1> QED
  BY <1>1, Invariance, PTL

\* The page at the write pointer is erased and so is the rest of its line,
\* whoever has moved the pointer: the assertion of mark_page_valid.
THEOREM WriteOnce == Spec => []WritesToErased
<1>1. IInv => WritesToErased
  <2> SUFFICES ASSUME IInv, NEW p \in Pages, LineOf(p) = LineOf(wp)
               PROVE  status[p] = "free" <=> Ahead(p)
    BY DEF WritesToErased
  <2>1. status[p] = "free" <=> AheadOf(wp, p)
    BY DEF IInv, Sound, Places
  <2>2. AheadOf(wp, p) <=> Ahead(p)
    BY Typed, PageFacts DEF IInv, AheadOf, Ahead
  <2> QED
    BY <2>1, <2>2
<1> QED
  BY <1>1, Invariance, PTL

\* get_next_free_line always finds a line: the assert(0) that ends the thread
\* is never reached, whatever is written and however the collections fall.
THEOREM NeverDead == Spec => []NeverOutOfLines
<1>1. IInv => NeverOutOfLines
  BY DEF IInv, Control, NeverOutOfLines
<1> QED
  BY <1>1, Invariance, PTL

\* Every line stands in one place, once, with the counts of its pages: what
\* advance_write_pointer, mark_page_invalid and mark_line_free hand from one
\* list to the next.
THEOREM Partition == Spec => []LinesPartitioned
<1>1. IInv => LinesPartitioned
  <2> SUFFICES ASSUME IInv PROVE LinesPartitioned
    OBVIOUS
  <2>1. /\ lm \in LineMgmt /\ wp \in Pages
        /\ Lists(lm, wp, ctl.victim) /\ Counts(lm, status, ctl.victim) /\ ctl.pc # "dead"
    BY Typed DEF IInv, Sound, Control
  <2>2. /\ lm.free \in Seq(Lines) /\ lm.victim \in Seq(Lines) /\ lm.full \in Seq(Lines)
        /\ Once(lm.free) /\ Once(lm.victim) /\ Once(lm.full)
    BY <2>1 DEF LineMgmt, Lists
  <2>3. /\ \A n : InList(lm.free, n) = One(On(lm.free, n))
        /\ \A n : InList(lm.victim, n) = One(On(lm.victim, n))
        /\ \A n : InList(lm.full, n) = One(On(lm.full, n))
    BY <2>2, OnceCounted DEF InList, One
  <2>4. \A n \in Lines :
          InList(lm.free, n) + InList(lm.victim, n) + InList(lm.full, n)
            + (IF n = LineOf(wp) /\ ctl.pc # "dead" THEN 1 ELSE 0)
            + (IF n = ctl.victim THEN 1 ELSE 0) = 1
    BY <2>1, <2>3 DEF Lists, One
  <2>5. \A n, s : CountOf(n, s) = CountIn(status, n, s)
    BY DEF CountOf, CountIn, PagesIn
  <2>6. \A n \in Lines \ {ctl.victim} :
          lm.vpc[n] = CountOf(n, "valid") /\ lm.ipc[n] = CountOf(n, "invalid")
    BY <2>1, <2>5 DEF Counts
  <2>7. \A i \in DOMAIN lm.full : lm.vpc[lm.full[i]] = PgsPerLine
    <3>1. \A i \in DOMAIN lm.full : lm.full[i] \in Lines /\ On(lm.full, lm.full[i])
      BY <2>2, ElementOfSeq, LenProperties DEF On
    <3> QED
      BY <2>1, <3>1 DEF Counts
  <2>8. \A i \in DOMAIN lm.victim : lm.ipc[lm.victim[i]] > 0
    <3>1. \A i \in DOMAIN lm.victim : lm.victim[i] \in Lines /\ On(lm.victim, lm.victim[i])
      BY <2>2, ElementOfSeq, LenProperties DEF On
    <3> QED
      BY <2>1, <3>1 DEF Counts
  <2> QED
    BY <2>4, <2>6, <2>7, <2>8 DEF LinesPartitioned
<1> QED
  BY <1>1, Invariance, PTL

\* A logical page once written stays mapped, and only a write of that page or
\* the collection of its line moves it (get_maptbl_ent in a read is sound
\* between any two steps).
THEOREM MovedForAReason == Spec => OnlyMoved
<1> DEFINE Kept == \A l \in Lpns : Moves(l) /\ (maptbl[l] # Unmapped => maptbl'[l] # Unmapped)
<1>1. ASSUME IInv, [Next]_vars PROVE [Kept]_vars
  <2> SUFFICES ASSUME Next PROVE Kept
    BY <1>1
  <2>1. /\ maptbl \in [Lpns -> Pages \cup {Unmapped}] /\ wp \in Pages /\ wp # Unmapped
        /\ rmap \in [Pages -> Lpns \cup {NoLpn}] /\ Tables
    BY <1>1, Typed, PageFacts DEF IInv
  <2>2. ASSUME maptbl' = maptbl PROVE Kept
    BY <2>2 DEF Moves
  <2>3. ASSUME NEW k, maptbl' = [maptbl EXCEPT ![k] = wp],
               \/ ctl.pc \in {"warm", "write"} /\ ctl.lpn = k
               \/ k \in Lpns => ctl.pc = "clean" /\ LineOf(maptbl[k]) = ctl.victim
        PROVE  Kept
    BY <2>1, <2>3 DEF Moves
  <2>4. CASE WarmUp
    BY <2>2, <2>3, <2>4 DEF WarmUp, Program
  <2>5. CASE WritePage
    BY <2>3, <2>5 DEF WritePage, Program
  <2>6. CASE CleanPage
    <3> DEFINE p == <<ctl.victim, ctl.lun, ctl.pg>>
    <3>1. CASE status[p] # "valid"
      BY <2>2, <2>6, <3>1 DEF CleanPage
    <3>2. CASE status[p] = "valid"
      <4>1. ctl.pc = "clean" /\ maptbl' = [maptbl EXCEPT ![rmap[p]] = wp]
        BY <2>6, <3>2 DEF CleanPage, Program
      <4>2. p \in Pages /\ LineOf(p) = ctl.victim /\ ~ Passed(p)
        <5>1. /\ ctl.victim \in Lines /\ ctl.lun \in 0 .. NrLuns - 1
              /\ ctl.pg \in 0 .. PgsPerBlk - 1
          BY <1>1, <4>1, Typed DEF IInv, Control, Cleaning
        <5> QED
          BY <4>1, <5>1, PageFacts DEF Passed
      <4>3. maptbl[rmap[p]] = p
        BY <2>1, <3>2, <4>2 DEF Tables
      <4> HIDE DEF p
      <4> QED
        BY <2>3, <4>1, <4>2, <4>3
    <3> QED
      BY <3>1, <3>2
  <2>7. CASE ForcedGc \/ BackgroundGc \/ EraseBlock \/ Request
    BY <2>2, <2>7 DEF ForcedGc, BackgroundGc, StartGc, EraseBlock, Request, StartWrite, OtherRequest
  <2> QED
    BY <2>4, <2>5, <2>6, <2>7 DEF Next, Work
<1>2. Spec => [][Kept]_vars
  <2> HIDE DEF Kept
  <2> QED
    BY <1>1, Invariance, PTL DEF Spec
<1> QED
  BY <1>2 DEF OnlyMoved
=============================================================================
