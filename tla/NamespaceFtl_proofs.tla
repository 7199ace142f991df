------------------------- MODULE NamespaceFtl_proofs -------------------------
(***************************************************************************)
(* Theorems about the two FTLs that are not built on blocks of a logical   *)
(* address space.                                                          *)
(*                                                                         *)
(* ZnsFtl, for every number and size of zones and buffers: the invariant   *)
(* IInv says of the zones that they are Running, which is                  *)
(* Sound unless an assertion failed, and of the write buffers that they    *)
(* are Settled.  A command on one zone leads from sound zones to sound     *)
(* zones and takes nothing from the write buffers (Goes); so does one on   *)
(* all zones, by induction on the zones it has reached.  A write takes     *)
(* from its buffer what the pages it completes give back and what is left  *)
(* of the last (ZoneWritten), by induction on its blocks (Pages).          *)
(*                                                                         *)
(* KvFtl, for one I/O worker, every number of slots, every set of keys and *)
(* hash function and both allocators: the invariant KvInv says that the    *)
(* mapping table is sound (SoundTable).  A link leads to a slot that was   *)
(* filled later (Ranked), so the chain of a slot never returns and ends    *)
(* within NrSlots links; filling a slot lengthens chains by that slot only *)
(* (Fills), and clearing one cuts them (Clears), so a key that is found    *)
(* stays where it is.                                                      *)
(***************************************************************************)
EXTENDS ZnsFtl, KvFtl, ListFacts

Blocks == 0 .. Cap - 1

\* The values of zns.
Records ==
  [state : [Zones -> States], wp : [Zones -> Nat], zrwav : [Zones -> BOOLEAN],
   acquired : [Resources -> Nat], bug : {"none", "release", "zrwa full", "division", "null"}]

\* A zone in state st, with a random write area or not, has resource r.
InUse(st) == st \in Opened \cup {"CLOSED"}
Has(st, v, r) ==
  /\ r = "OPEN" => st \in Opened
  /\ r # "OPEN" => InUse(st)
  /\ r = "ZRWA" => v

\* The zones that have r; the counts of resources are the numbers of these
\* zones; the pointers are within the zones; a zone in use has room.
Holders(s, r) == {z \in Zones : Has(s.state[z], s.zrwav[z], r)}
Exact(s) == \A r \in Resources : s.acquired[r] = Cardinality(Holders(s, r))
Placed(s) == \A z \in Zones : /\ s.wp[z] <= Cap
                              /\ s.state[z] = "EMPTY" => s.wp[z] = 0 /\ ~ s.zrwav[z]
Roomy(s) == \A z \in Zones : InUse(s.state[z]) => s.wp[z] < Cap

\* The zones of a thread that runs.
Sound(s) == s \in Records /\ s.bug = "none" /\ Exact(s) /\ Placed(s) /\ Roomy(s)

\* From s to t no zone without a random write area has come to be used within
\* a flash page.
Kept(s, t) ==
  \A z \in Zones : InUse(t.state[z]) /\ ~ t.zrwav[z] =>
    \/ t.wp[z] = 0
    \/ InUse(s.state[z]) /\ ~ s.zrwav[z] /\ t.wp[z] = s.wp[z]

\* From s to t resource r is taken, or given back if c, or zone z gives back
\* all it has, or its state becomes st, or its pointer w, and nothing else.
Same(s, t) ==
  t \in Records /\ t.wp = s.wp /\ t.zrwav = s.zrwav /\ t.bug = s.bug
Takes(s, t, r) ==
  /\ Same(s, t) /\ t.state = s.state
  /\ \A q \in Resources : t.acquired[q] = s.acquired[q] + One(q = r)
Gives(s, t, r, c) ==
  /\ Same(s, t) /\ t.state = s.state
  /\ \A q \in Resources : t.acquired[q] = s.acquired[q] - One(c /\ q = r)
GivesAll(s, t, z) ==
  /\ Same(s, t) /\ t.state = s.state
  /\ \A q \in Resources :
       t.acquired[q] = s.acquired[q] - One(Has(s.state[z], s.zrwav[z], q))
Turns(s, t, z, st) ==
  Same(s, t) /\ t.state = [s.state EXCEPT ![z] = st] /\ t.acquired = s.acquired
SetWp(s, z, w) == [s EXCEPT !.wp[z] = w]
MovesTo(s, m, z, w) ==
  /\ m \in Records /\ m.state = s.state /\ m.zrwav = s.zrwav /\ m.bug = s.bug
  /\ m.acquired = s.acquired /\ m.wp = [s.wp EXCEPT ![z] = w]

\* Zone z becomes what st, w and v say and has the resources that go with it.
Changes(s, t, z, st, w, v) ==
  /\ st \in States /\ w \in 0 .. Cap /\ v \in BOOLEAN /\ t \in Records
  /\ st = "EMPTY" => w = 0 /\ ~ v
  /\ t.state = [s.state EXCEPT ![z] = st]
  /\ t.wp = [s.wp EXCEPT ![z] = w] /\ t.zrwav = [s.zrwav EXCEPT ![z] = v]
  /\ \A r \in Resources : t.acquired[r] = s.acquired[r]
       + One(Has(st, v, r)) - One(Has(s.state[z], s.zrwav[z], r))

\* Zone z gives back all it has and is empty or full.
Leaves(s, t, z, st, w, v) ==
  /\ st \in {"EMPTY", "FULL"} /\ w \in 0 .. Cap /\ v \in BOOLEAN /\ t \in Records
  /\ st = "EMPTY" => w = 0 /\ ~ v
  /\ t.state = [s.state EXCEPT ![z] = st] /\ t.bug = "none"
  /\ t.wp = [s.wp EXCEPT ![z] = w] /\ t.zrwav = [s.zrwav EXCEPT ![z] = v]
  /\ \A q \in Resources :
       t.acquired[q] = s.acquired[q] - One(Has(s.state[z], s.zrwav[z], q))

\* What one zone command does.
Goes(s, t) == Sound(t) /\ Kept(s, t)

\* A zone comes to be open in state st; it gets a random write area.
Opens(s, t, z, st) ==
  Goes(s, t) /\ t.wp = s.wp /\ t.zrwav = s.zrwav /\ t.state[z] = st
WithZrwa(s, z) == [s EXCEPT !.zrwav[z] = TRUE]

\* The zones, after an assertion failed as well: what is left of Sound.
Running(s) ==
  /\ s \in Records /\ s.bug # "release" /\ Placed(s)
  /\ \A r \in Resources : s.acquired[r] <= NrZones
  /\ s.bug = "none" => Sound(s)

\* What a thread that dies between two changes leaves behind.
Bounded(s) == s \in Records /\ Placed(s) /\ \A r \in Resources : s.acquired[r] <= NrZones

\* What a flush does to sound zones, or leaves of others.
Runs(s, t) == Running(t) /\ Kept(s, t)

\* The zones s, but for an assertion or a fault that has stopped the thread.
Dead(s, bug) == [s EXCEPT !.bug = bug]

\* Zones in use without a random write area are written up to the end of a page.
InPages(s) ==
  \A z \in Zones : InUse(s.state[z]) /\ ~ s.zrwav[z] => s.wp[z] % SecsPerPg = 0

\* The write pointer of z is moved n blocks on.
Increased(s, t, z, n) ==
  /\ Running(t) /\ t.wp = [s.wp EXCEPT ![z] = s.wp[z] + n] /\ t.zrwav = s.zrwav
  /\ t.state = [s.state EXCEPT ![z] =
                  IF s.wp[z] + n = Cap /\ ~ s.zrwav[z] THEN "FULL" ELSE s.state[z]]

\* Unprogrammed, of the zones s; the part of it that is not of zone z; and the
\* part that is, if w is its write pointer.
Owed(s, b) ==
  {x \in Zones \X Blocks :
     /\ BufferOf(x[1]) = b /\ InUse(s.state[x[1]]) /\ ~ s.zrwav[x[1]]
     /\ x[2] < s.wp[x[1]] /\ x[2] \div FlashPage = s.wp[x[1]] \div FlashPage}
OwedElsewhere(s, z) == {x \in Owed(s, BufferOf(z)) : x[1] # z}
Part(w) == {p \in Blocks : p < w /\ p \div FlashPage = w \div FlashPage}

\* The ends of flash pages among n pages can be counted.
Counts(from, n) == IsFiniteSet({p \in from .. from + n - 1 : (p + 1) % OneShot = 0})
-----------------------------------------------------------------------------
\* The sizes are numbers.
LEMMA Sizes ==
  /\ {NrZones, Cap, SecsPerPg, OneShot, WriteUnit, WbSize, MaxWrite} \subseteq Nat \ {0}
  /\ {Zrwa, ZrwaBuf, MaxPending, MaxSpace} \subseteq Nat
  /\ ZrwaBuf <= MaxSpace /\ WbSize <= MaxSpace /\ Zrwafg \in Nat /\ Zrwafg <= Zrwa
  /\ FlashPage \in Nat \ {0} /\ FlashPage = OneShot * SecsPerPg
  /\ Unaligned \in Nat /\ Unaligned = Cap % FlashPage
<1>1. FlashPage \in Nat \ {0}
  <2>1. \A i, j \in Nat \ {0} : i * j \in Nat \ {0}
    OBVIOUS
  <2> QED
    BY <2>1, SizesAssumption DEF FlashPage
<1>2. Cap % FlashPage \in Nat
  BY <1>1, SizesAssumption
<1> QED
  BY <1>1, <1>2, SizesAssumption, ZrwaAssumption DEF Unaligned, FlashPage

\* The fields of the record of the zones.
LEMMA Fields ==
  ASSUME NEW s \in Records
  PROVE  /\ s.state \in [Zones -> States] /\ s.wp \in [Zones -> Nat]
         /\ s.zrwav \in [Zones -> BOOLEAN] /\ s.acquired \in [Resources -> Nat]
         /\ \A r \in Resources : s.acquired[r] \in Nat
         /\ \A z \in Zones : s.state[z] \in States /\ s.wp[z] \in Nat /\ s.zrwav[z] \in BOOLEAN
         /\ s.bug \in {"none", "release", "zrwa full", "division", "null"}
BY DEF Records

\* The three resources.
LEMMA Three ==
  /\ "OPEN" \in Resources /\ "ACTIVE" \in Resources /\ "ZRWA" \in Resources
  /\ \A r \in Resources : r = "OPEN" \/ r = "ACTIVE" \/ r = "ZRWA"
BY DEF Resources

\* A condition counts one or nothing.
LEMMA Ones == \A b \in BOOLEAN : One(b) \in Nat /\ One(b) = IF b THEN 1 ELSE 0
BY DEF One

\* The zones can be counted.
LEMMA ZonesFinite ==
  /\ IsFiniteSet(Zones) /\ Cardinality(Zones) = NrZones
<1>1. NrZones \in Nat \ {0} /\ 0 \in Int /\ NrZones - 1 \in Int
  BY Sizes
<1> QED
  BY <1>1, FS_Interval DEF Zones

\* As many zones hold a resource as were acquired: not more than there are,
\* and if one does it was acquired.
LEMMA Counted ==
  ASSUME NEW s \in Records, Exact(s), NEW r \in Resources
  PROVE  /\ IsFiniteSet(Holders(s, r)) /\ s.acquired[r] <= NrZones
         /\ \A z \in Zones : Has(s.state[z], s.zrwav[z], r) => s.acquired[r] >= 1
<1> DEFINE H == Holders(s, r)
<1>1. H \in SUBSET Zones
  BY DEF Holders
<1>2. IsFiniteSet(H) /\ Cardinality(H) <= NrZones
  <2> HIDE DEF H
  <2> QED
    BY <1>1, ZonesFinite, FS_Subset
<1>3. s.acquired[r] = Cardinality(H)
  BY DEF Exact
<1>4. ASSUME NEW z \in Zones, Has(s.state[z], s.zrwav[z], r)
      PROVE  s.acquired[r] >= 1
  <2>1. z \in H
    BY <1>4 DEF Holders
  <2> HIDE DEF H
  <2>2. Cardinality(H) \in Nat /\ (Cardinality(H) = 0 <=> H = {})
    BY <1>2, FS_EmptySet, FS_CardinalityType
  <2> QED
    BY <1>3, <2>1, <2>2
<1> HIDE DEF H
<1> QED
  BY <1>2, <1>3, <1>4 DEF H

\* A zone changes and takes or gives back what it has no longer or has now.
LEMMA OneChange ==
  ASSUME NEW s, Sound(s), NEW z \in Zones, NEW st, NEW w, NEW v, NEW t,
         Changes(s, t, z, st, w, v)
  PROVE  /\ Placed(t) /\ Exact(t)
         /\ (InUse(st) => w < Cap) => Roomy(t) /\ (t.bug = "none" => Sound(t))
         /\ (\/ w = 0 \/ v \/ ~ InUse(st)
             \/ InUse(s.state[z]) /\ v = s.zrwav[z] /\ w = s.wp[z]) => Kept(s, t)
<1> USE DEF Changes
<1>1. /\ s \in Records /\ Exact(s) /\ Placed(s) /\ Roomy(s)
      /\ s.state \in [Zones -> States] /\ s.wp \in [Zones -> Nat]
      /\ s.zrwav \in [Zones -> BOOLEAN] /\ s.acquired \in [Resources -> Nat]
  BY DEF Sound, Records
<1>2. /\ t.state[z] = st /\ t.wp[z] = w /\ t.zrwav[z] = v
      /\ \A y \in Zones \ {z} : /\ t.state[y] = s.state[y] /\ t.wp[y] = s.wp[y]
                                /\ t.zrwav[y] = s.zrwav[y]
  BY <1>1
<1>3. Placed(t)
  BY <1>1, <1>2 DEF Placed
<1>4. ASSUME NEW r \in Resources PROVE t.acquired[r] = Cardinality(Holders(t, r))
  <2>1. PICK A : A = Holders(s, r) \ {z}
    OBVIOUS
  <2>2. IsFiniteSet(Holders(s, r)) /\ s.acquired[r] = Cardinality(Holders(s, r))
    BY <1>1, Counted DEF Exact
  <2>3. /\ IsFiniteSet(A)
        /\ Cardinality(A) = Cardinality(Holders(s, r)) - One(z \in Holders(s, r))
        /\ Cardinality(A) \in Nat
    BY <2>1, <2>2, FS_RemoveElement, FS_CardinalityType DEF One
  <2>4. Holders(t, r) = IF Has(st, v, r) THEN A \cup {z} ELSE A
    BY <1>2, <2>1 DEF Holders
  <2>5. Cardinality(A \cup {z}) = Cardinality(A) + 1
    BY <2>1, <2>3, FS_AddElement
  <2>6. Cardinality(Holders(t, r)) = Cardinality(A) + One(Has(st, v, r))
    BY <2>3, <2>4, <2>5 DEF One
  <2>7. z \in Holders(s, r) <=> Has(s.state[z], s.zrwav[z], r)
    BY DEF Holders
  <2>8. One(z \in Holders(s, r)) = One(Has(s.state[z], s.zrwav[z], r))
    BY <2>7 DEF One
  <2>9. One(Has(st, v, r)) \in Nat /\ One(z \in Holders(s, r)) \in Nat
    BY DEF One
  <2>10. Cardinality(Holders(s, r)) \in Nat
    BY <2>2, FS_CardinalityType
  <2> QED
    BY <2>2, <2>3, <2>6, <2>8, <2>9, <2>10
<1>5. ASSUME InUse(st) => w < Cap PROVE Roomy(t)
  BY <1>1, <1>2, <1>5 DEF Roomy
<1>6. ASSUME \/ w = 0 \/ v \/ ~ InUse(st)
             \/ InUse(s.state[z]) /\ v = s.zrwav[z] /\ w = s.wp[z]
      PROVE  Kept(s, t)
  BY <1>1, <1>2, <1>6 DEF Kept
<1> QED
  BY <1>3, <1>4, <1>5, <1>6 DEF Exact, Sound

-----------------------------------------------------------------------------
(* Resources, and the commands on one zone. *)

\* A resource is taken, and nothing else changes.
LEMMA AcquireFacts ==
  ASSUME NEW s \in Records, NEW r \in Resources
  PROVE  Takes(s, Acquire(s, r), r)
<1>1. s.acquired \in [Resources -> Nat] /\ s.acquired[r] + 1 \in Nat
  <2>1. s.acquired \in [Resources -> Nat]
    BY Fields
  <2> QED
    BY <2>1
<1>2. PICK t : t = [s EXCEPT !.acquired[r] = s.acquired[r] + 1]
  OBVIOUS
<1>3. t \in Records /\ t.acquired = [s.acquired EXCEPT ![r] = s.acquired[r] + 1]
  BY <1>1, <1>2 DEF Records
<1>4. t.state = s.state /\ t.wp = s.wp /\ t.zrwav = s.zrwav /\ t.bug = s.bug
  BY <1>2 DEF Records
<1>5. \A q \in Resources : t.acquired[q] = s.acquired[q] + One(q = r)
  BY <1>1, <1>3 DEF One
<1>6. Acquire(s, r) = t
  BY <1>2 DEF Acquire
<1> QED
  BY <1>3, <1>4, <1>5, <1>6 DEF Takes, Same

\* A resource that was taken is given back, and nothing else changes.
LEMMA ReleaseFacts ==
  ASSUME NEW s \in Records, NEW r \in Resources, s.acquired[r] >= 1
  PROVE  Gives(s, Release(s, r), r, TRUE)
<1>1. s.acquired \in [Resources -> Nat] /\ s.acquired[r] - 1 \in Nat
  <2>1. s.acquired \in [Resources -> Nat]
    BY Fields
  <2> QED
    BY <2>1
<1>2. Release(s, r) = [s EXCEPT !.acquired[r] = s.acquired[r] - 1]
  BY <1>1 DEF Release
<1>3. PICK t : t = [s EXCEPT !.acquired[r] = s.acquired[r] - 1]
  OBVIOUS
<1>4. t \in Records /\ t.acquired = [s.acquired EXCEPT ![r] = s.acquired[r] - 1]
  BY <1>1, <1>3 DEF Records
<1>5. t.state = s.state /\ t.wp = s.wp /\ t.zrwav = s.zrwav /\ t.bug = s.bug
  BY <1>3 DEF Records
<1>6. \A q \in Resources : t.acquired[q] = s.acquired[q] - One(TRUE /\ q = r)
  BY <1>1, <1>4 DEF One
<1> QED
  BY <1>2, <1>3, <1>4, <1>5, <1>6 DEF Gives, Same

\* As ReleaseFacts, where the resource is given back on a condition.
LEMMA ReleaseIfFacts ==
  ASSUME NEW s \in Records, NEW r \in Resources, NEW c \in BOOLEAN, c => s.acquired[r] >= 1
  PROVE  Gives(s, ReleaseIf(c, s, r), r, c)
<1>1. CASE c
  <2>1. c = TRUE /\ ReleaseIf(c, s, r) = Release(s, r)
    BY <1>1 DEF ReleaseIf
  <2>2. Gives(s, Release(s, r), r, TRUE)
    BY <1>1, ReleaseFacts
  <2> QED
    BY <2>1, <2>2
<1>2. CASE ~ c
  <2>1. ReleaseIf(c, s, r) = s
    BY <1>2 DEF ReleaseIf
  <2>2. ASSUME NEW q \in Resources PROVE s.acquired[q] = s.acquired[q] - One(c /\ q = r)
    <3>1. One(c /\ q = r) = 0
      BY <1>2 DEF One
    <3>2. s.acquired[q] \in Nat
      BY Fields
    <3> QED
      BY <3>1, <3>2
  <2> QED
    BY <2>1, <2>2 DEF Gives, Same
<1> QED
  BY <1>1, <1>2

\* SetState changes one state.
LEMMA SetStateFacts ==
  ASSUME NEW s \in Records, NEW z \in Zones, NEW st \in States
  PROVE  Turns(s, SetState(s, z, st), z, st)
BY DEF SetState, Records, Turns, Same

\* A zone that is finished or reset gives back what it has.
LEMMA DeactivatedFacts ==
  ASSUME NEW s \in Records, NEW z \in Zones,
         \A r \in Resources : Has(s.state[z], s.zrwav[z], r) => s.acquired[r] >= 1
  PROVE  GivesAll(s, Deactivated(s, z), z)
<1>1. CASE ~ InUse(s.state[z])
  <2>1. Deactivated(s, z) = s
    BY <1>1 DEF Deactivated, InUse
  <2>2. \A q \in Resources : ~ Has(s.state[z], s.zrwav[z], q)
    BY <1>1 DEF Has, InUse, Resources
  <2>3. ASSUME NEW q \in Resources
        PROVE  s.acquired[q] = s.acquired[q] - One(Has(s.state[z], s.zrwav[z], q))
    <3>1. s.acquired[q] \in Nat
      BY Fields
    <3>2. One(Has(s.state[z], s.zrwav[z], q)) = 0
      BY <2>2 DEF One
    <3> QED
      BY <3>1, <3>2
  <2> QED
    BY <2>1, <2>3 DEF GivesAll, Same
<1>2. CASE InUse(s.state[z])
  <2>1. PICK c \in BOOLEAN : c <=> s.state[z] \in Opened
    OBVIOUS
  <2>2. PICK v : v = s.zrwav[z]
    OBVIOUS
  <2>3. PICK a : a = ReleaseIf(c, s, "OPEN")
    OBVIOUS
  <2>4. PICK b : b = Release(a, "ACTIVE")
    OBVIOUS
  <2>5. PICK d : d = ReleaseIf(v, b, "ZRWA")
    OBVIOUS
  <2>6. Deactivated(s, z) = d
    <3>1. c = (s.state[z] \in Opened)
      BY <2>1
    <3> QED
      BY <1>2, <2>2, <2>3, <2>4, <2>5, <3>1 DEF Deactivated, InUse
  <2>7. /\ v \in BOOLEAN /\ s.acquired \in [Resources -> Nat]
        /\ \A q \in Resources : s.acquired[q] \in Nat
    BY <2>2, Fields
  <2>8. /\ c <=> Has(s.state[z], v, "OPEN")
        /\ Has(s.state[z], v, "ACTIVE")
        /\ v <=> Has(s.state[z], v, "ZRWA")
    BY <1>2, <2>1 DEF Has, InUse
  <2>9. /\ c => s.acquired["OPEN"] >= 1
        /\ s.acquired["ACTIVE"] >= 1
        /\ v => s.acquired["ZRWA"] >= 1
    BY <2>2, <2>8, Three
  <2>10. Gives(s, a, "OPEN", c)
    BY <2>3, <2>9, Three, ReleaseIfFacts
  <2>11. Gives(a, b, "ACTIVE", TRUE)
    <3>1. a \in Records /\ a.acquired["ACTIVE"] >= 1
      BY <2>7, <2>9, <2>10, Three DEF Gives, Same, One
    <3> QED
      BY <2>4, <3>1, Three, ReleaseFacts
  <2>12. Gives(b, d, "ZRWA", v)
    <3>1. b \in Records /\ (v => b.acquired["ZRWA"] >= 1)
      BY <2>7, <2>9, <2>10, <2>11, Three DEF Gives, Same, One
    <3> QED
      BY <2>5, <2>7, <3>1, Three, ReleaseIfFacts
  <2>13. ASSUME NEW q \in Resources
         PROVE  d.acquired[q] = s.acquired[q] - One(Has(s.state[z], v, q))
    <3>1. s.acquired[q] \in Nat /\ (q = "OPEN" \/ q = "ACTIVE" \/ q = "ZRWA")
      BY <2>7, Three
    <3>2. d.acquired[q] = s.acquired[q] - One(c /\ q = "OPEN") - One(TRUE /\ q = "ACTIVE")
                          - One(v /\ q = "ZRWA")
      BY <2>10, <2>11, <2>12 DEF Gives
    <3>3. CASE q = "OPEN"
      BY <2>8, <3>1, <3>2, <3>3 DEF One
    <3>4. CASE q = "ACTIVE"
      BY <2>8, <3>1, <3>2, <3>4 DEF One
    <3>5. CASE q = "ZRWA"
      BY <2>8, <3>1, <3>2, <3>5 DEF One
    <3> QED
      BY <3>1, <3>3, <3>4, <3>5
  <2> QED
    BY <2>2, <2>6, <2>10, <2>11, <2>12, <2>13 DEF Gives, Same, GivesAll
<1> QED
  BY <1>1, <1>2

\* What holds of a zone of a thread that runs.
LEMMA SoundFacts ==
  ASSUME NEW s, Sound(s), NEW z \in Zones
  PROVE  /\ s \in Records /\ s.bug = "none" /\ Exact(s)
         /\ s.state[z] \in States /\ s.zrwav[z] \in BOOLEAN /\ s.wp[z] \in 0 .. Cap
         /\ InUse(s.state[z]) => s.wp[z] < Cap
         /\ s.state[z] = "EMPTY" => s.wp[z] = 0 /\ ~ s.zrwav[z]
         /\ \A r \in Resources : /\ s.acquired[r] \in 0 .. NrZones
                                 /\ Has(s.state[z], s.zrwav[z], r) => s.acquired[r] >= 1
         /\ s.wp = [s.wp EXCEPT ![z] = s.wp[z]]
         /\ s.zrwav = [s.zrwav EXCEPT ![z] = s.zrwav[z]]
         /\ s.state = [s.state EXCEPT ![z] = s.state[z]]
<1>1. s \in Records /\ s.bug = "none" /\ Exact(s) /\ Placed(s) /\ Roomy(s)
  BY DEF Sound
<1>2. s.state[z] \in States /\ s.zrwav[z] \in BOOLEAN /\ s.wp[z] \in Nat
  BY <1>1, Fields
<1>3. ASSUME NEW r \in Resources
      PROVE  /\ s.acquired[r] \in 0 .. NrZones
             /\ Has(s.state[z], s.zrwav[z], r) => s.acquired[r] >= 1
  <2>1. s.acquired[r] \in Nat /\ NrZones \in Nat
    BY <1>1, Fields, Sizes
  <2> QED
    BY <1>1, <2>1, Counted
<1>4. Cap \in Nat
  BY Sizes
<1>5. /\ s.wp = [s.wp EXCEPT ![z] = s.wp[z]]
      /\ s.zrwav = [s.zrwav EXCEPT ![z] = s.zrwav[z]]
      /\ s.state = [s.state EXCEPT ![z] = s.state[z]]
  <2>1. s.wp \in [Zones -> Nat] /\ s.zrwav \in [Zones -> BOOLEAN] /\ s.state \in [Zones -> States]
    BY <1>1, Fields
  <2> QED
    BY <2>1
<1> QED
  BY <1>1, <1>2, <1>3, <1>4, <1>5 DEF Placed, Roomy

\* A write pointer lies in its zone, at the start of an empty one.
LEMMA EmptyAtStart ==
  ASSUME NEW s, Sound(s), NEW z \in Zones
  PROVE  s.wp[z] \in 0 .. Cap /\ (s.state[z] = "EMPTY" => s.wp[z] = 0)
<1>1. s.wp[z] \in 0 .. Cap
  BY SoundFacts
<1>2. s.state[z] = "EMPTY" => s.wp[z] = 0
  BY SoundFacts
<1> QED
  BY <1>1, <1>2

\* What the states of a zone give it.
LEMMA HasFacts ==
  /\ \A st, v : /\ Has(st, v, "OPEN") <=> st \in Opened
                /\ Has(st, v, "ACTIVE") <=> InUse(st)
                /\ Has(st, v, "ZRWA") <=> InUse(st) /\ v
  /\ \A st \in Opened : InUse(st) /\ st \in States /\ st # "EMPTY"
  /\ InUse("CLOSED") /\ ~ InUse("EMPTY") /\ ~ InUse("FULL") /\ "CLOSED" \notin Opened
  /\ \A st \in States : InUse(st) => st # "EMPTY"
  /\ {"CLOSED", "OPENED_IMPL", "OPENED_EXPL", "EMPTY", "FULL"} \subseteq States
  /\ {"OPENED_IMPL", "OPENED_EXPL"} \subseteq Opened
BY DEF Has, InUse, Opened, States

\* One zone has changed as its state, write pointer and resources must.
LEMMA Changed ==
  ASSUME NEW s, Sound(s), NEW z \in Zones, NEW st, NEW w, NEW v, NEW t,
         Changes(s, t, z, st, w, v), t.bug = "none", InUse(st) => w < Cap,
         \/ w = 0 \/ v \/ ~ InUse(st)
         \/ InUse(s.state[z]) /\ v = s.zrwav[z] /\ w = s.wp[z]
  PROVE  Goes(s, t)
BY OneChange DEF Goes

\* Nothing has changed.
LEMMA Stays ==
  ASSUME NEW s, Sound(s) PROVE Goes(s, s)
BY DEF Goes, Kept

\* From step to step.
LEMMA GoesOn ==
  ASSUME NEW s, NEW t, NEW u, Goes(s, t), Goes(t, u)
  PROVE  Goes(s, u)
BY DEF Goes, Kept

\* Closing a zone.
LEMMA CloseKeeps ==
  ASSUME NEW s, Sound(s), NEW z \in Zones
  PROVE  Goes(s, CloseZone(s, z))
<1>1. CASE s.state[z] \notin Opened
  BY <1>1, Stays DEF CloseZone
<1>2. CASE s.state[z] \in Opened
  <2>1. PICK a : a = SetState(s, z, "CLOSED")
    OBVIOUS
  <2>2. s \in Records /\ "CLOSED" \in States
    BY SoundFacts, HasFacts
  <2>3. Turns(s, a, z, "CLOSED")
    BY <2>1, <2>2, SetStateFacts
  <2>4. a \in Records /\ a.acquired["OPEN"] >= 1
    <3>1. Has(s.state[z], s.zrwav[z], "OPEN")
      BY <1>2, HasFacts
    <3> QED
      BY <2>3, <3>1, SoundFacts, Three DEF Turns, Same
  <2>5. PICK t : t = Release(a, "OPEN")
    OBVIOUS
  <2>6. Gives(a, t, "OPEN", TRUE)
    BY <2>4, <2>5, Three, ReleaseFacts
  <2>7. PICK w, v : w = s.wp[z] /\ v = s.zrwav[z]
    OBVIOUS
  <2>8. ASSUME NEW q \in Resources
        PROVE  t.acquired[q] = s.acquired[q] + One(Has("CLOSED", v, q))
                               - One(Has(s.state[z], s.zrwav[z], q))
    <3>1. t.acquired[q] = s.acquired[q] - One(TRUE /\ q = "OPEN")
      BY <2>3, <2>6 DEF Turns, Gives
    <3>2. s.acquired[q] \in Nat
      BY <2>2, Fields
    <3>3. One(Has("CLOSED", v, q)) = One(Has(s.state[z], s.zrwav[z], q)) - One(TRUE /\ q = "OPEN")
      <4>1. /\ s.state[z] \in Opened => InUse(s.state[z])
            /\ InUse("CLOSED") /\ "CLOSED" \notin Opened
        BY HasFacts
      <4> QED
        BY <1>2, <2>7, <4>1, Three DEF Has, One
    <3>4. One(Has(s.state[z], s.zrwav[z], q)) \in Nat /\ One(TRUE /\ q = "OPEN") \in Nat
      BY DEF One
    <3> QED
      BY <3>1, <3>2, <3>3, <3>4
  <2>9. Changes(s, t, z, "CLOSED", w, v)
    <3>1. w \in 0 .. Cap /\ v \in BOOLEAN
      BY <2>7, SoundFacts
    <3>2. t.wp = [s.wp EXCEPT ![z] = w] /\ t.zrwav = [s.zrwav EXCEPT ![z] = v]
      BY <2>3, <2>6, <2>7, SoundFacts DEF Turns, Gives, Same
    <3>3. t \in Records /\ t.state = [s.state EXCEPT ![z] = "CLOSED"]
      BY <2>3, <2>6 DEF Turns, Gives, Same
    <3> QED
      BY <2>2, <2>8, <3>1, <3>2, <3>3 DEF Changes
  <2>10. InUse(s.state[z]) /\ w < Cap /\ t.bug = "none"
    <3>1. InUse(s.state[z])
      BY <1>2, HasFacts
    <3> QED
      BY <2>3, <2>6, <2>7, <3>1, SoundFacts DEF Turns, Gives, Same
  <2>11. Goes(s, t)
    BY <2>7, <2>9, <2>10, Changed
  <2> QED
    BY <1>2, <2>1, <2>5, <2>11 DEF CloseZone
<1> QED
  BY <1>1, <1>2

\* A zone ends up in a state in which it has nothing, and has given all back.
LEMMA GivenBack ==
  ASSUME NEW s, Sound(s), NEW z \in Zones, NEW st, NEW w, NEW v, NEW t,
         Leaves(s, t, z, st, w, v)
  PROVE  Goes(s, t)
<1> USE DEF Leaves
<1>1. st \in States /\ ~ InUse(st)
  BY HasFacts
<1>2. ASSUME NEW q \in Resources
      PROVE  t.acquired[q] = s.acquired[q] + One(Has(st, v, q))
                             - One(Has(s.state[z], s.zrwav[z], q))
  <2>1. One(Has(st, v, q)) = 0
    <3>1. ~ (st \in Opened)
      BY <1>1 DEF InUse
    <3> QED
      BY <1>1, <3>1, Three DEF One, Has
  <2>2. s.acquired[q] \in Nat
    BY Fields DEF Sound
  <2>3. One(Has(s.state[z], s.zrwav[z], q)) \in Nat
    BY DEF One
  <2>4. t.acquired[q] = s.acquired[q] - One(Has(s.state[z], s.zrwav[z], q))
    OBVIOUS
  <2> QED
    BY <2>1, <2>2, <2>3, <2>4
<1>3. Changes(s, t, z, st, w, v)
  BY <1>1, <1>2 DEF Changes
<1> QED
  BY <1>1, <1>3, Changed

\* What a zone of a thread that runs gives back.
LEMMA DeactivatedSound ==
  ASSUME NEW s, Sound(s), NEW z \in Zones
  PROVE  GivesAll(s, Deactivated(s, z), z)
<1>1. s \in Records /\ \A r \in Resources : Has(s.state[z], s.zrwav[z], r) => s.acquired[r] >= 1
  BY SoundFacts
<1> QED
  BY <1>1, DeactivatedFacts

\* Finishing a zone.
LEMMA FinishKeeps ==
  ASSUME NEW s, Sound(s), NEW z \in Zones
  PROVE  Goes(s, FinishZone(s, z))
<1>1. PICK a : a = Deactivated(s, z)
  OBVIOUS
<1>2. GivesAll(s, a, z)
  BY <1>1, DeactivatedSound
<1>3. PICK t : t = SetState(a, z, "FULL")
  OBVIOUS
<1>4. Turns(a, t, z, "FULL")
  <2>1. a \in Records /\ "FULL" \in States
    BY <1>2, HasFacts DEF GivesAll, Same
  <2> QED
    BY <1>3, <2>1, SetStateFacts
<1>5. PICK w, v : w = s.wp[z] /\ v = s.zrwav[z]
  OBVIOUS
<1>6. /\ w \in 0 .. Cap /\ v \in BOOLEAN /\ t.bug = "none"
      /\ t.wp = [s.wp EXCEPT ![z] = w] /\ t.zrwav = [s.zrwav EXCEPT ![z] = v]
  <2>1. t.bug = s.bug /\ t.wp = s.wp /\ t.zrwav = s.zrwav
    BY <1>2, <1>4 DEF GivesAll, Turns, Same
  <2>2. /\ s.bug = "none" /\ s.zrwav[z] \in BOOLEAN /\ s.wp[z] \in 0 .. Cap
        /\ s.wp = [s.wp EXCEPT ![z] = s.wp[z]] /\ s.zrwav = [s.zrwav EXCEPT ![z] = s.zrwav[z]]
    BY SoundFacts
  <2> QED
    BY <1>5, <2>1, <2>2
<1>7. /\ t \in Records /\ t.state = [s.state EXCEPT ![z] = "FULL"]
      /\ \A q \in Resources :
           t.acquired[q] = s.acquired[q] - One(Has(s.state[z], s.zrwav[z], q))
  BY <1>2, <1>4 DEF GivesAll, Turns, Same
<1>8. Leaves(s, t, z, "FULL", w, v)
  BY <1>6, <1>7 DEF Leaves
<1>9. Goes(s, t)
  BY <1>8, GivenBack
<1> QED
  BY <1>1, <1>3, <1>9 DEF FinishZone

\* Resetting a zone.
LEMMA ResetKeeps ==
  ASSUME NEW s, Sound(s), NEW z \in Zones
  PROVE  Goes(s, ResetZone(s, z))
<1>1. PICK a : a = Deactivated(s, z)
  OBVIOUS
<1>2. GivesAll(s, a, z)
  BY <1>1, DeactivatedSound
<1>3. PICK b : b = SetState(a, z, "EMPTY")
  OBVIOUS
<1>4. Turns(a, b, z, "EMPTY")
  <2>1. a \in Records /\ "EMPTY" \in States
    BY <1>2, HasFacts DEF GivesAll, Same
  <2> QED
    BY <1>3, <2>1, SetStateFacts
<1>5. PICK t : t = [b EXCEPT !.wp[z] = 0, !.zrwav[z] = FALSE]
  OBVIOUS
<1>6. /\ t \in Records /\ t.state = b.state /\ t.bug = b.bug /\ t.acquired = b.acquired
      /\ t.wp = [b.wp EXCEPT ![z] = 0] /\ t.zrwav = [b.zrwav EXCEPT ![z] = FALSE]
  <2>1. b \in Records
    BY <1>4 DEF Turns, Same
  <2> QED
    BY <1>5, <2>1 DEF Records
<1>7. /\ t.state = [s.state EXCEPT ![z] = "EMPTY"]
      /\ t.wp = [s.wp EXCEPT ![z] = 0] /\ t.zrwav = [s.zrwav EXCEPT ![z] = FALSE]
      /\ \A q \in Resources :
           t.acquired[q] = s.acquired[q] - One(Has(s.state[z], s.zrwav[z], q))
  BY <1>2, <1>4, <1>6 DEF GivesAll, Turns, Same
<1>8. t.bug = "none"
  BY <1>2, <1>4, <1>6, SoundFacts DEF GivesAll, Turns, Same
<1>9. 0 \in 0 .. Cap
  BY Sizes
<1>10. Leaves(s, t, z, "EMPTY", 0, FALSE)
  BY <1>6, <1>7, <1>8, <1>9 DEF Leaves
<1>11. Goes(s, t)
  BY <1>10, GivenBack
<1> QED
  BY <1>1, <1>3, <1>5, <1>11 DEF ResetZone

\* The write pointer of a zone in use is moved.
LEMMA Moved ==
  ASSUME NEW s, Sound(s), NEW z \in Zones, InUse(s.state[z]), NEW w \in 0 .. Cap
  PROVE  /\ Changes(s, SetWp(s, z, w), z, s.state[z], w, s.zrwav[z])
         /\ MovesTo(s, SetWp(s, z, w), z, w)
<1>1. PICK m : m = SetWp(s, z, w)
  OBVIOUS
<1>2. /\ s \in Records /\ s.bug = "none" /\ s.state[z] \in States /\ s.zrwav[z] \in BOOLEAN
      /\ s.zrwav = [s.zrwav EXCEPT ![z] = s.zrwav[z]]
      /\ s.state = [s.state EXCEPT ![z] = s.state[z]]
  BY SoundFacts
<1>3. w \in Nat
  BY Sizes
<1>4. /\ m \in Records /\ m.state = s.state /\ m.zrwav = s.zrwav /\ m.bug = s.bug
      /\ m.acquired = s.acquired /\ m.wp = [s.wp EXCEPT ![z] = w]
  BY <1>1, <1>2, <1>3 DEF Records, SetWp
<1>5. ASSUME NEW q \in Resources
      PROVE  m.acquired[q] = s.acquired[q] + One(Has(s.state[z], s.zrwav[z], q))
                             - One(Has(s.state[z], s.zrwav[z], q))
  <2>1. s.acquired[q] \in Nat
    BY <1>2, Fields
  <2>2. One(Has(s.state[z], s.zrwav[z], q)) \in Nat
    BY DEF One
  <2> QED
    BY <1>4, <2>1, <2>2
<1>6. s.state[z] # "EMPTY"
  BY <1>2, HasFacts
<1> QED
  BY <1>1, <1>2, <1>4, <1>5, <1>6 DEF Changes, MovesTo

\* A zone whose write pointer has reached its end gives back what it has.
LEMMA EndsFull ==
  ASSUME NEW s, Sound(s), NEW z \in Zones, InUse(s.state[z])
  PROVE  Goes(s, SetState(Deactivated(SetWp(s, z, Cap), z), z, "FULL"))
<1>1. Cap \in 0 .. Cap
  BY Sizes
<1>2. PICK w : w = Cap
  OBVIOUS
<1>3. PICK m : m = SetWp(s, z, w)
  OBVIOUS
<1>4. MovesTo(s, m, z, w)
  BY <1>1, <1>2, <1>3, Moved
<1>5. /\ m \in Records /\ m.state = s.state /\ m.zrwav = s.zrwav /\ m.bug = "none"
      /\ m.acquired = s.acquired /\ m.wp = [s.wp EXCEPT ![z] = w]
  BY <1>4 DEF MovesTo, Sound
<1>6. PICK a : a = Deactivated(m, z)
  OBVIOUS
<1>7. GivesAll(m, a, z)
  <2>1. \A r \in Resources : Has(s.state[z], s.zrwav[z], r) => s.acquired[r] >= 1
    BY SoundFacts
  <2>2. \A r \in Resources : Has(m.state[z], m.zrwav[z], r) => m.acquired[r] >= 1
    BY <1>5, <2>1
  <2> QED
    BY <1>5, <1>6, <2>2, DeactivatedFacts
<1>8. PICK t : t = SetState(a, z, "FULL")
  OBVIOUS
<1>9. Turns(a, t, z, "FULL")
  <2>1. a \in Records /\ "FULL" \in States
    BY <1>7, HasFacts DEF GivesAll, Same
  <2> QED
    BY <1>8, <2>1, SetStateFacts
<1>10. PICK v : v = s.zrwav[z]
  OBVIOUS
<1>11. /\ v \in BOOLEAN /\ t.zrwav = [s.zrwav EXCEPT ![z] = v]
  BY <1>5, <1>7, <1>9, <1>10, SoundFacts DEF GivesAll, Turns, Same
<1>12. /\ t \in Records /\ t.state = [s.state EXCEPT ![z] = "FULL"] /\ t.bug = "none"
       /\ t.wp = [s.wp EXCEPT ![z] = w]
       /\ \A q \in Resources :
            t.acquired[q] = s.acquired[q] - One(Has(s.state[z], s.zrwav[z], q))
  BY <1>5, <1>7, <1>9 DEF GivesAll, Turns, Same
<1>13. Leaves(s, t, z, "FULL", w, v)
  BY <1>1, <1>2, <1>11, <1>12 DEF Leaves
<1>14. Goes(s, t)
  BY <1>13, GivenBack
<1> QED
  BY <1>2, <1>3, <1>6, <1>8, <1>14

\* A sound thread has not more resources than there are zones.
LEMMA SoundRuns ==
  ASSUME NEW s, Sound(s)
  PROVE  Running(s)
<1>1. s \in Records /\ s.bug = "none" /\ Exact(s) /\ Placed(s)
  BY DEF Sound
<1>2. \A r \in Resources : s.acquired[r] <= NrZones
  BY <1>1, Counted
<1> QED
  BY <1>1, <1>2 DEF Running

\* The thread is stopped.
LEMMA Dying ==
  ASSUME NEW s, Bounded(s), NEW bug \in {"zrwa full", "division", "null"}
  PROVE  /\ Running(Dead(s, bug)) /\ Dead(s, bug).wp = s.wp /\ Dead(s, bug).zrwav = s.zrwav
         /\ Dead(s, bug).state = s.state
<1>1. PICK t : t = Dead(s, bug)
  OBVIOUS
<1>2. /\ t \in Records /\ t.state = s.state /\ t.wp = s.wp /\ t.zrwav = s.zrwav
      /\ t.acquired = s.acquired /\ t.bug = bug
  <2>1. s \in Records
    BY DEF Bounded
  <2> QED
    BY <1>1, <2>1 DEF Dead, Records
<1>3. Running(t)
  BY <1>2 DEF Running, Placed, Bounded
<1> QED
  BY <1>1, <1>2, <1>3

\* A thread that runs keeps what it does not touch, and after two steps what
\* it kept in each.
LEMMA RunsOn ==
  /\ \A s : Running(s) => Runs(s, s)
  /\ \A s, t : Goes(s, t) => Runs(s, t)
  /\ \A s, t, u : Runs(s, t) /\ Runs(t, u) => Runs(s, u)
  /\ \A s, t : t.wp = s.wp /\ t.zrwav = s.zrwav /\ t.state = s.state => Kept(s, t)
<1>1. \A s, t : Goes(s, t) => Runs(s, t)
  BY SoundRuns DEF Goes, Runs
<1> QED
  BY <1>1 DEF Runs, Kept

\* Flushing the random write area of a zone.
LEMMA FlushKeeps ==
  ASSUME NEW s, Running(s), NEW z \in Zones, NEW lba \in 0 .. Cap - 1
  PROVE  Runs(s, FlushZrwa(s, z, lba))
<1>1. PICK w : w = lba + 1
  OBVIOUS
<1>2. PICK m : m = SetWp(s, z, w)
  OBVIOUS
<1>3. Cap \in Nat /\ w \in 0 .. Cap
  BY <1>1, Sizes
<1>4. CASE FlushZrwa(s, z, lba) = s
  BY <1>4, RunsOn
<1>5. ASSUME Sound(s), s.zrwav[z], InUse(s.state[z]), w # Cap, FlushZrwa(s, z, lba) = m
      PROVE  Runs(s, FlushZrwa(s, z, lba))
  <2>1. PICK st, v : st = s.state[z] /\ v = s.zrwav[z]
    OBVIOUS
  <2>2. Changes(s, m, z, st, w, v) /\ m.bug = "none"
    <3>1. Changes(s, m, z, s.state[z], w, s.zrwav[z]) /\ MovesTo(s, m, z, w)
      BY <1>2, <1>3, <1>5, Moved
    <3> QED
      BY <1>5, <2>1, <3>1 DEF MovesTo, Sound
  <2>3. w < Cap /\ v
    BY <1>3, <1>5, <2>1
  <2>4. Goes(s, m)
    BY <1>5, <2>2, <2>3, Changed
  <2> QED
    BY <1>5, <2>4, RunsOn
<1>6. ASSUME Sound(s), InUse(s.state[z]), w = Cap,
             FlushZrwa(s, z, lba) = SetState(Deactivated(m, z), z, "FULL")
      PROVE  Runs(s, FlushZrwa(s, z, lba))
  <2>1. m = SetWp(s, z, Cap)
    BY <1>2, <1>6
  <2>2. Goes(s, SetState(Deactivated(m, z), z, "FULL"))
    BY <1>6, <2>1, EndsFull
  <2> QED
    BY <1>6, <2>2, RunsOn
<1>7. CASE FlushZrwa(s, z, lba) = Dead(s, "division")
  <2>1. Bounded(s)
    BY DEF Running, Bounded
  <2>2. /\ Running(Dead(s, "division")) /\ Dead(s, "division").wp = s.wp
        /\ Dead(s, "division").zrwav = s.zrwav /\ Dead(s, "division").state = s.state
    BY <2>1, Dying
  <2>3. Runs(s, Dead(s, "division"))
    BY <2>2, RunsOn DEF Runs
  <2> QED
    BY <1>7, <2>3
<1>8. \/ FlushZrwa(s, z, lba) = s
      \/ FlushZrwa(s, z, lba) = Dead(s, "division")
      \/ /\ s.bug = "none" /\ s.zrwav[z] /\ InUse(s.state[z])
         /\ \/ w # Cap /\ FlushZrwa(s, z, lba) = m
            \/ w = Cap /\ FlushZrwa(s, z, lba) = SetState(Deactivated(m, z), z, "FULL")
  <2>1. m.wp[z] = w
    <3>1. s.wp \in [Zones -> Nat]
      BY Fields DEF Running
    <3>2. m.wp = [s.wp EXCEPT ![z] = w]
      BY <1>2 DEF SetWp, Running, Records
    <3> QED
      BY <3>1, <3>2
  <2> QED
    BY <1>1, <1>2, <2>1 DEF FlushZrwa, InUse, SetWp, Dead
<1> QED
  BY <1>4, <1>5, <1>6, <1>7, <1>8 DEF Running

\* A zone that has nothing takes an ACTIVE and an OPEN resource.
LEMMA BothTaken ==
  ASSUME NEW s \in Records
  PROVE  LET a == Acquire(Acquire(s, "ACTIVE"), "OPEN")
         IN /\ Same(s, a) /\ a.state = s.state
            /\ \A q \in Resources :
                 a.acquired[q] = s.acquired[q] + One(q = "ACTIVE") + One(q = "OPEN")
<1>1. PICK b : b = Acquire(s, "ACTIVE")
  OBVIOUS
<1>2. Takes(s, b, "ACTIVE")
  BY <1>1, Three, AcquireFacts
<1>3. PICK a : a = Acquire(b, "OPEN")
  OBVIOUS
<1>4. Takes(b, a, "OPEN")
  <2>1. b \in Records
    BY <1>2 DEF Takes, Same
  <2> QED
    BY <1>3, <2>1, Three, AcquireFacts
<1>5. /\ Same(s, a) /\ a.state = s.state
      /\ \A q \in Resources :
           a.acquired[q] = s.acquired[q] + One(q = "ACTIVE") + One(q = "OPEN")
  BY <1>2, <1>4 DEF Takes, Same
<1> QED
  BY <1>1, <1>3, <1>5

\* An empty zone is opened without a random write area.
LEMMA Began ==
  ASSUME NEW s, Sound(s), NEW z \in Zones, s.state[z] = "EMPTY", NEW st \in Opened
  PROVE  Opens(s, SetState(Acquire(Acquire(s, "ACTIVE"), "OPEN"), z, st), z, st)
<1>1. /\ s \in Records /\ s.bug = "none" /\ s.wp[z] = 0 /\ ~ s.zrwav[z]
      /\ s.wp = [s.wp EXCEPT ![z] = s.wp[z]]
      /\ s.zrwav = [s.zrwav EXCEPT ![z] = s.zrwav[z]] /\ s.zrwav[z] \in BOOLEAN
  BY SoundFacts
<1>2. st \in States /\ InUse(st) /\ st # "EMPTY" /\ ~ InUse("EMPTY")
  BY HasFacts
<1>3. PICK a : a = Acquire(Acquire(s, "ACTIVE"), "OPEN")
  OBVIOUS
<1>4. /\ Same(s, a) /\ a.state = s.state
      /\ \A q \in Resources :
           a.acquired[q] = s.acquired[q] + One(q = "ACTIVE") + One(q = "OPEN")
  BY <1>1, <1>3, BothTaken
<1>5. PICK t : t = SetState(a, z, st)
  OBVIOUS
<1>6. Turns(a, t, z, st)
  <2>1. a \in Records
    BY <1>4 DEF Same
  <2> QED
    BY <1>2, <1>5, <2>1, SetStateFacts
<1>7. PICK w, v : w = s.wp[z] /\ v = s.zrwav[z]
  OBVIOUS
<1>8. ASSUME NEW q \in Resources
      PROVE  t.acquired[q] = s.acquired[q] + One(Has(st, v, q))
                             - One(Has(s.state[z], s.zrwav[z], q))
  <2>1. /\ t.acquired[q] = s.acquired[q] + One(q = "ACTIVE") + One(q = "OPEN")
        /\ s.acquired[q] \in Nat
    <3>1. s.acquired[q] \in Nat
      BY <1>1, Fields
    <3> QED
      BY <1>4, <1>6, <3>1 DEF Turns
  <2>2. One(Has(s.state[z], s.zrwav[z], q)) = 0
    <3>1. ~ Has(s.state[z], s.zrwav[z], q)
      BY <1>2, Three DEF Has, InUse
    <3> QED
      BY <3>1 DEF One
  <2>3. One(Has(st, v, q)) = One(q = "ACTIVE") + One(q = "OPEN")
    BY <1>1, <1>2, <1>7, Three DEF One, Has
  <2>4. One(q = "ACTIVE") \in Nat /\ One(q = "OPEN") \in Nat
    BY DEF One
  <2> QED
    BY <2>1, <2>2, <2>3, <2>4
<1>9. w \in 0 .. Cap /\ w < Cap /\ w = 0
  BY <1>1, <1>7, Sizes
<1>10. Changes(s, t, z, st, w, v)
  <2>1. t \in Records /\ t.state = [s.state EXCEPT ![z] = st] /\ t.wp = s.wp /\ t.zrwav = s.zrwav
    BY <1>4, <1>6 DEF Turns, Same
  <2>2. t.wp = [s.wp EXCEPT ![z] = w] /\ t.zrwav = [s.zrwav EXCEPT ![z] = v]
    BY <1>1, <1>7, <2>1
  <2> QED
    BY <1>1, <1>2, <1>7, <1>8, <1>9, <2>1, <2>2 DEF Changes
<1>11. t.bug = "none" /\ t.wp = s.wp /\ t.zrwav = s.zrwav
  BY <1>1, <1>4, <1>6 DEF Turns, Same
<1>12. Goes(s, t)
  BY <1>9, <1>10, <1>11, Changed
<1>13. t.state[z] = st
  <2>1. s.state \in [Zones -> States]
    BY <1>1, Fields
  <2> QED
    BY <1>10, <2>1 DEF Changes
<1> QED
  BY <1>3, <1>5, <1>11, <1>12, <1>13 DEF Opens

\* An empty zone is opened with a random write area.
LEMMA BeganZrwa ==
  ASSUME NEW s, Sound(s), NEW z \in Zones, s.state[z] = "EMPTY"
  PROVE  Goes(s, SetState(WithZrwa(Acquire(Acquire(Acquire(s, "ACTIVE"), "OPEN"), "ZRWA"), z),
                          z, "OPENED_EXPL"))
<1>1. /\ s \in Records /\ s.bug = "none" /\ s.wp[z] = 0 /\ ~ s.zrwav[z]
      /\ s.wp = [s.wp EXCEPT ![z] = s.wp[z]]
  BY SoundFacts
<1>2. PICK st : st = "OPENED_EXPL"
  OBVIOUS
<1>3. st \in Opened
  BY <1>2, HasFacts
<1>4. st \in States /\ InUse(st) /\ st # "EMPTY" /\ ~ InUse("EMPTY")
  BY <1>3, HasFacts
<1>5. PICK a : a = Acquire(Acquire(s, "ACTIVE"), "OPEN")
  OBVIOUS
<1>6. /\ Same(s, a) /\ a.state = s.state
      /\ \A q \in Resources :
           a.acquired[q] = s.acquired[q] + One(q = "ACTIVE") + One(q = "OPEN")
  BY <1>1, <1>5, BothTaken
<1>7. PICK b : b = Acquire(a, "ZRWA")
  OBVIOUS
<1>8. Takes(a, b, "ZRWA")
  <2>1. a \in Records
    BY <1>6 DEF Same
  <2> QED
    BY <1>7, <2>1, Three, AcquireFacts
<1>9. PICK c : c = WithZrwa(b, z)
  OBVIOUS
<1>10. /\ c \in Records /\ c.state = b.state /\ c.wp = b.wp /\ c.bug = b.bug
      /\ c.acquired = b.acquired /\ c.zrwav = [b.zrwav EXCEPT ![z] = TRUE]
  <2>1. b \in Records
    BY <1>8 DEF Takes, Same
  <2> QED
    BY <1>9, <2>1 DEF WithZrwa, Records
<1>11. PICK t : t = SetState(c, z, st)
  OBVIOUS
<1>12. Turns(c, t, z, st)
  BY <1>4, <1>10, <1>11, SetStateFacts
<1>13. PICK w, v : w = s.wp[z] /\ v = TRUE
  OBVIOUS
<1>14. ASSUME NEW q \in Resources
       PROVE  t.acquired[q] = s.acquired[q] + One(Has(st, v, q))
                              - One(Has(s.state[z], s.zrwav[z], q))
  <2>1. /\ t.acquired[q] = s.acquired[q] + One(q = "ACTIVE") + One(q = "OPEN") + One(q = "ZRWA")
        /\ s.acquired[q] \in Nat
    <3>1. s.acquired[q] \in Nat
      BY <1>1, Fields
    <3> QED
      BY <1>6, <1>8, <1>10, <1>12, <3>1 DEF Turns, Takes
  <2>2. One(Has(s.state[z], s.zrwav[z], q)) = 0
    <3>1. ~ Has(s.state[z], s.zrwav[z], q)
      BY <1>4, Three DEF Has, InUse
    <3> QED
      BY <3>1 DEF One
  <2>3. One(Has(st, v, q)) = One(q = "ACTIVE") + One(q = "OPEN") + One(q = "ZRWA")
    BY <1>3, <1>4, <1>13, Three DEF One, Has
  <2>4. One(q = "ACTIVE") \in Nat /\ One(q = "OPEN") \in Nat /\ One(q = "ZRWA") \in Nat
    BY DEF One
  <2> QED
    BY <2>1, <2>2, <2>3, <2>4
<1>15. w \in 0 .. Cap /\ w < Cap /\ w = 0
  BY <1>1, <1>13, Sizes
<1>16. Changes(s, t, z, st, w, v)
  <2>1. /\ t \in Records /\ t.state = [s.state EXCEPT ![z] = st] /\ t.wp = s.wp
        /\ t.zrwav = [s.zrwav EXCEPT ![z] = TRUE]
    BY <1>6, <1>8, <1>10, <1>12 DEF Turns, Takes, Same
  <2>2. t.wp = [s.wp EXCEPT ![z] = w] /\ t.zrwav = [s.zrwav EXCEPT ![z] = v]
    BY <1>1, <1>13, <2>1
  <2> QED
    BY <1>4, <1>13, <1>14, <1>15, <2>1, <2>2 DEF Changes
<1>17. t.bug = "none"
  BY <1>1, <1>6, <1>8, <1>10, <1>12 DEF Turns, Takes, Same
<1>18. Goes(s, t)
  BY <1>15, <1>16, <1>17, Changed
<1> QED
  BY <1>2, <1>5, <1>7, <1>9, <1>11, <1>18

\* A closed zone is opened again.
LEMMA Reopened ==
  ASSUME NEW s, Sound(s), NEW z \in Zones, s.state[z] = "CLOSED", NEW st \in Opened
  PROVE  Opens(s, SetState(Acquire(s, "OPEN"), z, st), z, st)
<1>1. /\ s \in Records /\ s.bug = "none" /\ s.wp[z] \in 0 .. Cap /\ s.zrwav[z] \in BOOLEAN
      /\ s.wp = [s.wp EXCEPT ![z] = s.wp[z]]
      /\ s.zrwav = [s.zrwav EXCEPT ![z] = s.zrwav[z]]
      /\ InUse(s.state[z]) => s.wp[z] < Cap
  BY SoundFacts
<1>2. /\ st \in States /\ InUse(st) /\ st # "EMPTY" /\ InUse("CLOSED")
      /\ "CLOSED" \notin Opened
  BY HasFacts
<1>3. PICK a : a = Acquire(s, "OPEN")
  OBVIOUS
<1>4. Takes(s, a, "OPEN")
  BY <1>1, <1>3, Three, AcquireFacts
<1>5. PICK t : t = SetState(a, z, st)
  OBVIOUS
<1>6. Turns(a, t, z, st)
  <2>1. a \in Records
    BY <1>4 DEF Takes, Same
  <2> QED
    BY <1>2, <1>5, <2>1, SetStateFacts
<1>7. PICK w, v : w = s.wp[z] /\ v = s.zrwav[z]
  OBVIOUS
<1>8. ASSUME NEW q \in Resources
      PROVE  t.acquired[q] = s.acquired[q] + One(Has(st, v, q))
                             - One(Has(s.state[z], s.zrwav[z], q))
  <2>1. t.acquired[q] = s.acquired[q] + One(q = "OPEN") /\ s.acquired[q] \in Nat
    <3>1. s.acquired[q] \in Nat
      BY <1>1, Fields
    <3> QED
      BY <1>4, <1>6, <3>1 DEF Turns, Takes
  <2>2. One(Has(st, v, q)) = One(q = "OPEN") + One(Has(s.state[z], s.zrwav[z], q))
    BY <1>2, <1>7, Three DEF One, Has
  <2>3. One(Has(s.state[z], s.zrwav[z], q)) \in Nat /\ One(q = "OPEN") \in Nat
    BY DEF One
  <2> QED
    BY <2>1, <2>2, <2>3
<1>9. InUse(s.state[z]) /\ w < Cap /\ w \in 0 .. Cap /\ v \in BOOLEAN
  BY <1>1, <1>2, <1>7
<1>10. /\ t \in Records /\ t.state = [s.state EXCEPT ![z] = st] /\ t.wp = s.wp
       /\ t.zrwav = s.zrwav /\ t.bug = "none"
  BY <1>1, <1>4, <1>6 DEF Turns, Takes, Same
<1>11. Changes(s, t, z, st, w, v)
  <2>1. t.wp = [s.wp EXCEPT ![z] = w] /\ t.zrwav = [s.zrwav EXCEPT ![z] = v]
    BY <1>1, <1>7, <1>10
  <2> QED
    BY <1>2, <1>8, <1>9, <1>10, <2>1 DEF Changes
<1>12. Goes(s, t)
  BY <1>7, <1>9, <1>10, <1>11, Changed
<1>13. t.state[z] = st
  <2>1. s.state \in [Zones -> States]
    BY <1>1, Fields
  <2> QED
    BY <1>10, <2>1
<1> QED
  BY <1>3, <1>5, <1>10, <1>12, <1>13 DEF Opens

\* An open zone is open in another way.
LEMMA Retitled ==
  ASSUME NEW s, Sound(s), NEW z \in Zones, s.state[z] \in Opened, NEW st \in Opened
  PROVE  Opens(s, SetState(s, z, st), z, st)
<1>1. /\ s \in Records /\ s.bug = "none" /\ s.wp[z] \in 0 .. Cap /\ s.zrwav[z] \in BOOLEAN
      /\ s.wp = [s.wp EXCEPT ![z] = s.wp[z]]
      /\ s.zrwav = [s.zrwav EXCEPT ![z] = s.zrwav[z]]
      /\ InUse(s.state[z]) => s.wp[z] < Cap
  BY SoundFacts
<1>2. st \in States /\ InUse(st) /\ st # "EMPTY" /\ InUse(s.state[z])
  BY HasFacts
<1>3. PICK t : t = SetState(s, z, st)
  OBVIOUS
<1>4. Turns(s, t, z, st)
  BY <1>1, <1>2, <1>3, SetStateFacts
<1>5. PICK w, v : w = s.wp[z] /\ v = s.zrwav[z]
  OBVIOUS
<1>6. ASSUME NEW q \in Resources
      PROVE  t.acquired[q] = s.acquired[q] + One(Has(st, v, q))
                             - One(Has(s.state[z], s.zrwav[z], q))
  <2>1. t.acquired[q] = s.acquired[q] /\ s.acquired[q] \in Nat
    <3>1. s.acquired[q] \in Nat
      BY <1>1, Fields
    <3> QED
      BY <1>4, <3>1 DEF Turns
  <2>2. One(Has(st, v, q)) = One(Has(s.state[z], s.zrwav[z], q))
    BY <1>2, <1>5, Three DEF One, Has
  <2>3. One(Has(s.state[z], s.zrwav[z], q)) \in Nat
    BY DEF One
  <2> QED
    BY <2>1, <2>2, <2>3
<1>7. w < Cap /\ w \in 0 .. Cap /\ v \in BOOLEAN
  BY <1>1, <1>2, <1>5
<1>8. /\ t \in Records /\ t.state = [s.state EXCEPT ![z] = st] /\ t.wp = s.wp
       /\ t.zrwav = s.zrwav /\ t.bug = "none"
  BY <1>1, <1>4 DEF Turns, Same
<1>9. Changes(s, t, z, st, w, v)
  <2>1. t.wp = [s.wp EXCEPT ![z] = w] /\ t.zrwav = [s.zrwav EXCEPT ![z] = v]
    BY <1>1, <1>5, <1>8
  <2> QED
    BY <1>2, <1>6, <1>7, <1>8, <2>1 DEF Changes
<1>10. Goes(s, t)
  BY <1>2, <1>5, <1>7, <1>8, <1>9, Changed
<1>11. t.state[z] = st
  <2>1. s.state \in [Zones -> States]
    BY <1>1, Fields
  <2> QED
    BY <1>8, <2>1
<1> QED
  BY <1>3, <1>8, <1>10, <1>11 DEF Opens

\* Opening a zone by a command.
LEMMA OpenKeeps ==
  ASSUME NEW s, Sound(s), NEW z \in Zones, NEW zrwa \in BOOLEAN
  PROVE  Goes(s, OpenZone(s, z, zrwa))
<1>1. "OPENED_EXPL" \in Opened /\ "OPENED_IMPL" \in Opened
  BY HasFacts
<1>2. CASE OpenZone(s, z, zrwa) = s
  BY <1>2, Stays
<1>3. CASE s.state[z] = "EMPTY" /\ OpenZone(s, z, zrwa) # s
  <2>1. CASE zrwa
    <3>1. OpenZone(s, z, zrwa) =
            SetState(WithZrwa(Acquire(Acquire(Acquire(s, "ACTIVE"), "OPEN"), "ZRWA"), z),
                     z, "OPENED_EXPL")
      BY <1>3, <2>1 DEF OpenZone, WithZrwa
    <3> QED
      BY <1>3, <3>1, BeganZrwa
  <2>2. CASE ~ zrwa
    <3>1. OpenZone(s, z, zrwa) =
            SetState(Acquire(Acquire(s, "ACTIVE"), "OPEN"), z, "OPENED_EXPL")
      BY <1>3, <2>2 DEF OpenZone
    <3> QED
      BY <1>1, <1>3, <3>1, Began DEF Opens
  <2> QED
    BY <2>1, <2>2
<1>4. CASE s.state[z] = "CLOSED" /\ OpenZone(s, z, zrwa) # s
  <2>1. OpenZone(s, z, zrwa) = SetState(Acquire(s, "OPEN"), z, "OPENED_EXPL")
    BY <1>4 DEF OpenZone
  <2> QED
    BY <1>1, <1>4, <2>1, Reopened DEF Opens
<1>5. CASE s.state[z] = "OPENED_IMPL"
  <2>1. OpenZone(s, z, zrwa) = SetState(s, z, "OPENED_EXPL")
    BY <1>5 DEF OpenZone
  <2>2. s.state[z] \in Opened
    BY <1>1, <1>5
  <2> QED
    BY <1>1, <2>1, <2>2, Retitled DEF Opens
<1>6. \/ s.state[z] = "EMPTY" \/ s.state[z] = "CLOSED" \/ s.state[z] = "OPENED_IMPL"
      \/ OpenZone(s, z, zrwa) = s
  BY DEF OpenZone
<1> QED
  BY <1>2, <1>3, <1>4, <1>5, <1>6

\* Opening a zone that may be written.
LEMMA OpenToWriteFacts ==
  ASSUME NEW s, Sound(s), NEW z \in Zones, MayWrite(s, z)
  PROVE  \E st \in Opened : Opens(s, OpenToWrite(s, z), z, st)
<1>1. PICK st : st = "OPENED_IMPL"
  OBVIOUS
<1>2. st \in Opened
  BY <1>1, HasFacts
<1>3. CASE s.state[z] = "EMPTY"
  <2>1. OpenToWrite(s, z) = SetState(Acquire(Acquire(s, "ACTIVE"), "OPEN"), z, st)
    BY <1>1, <1>3 DEF OpenToWrite
  <2> QED
    BY <1>2, <1>3, <2>1, Began
<1>4. CASE s.state[z] = "CLOSED"
  <2>1. OpenToWrite(s, z) = SetState(Acquire(s, "OPEN"), z, st)
    BY <1>1, <1>4 DEF OpenToWrite
  <2> QED
    BY <1>2, <1>4, <2>1, Reopened
<1>5. CASE s.state[z] # "EMPTY" /\ s.state[z] # "CLOSED"
  <2>1. OpenToWrite(s, z) = s /\ s.state[z] \in Opened
    BY <1>5 DEF OpenToWrite, MayWrite
  <2>2. Opens(s, s, z, s.state[z])
    BY Stays DEF Opens
  <2> QED
    BY <2>1, <2>2
<1> QED
  BY <1>3, <1>4, <1>5

-----------------------------------------------------------------------------
(* The commands on all zones: what AllZones computes for each of them. *)

AllClosed(s) ==
  LET v[n \in 0 .. NrZones] == IF n = 0 THEN s ELSE CloseZone(v[n - 1], n - 1)
  IN v[NrZones]
AllFinished(s) ==
  LET v[n \in 0 .. NrZones] == IF n = 0 THEN s ELSE FinishZone(v[n - 1], n - 1)
  IN v[NrZones]
AllOpened(s, zrwa) ==
  LET v[n \in 0 .. NrZones] == IF n = 0 THEN s ELSE OpenZone(v[n - 1], n - 1, zrwa)
  IN v[NrZones]
AllReset(s) ==
  LET v[n \in 0 .. NrZones] == IF n = 0 THEN s ELSE ResetZone(v[n - 1], n - 1)
  IN v[NrZones]
AllFlushed(s) ==
  LET v[n \in 0 .. NrZones] == IF n = 0 THEN s ELSE FlushZrwa(v[n - 1], n - 1, 0)
  IN v[NrZones]

\* All zones are closed, one after the other.
LEMMA AllClosedKeeps ==
  ASSUME NEW s, Sound(s)
  PROVE  Goes(s, AllClosed(s))
<1>1. PICK A : A = {t \in Records : Goes(s, t)}
  OBVIOUS
<1>2. PICK N : N = NrZones
  OBVIOUS
<1>3. N \in Nat /\ Zones = 0 .. N - 1 /\ s \in A
  BY <1>1, <1>2, Stays, Sizes DEF Sound, Zones
<1>4. ASSUME NEW t \in A, NEW z \in Zones PROVE CloseZone(t, z) \in A
  <2>1. Sound(t) /\ Goes(s, t)
    BY <1>1 DEF Goes
  <2>2. Goes(t, CloseZone(t, z))
    BY <2>1, CloseKeeps
  <2>3. Goes(s, CloseZone(t, z)) /\ CloseZone(t, z) \in Records
    BY <2>1, <2>2, GoesOn DEF Goes, Sound
  <2> QED
    BY <1>1, <2>3
<1>5. PICK F : F = [p \in A \X Zones |-> CloseZone(p[1], p[2])]
  OBVIOUS
<1>6. F \in Steps(A, N)
  <2>1. F \in [A \X Zones -> A]
    BY <1>4, <1>5
  <2> QED
    BY <1>3, <2>1 DEF Steps
<1>7. PICK f : Iterates(f, A, s, N, F)
  <2>1. N \in Nat /\ s \in A
    BY <1>3
  <2> QED
    BY <1>6, <2>1, Iterated
<1> USE DEF Iterates
<1>8. f = [n \in 0 .. N |-> IF n = 0 THEN s ELSE CloseZone(f[n - 1], n - 1)]
  <2>1. ASSUME NEW n \in 0 .. N
        PROVE  f[n] = IF n = 0 THEN s ELSE CloseZone(f[n - 1], n - 1)
    <3>1. CASE n = 0
      BY <1>7, <3>1
    <3>2. CASE n # 0
      <4>1. n \in 1 .. N /\ n - 1 \in 0 .. N /\ n - 1 \in Zones
        BY <1>3, <3>2
      <4>2. <<f[n - 1], n - 1>> \in A \X Zones
        BY <1>7, <4>1
      <4> QED
        BY <1>5, <1>7, <3>2, <4>1, <4>2
    <3> QED
      BY <3>1, <3>2
  <2> QED
    BY <2>1, <1>7
<1>9. PICK u : u = CHOOSE v : v = [n \in 0 .. N |-> IF n = 0 THEN s ELSE CloseZone(v[n - 1], n - 1)]
  OBVIOUS
<1>10. u = [n \in 0 .. N |-> IF n = 0 THEN s ELSE CloseZone(u[n - 1], n - 1)]
  BY <1>8, <1>9
<1>11. PICK T : T = {n \in 0 .. N : u[n] \in A}
  OBVIOUS
<1>12. 0 \in T
  BY <1>3, <1>10, <1>11
<1>13. ASSUME NEW n \in 0 .. N - 1, n \in T PROVE n + 1 \in T
  <2>1. n + 1 \in 0 .. N /\ n + 1 # 0 /\ (n + 1) - 1 = n /\ n \in Zones
    BY <1>3
  <2>2. u[n + 1] = CloseZone(u[n], n) /\ u[n] \in A
    BY <1>10, <1>11, <1>13, <2>1
  <2> QED
    BY <1>4, <1>11, <2>1, <2>2
<1>14. N \in 0 .. N /\ \A n \in 0 .. N : n \in T
  BY <1>3, <1>12, <1>13, UpTo
<1>15. Goes(s, u[N])
  BY <1>1, <1>11, <1>14
<1> QED
  BY <1>2, <1>9, <1>15 DEF AllClosed

\* All zones are finished, one after the other.
LEMMA AllFinishedKeeps ==
  ASSUME NEW s, Sound(s)
  PROVE  Goes(s, AllFinished(s))
<1>1. PICK A : A = {t \in Records : Goes(s, t)}
  OBVIOUS
<1>2. PICK N : N = NrZones
  OBVIOUS
<1>3. N \in Nat /\ Zones = 0 .. N - 1 /\ s \in A
  BY <1>1, <1>2, Stays, Sizes DEF Sound, Zones
<1>4. ASSUME NEW t \in A, NEW z \in Zones PROVE FinishZone(t, z) \in A
  <2>1. Sound(t) /\ Goes(s, t)
    BY <1>1 DEF Goes
  <2>2. Goes(t, FinishZone(t, z))
    BY <2>1, FinishKeeps
  <2>3. Goes(s, FinishZone(t, z)) /\ FinishZone(t, z) \in Records
    BY <2>1, <2>2, GoesOn DEF Goes, Sound
  <2> QED
    BY <1>1, <2>3
<1>5. PICK F : F = [p \in A \X Zones |-> FinishZone(p[1], p[2])]
  OBVIOUS
<1>6. F \in Steps(A, N)
  <2>1. F \in [A \X Zones -> A]
    BY <1>4, <1>5
  <2> QED
    BY <1>3, <2>1 DEF Steps
<1>7. PICK f : Iterates(f, A, s, N, F)
  <2>1. N \in Nat /\ s \in A
    BY <1>3
  <2> QED
    BY <1>6, <2>1, Iterated
<1> USE DEF Iterates
<1>8. f = [n \in 0 .. N |-> IF n = 0 THEN s ELSE FinishZone(f[n - 1], n - 1)]
  <2>1. ASSUME NEW n \in 0 .. N
        PROVE  f[n] = IF n = 0 THEN s ELSE FinishZone(f[n - 1], n - 1)
    <3>1. CASE n = 0
      BY <1>7, <3>1
    <3>2. CASE n # 0
      <4>1. n \in 1 .. N /\ n - 1 \in 0 .. N /\ n - 1 \in Zones
        BY <1>3, <3>2
      <4>2. <<f[n - 1], n - 1>> \in A \X Zones
        BY <1>7, <4>1
      <4> QED
        BY <1>5, <1>7, <3>2, <4>1, <4>2
    <3> QED
      BY <3>1, <3>2
  <2> QED
    BY <2>1, <1>7
<1>9. PICK u : u = CHOOSE v : v = [n \in 0 .. N |-> IF n = 0 THEN s ELSE FinishZone(v[n - 1], n - 1)]
  OBVIOUS
<1>10. u = [n \in 0 .. N |-> IF n = 0 THEN s ELSE FinishZone(u[n - 1], n - 1)]
  BY <1>8, <1>9
<1>11. PICK T : T = {n \in 0 .. N : u[n] \in A}
  OBVIOUS
<1>12. 0 \in T
  BY <1>3, <1>10, <1>11
<1>13. ASSUME NEW n \in 0 .. N - 1, n \in T PROVE n + 1 \in T
  <2>1. n + 1 \in 0 .. N /\ n + 1 # 0 /\ (n + 1) - 1 = n /\ n \in Zones
    BY <1>3
  <2>2. u[n + 1] = FinishZone(u[n], n) /\ u[n] \in A
    BY <1>10, <1>11, <1>13, <2>1
  <2> QED
    BY <1>4, <1>11, <2>1, <2>2
<1>14. N \in 0 .. N /\ \A n \in 0 .. N : n \in T
  BY <1>3, <1>12, <1>13, UpTo
<1>15. Goes(s, u[N])
  BY <1>1, <1>11, <1>14
<1> QED
  BY <1>2, <1>9, <1>15 DEF AllFinished

\* All zones are opened, one after the other.
LEMMA AllOpenedKeeps ==
  ASSUME NEW s, Sound(s), NEW zrwa \in BOOLEAN
  PROVE  Goes(s, AllOpened(s, zrwa))
<1>1. PICK A : A = {t \in Records : Goes(s, t)}
  OBVIOUS
<1>2. PICK N : N = NrZones
  OBVIOUS
<1>3. N \in Nat /\ Zones = 0 .. N - 1 /\ s \in A
  BY <1>1, <1>2, Stays, Sizes DEF Sound, Zones
<1>4. ASSUME NEW t \in A, NEW z \in Zones PROVE OpenZone(t, z, zrwa) \in A
  <2>1. Sound(t) /\ Goes(s, t)
    BY <1>1 DEF Goes
  <2>2. Goes(t, OpenZone(t, z, zrwa))
    BY <2>1, OpenKeeps
  <2>3. Goes(s, OpenZone(t, z, zrwa)) /\ OpenZone(t, z, zrwa) \in Records
    BY <2>1, <2>2, GoesOn DEF Goes, Sound
  <2> QED
    BY <1>1, <2>3
<1>5. PICK F : F = [p \in A \X Zones |-> OpenZone(p[1], p[2], zrwa)]
  OBVIOUS
<1>6. F \in Steps(A, N)
  <2>1. F \in [A \X Zones -> A]
    BY <1>4, <1>5
  <2> QED
    BY <1>3, <2>1 DEF Steps
<1>7. PICK f : Iterates(f, A, s, N, F)
  <2>1. N \in Nat /\ s \in A
    BY <1>3
  <2> QED
    BY <1>6, <2>1, Iterated
<1> USE DEF Iterates
<1>8. f = [n \in 0 .. N |-> IF n = 0 THEN s ELSE OpenZone(f[n - 1], n - 1, zrwa)]
  <2>1. ASSUME NEW n \in 0 .. N
        PROVE  f[n] = IF n = 0 THEN s ELSE OpenZone(f[n - 1], n - 1, zrwa)
    <3>1. CASE n = 0
      BY <1>7, <3>1
    <3>2. CASE n # 0
      <4>1. n \in 1 .. N /\ n - 1 \in 0 .. N /\ n - 1 \in Zones
        BY <1>3, <3>2
      <4>2. <<f[n - 1], n - 1>> \in A \X Zones
        BY <1>7, <4>1
      <4> QED
        BY <1>5, <1>7, <3>2, <4>1, <4>2
    <3> QED
      BY <3>1, <3>2
  <2> QED
    BY <2>1, <1>7
<1>9. PICK u : u = CHOOSE v : v = [n \in 0 .. N |-> IF n = 0 THEN s ELSE OpenZone(v[n - 1], n - 1, zrwa)]
  OBVIOUS
<1>10. u = [n \in 0 .. N |-> IF n = 0 THEN s ELSE OpenZone(u[n - 1], n - 1, zrwa)]
  BY <1>8, <1>9
<1>11. PICK T : T = {n \in 0 .. N : u[n] \in A}
  OBVIOUS
<1>12. 0 \in T
  BY <1>3, <1>10, <1>11
<1>13. ASSUME NEW n \in 0 .. N - 1, n \in T PROVE n + 1 \in T
  <2>1. n + 1 \in 0 .. N /\ n + 1 # 0 /\ (n + 1) - 1 = n /\ n \in Zones
    BY <1>3
  <2>2. u[n + 1] = OpenZone(u[n], n, zrwa) /\ u[n] \in A
    BY <1>10, <1>11, <1>13, <2>1
  <2> QED
    BY <1>4, <1>11, <2>1, <2>2
<1>14. N \in 0 .. N /\ \A n \in 0 .. N : n \in T
  BY <1>3, <1>12, <1>13, UpTo
<1>15. Goes(s, u[N])
  BY <1>1, <1>11, <1>14
<1> QED
  BY <1>2, <1>9, <1>15 DEF AllOpened

\* All zones are reset, one after the other.
LEMMA AllResetKeeps ==
  ASSUME NEW s, Sound(s)
  PROVE  Goes(s, AllReset(s))
<1>1. PICK A : A = {t \in Records : Goes(s, t)}
  OBVIOUS
<1>2. PICK N : N = NrZones
  OBVIOUS
<1>3. N \in Nat /\ Zones = 0 .. N - 1 /\ s \in A
  BY <1>1, <1>2, Stays, Sizes DEF Sound, Zones
<1>4. ASSUME NEW t \in A, NEW z \in Zones PROVE ResetZone(t, z) \in A
  <2>1. Sound(t) /\ Goes(s, t)
    BY <1>1 DEF Goes
  <2>2. Goes(t, ResetZone(t, z))
    BY <2>1, ResetKeeps
  <2>3. Goes(s, ResetZone(t, z)) /\ ResetZone(t, z) \in Records
    BY <2>1, <2>2, GoesOn DEF Goes, Sound
  <2> QED
    BY <1>1, <2>3
<1>5. PICK F : F = [p \in A \X Zones |-> ResetZone(p[1], p[2])]
  OBVIOUS
<1>6. F \in Steps(A, N)
  <2>1. F \in [A \X Zones -> A]
    BY <1>4, <1>5
  <2> QED
    BY <1>3, <2>1 DEF Steps
<1>7. PICK f : Iterates(f, A, s, N, F)
  <2>1. N \in Nat /\ s \in A
    BY <1>3
  <2> QED
    BY <1>6, <2>1, Iterated
<1> USE DEF Iterates
<1>8. f = [n \in 0 .. N |-> IF n = 0 THEN s ELSE ResetZone(f[n - 1], n - 1)]
  <2>1. ASSUME NEW n \in 0 .. N
        PROVE  f[n] = IF n = 0 THEN s ELSE ResetZone(f[n - 1], n - 1)
    <3>1. CASE n = 0
      BY <1>7, <3>1
    <3>2. CASE n # 0
      <4>1. n \in 1 .. N /\ n - 1 \in 0 .. N /\ n - 1 \in Zones
        BY <1>3, <3>2
      <4>2. <<f[n - 1], n - 1>> \in A \X Zones
        BY <1>7, <4>1
      <4> QED
        BY <1>5, <1>7, <3>2, <4>1, <4>2
    <3> QED
      BY <3>1, <3>2
  <2> QED
    BY <2>1, <1>7
<1>9. PICK u : u = CHOOSE v : v = [n \in 0 .. N |-> IF n = 0 THEN s ELSE ResetZone(v[n - 1], n - 1)]
  OBVIOUS
<1>10. u = [n \in 0 .. N |-> IF n = 0 THEN s ELSE ResetZone(u[n - 1], n - 1)]
  BY <1>8, <1>9
<1>11. PICK T : T = {n \in 0 .. N : u[n] \in A}
  OBVIOUS
<1>12. 0 \in T
  BY <1>3, <1>10, <1>11
<1>13. ASSUME NEW n \in 0 .. N - 1, n \in T PROVE n + 1 \in T
  <2>1. n + 1 \in 0 .. N /\ n + 1 # 0 /\ (n + 1) - 1 = n /\ n \in Zones
    BY <1>3
  <2>2. u[n + 1] = ResetZone(u[n], n) /\ u[n] \in A
    BY <1>10, <1>11, <1>13, <2>1
  <2> QED
    BY <1>4, <1>11, <2>1, <2>2
<1>14. N \in 0 .. N /\ \A n \in 0 .. N : n \in T
  BY <1>3, <1>12, <1>13, UpTo
<1>15. Goes(s, u[N])
  BY <1>1, <1>11, <1>14
<1> QED
  BY <1>2, <1>9, <1>15 DEF AllReset

\* All zones are flushed, one after the other.
LEMMA AllFlushedKeeps ==
  ASSUME NEW s, Running(s)
  PROVE  Runs(s, AllFlushed(s))
<1>1. PICK A : A = {t \in Records : Runs(s, t)}
  OBVIOUS
<1>2. PICK N : N = NrZones
  OBVIOUS
<1>3. N \in Nat /\ Zones = 0 .. N - 1 /\ s \in A
  BY <1>1, <1>2, RunsOn, Sizes DEF Running, Zones
<1>4. ASSUME NEW t \in A, NEW z \in Zones PROVE FlushZrwa(t, z, 0) \in A
  <2>1. Running(t) /\ Runs(s, t)
    BY <1>1 DEF Runs
  <2>2. Runs(t, FlushZrwa(t, z, 0))
    <3>1. PICK l : l = 0
      OBVIOUS
    <3>2. l \in 0 .. Cap - 1
      BY <3>1, Sizes
    <3>3. Runs(t, FlushZrwa(t, z, l))
      BY <2>1, <3>2, FlushKeeps
    <3> QED
      BY <3>1, <3>3
  <2>3. Runs(s, FlushZrwa(t, z, 0)) /\ FlushZrwa(t, z, 0) \in Records
    BY <2>1, <2>2, RunsOn DEF Runs, Running
  <2> QED
    BY <1>1, <2>3
<1>5. PICK F : F = [p \in A \X Zones |-> FlushZrwa(p[1], p[2], 0)]
  OBVIOUS
<1>6. F \in Steps(A, N)
  <2>1. F \in [A \X Zones -> A]
    BY <1>4, <1>5
  <2> QED
    BY <1>3, <2>1 DEF Steps
<1>7. PICK f : Iterates(f, A, s, N, F)
  <2>1. N \in Nat /\ s \in A
    BY <1>3
  <2> QED
    BY <1>6, <2>1, Iterated
<1> USE DEF Iterates
<1>8. f = [n \in 0 .. N |-> IF n = 0 THEN s ELSE FlushZrwa(f[n - 1], n - 1, 0)]
  <2>1. ASSUME NEW n \in 0 .. N
        PROVE  f[n] = IF n = 0 THEN s ELSE FlushZrwa(f[n - 1], n - 1, 0)
    <3>1. CASE n = 0
      BY <1>7, <3>1
    <3>2. CASE n # 0
      <4>1. n \in 1 .. N /\ n - 1 \in 0 .. N /\ n - 1 \in Zones
        BY <1>3, <3>2
      <4>2. <<f[n - 1], n - 1>> \in A \X Zones
        BY <1>7, <4>1
      <4> QED
        BY <1>5, <1>7, <3>2, <4>1, <4>2
    <3> QED
      BY <3>1, <3>2
  <2> QED
    BY <2>1, <1>7
<1>9. PICK u : u = CHOOSE v : v = [n \in 0 .. N |-> IF n = 0 THEN s ELSE FlushZrwa(v[n - 1], n - 1, 0)]
  OBVIOUS
<1>10. u = [n \in 0 .. N |-> IF n = 0 THEN s ELSE FlushZrwa(u[n - 1], n - 1, 0)]
  BY <1>8, <1>9
<1>11. PICK T : T = {n \in 0 .. N : u[n] \in A}
  OBVIOUS
<1>12. 0 \in T
  BY <1>3, <1>10, <1>11
<1>13. ASSUME NEW n \in 0 .. N - 1, n \in T PROVE n + 1 \in T
  <2>1. n + 1 \in 0 .. N /\ n + 1 # 0 /\ (n + 1) - 1 = n /\ n \in Zones
    BY <1>3
  <2>2. u[n + 1] = FlushZrwa(u[n], n, 0) /\ u[n] \in A
    BY <1>10, <1>11, <1>13, <2>1
  <2> QED
    BY <1>4, <1>11, <2>1, <2>2
<1>14. N \in 0 .. N /\ \A n \in 0 .. N : n \in T
  BY <1>3, <1>12, <1>13, UpTo
<1>15. Runs(s, u[N])
  BY <1>1, <1>11, <1>14
<1> QED
  BY <1>2, <1>9, <1>15 DEF AllFlushed

-----------------------------------------------------------------------------
(* Writes. *)

\* Two resources are given back.
LEMMA BothGiven ==
  ASSUME NEW s \in Records, s.acquired["OPEN"] >= 1, s.acquired["ACTIVE"] >= 1
  PROVE  LET t == Release(Release(s, "OPEN"), "ACTIVE")
         IN /\ Same(s, t) /\ t.state = s.state
            /\ \A q \in Resources :
                 t.acquired[q] = s.acquired[q] - One(q = "OPEN") - One(q = "ACTIVE")
<1>1. PICK a : a = Release(s, "OPEN")
  OBVIOUS
<1>2. Gives(s, a, "OPEN", TRUE)
  BY <1>1, Three, ReleaseFacts
<1>3. a \in Records /\ a.acquired["ACTIVE"] >= 1
  <2>1. a \in Records /\ a.acquired["ACTIVE"] = s.acquired["ACTIVE"] - One(TRUE /\ "ACTIVE" = "OPEN")
    BY <1>2, Three DEF Gives, Same
  <2>2. s.acquired["ACTIVE"] \in Nat
    BY Fields, Three
  <2> QED
    BY <2>1, <2>2 DEF One
<1>4. PICK t : t = Release(a, "ACTIVE")
  OBVIOUS
<1>5. Gives(a, t, "ACTIVE", TRUE)
  BY <1>3, <1>4, Three, ReleaseFacts
<1>6. /\ Same(s, t) /\ t.state = s.state
      /\ \A q \in Resources :
           t.acquired[q] = s.acquired[q] - One(q = "OPEN") - One(q = "ACTIVE")
  BY <1>2, <1>5 DEF Gives, Same
<1> QED
  BY <1>1, <1>4, <1>6

\* Moving the write pointer of an open zone, to its end or not.
LEMMA IncreaseFacts ==
  ASSUME NEW s, Sound(s), NEW z \in Zones, s.state[z] \in Opened,
         NEW n \in Nat, s.wp[z] + n <= Cap
  PROVE  Increased(s, IncreaseWp(s, z, n), z, n)
<1>1. PICK w : w = s.wp[z] + n
  OBVIOUS
<1>2. /\ s.wp[z] \in Nat /\ w \in 0 .. Cap /\ w \in Nat /\ Cap \in Nat
      /\ InUse(s.state[z]) /\ s.state[z] # "EMPTY"
  <2>1. s.wp[z] \in Nat /\ Cap \in Nat
    BY Fields, Sizes DEF Sound
  <2>2. InUse(s.state[z]) /\ s.state[z] # "EMPTY"
    BY HasFacts
  <2> QED
    BY <1>1, <2>1, <2>2
<1>3. PICK st, v : st = s.state[z] /\ v = s.zrwav[z]
  OBVIOUS
<1>4. PICK m : m = SetWp(s, z, w)
  OBVIOUS
<1>5. Changes(s, m, z, st, w, v) /\ MovesTo(s, m, z, w)
  <2>1. Changes(s, m, z, s.state[z], w, s.zrwav[z]) /\ MovesTo(s, m, z, w)
    BY <1>2, <1>4, Moved
  <2> QED
    BY <1>3, <2>1
<1>6. /\ s \in Records /\ s.bug = "none" /\ v \in BOOLEAN /\ st \in States
      /\ \A r \in Resources : /\ s.acquired[r] \in Nat /\ s.acquired[r] <= NrZones
                              /\ Has(st, v, r) => s.acquired[r] >= 1
      /\ s.zrwav = [s.zrwav EXCEPT ![z] = v] /\ s.state = [s.state EXCEPT ![z] = st]
      /\ NrZones \in Nat
  <2>1. /\ s \in Records /\ s.bug = "none" /\ s.state[z] \in States /\ s.zrwav[z] \in BOOLEAN
        /\ s.zrwav = [s.zrwav EXCEPT ![z] = s.zrwav[z]]
        /\ s.state = [s.state EXCEPT ![z] = s.state[z]]
    BY SoundFacts
  <2>2. \A r \in Resources : s.acquired[r] \in Nat
    BY <2>1, Fields
  <2>3. \A r \in Resources : Has(s.state[z], s.zrwav[z], r) => s.acquired[r] >= 1
    BY SoundFacts
  <2>4. \A r \in Resources : s.acquired[r] <= NrZones
    BY SoundRuns DEF Running
  <2> QED
    BY <1>3, <2>1, <2>2, <2>3, <2>4, Sizes
<1>7. m.wp[z] = w
  <2>1. s.wp \in [Zones -> Nat]
    BY <1>6, Fields
  <2> QED
    BY <1>5, <2>1 DEF MovesTo
<1>8. PICK R : R = Release(Release(m, "OPEN"), "ACTIVE")
  OBVIOUS
<1>9. /\ Same(m, R) /\ R.state = m.state
      /\ \A q \in Resources :
           R.acquired[q] = m.acquired[q] - One(q = "OPEN") - One(q = "ACTIVE")
  <2>1. Has(st, v, "OPEN") /\ Has(st, v, "ACTIVE")
    BY <1>2, <1>3, HasFacts
  <2>2. m \in Records /\ m.acquired["OPEN"] >= 1 /\ m.acquired["ACTIVE"] >= 1
    BY <1>5, <1>6, <2>1, Three DEF MovesTo
  <2> QED
    BY <1>8, <2>2, BothGiven
<1>10. ASSUME w # Cap PROVE Increased(s, m, z, n)
  <2>1. /\ m \in Records /\ m.bug = "none"
        /\ \A r \in Resources : m.acquired[r] <= NrZones
    BY <1>5, <1>6 DEF MovesTo
  <2>2. w < Cap
    BY <1>2, <1>10
  <2>3. Placed(m) /\ Sound(m)
    BY <1>5, <2>1, <2>2, OneChange
  <2>4. Running(m)
    BY <2>3, SoundRuns
  <2> QED
    BY <1>1, <1>3, <1>5, <1>6, <1>10, <2>4 DEF Increased, MovesTo
<1>11. ASSUME w = Cap, v
       PROVE  Increased(s, [R EXCEPT !.bug = "zrwa full"], z, n)
  <2>1. PICK t : t = [R EXCEPT !.bug = "zrwa full"]
    OBVIOUS
  <2>2. /\ t \in Records /\ t.state = R.state /\ t.wp = R.wp /\ t.zrwav = R.zrwav
        /\ t.acquired = R.acquired /\ t.bug = "zrwa full"
    <3>1. R \in Records
      BY <1>9 DEF Same
    <3> QED
      BY <2>1, <3>1 DEF Records
  <2>3. t.state = s.state /\ t.wp = [s.wp EXCEPT ![z] = w] /\ t.zrwav = s.zrwav
    BY <1>5, <1>9, <2>2 DEF MovesTo, Same
  <2>4. ASSUME NEW r \in Resources PROVE t.acquired[r] <= NrZones
    <3>1. t.acquired[r] = s.acquired[r] - One(r = "OPEN") - One(r = "ACTIVE")
      BY <1>5, <1>9, <2>2 DEF MovesTo
    <3>2. One(r = "OPEN") \in Nat /\ One(r = "ACTIVE") \in Nat
      BY DEF One
    <3> QED
      BY <1>6, <3>1, <3>2
  <2>5. Placed(t)
    <3>1. s.wp \in [Zones -> Nat] /\ Placed(s)
      BY <1>6, Fields DEF Sound
    <3> QED
      BY <1>2, <2>3, <3>1 DEF Placed
  <2>6. Running(t)
    BY <2>2, <2>4, <2>5 DEF Running
  <2> QED
    BY <1>1, <1>3, <1>6, <1>11, <2>1, <2>3, <2>6 DEF Increased
<1>12. ASSUME w = Cap, ~ v
       PROVE  Increased(s, SetState(R, z, "FULL"), z, n)
  <2>1. PICK t : t = SetState(R, z, "FULL")
    OBVIOUS
  <2>2. Turns(R, t, z, "FULL")
    <3>1. R \in Records /\ "FULL" \in States
      BY <1>9, HasFacts DEF Same
    <3> QED
      BY <2>1, <3>1, SetStateFacts
  <2>3. /\ t \in Records /\ t.state = [s.state EXCEPT ![z] = "FULL"]
        /\ t.wp = [s.wp EXCEPT ![z] = w] /\ t.zrwav = s.zrwav /\ t.bug = "none"
    BY <1>5, <1>6, <1>9, <2>2 DEF MovesTo, Same, Turns
  <2>4. ASSUME NEW q \in Resources
        PROVE  t.acquired[q] = s.acquired[q] - One(Has(s.state[z], s.zrwav[z], q))
    <3>1. t.acquired[q] = s.acquired[q] - One(q = "OPEN") - One(q = "ACTIVE")
      BY <1>5, <1>9, <2>2 DEF MovesTo, Turns
    <3>2. One(Has(st, v, q)) = One(q = "OPEN") + One(q = "ACTIVE")
      BY <1>2, <1>3, <1>12, Three DEF Has, One
    <3>3. One(q = "OPEN") \in Nat /\ One(q = "ACTIVE") \in Nat
      BY DEF One
    <3> QED
      BY <1>3, <1>6, <3>1, <3>2, <3>3
  <2>5. Leaves(s, t, z, "FULL", w, v)
    BY <1>2, <1>6, <2>3, <2>4 DEF Leaves
  <2>6. Sound(t)
    BY <2>5, GivenBack DEF Goes
  <2>7. Running(t)
    BY <2>6, SoundRuns
  <2> QED
    BY <1>1, <1>3, <1>12, <2>1, <2>3, <2>7 DEF Increased
<1>13. IncreaseWp(s, z, n) = IF w # Cap THEN m ELSE IF v THEN [R EXCEPT !.bug = "zrwa full"]
                             ELSE SetState(R, z, "FULL")
  <2>1. m = [s EXCEPT !.wp[z] = @ + n]
    BY <1>1, <1>4 DEF SetWp
  <2> QED
    BY <1>3, <1>7, <1>8, <2>1 DEF IncreaseWp
<1> QED
  BY <1>6, <1>10, <1>11, <1>12, <1>13

-----------------------------------------------------------------------------
(* What the write buffers are owed. *)

\* The blocks of a page in part written, before block w.
LEMMA PartOfPage ==
  ASSUME NEW w \in 0 .. Cap
  PROVE  IsFiniteSet(Part(w)) /\ Cardinality(Part(w)) = w % FlashPage
<1>1. PICK k, q, r : k = FlashPage /\ q = w \div k /\ r = w % k
  OBVIOUS
<1>2. w \in Nat /\ k \in Nat \ {0} /\ Cap \in Nat /\ w <= Cap
  BY <1>1, Sizes
<1>3. w = k * q + r /\ r \in 0 .. k - 1 /\ q \in Nat
  BY <1>1, <1>2, Quotient
<1>4. k * q \in Nat /\ k * q = w - r
  BY <1>2, <1>3
<1>5. ASSUME NEW p \in Blocks
      PROVE  p < w /\ p \div k = q <=> p \in (w - r) .. w - 1
  <2>1. p \in Nat
    BY DEF Blocks
  <2>2. ASSUME p \in (w - r) .. w - 1 PROVE p < w /\ p \div k = q
    <3>1. p - k * q \in 0 .. k - 1 /\ p = k * q + (p - k * q)
      BY <1>2, <1>3, <1>4, <2>1, <2>2
    <3>2. p \div k = q
      BY <1>2, <1>3, <2>1, <3>1, OneQuotient
    <3> QED
      BY <1>2, <2>2, <3>2
  <2>3. ASSUME p < w, p \div k = q PROVE p \in (w - r) .. w - 1
    <3>1. p = k * (p \div k) + (p % k) /\ p % k \in 0 .. k - 1
      BY <1>2, <2>1, Quotient
    <3>2. p = k * q + (p % k)
      BY <2>3, <3>1
    <3>3. p >= w - r
      BY <1>4, <3>1, <3>2
    <3> QED
      BY <1>2, <1>3, <1>4, <2>1, <2>3, <3>3
  <2> QED
    BY <2>2, <2>3
<1>6. Part(w) = (w - r) .. w - 1
  <2>1. \A p \in (w - r) .. w - 1 : p \in Blocks
    BY <1>2, <1>3, <1>4 DEF Blocks
  <2> QED
    BY <1>1, <1>5, <2>1 DEF Part
<1>7. PICK a, b : a = w - r /\ b = w - 1
  OBVIOUS
<1>8. a \in Int /\ b \in Int /\ (IF a > b THEN 0 ELSE b - a + 1) = r
  BY <1>2, <1>3, <1>7
<1>9. IsFiniteSet(a .. b) /\ Cardinality(a .. b) = r
  BY <1>8, FS_Interval
<1> QED
  BY <1>1, <1>6, <1>7, <1>9

\* The blocks that a buffer waits for can be counted.
LEMMA OwedFinite ==
  ASSUME NEW s, NEW b
  PROVE  IsFiniteSet(Owed(s, b)) /\ Cardinality(Owed(s, b)) \in Nat
<1>1. IsFiniteSet(Blocks)
  <2>1. 0 \in Int /\ Cap - 1 \in Int
    BY Sizes
  <2> QED
    BY <2>1, FS_Interval DEF Blocks
<1>2. IsFiniteSet(Zones \X Blocks)
  BY <1>1, ZonesFinite, FS_Product
<1>3. Owed(s, b) \in SUBSET (Zones \X Blocks)
  BY DEF Owed
<1>4. IsFiniteSet(Owed(s, b))
  BY <1>2, <1>3, FS_Subset
<1> QED
  BY <1>4, FS_CardinalityType

\* A command keeps or frees what a buffer waits for.
LEMMA KeptOwed ==
  ASSUME NEW s, NEW t, Kept(s, t), NEW b
  PROVE  Cardinality(Owed(t, b)) <= Cardinality(Owed(s, b))
<1>1. Owed(t, b) \in SUBSET Owed(s, b)
  <2>1. ASSUME NEW x \in Owed(t, b) PROVE x \in Owed(s, b)
    <3>1. PICK z, p : z = x[1] /\ p = x[2]
      OBVIOUS
    <3>2. /\ x \in Zones \X Blocks /\ z \in Zones /\ p \in Blocks
          /\ BufferOf(z) = b /\ InUse(t.state[z]) /\ ~ t.zrwav[z]
          /\ p < t.wp[z] /\ p \div FlashPage = t.wp[z] \div FlashPage
      BY <3>1 DEF Owed
    <3>3. t.wp[z] # 0
      BY <3>2 DEF Blocks
    <3>4. InUse(s.state[z]) /\ ~ s.zrwav[z] /\ t.wp[z] = s.wp[z]
      BY <3>2, <3>3 DEF Kept
    <3> QED
      BY <3>1, <3>2, <3>4 DEF Owed
  <2> QED
    BY <2>1
<1> QED
  BY <1>1, OwedFinite, FS_Subset

\* What the other zones and what zone z account for.
LEMMA OwedSplit ==
  ASSUME NEW s, NEW z \in Zones, ~ s.zrwav[z], s.wp[z] \in 0 .. Cap
  PROVE  Cardinality(Owed(s, BufferOf(z))) =
           Cardinality(OwedElsewhere(s, z)) + IF InUse(s.state[z]) THEN s.wp[z] % FlashPage ELSE 0
<1>1. PICK w, b : w = s.wp[z] /\ b = BufferOf(z)
  OBVIOUS
<1>2. PICK O, E : O = Owed(s, b) /\ E = OwedElsewhere(s, z)
  OBVIOUS
<1>3. IsFiniteSet(O) /\ E \in SUBSET O
  BY <1>1, <1>2, OwedFinite DEF OwedElsewhere
<1>4. IsFiniteSet(E) /\ Cardinality(E) \in Nat
  <2>1. IsFiniteSet(E)
    BY <1>3, FS_Subset
  <2> QED
    BY <2>1, FS_CardinalityType
<1>5. CASE ~ InUse(s.state[z])
  <2>1. O = E
    BY <1>1, <1>2, <1>5 DEF Owed, OwedElsewhere
  <2> QED
    BY <1>1, <1>2, <1>4, <1>5, <2>1
<1>6. CASE InUse(s.state[z])
  <2>1. PICK P : P = {z} \X Part(w)
    OBVIOUS
  <2>2. O = E \cup P /\ E \cap P = {}
    <3>1. ASSUME NEW x PROVE x \in O <=> x \in E \/ x \in P
      <4>1. x \in P <=> x \in Zones \X Blocks /\ x[1] = z /\ x[2] \in Part(w)
        BY <2>1 DEF Part
      <4>2. x \in O /\ x[1] = z <=> x \in P
        BY <1>1, <1>2, <1>6, <4>1 DEF Owed, Part
      <4> QED
        BY <1>1, <1>2, <4>2 DEF OwedElsewhere
    <3>2. ASSUME NEW x \in P PROVE x \notin E
      BY <1>2, <2>1 DEF OwedElsewhere
    <3> QED
      BY <3>1, <3>2
  <2>3. IsFiniteSet({z}) /\ Cardinality({z}) = 1
    BY FS_Singleton
  <2>4. IsFiniteSet(Part(w)) /\ Cardinality(Part(w)) = w % FlashPage /\ Cardinality(Part(w)) \in Nat
    <3>1. IsFiniteSet(Part(w)) /\ Cardinality(Part(w)) = w % FlashPage
      BY <1>1, PartOfPage
    <3> QED
      BY <3>1, FS_CardinalityType
  <2>5. IsFiniteSet(P) /\ Cardinality(P) = w % FlashPage
    <3>1. PICK A, B : A = {z} /\ B = Part(w)
      OBVIOUS
    <3>2. IsFiniteSet(A \X B) /\ Cardinality(A \X B) = Cardinality(A) * Cardinality(B)
      BY <2>3, <2>4, <3>1, FS_Product
    <3>3. \A i \in Nat : 1 * i = i
      OBVIOUS
    <3> QED
      BY <2>1, <2>3, <2>4, <3>1, <3>2, <3>3
  <2>6. Cardinality(E \cap P) = 0
    BY <2>2, FS_EmptySet
  <2>7. Cardinality(E \cup P) = Cardinality(E) + Cardinality(P) - Cardinality(E \cap P)
    BY <1>4, <2>5, FS_Union
  <2>8. Cardinality(O) = Cardinality(E) + Cardinality(P)
    BY <1>4, <2>2, <2>4, <2>5, <2>6, <2>7
  <2> QED
    BY <1>1, <1>2, <1>6, <2>5, <2>8
<1> QED
  BY <1>5, <1>6

\* The flash pages that end within n pages, and the rest.
LEMMA Pages ==
  ASSUME NEW from \in Nat, NEW n \in Nat
  PROVE  /\ Ends(from, from + n - 1) \in Nat
         /\ Ends(from, from + n - 1) * OneShot + ((from + n) % OneShot) = n + (from % OneShot)
<1>1. PICK k : k = OneShot
  OBVIOUS
<1>2. k \in Nat \ {0}
  BY <1>1, Sizes
<1>3. PICK T : T = {i \in Nat : /\ Counts(from, i)
                                /\ Ends(from, from + i - 1) * k + ((from + i) % k) = i + (from % k)}
  OBVIOUS
<1>4. 0 \in T
  <2>1. {p \in from .. from + 0 - 1 : (p + 1) % OneShot = 0} = {}
    OBVIOUS
  <2>2. Counts(from, 0) /\ Ends(from, from + 0 - 1) = 0
    BY <2>1, FS_EmptySet DEF Counts, Ends
  <2>3. from % k \in Nat
    BY <1>2, Quotient
  <2>4. from + 0 = from /\ 0 * k = 0
    BY <1>2
  <2>5. Ends(from, from + 0 - 1) * k + ((from + 0) % k) = 0 + (from % k)
    BY <2>2, <2>3, <2>4
  <2> QED
    BY <1>3, <2>2, <2>5
<1>5. ASSUME NEW i \in 0 .. n - 1, i \in T PROVE i + 1 \in T
  <2>1. PICK x, y : x = from + i /\ y = from + (i + 1)
    OBVIOUS
  <2>2. x \in Nat /\ y = x + 1 /\ i \in Nat /\ i + 1 \in Nat
    BY <2>1
  <2>3. PICK S : S = {p \in from .. from + i - 1 : (p + 1) % OneShot = 0}
    OBVIOUS
  <2>4. IsFiniteSet(S) /\ Cardinality(S) \in Nat /\ x \notin S
    <3>1. IsFiniteSet(S)
      BY <1>3, <1>5, <2>3 DEF Counts
    <3> QED
      BY <2>1, <2>3, <3>1, FS_CardinalityType
  <2>5. {p \in from .. from + (i + 1) - 1 : (p + 1) % OneShot = 0}
          = IF y % k = 0 THEN S \cup {x} ELSE S
    <3>1. ASSUME NEW p
          PROVE  p \in from .. from + (i + 1) - 1 <=> p \in from .. from + i - 1 \/ p = x
      BY <2>1, <2>2
    <3> QED
      BY <1>1, <2>2, <2>3, <3>1
  <2>6. Cardinality(S \cup {x}) = Cardinality(S) + 1 /\ IsFiniteSet(S \cup {x})
    BY <2>4, FS_AddElement
  <2>7. PICK a, b : a = Ends(from, from + i - 1) /\ b = Ends(from, from + (i + 1) - 1)
    OBVIOUS
  <2>8. a \in Nat /\ b = (IF y % k = 0 THEN a + 1 ELSE a) /\ Counts(from, i + 1)
    BY <2>3, <2>4, <2>5, <2>6, <2>7 DEF Ends, Counts
  <2>9. a * k + (x % k) = i + (from % k)
    BY <1>3, <1>5, <2>1, <2>7
  <2>10. x % k \in Nat /\ from % k \in Nat /\ a * k \in Nat
    BY <1>2, <2>2, <2>8, Quotient
  <2>11. b * k + (y % k) = (i + 1) + (from % k)
    <3>1. CASE (x % k) + 1 = k
      <4>1. y % k = 0
        BY <1>2, <2>2, <3>1, NextQuotient
      <4>2. b * k = a * k + k
        <5>1. \A u, v \in Nat : (u + 1) * v = u * v + v
          OBVIOUS
        <5> QED
          BY <1>2, <2>8, <4>1, <5>1
      <4> QED
        BY <2>2, <2>9, <2>10, <3>1, <4>1, <4>2
    <3>2. CASE (x % k) + 1 # k
      <4>1. y % k = (x % k) + 1
        BY <1>2, <2>2, <3>2, NextQuotient
      <4>2. b = a
        BY <2>8, <2>10, <4>1
      <4> QED
        BY <2>2, <2>9, <2>10, <4>1, <4>2
    <3> QED
      BY <3>1, <3>2
  <2> QED
    BY <1>3, <2>1, <2>2, <2>7, <2>8, <2>11
<1>6. n \in T
  <2>1. n \in 0 .. n /\ \A i \in 0 .. n : i \in T
    BY <1>4, <1>5, UpTo
  <2> QED
    BY <2>1
<1>7. Ends(from, from + n - 1) \in Nat
  <2>1. Counts(from, n)
    BY <1>3, <1>6
  <2> QED
    BY <2>1, FS_CardinalityType DEF Counts, Ends
<1> QED
  BY <1>1, <1>3, <1>6, <1>7

\* The ends of flash pages in a range of pages have a number.
LEMMA EndsNumber ==
  ASSUME NEW a \in Int, NEW b \in Int
  PROVE  Ends(a, b) \in Nat
<1>1. PICK S, R : S = {p \in a .. b : (p + 1) % OneShot = 0} /\ R = a .. b
  OBVIOUS
<1>2. IsFiniteSet(R) /\ S \in SUBSET R
  BY <1>1, FS_Interval
<1>3. IsFiniteSet(S)
  BY <1>2, FS_Subset
<1> QED
  BY <1>1, <1>3, FS_CardinalityType DEF Ends

\* A block lies in a page.
LEMMA PageNumber ==
  ASSUME NEW x \in Nat
  PROVE  PageOf(x) \in Nat
<1>1. SecsPerPg \in Nat \ {0}
  BY Sizes
<1> QED
  BY <1>1, Quotient DEF PageOf

\* What a write schedules has a number.
LEMMA ProgrammedNumber ==
  ASSUME NEW off \in Nat, NEW n \in Nat \ {0}
  PROVE  Programmed(off, n) \in Nat /\ EndsUnaligned(off, n) \in Nat
<1>1. off + n - 1 \in Nat
  OBVIOUS
<1>2. PageOf(off) \in Int /\ PageOf(off + n - 1) \in Int
  BY <1>1, PageNumber
<1> QED
  BY <1>2, EndsNumber DEF Programmed, EndsUnaligned

\* What a flush of a random write area schedules has a number.
LEMMA FlushedNumber ==
  ASSUME NEW wp \in Nat, NEW n \in Nat
  PROVE  Flushed(wp, n) \in Nat
<1>1. PICK a, q : a = PageOf(wp) /\ q = PageOf(n)
  OBVIOUS
<1>2. a \in Nat /\ q \in Nat
  BY <1>1, PageNumber
<1>3. a \in Int /\ a + q - 1 \in Int
  BY <1>2
<1>4. Ends(a, a + q - 1) \in Nat
  BY <1>3, EndsNumber
<1> QED
  BY <1>1, <1>4 DEF Flushed, PageOf

\* The first block of a page, and the last one of the page before.
LEMMA PageEdges ==
  ASSUME NEW x \in Nat, x % SecsPerPg = 0
  PROVE  /\ x = SecsPerPg * PageOf(x) /\ PageOf(x) \in Nat
         /\ x > 0 => PageOf(x - 1) = PageOf(x) - 1 /\ PageOf(x) > 0
<1>1. PICK k, q : k = SecsPerPg /\ q = x \div k
  OBVIOUS
<1>2. k \in Nat \ {0}
  BY <1>1, Sizes
<1>3. x = k * q + (x % k) /\ q \in Nat
  BY <1>1, <1>2, Quotient
<1>4. k * q \in Nat
  BY <1>2, <1>3
<1>5. x = k * q
  BY <1>1, <1>3, <1>4
<1>6. ASSUME x > 0 PROVE (x - 1) \div k = q - 1 /\ q > 0
  <2>1. q > 0
    <3>1. k * 0 = 0
      BY <1>2
    <3> QED
      BY <1>3, <1>5, <1>6, <3>1
  <2>2. PICK d \in Nat : q = d + 1
    BY <1>3, <2>1
  <2>3. k * q = k * d + k /\ k * d \in Nat
    BY <1>2, <2>2
  <2>4. x - 1 \in Nat /\ x - 1 = k * d + (k - 1) /\ k - 1 \in 0 .. k - 1
    BY <1>2, <1>5, <1>6, <2>3
  <2>5. (x - 1) \div k = d
    BY <1>2, <2>2, <2>4, OneQuotient
  <2> QED
    BY <2>1, <2>2, <2>5
<1> QED
  BY <1>1, <1>3, <1>5, <1>6 DEF PageOf

\* Of whole pages, the remainder in a flash page is one in whole pages.
LEMMA PagesLeft ==
  ASSUME NEW x \in Nat, x % SecsPerPg = 0
  PROVE  x % FlashPage = SecsPerPg * (PageOf(x) % OneShot) /\ PageOf(x) % OneShot \in Nat
<1>1. PICK k, c, p : k = SecsPerPg /\ c = OneShot /\ p = PageOf(x)
  OBVIOUS
<1>2. k \in Nat \ {0} /\ c \in Nat \ {0} /\ FlashPage = c * k /\ FlashPage \in Nat \ {0}
  BY <1>1, Sizes
<1>3. x = k * p /\ p \in Nat
  BY <1>1, PageEdges
<1>4. PICK q, i : q = p \div c /\ i = p % c
  OBVIOUS
<1>5. p = c * q + i /\ q \in Nat /\ i \in 0 .. c - 1
  BY <1>2, <1>3, <1>4, Quotient
<1>6. x = (c * k) * q + k * i
  <2>1. \A a, b, u, v \in Nat : a * (b * u + v) = (b * a) * u + a * v
    OBVIOUS
  <2> QED
    BY <1>2, <1>3, <1>5, <2>1
<1>7. k * i \in 0 .. (c * k) - 1
  <2>1. PICK j \in Nat : c = i + 1 + j
    BY <1>2, <1>5
  <2>2. c * k = k * i + k + k * j /\ k * i \in Nat /\ k * j \in Nat
    <3>1. \A u, v, a \in Nat : (u + 1 + v) * a = a * u + a + a * v
      OBVIOUS
    <3>2. \A u, v \in Nat : u * v \in Nat
      OBVIOUS
    <3> QED
      BY <1>2, <1>5, <2>1, <3>1, <3>2
  <2> QED
    BY <1>2, <2>2
<1>8. x % FlashPage = k * i
  <2>1. FlashPage \in Nat \ {0} /\ q \in Nat /\ k * i \in 0 .. FlashPage - 1
        /\ x = FlashPage * q + k * i
    BY <1>2, <1>5, <1>6, <1>7
  <2> QED
    BY <2>1, OneQuotient
<1> QED
  BY <1>1, <1>4, <1>5, <1>8

\* The flash pages that a write of whole pages programs, and the rest.
LEMMA WholeWritten ==
  ASSUME NEW off \in Nat, NEW n \in Nat \ {0}, WholePages(off, n), off + n <= Cap
  PROVE  /\ Programmed(off, n) * FlashPage + ((off + n) % FlashPage) = n + (off % FlashPage)
         /\ (off + n) % SecsPerPg = 0
         /\ PageOf(off + n - 1) = LastPage <=> off + n = Cap
<1>1. PICK k, a, c, e : k = SecsPerPg /\ a = PageOf(off) /\ c = PageOf(n) /\ e = off + n
  OBVIOUS
<1>2. k \in Nat \ {0} /\ Cap \in Nat /\ Cap % k = 0 /\ e \in Nat /\ e > 0 /\ n \in Nat
  BY <1>1, Sizes, SizesAssumption
<1>3. off = k * a /\ n = k * c /\ a \in Nat /\ c \in Nat
  BY <1>1, <1>2, PageEdges DEF WholePages
<1>4. e = k * (a + c) + 0 /\ a + c \in Nat
  BY <1>1, <1>2, <1>3
<1>5. e % k = 0 /\ e \div k = a + c
  <2>1. 0 \in 0 .. k - 1
    BY <1>2
  <2> QED
    BY <1>2, <1>4, <2>1, OneQuotient
<1>6. PageOf(e) = a + c /\ PageOf(e - 1) = a + c - 1
  <2>1. PageOf(e) = a + c
    BY <1>1, <1>5 DEF PageOf
  <2>2. e % SecsPerPg = 0 /\ e \in Nat /\ e > 0
    BY <1>1, <1>2, <1>5
  <2>3. PICK p, q : p = PageOf(e) /\ q = PageOf(e - 1)
    OBVIOUS
  <2>4. q = p - 1
    BY <2>2, <2>3, PageEdges
  <2>5. p = a + c /\ q = a + c - 1
    BY <1>3, <2>1, <2>3, <2>4
  <2> QED
    BY <2>3, <2>5
<1>7. Programmed(off, n) = Ends(a, a + c - 1)
  BY <1>1, <1>6 DEF Programmed
<1>8. PICK g : g = Ends(a, a + c - 1)
  OBVIOUS
<1>9. g \in Nat /\ g * OneShot + ((a + c) % OneShot) = c + (a % OneShot)
  BY <1>3, <1>8, Pages
<1>10. PICK x, y : x = (a + c) % OneShot /\ y = a % OneShot
  OBVIOUS
<1>11. /\ e % FlashPage = k * x /\ x \in Nat
       /\ off % FlashPage = k * y /\ y \in Nat
  <2>1. e % FlashPage = k * x /\ x \in Nat
    BY <1>1, <1>2, <1>5, <1>6, <1>10, PagesLeft
  <2>2. off % FlashPage = k * y /\ y \in Nat
    BY <1>1, <1>10, PagesLeft DEF WholePages
  <2> QED
    BY <2>1, <2>2
<1>12. g * FlashPage + k * x = n + k * y
  <2>1. FlashPage = OneShot * k /\ OneShot \in Nat
    BY <1>1, Sizes
  <2>2. PICK f : f = g * OneShot
    OBVIOUS
  <2>3. f \in Nat /\ f + x = c + y
    <3>1. \A u, v \in Nat : u * v \in Nat
      OBVIOUS
    <3> QED
      BY <1>9, <1>10, <2>1, <2>2, <3>1
  <2>4. k * (f + x) = k * f + k * x /\ k * (c + y) = k * c + k * y
    <3>1. \A u, v, w \in Nat : u * (v + w) = u * v + u * w
      OBVIOUS
    <3> QED
      BY <1>2, <1>3, <1>11, <2>3, <3>1
  <2>5. k * f = g * FlashPage
    <3>1. \A u, v, w \in Nat : w * (u * v) = u * (v * w)
      OBVIOUS
    <3> QED
      BY <1>2, <1>9, <2>1, <2>2, <3>1
  <2> QED
    BY <1>3, <2>3, <2>4, <2>5
<1>13. PageOf(e - 1) = LastPage <=> e = Cap
  <2>1. PICK m : m = PageOf(Cap)
    OBVIOUS
  <2>2. Cap = k * m /\ m \in Nat
    BY <1>1, <1>2, <2>1, PageEdges
  <2>3. LastPage = m - 1
    BY <2>1 DEF LastPage, PageOf
  <2>4. PageOf(e - 1) = LastPage <=> a + c = m
    BY <1>3, <1>6, <2>2, <2>3
  <2>5. a + c = m <=> e = Cap
    <3>1. ASSUME e = Cap PROVE a + c = m
      BY <1>1, <1>6, <2>1, <3>1
    <3>2. ASSUME a + c = m PROVE e = Cap
      BY <1>2, <1>4, <2>2, <3>2
    <3> QED
      BY <3>1, <3>2
  <2> QED
    BY <2>4, <2>5
<1> QED
  BY <1>1, <1>5, <1>7, <1>8, <1>11, <1>12, <1>13

-----------------------------------------------------------------------------
(* The invariant. *)

\* The types of the buffers and releases; BufferNeverOverdrawn, in terms of
\* Owed; the inductive invariant.
BufferTypes ==
  /\ wb \in [Buffers -> 0 .. MaxSpace] /\ zrwaBuf \in [Zones -> 0 .. MaxSpace]
  /\ pending \in [page : [Buffers -> Nat], tail : [Buffers -> Nat], zrwa : [Zones -> Nat],
                   whole : BOOLEAN]
Settled == \A b \in Buffers :
  wb[b] + pending.page[b] * FlashPage + pending.tail[b] * Unaligned
    + Cardinality(Owed(zns, b)) <= WbSize
IInv == Running(zns) /\ BufferTypes /\ (pending.whole => InPages(zns) /\ Settled)

\* Every zone has a write buffer.
LEMMA BufferThere == \A z \in Zones : BufferOf(z) \in Buffers
BY DEF BufferOf, Buffers

\* What is counted of a buffer is a number.
LEMMA Counts4 ==
  ASSUME BufferTypes, NEW b \in Buffers
  PROVE  /\ wb[b] \in Nat /\ pending.page[b] \in Nat /\ pending.tail[b] \in Nat
         /\ pending.page[b] * FlashPage \in Nat /\ pending.tail[b] * Unaligned \in Nat
         /\ FlashPage \in Nat /\ Unaligned \in Nat /\ WbSize \in Nat
<1>1. wb[b] \in Nat /\ pending.page[b] \in Nat /\ pending.tail[b] \in Nat
  BY DEF BufferTypes
<1>2. FlashPage \in Nat /\ Unaligned \in Nat /\ WbSize \in Nat
  BY Sizes
<1>3. \A i, j \in Nat : i * j \in Nat
  OBVIOUS
<1> QED
  BY <1>1, <1>2, <1>3

\* The invariant holds initially.
LEMMA InitIInv == Init => IInv
<1> SUFFICES ASSUME Init PROVE IInv
  OBVIOUS
<1>1. /\ zns \in Records /\ zns.bug = "none"
      /\ \A z \in Zones : zns.state[z] = "EMPTY" /\ zns.wp[z] = 0 /\ ~ zns.zrwav[z]
      /\ \A r \in Resources : zns.acquired[r] = 0
  BY DEF Init, Records, States
<1>2. Placed(zns) /\ Roomy(zns)
  BY <1>1, Sizes, HasFacts DEF Placed, Roomy
<1>3. Exact(zns)
  <2>1. ASSUME NEW r \in Resources PROVE Holders(zns, r) = {}
    BY <1>1, HasFacts, Three DEF Holders, Has, InUse
  <2> QED
    BY <1>1, <2>1, FS_EmptySet DEF Exact
<1>4. Running(zns)
  BY <1>1, <1>2, <1>3, SoundRuns DEF Sound
<1>5. BufferTypes
  BY Sizes DEF Init, BufferTypes
<1>6. Settled
  <2>1. ASSUME NEW b \in Buffers
        PROVE  wb[b] + pending.page[b] * FlashPage + pending.tail[b] * Unaligned
                 + Cardinality(Owed(zns, b)) <= WbSize
    <3>1. wb[b] = WbSize /\ pending.page[b] = 0 /\ pending.tail[b] = 0
      BY DEF Init
    <3>2. Owed(zns, b) = {}
      BY <1>1 DEF Owed, Blocks
    <3>3. Cardinality(Owed(zns, b)) = 0
      BY <3>2, FS_EmptySet
    <3>4. \A i \in Nat : 0 * i = 0
      OBVIOUS
    <3>5. FlashPage \in Nat /\ Unaligned \in Nat /\ WbSize \in Nat
      BY Sizes
    <3> QED
      BY <3>1, <3>3, <3>4, <3>5
  <2> QED
    BY <2>1 DEF Settled
<1>7. InPages(zns)
  BY <1>1, HasFacts DEF InPages
<1> QED
  BY <1>4, <1>5, <1>6, <1>7 DEF IInv

\* Zones stay written up to the end of a page.
LEMMA KeptInPages ==
  ASSUME NEW s, NEW t, InPages(s), Kept(s, t)
  PROVE  InPages(t)
<1>1. 0 % SecsPerPg = 0
  <2>1. \A k \in Nat \ {0} : 0 % k = 0
    OBVIOUS
  <2> QED
    BY <2>1, Sizes
<1> QED
  BY <1>1 DEF InPages, Kept

\* A step that takes nothing from the write buffers.
LEMMA NothingTaken ==
  ASSUME IInv, Running(zns'), Kept(zns, zns'), BufferTypes',
         wb' = wb, pending'.page = pending.page, pending'.tail = pending.tail,
         pending'.whole = pending.whole
  PROVE  IInv'
<1>1. ASSUME NEW b \in Buffers, pending.whole
      PROVE  wb'[b] + pending'.page[b] * FlashPage + pending'.tail[b] * Unaligned
               + Cardinality(Owed(zns', b)) <= WbSize
  <2>1. PICK i, j : i = pending.page[b] * FlashPage /\ j = pending.tail[b] * Unaligned
    OBVIOUS
  <2>2. PICK c, d : c = Cardinality(Owed(zns, b)) /\ d = Cardinality(Owed(zns', b))
    OBVIOUS
  <2>3. c \in Nat /\ d \in Nat
    BY <2>2, OwedFinite
  <2>4. d <= c
    BY <2>2, KeptOwed
  <2>5. wb[b] \in Nat /\ i \in Nat /\ j \in Nat /\ WbSize \in Nat
    BY <2>1, Counts4 DEF IInv
  <2>6. wb[b] + i + j + c <= WbSize
    BY <1>1, <2>1, <2>2 DEF IInv, Settled
  <2>7. wb[b] + i + j + d <= WbSize
    BY <2>3, <2>4, <2>5, <2>6
  <2> QED
    BY <2>1, <2>2, <2>7
<1>2. ASSUME pending.whole PROVE InPages(zns') /\ Settled'
  BY <1>1, <1>2, KeptInPages DEF Settled, IInv
<1> QED
  BY <1>2 DEF IInv

\* A zone command keeps the invariant.
LEMMA CommandStep ==
  ASSUME IInv, Runs(zns, zns'), zrwaBuf' \in [Zones -> 0 .. MaxSpace],
         UNCHANGED <<wb, pending>>
  PROVE  IInv'
<1>1. Running(zns') /\ Kept(zns, zns')
  BY DEF Runs
<1>2. BufferTypes'
  BY DEF IInv, BufferTypes
<1> QED
  BY <1>1, <1>2, NothingTaken

\* Zones are closed, finished, opened and flushed.
LEMMA CommandsKeep ==
  ASSUME IInv, CloseCmd \/ FinishCmd \/ OpenCmd \/ FlushCmd
  PROVE  IInv'
<1>1. Sound(zns)
  BY DEF CloseCmd, FinishCmd, OpenCmd, FlushCmd, Alive, IInv, Running
<1>2. UNCHANGED <<wb, zrwaBuf, pending>>
  BY DEF CloseCmd, FinishCmd, OpenCmd, FlushCmd
<1>3. zrwaBuf' \in [Zones -> 0 .. MaxSpace]
  BY <1>2 DEF IInv, BufferTypes
<1>4. CASE CloseCmd
  <2>1. (\E z \in Zones : zns' = CloseZone(zns, z)) \/ zns' = AllClosed(zns)
    BY <1>4 DEF CloseCmd, OneZone, AllZones, AllClosed
  <2>2. Goes(zns, zns')
    BY <1>1, <2>1, CloseKeeps, AllClosedKeeps
  <2> QED
    BY <1>2, <1>3, <2>2, CommandStep, RunsOn
<1>5. CASE FinishCmd
  <2>1. (\E z \in Zones : zns' = FinishZone(zns, z)) \/ zns' = AllFinished(zns)
    BY <1>5 DEF FinishCmd, OneZone, AllZones, AllFinished
  <2>2. Goes(zns, zns')
    BY <1>1, <2>1, FinishKeeps, AllFinishedKeeps
  <2> QED
    BY <1>2, <1>3, <2>2, CommandStep, RunsOn
<1>6. CASE OpenCmd
  <2>1. PICK zrwa \in BOOLEAN :
          (\E z \in Zones : zns' = OpenZone(zns, z, zrwa)) \/ zns' = AllOpened(zns, zrwa)
    BY <1>6 DEF OpenCmd, OneZone, AllZones, AllOpened
  <2>2. Goes(zns, zns')
    BY <1>1, <2>1, OpenKeeps, AllOpenedKeeps
  <2> QED
    BY <1>2, <1>3, <2>2, CommandStep, RunsOn
<1>7. CASE FlushCmd
  <2>1. \/ \E lba \in 0 .. Cap - 1 : \E z \in Zones : zns' = FlushZrwa(zns, z, lba)
        \/ zns' = AllFlushed(zns)
    BY <1>7 DEF FlushCmd, OneZone, AllZones, AllFlushed
  <2>2. Runs(zns, zns')
    BY <1>1, <2>1, FlushKeeps, AllFlushedKeeps, SoundRuns
  <2> QED
    BY <1>2, <1>3, <2>2, CommandStep, RunsOn
<1> QED
  BY <1>4, <1>5, <1>6, <1>7

\* Zones are reset.
LEMMA ResetsKeep ==
  ASSUME IInv, ResetCmd
  PROVE  IInv'
<1>1. Sound(zns)
  BY DEF ResetCmd, Alive, IInv, Running
<1>2. \/ \E z \in Zones : zns' = ResetZone(zns, z)
      \/ zns' = AllReset(zns)
  BY DEF ResetCmd, AllZones, AllReset
<1>3. Goes(zns, zns')
  BY <1>1, <1>2, ResetKeeps, AllResetKeeps
<1>4. ZrwaBuf \in 0 .. MaxSpace
  BY Sizes
<1>5. zrwaBuf' \in [Zones -> 0 .. MaxSpace]
  BY <1>4 DEF ResetCmd, BufferRefill, IInv, BufferTypes
<1> QED
  BY <1>3, <1>5, CommandStep, RunsOn DEF ResetCmd

\* The I/O worker gives space back.
LEMMA PageReleased ==
  ASSUME IInv, NEW b \in Buffers, ReleasePage(b)
  PROVE  IInv'
<1>1. /\ pending.page[b] > 0 /\ wb[b] + FlashPage <= MaxSpace
      /\ wb' = [wb EXCEPT ![b] = wb[b] + FlashPage]
      /\ pending' = [pending EXCEPT !.page[b] = pending.page[b] - 1]
      /\ zns' = zns /\ zrwaBuf' = zrwaBuf
  BY DEF ReleasePage
<1>2. BufferTypes
  BY DEF IInv
<1>3. /\ wb[b] \in Nat /\ pending.page[b] \in Nat /\ FlashPage \in Nat
      /\ wb[b] + FlashPage \in 0 .. MaxSpace /\ pending.page[b] - 1 \in Nat
  <2>1. wb[b] \in Nat /\ pending.page[b] \in Nat /\ FlashPage \in Nat
    BY <1>2, Counts4
  <2> QED
    BY <1>1, <2>1, Sizes
<1>4. /\ wb'[b] = wb[b] + FlashPage /\ \A a \in Buffers \ {b} : wb'[a] = wb[a]
      /\ pending'.page[b] = pending.page[b] - 1
      /\ \A a \in Buffers \ {b} : pending'.page[a] = pending.page[a]
      /\ pending'.tail = pending.tail /\ pending'.whole = pending.whole
      /\ BufferTypes'
  BY <1>1, <1>2, <1>3 DEF BufferTypes
<1>5. ASSUME NEW a \in Buffers, pending.whole
      PROVE  wb'[a] + pending'.page[a] * FlashPage + pending'.tail[a] * Unaligned
               + Cardinality(Owed(zns', a)) <= WbSize
  <2>1. wb[a] + pending.page[a] * FlashPage + pending.tail[a] * Unaligned
          + Cardinality(Owed(zns, a)) <= WbSize
    BY <1>5 DEF IInv, Settled
  <2>2. CASE a # b
    BY <1>1, <1>4, <2>1, <2>2
  <2>3. CASE a = b
    <3>1. (pending.page[b] - 1) * FlashPage = pending.page[b] * FlashPage - FlashPage
      <4>1. \A i, j \in Nat : (i - 1) * j = i * j - j
        OBVIOUS
      <4> QED
        BY <1>3, <4>1
    <3>2. PICK i, j, c : /\ i = pending.page[b] * FlashPage
                         /\ j = pending.tail[b] * Unaligned /\ c = Cardinality(Owed(zns, b))
      OBVIOUS
    <3>3. i \in Nat /\ j \in Nat /\ c \in Nat
      BY <1>2, <3>2, Counts4, OwedFinite
    <3>4. wb[b] + i + j + c <= WbSize
      BY <2>1, <2>3, <3>2
    <3>5. (wb[b] + FlashPage) + (i - FlashPage) + j + c <= WbSize
      BY <1>3, <3>3, <3>4, Sizes
    <3> QED
      BY <1>1, <1>4, <2>3, <3>1, <3>2, <3>5
  <2> QED
    BY <2>2, <2>3
<1>6. ASSUME pending.whole PROVE Settled' /\ InPages(zns')
  BY <1>1, <1>5, <1>6 DEF Settled, IInv
<1>7. Running(zns')
  BY <1>1 DEF IInv
<1> QED
  BY <1>4, <1>6, <1>7 DEF IInv

\* As PageReleased, for the odd end of a zone.
LEMMA TailReleased ==
  ASSUME IInv, NEW b \in Buffers, ReleaseTail(b)
  PROVE  IInv'
<1>1. /\ pending.tail[b] > 0 /\ wb[b] + Unaligned <= MaxSpace
      /\ wb' = [wb EXCEPT ![b] = wb[b] + Unaligned]
      /\ pending' = [pending EXCEPT !.tail[b] = pending.tail[b] - 1]
      /\ zns' = zns /\ zrwaBuf' = zrwaBuf
  BY DEF ReleaseTail
<1>2. BufferTypes
  BY DEF IInv
<1>3. /\ wb[b] \in Nat /\ pending.tail[b] \in Nat /\ Unaligned \in Nat
      /\ wb[b] + Unaligned \in 0 .. MaxSpace /\ pending.tail[b] - 1 \in Nat
  <2>1. wb[b] \in Nat /\ pending.tail[b] \in Nat /\ Unaligned \in Nat
    BY <1>2, Counts4
  <2> QED
    BY <1>1, <2>1, Sizes
<1>4. /\ wb'[b] = wb[b] + Unaligned /\ \A a \in Buffers \ {b} : wb'[a] = wb[a]
      /\ pending'.tail[b] = pending.tail[b] - 1
      /\ \A a \in Buffers \ {b} : pending'.tail[a] = pending.tail[a]
      /\ pending'.page = pending.page /\ pending'.whole = pending.whole
      /\ BufferTypes'
  BY <1>1, <1>2, <1>3 DEF BufferTypes
<1>5. ASSUME NEW a \in Buffers, pending.whole
      PROVE  wb'[a] + pending'.page[a] * FlashPage + pending'.tail[a] * Unaligned
               + Cardinality(Owed(zns', a)) <= WbSize
  <2>1. wb[a] + pending.page[a] * FlashPage + pending.tail[a] * Unaligned
          + Cardinality(Owed(zns, a)) <= WbSize
    BY <1>5 DEF IInv, Settled
  <2>2. CASE a # b
    BY <1>1, <1>4, <2>1, <2>2
  <2>3. CASE a = b
    <3>1. (pending.tail[b] - 1) * Unaligned = pending.tail[b] * Unaligned - Unaligned
      <4>1. \A i, j \in Nat : (i - 1) * j = i * j - j
        OBVIOUS
      <4> QED
        BY <1>3, <4>1
    <3>2. PICK i, j, c : /\ i = pending.page[b] * FlashPage
                         /\ j = pending.tail[b] * Unaligned /\ c = Cardinality(Owed(zns, b))
      OBVIOUS
    <3>3. i \in Nat /\ j \in Nat /\ c \in Nat
      BY <1>2, <3>2, Counts4, OwedFinite
    <3>4. wb[b] + i + j + c <= WbSize
      BY <2>1, <2>3, <3>2
    <3>5. (wb[b] + Unaligned) + i + (j - Unaligned) + c <= WbSize
      BY <1>3, <3>3, <3>4, Sizes
    <3> QED
      BY <1>1, <1>4, <2>3, <3>1, <3>2, <3>5
  <2> QED
    BY <2>2, <2>3
<1>6. ASSUME pending.whole PROVE Settled' /\ InPages(zns')
  BY <1>1, <1>5, <1>6 DEF Settled, IInv
<1>7. Running(zns')
  BY <1>1 DEF IInv
<1> QED
  BY <1>4, <1>6, <1>7 DEF IInv

\* A release to the buffer of a random write area.
LEMMA ZrwaReleased ==
  ASSUME IInv, NEW z \in Zones, ReleaseZrwa(z)
  PROVE  IInv'
<1>1. /\ pending.zrwa[z] > 0 /\ zrwaBuf[z] + FlashPage <= MaxSpace
      /\ pending' = [pending EXCEPT !.zrwa[z] = pending.zrwa[z] - 1]
      /\ zrwaBuf' = [zrwaBuf EXCEPT ![z] = zrwaBuf[z] + FlashPage]
      /\ zns' = zns /\ wb' = wb
  BY DEF ReleaseZrwa
<1>2. BufferTypes /\ pending.zrwa[z] \in Nat /\ zrwaBuf[z] \in 0 .. MaxSpace
  BY DEF IInv, BufferTypes
<1>3. pending.zrwa[z] - 1 \in Nat /\ zrwaBuf[z] + FlashPage \in 0 .. MaxSpace
  BY <1>1, <1>2, Sizes
<1>4. /\ BufferTypes' /\ pending'.page = pending.page /\ pending'.tail = pending.tail
      /\ pending'.whole = pending.whole
  BY <1>1, <1>2, <1>3 DEF BufferTypes
<1>5. Running(zns') /\ Kept(zns, zns')
  BY <1>1 DEF IInv, Kept
<1> QED
  BY <1>1, <1>4, <1>5, NothingTaken

\* What may be written will be open.
LEMMA Opening ==
  ASSUME NEW s, Sound(s), NEW z \in Zones, MayWrite(s, z), NEW t, t = OpenToWrite(s, z)
  PROVE  /\ Sound(t) /\ Kept(s, t) /\ t.wp = s.wp /\ t.zrwav = s.zrwav /\ t.state[z] \in Opened
BY OpenToWriteFacts DEF Opens, Goes

\* Moving the pointer of a zone keeps what the buffers wait for elsewhere.
LEMMA ElsewhereKept ==
  ASSUME NEW s, NEW t, NEW u, NEW z \in Zones, NEW n, Kept(s, t), Sound(t), Increased(t, u, z, n)
  PROVE  /\ OwedElsewhere(u, z) \subseteq OwedElsewhere(s, z)
         /\ \A b : b # BufferOf(z) => Owed(u, b) \subseteq Owed(s, b)
         /\ s.zrwav = t.zrwav /\ t.zrwav[z] => Kept(s, u)
<1>1. \A y \in Zones \ {z} : /\ u.state[y] = t.state[y] /\ u.wp[y] = t.wp[y]
                             /\ u.zrwav[y] = t.zrwav[y]
  <2>1. t.wp \in [Zones -> Nat] /\ t.state \in [Zones -> States]
    BY Fields DEF Sound
  <2> QED
    BY <2>1 DEF Increased
<1>2. ASSUME NEW b, NEW x \in Owed(u, b), x[1] # z PROVE x \in Owed(s, b)
  <2>1. PICK y, p : y = x[1] /\ p = x[2]
    OBVIOUS
  <2>2. /\ x \in Zones \X Blocks /\ y \in Zones \ {z} /\ p \in Blocks
        /\ BufferOf(y) = b /\ InUse(u.state[y]) /\ ~ u.zrwav[y]
        /\ p < u.wp[y] /\ p \div FlashPage = u.wp[y] \div FlashPage
    BY <1>2, <2>1 DEF Owed
  <2>3. u.wp[y] # 0
    BY <2>2 DEF Blocks
  <2>4. InUse(s.state[y]) /\ ~ s.zrwav[y] /\ u.wp[y] = s.wp[y]
    BY <1>1, <2>2, <2>3 DEF Kept
  <2> QED
    BY <2>1, <2>2, <2>4 DEF Owed
<1>3. OwedElsewhere(u, z) \subseteq OwedElsewhere(s, z)
  BY <1>2 DEF OwedElsewhere
<1>4. ASSUME NEW b, b # BufferOf(z) PROVE Owed(u, b) \subseteq Owed(s, b)
  <2>1. \A x \in Owed(u, b) : x[1] # z
    BY <1>4 DEF Owed
  <2> QED
    BY <1>2, <2>1
<1>5. ASSUME t.zrwav[z] PROVE Kept(s, u)
  <2>1. u.zrwav[z]
    BY <1>5 DEF Increased
  <2> QED
    BY <1>1, <2>1 DEF Kept
<1> QED
  BY <1>3, <1>4, <1>5

\* A write that is carried out takes for its zone what the pages it completes
\* will give back, and what is left of the last one.
LEMMA ZoneWritten ==
  ASSUME NEW s, Sound(s), NEW z \in Zones, ~ s.zrwav[z], MayWrite(s, z),
         NEW n \in Nat \ {0}, s.wp[z] + n <= Cap, InPages(s), WholePages(s.wp[z], n),
         NEW u, u = IncreaseWp(OpenToWrite(s, z), z, n)
  PROVE  /\ InPages(u)
         /\ \A b : b # BufferOf(z) => Owed(u, b) \subseteq Owed(s, b)
         /\ Programmed(s.wp[z], n) * FlashPage + EndsUnaligned(s.wp[z], n) * Unaligned
              + Cardinality(Owed(u, BufferOf(z))) <= n + Cardinality(Owed(s, BufferOf(z)))
         /\ Programmed(s.wp[z], n) \in Nat
<1>1. PICK t, w, o, b : /\ t = OpenToWrite(s, z) /\ w = s.wp[z] /\ o = w + n /\ b = BufferOf(z)
  OBVIOUS
<1>2. /\ Sound(t) /\ Kept(s, t) /\ t.wp = s.wp /\ t.zrwav = s.zrwav /\ t.state[z] \in Opened
  BY <1>1, Opening
<1>3. /\ w \in Nat /\ w \in 0 .. Cap /\ o \in Nat /\ o <= Cap /\ o \in 0 .. Cap /\ Cap \in Nat
      /\ FlashPage \in Nat \ {0} /\ s.wp \in [Zones -> Nat] /\ t.state \in [Zones -> States]
      /\ s.state[z] = "EMPTY" => w = 0
  <2>1. w \in 0 .. Cap /\ s.wp \in [Zones -> Nat] /\ (s.state[z] = "EMPTY" => w = 0)
    <3>1. s.wp[z] \in 0 .. Cap /\ (s.state[z] = "EMPTY" => s.wp[z] = 0)
      BY EmptyAtStart
    <3>2. s.wp \in [Zones -> Nat]
      BY Fields DEF Sound
    <3> QED
      BY <1>1, <3>1, <3>2
  <2>2. Cap \in Nat /\ FlashPage \in Nat \ {0} /\ t.state \in [Zones -> States]
    BY <1>2, Sizes, Fields DEF Sound
  <2> QED
    BY <1>1, <2>1, <2>2
<1>4. Increased(t, u, z, n)
  <2>1. t.wp[z] + n <= Cap
    BY <1>2
  <2> QED
    BY <1>1, <1>2, <2>1, IncreaseFacts
<1>5. /\ Running(u) /\ u.wp[z] = o /\ ~ u.zrwav[z]
      /\ u.state[z] = IF o = Cap THEN "FULL" ELSE t.state[z]
  BY <1>1, <1>2, <1>3, <1>4 DEF Increased
<1>6. PICK E, F : E = OwedElsewhere(s, z) /\ F = OwedElsewhere(u, z)
  OBVIOUS
<1>7. Cardinality(E) \in Nat /\ Cardinality(F) \in Nat /\ Cardinality(F) <= Cardinality(E)
  <2>1. E \in SUBSET Owed(s, b) /\ IsFiniteSet(Owed(s, b))
    BY <1>1, <1>6, OwedFinite DEF OwedElsewhere
  <2>2. F \in SUBSET E
    BY <1>2, <1>4, <1>6, ElsewhereKept
  <2>3. IsFiniteSet(E)
    BY <2>1, FS_Subset
  <2>4. IsFiniteSet(F) /\ Cardinality(F) <= Cardinality(E)
    BY <2>2, <2>3, FS_Subset
  <2> QED
    BY <2>3, <2>4, FS_CardinalityType
<1>8. Cardinality(Owed(s, b)) = Cardinality(E) + (w % FlashPage)
  <2>1. Cardinality(Owed(s, b)) = Cardinality(E) + IF InUse(s.state[z]) THEN w % FlashPage ELSE 0
    BY <1>1, <1>3, <1>6, OwedSplit
  <2>2. InUse(s.state[z]) \/ s.state[z] = "EMPTY"
    BY HasFacts DEF MayWrite
  <2>3. ~ InUse(s.state[z]) => w % FlashPage = 0
    BY <1>3, <2>2
  <2> QED
    BY <2>1, <2>3
<1>9. Cardinality(Owed(u, b)) = Cardinality(F) + IF o = Cap THEN 0 ELSE o % FlashPage
  <2>1. Cardinality(Owed(u, b)) = Cardinality(F) + IF InUse(u.state[z]) THEN o % FlashPage ELSE 0
    BY <1>1, <1>3, <1>5, <1>6, OwedSplit
  <2>2. InUse(u.state[z]) <=> o # Cap
    BY <1>2, <1>5, HasFacts
  <2> QED
    BY <2>1, <2>2
<1>10. EndsUnaligned(w, n) * Unaligned = IF o = Cap THEN o % FlashPage ELSE 0
  <2>1. Unaligned \in Nat /\ Unaligned = Cap % FlashPage
    BY Sizes
  <2>2. \A i \in Nat : 0 * i = 0 /\ 1 * i = i
    OBVIOUS
  <2>3. PageOf(w + n - 1) = LastPage <=> o = Cap
    BY <1>1, <1>3, WholeWritten
  <2> QED
    BY <1>1, <1>3, <2>1, <2>2, <2>3 DEF EndsUnaligned
<1>11. /\ Programmed(w, n) \in Nat /\ o % SecsPerPg = 0
       /\ Programmed(w, n) * FlashPage + (o % FlashPage) = n + (w % FlashPage)
  BY <1>1, <1>3, WholeWritten, ProgrammedNumber
<1>12. PICK i, j, c, d : /\ i = Programmed(w, n) * FlashPage /\ j = EndsUnaligned(w, n) * Unaligned
                         /\ c = Cardinality(Owed(s, b)) /\ d = Cardinality(Owed(u, b))
  OBVIOUS
<1>13. i \in Nat /\ o % FlashPage \in Nat /\ w % FlashPage \in Nat
  <2>1. \A x, y \in Nat : x * y \in Nat
    OBVIOUS
  <2>2. \A x \in Nat, y \in Nat \ {0} : x % y \in Nat
    OBVIOUS
  <2>3. FlashPage \in Nat
    BY <1>3
  <2>4. i \in Nat
    BY <1>11, <1>12, <2>1, <2>3
  <2> QED
    BY <1>3, <2>2, <2>4
<1>14. i + j + d <= n + c
  <2>1. PICK x, y : x = o % FlashPage /\ y = w % FlashPage
    OBVIOUS
  <2>2. x \in Nat /\ y \in Nat /\ i + x = n + y
    BY <1>11, <1>12, <1>13, <2>1
  <2>3. c = Cardinality(E) + y /\ d = Cardinality(F) + (IF o = Cap THEN 0 ELSE x)
        /\ j = IF o = Cap THEN x ELSE 0
    BY <1>8, <1>9, <1>10, <1>12, <2>1
  <2> QED
    BY <1>7, <1>13, <2>2, <2>3
<1>15. \A a : a # BufferOf(z) => Owed(u, a) \subseteq Owed(s, a)
  BY <1>2, <1>4, ElsewhereKept
<1>16. InPages(u)
  <2>1. InPages(t)
    BY <1>2, KeptInPages
  <2>2. \A y \in Zones \ {z} : /\ u.state[y] = t.state[y] /\ u.wp[y] = t.wp[y]
                               /\ u.zrwav[y] = t.zrwav[y]
    BY <1>2, <1>3, <1>4 DEF Increased
  <2> QED
    BY <1>5, <1>11, <2>1, <2>2 DEF InPages
<1> QED
  BY <1>1, <1>11, <1>12, <1>14, <1>15, <1>16

\* A write that is carried out leaves the thread running.
LEMMA WriteRuns ==
  ASSUME NEW s, Sound(s), NEW z \in Zones, MayWrite(s, z), NEW n \in Nat, s.wp[z] + n <= Cap,
         NEW u, u = IncreaseWp(OpenToWrite(s, z), z, n)
  PROVE  Running(u)
<1>1. PICK t : t = OpenToWrite(s, z)
  OBVIOUS
<1>2. /\ Sound(t) /\ t.wp = s.wp /\ t.state[z] \in Opened
  BY <1>1, Opening
<1>3. Increased(t, u, z, n)
  BY <1>1, <1>2, IncreaseFacts
<1> QED
  BY <1>3 DEF Increased

\* A write of a zone without a random write area.
LEMMA WriteKeeps ==
  ASSUME IInv, NEW z \in Zones, NEW off \in 0 .. Cap - 1, NEW n \in 1 .. MaxWrite,
         ~ zns.zrwav[z], Write(z, off, n)
  PROVE  IInv'
<1>1. PICK b : b = BufferOf(z)
  OBVIOUS
<1>2. /\ Sound(zns) /\ b \in Buffers /\ BufferTypes
      /\ pending.whole => InPages(zns) /\ Settled
      /\ n \in Nat \ {0} /\ off \in Nat /\ wb[b] \in Nat /\ wb[b] >= n
  <2>1. /\ Sound(zns) /\ b \in Buffers /\ BufferTypes
        /\ pending.whole => InPages(zns) /\ Settled
    BY <1>1, BufferThere DEF Write, Alive, IInv, Running
  <2>2. n \in Nat \ {0} /\ off \in Nat
    BY Sizes
  <2>3. wb[b] \in Nat
    BY <2>1, Counts4
  <2>4. wb[b] >= n
    BY <1>1, <2>2, <2>3 DEF Write, BufferAllocate
  <2> QED
    BY <2>1, <2>2, <2>3, <2>4
<1>3. /\ wb' = [wb EXCEPT ![b] = wb[b] - n] /\ zrwaBuf' = zrwaBuf
  BY <1>1 DEF Write
<1>4. /\ wb' \in [Buffers -> 0 .. MaxSpace] /\ wb'[b] = wb[b] - n
      /\ \A a \in Buffers \ {b} : wb'[a] = wb[a]
  <2>1. wb \in [Buffers -> 0 .. MaxSpace]
    BY <1>2 DEF BufferTypes
  <2>2. wb[b] - n \in 0 .. MaxSpace
    BY <1>2, <2>1, Sizes
  <2> QED
    BY <1>2, <1>3, <2>1, <2>2
<1>5. CASE UNCHANGED <<zns, pending>>
  <2>1. ASSUME NEW a \in Buffers, pending.whole
        PROVE  wb'[a] + pending'.page[a] * FlashPage + pending'.tail[a] * Unaligned
                 + Cardinality(Owed(zns', a)) <= WbSize
    <3>1. PICK i, j, c : /\ i = pending.page[a] * FlashPage
                         /\ j = pending.tail[a] * Unaligned /\ c = Cardinality(Owed(zns, a))
      OBVIOUS
    <3>2. i \in Nat /\ j \in Nat /\ c \in Nat /\ wb[a] \in Nat /\ WbSize \in Nat
      BY <1>2, <3>1, Counts4, OwedFinite
    <3>3. wb[a] + i + j + c <= WbSize
      BY <1>2, <2>1, <3>1 DEF Settled
    <3>4. wb'[a] \in Nat /\ wb'[a] <= wb[a]
      BY <1>2, <1>4, <3>2
    <3>5. wb'[a] + i + j + c <= WbSize
      BY <3>2, <3>3, <3>4
    <3> QED
      BY <1>5, <3>1, <3>5
  <2>2. ASSUME pending.whole PROVE InPages(zns') /\ Settled'
    BY <1>2, <1>5, <2>1, <2>2 DEF Settled
  <2>3. Running(zns') /\ BufferTypes'
    BY <1>3, <1>4, <1>5 DEF IInv, BufferTypes
  <2> QED
    BY <1>5, <2>2, <2>3 DEF IInv
<1>6. CASE /\ ValidRange(off, n) /\ off = zns.wp[z] /\ MayWrite(zns, z)
           /\ zns' = IncreaseWp(OpenToWrite(zns, z), z, n)
           /\ pending' = [pending EXCEPT !.page[b] = @ + Programmed(off, n),
                                         !.tail[b] = @ + EndsUnaligned(off, n),
                                         !.whole = @ /\ WholePages(off, n)]
  <2>1. PICK P, e, u : /\ P = Programmed(off, n) /\ e = EndsUnaligned(off, n) /\ u = zns'
    OBVIOUS
  <2>2. Running(u) /\ P \in Nat /\ e \in Nat
    <3>1. n \in Nat /\ zns.wp[z] + n <= Cap
      BY <1>2, <1>6 DEF ValidRange
    <3>2. P \in Nat /\ e \in Nat
      BY <1>2, <2>1, ProgrammedNumber
    <3> QED
      BY <1>2, <1>6, <2>1, <3>1, <3>2, WriteRuns
  <2>3. ASSUME pending.whole, WholePages(off, n)
        PROVE  /\ InPages(u)
               /\ \A a : a # b => Owed(u, a) \subseteq Owed(zns, a)
               /\ P * FlashPage + e * Unaligned + Cardinality(Owed(u, b))
                    <= n + Cardinality(Owed(zns, b))
    <3>1. n \in Nat \ {0} /\ zns.wp[z] + n <= Cap /\ WholePages(zns.wp[z], n) /\ InPages(zns)
      BY <1>2, <1>6, <2>3 DEF ValidRange
    <3> QED
      BY <1>1, <1>2, <1>6, <2>1, <3>1, ZoneWritten
  <2>4. /\ pending.page \in [Buffers -> Nat] /\ pending.tail \in [Buffers -> Nat]
        /\ pending.page[b] \in Nat /\ pending.tail[b] \in Nat
        /\ pending.page[b] + P \in Nat /\ pending.tail[b] + e \in Nat
        /\ (pending.whole /\ WholePages(off, n)) \in BOOLEAN
    <3>1. pending.page \in [Buffers -> Nat] /\ pending.tail \in [Buffers -> Nat]
      BY <1>2 DEF BufferTypes
    <3> QED
      BY <1>2, <2>2, <3>1
  <2>5. /\ pending'.page = [pending.page EXCEPT ![b] = pending.page[b] + P]
        /\ pending'.tail = [pending.tail EXCEPT ![b] = pending.tail[b] + e]
        /\ pending'.zrwa = pending.zrwa
        /\ pending'.whole = (pending.whole /\ WholePages(off, n))
        /\ pending' \in [page : [Buffers -> Nat], tail : [Buffers -> Nat],
                          zrwa : [Zones -> Nat], whole : BOOLEAN]
    <3>1. pending \in [page : [Buffers -> Nat], tail : [Buffers -> Nat],
                       zrwa : [Zones -> Nat], whole : BOOLEAN]
      BY <1>2 DEF BufferTypes
    <3>2. PICK v : v = (pending.whole /\ WholePages(off, n))
      OBVIOUS
    <3>3. pending' = [pending EXCEPT !.page[b] = @ + P, !.tail[b] = @ + e, !.whole = v]
      BY <1>6, <2>1, <3>2
    <3>4. v \in BOOLEAN
      BY <2>4, <3>2
    <3>5. pending'.whole = v
      BY <3>1, <3>3
    <3>6. /\ pending'.page = [pending.page EXCEPT ![b] = pending.page[b] + P]
          /\ pending'.tail = [pending.tail EXCEPT ![b] = pending.tail[b] + e]
          /\ pending'.zrwa = pending.zrwa
          /\ pending' \in [page : [Buffers -> Nat], tail : [Buffers -> Nat],
                            zrwa : [Zones -> Nat], whole : BOOLEAN]
      BY <2>4, <3>1, <3>3, <3>4
    <3> QED
      BY <3>2, <3>5, <3>6
  <2>6. /\ pending'.page[b] = pending.page[b] + P /\ pending'.tail[b] = pending.tail[b] + e
        /\ \A a \in Buffers \ {b} : /\ pending'.page[a] = pending.page[a]
                                    /\ pending'.tail[a] = pending.tail[a]
    BY <1>2, <2>4, <2>5
  <2>7. ASSUME NEW a \in Buffers, pending.whole, WholePages(off, n)
        PROVE  wb'[a] + pending'.page[a] * FlashPage + pending'.tail[a] * Unaligned
                 + Cardinality(Owed(zns', a)) <= WbSize
    <3>1. PICK i, j, c, d : /\ i = pending.page[a] * FlashPage /\ j = pending.tail[a] * Unaligned
                            /\ c = Cardinality(Owed(zns, a)) /\ d = Cardinality(Owed(u, a))
      OBVIOUS
    <3>2. /\ i \in Nat /\ j \in Nat /\ c \in Nat /\ d \in Nat /\ wb[a] \in Nat
          /\ WbSize \in Nat /\ FlashPage \in Nat /\ Unaligned \in Nat
      BY <1>2, <3>1, Counts4, OwedFinite
    <3>3. wb[a] + i + j + c <= WbSize
      BY <1>2, <2>7, <3>1 DEF Settled
    <3>4. CASE a # b
      <4>1. Owed(u, a) \in SUBSET Owed(zns, a) /\ IsFiniteSet(Owed(zns, a))
        BY <2>3, <2>7, <3>4, OwedFinite
      <4>2. d <= c
        BY <3>1, <4>1, FS_Subset
      <4>3. wb[a] + i + j + d <= WbSize
        BY <3>2, <3>3, <4>2
      <4>4. wb'[a] = wb[a] /\ pending'.page[a] = pending.page[a] /\ pending'.tail[a] = pending.tail[a]
        BY <1>4, <2>6, <3>4
      <4> QED
        BY <2>1, <3>1, <4>3, <4>4
    <3>5. CASE a = b
      <4>1. PICK x, y : x = P * FlashPage /\ y = e * Unaligned
        OBVIOUS
      <4>2. x \in Nat /\ y \in Nat
        <5>1. \A p, q \in Nat : p * q \in Nat
          OBVIOUS
        <5> QED
          BY <2>2, <3>2, <4>1, <5>1
      <4>3. pending'.page[a] * FlashPage = i + x /\ pending'.tail[a] * Unaligned = j + y
        <5>1. \A p, q, r \in Nat : (p + q) * r = p * r + q * r
          OBVIOUS
        <5> QED
          BY <2>2, <2>4, <2>6, <3>1, <3>2, <3>5, <4>1, <5>1
      <4>4. x + y + d <= n + c
        BY <2>3, <2>7, <3>1, <3>5, <4>1
      <4>5. wb'[a] = wb[a] - n /\ n \in Nat
        BY <1>2, <1>4, <3>5
      <4>6. (wb[a] - n) + (i + x) + (j + y) + d <= WbSize
        BY <3>2, <3>3, <4>2, <4>4, <4>5
      <4> QED
        BY <2>1, <3>1, <4>3, <4>5, <4>6
    <3> QED
      BY <3>4, <3>5
  <2>8. ASSUME pending'.whole PROVE InPages(zns') /\ Settled'
    <3>1. pending.whole /\ WholePages(off, n)
      BY <2>5, <2>8
    <3> QED
      BY <2>1, <2>3, <2>7, <3>1 DEF Settled
  <2>9. BufferTypes'
    BY <1>2, <1>3, <1>4, <2>5 DEF BufferTypes
  <2> QED
    BY <2>1, <2>2, <2>8, <2>9 DEF IInv
<1> QED
  BY <1>1, <1>5, <1>6 DEF Write

\* A flush on behalf of a write does not reach beyond the write.
LEMMA FlushBound ==
  ASSUME Sound(zns), NEW z \in Zones, NEW elba \in Nat, elba < Cap, zns.wp[z] <= elba
  PROVE  /\ ImplicitFlush(z, elba) \in Nat
         /\ zns.wp[z] + ImplicitFlush(z, elba) <= Cap
<1>1. PICK w, g, a, over : /\ w = zns.wp[z] /\ g = Zrwafg /\ a = Zrwa
                           /\ over = elba - (w + a) + 1
  OBVIOUS
<1>2. /\ w \in Nat /\ g \in Nat /\ a \in Nat /\ g <= a /\ Cap \in Nat /\ w <= elba
  <2>1. w \in Nat
    BY <1>1, Fields DEF Sound
  <2> QED
    BY <1>1, <2>1, Sizes
<1>3. CASE over > 0 /\ ~ FlushFaults(z, elba)
  <2>0. g \in Nat \ {0}
    <3>1. elba >= w + a
      BY <1>1, <1>2, <1>3
    <3> QED
      BY <1>1, <1>2, <1>3, <3>1 DEF FlushFaults
  <2>1. PICK x : x = over + g - 1
    OBVIOUS
  <2>2. over \in Nat /\ x \in Nat
    BY <1>1, <1>2, <1>3, <2>0, <2>1
  <2>3. x = g * (x \div g) + (x % g) /\ x % g \in 0 .. g - 1 /\ x \div g \in Nat
    BY <2>0, <2>2, Quotient
  <2>4. PICK q, r : q = x \div g /\ r = x % g
    OBVIOUS
  <2>5. q * g = g * q /\ q * g \in Nat
    <3>1. \A m, n \in Nat : m * n = n * m /\ m * n \in Nat
      OBVIOUS
    <3> QED
      BY <1>2, <2>3, <2>4, <3>1
  <2>6. q * g <= x
    BY <2>2, <2>3, <2>4, <2>5
  <2>7. ImplicitFlush(z, elba) = q * g
    <3>1. ImplicitFlush(z, elba) = IF FlushFaults(z, elba) THEN 0
                                   ELSE IF over > 0 THEN ((over + g - 1) \div g) * g
                                   ELSE IF elba = Cap - 1 THEN elba - w + 1 ELSE 0
      BY <1>1 DEF ImplicitFlush
    <3>2. ImplicitFlush(z, elba) = ((over + g - 1) \div g) * g
      BY <1>3, <3>1
    <3> QED
      BY <2>1, <2>4, <3>2
  <2>8. w + q * g <= Cap
    BY <1>1, <1>2, <2>1, <2>2, <2>5, <2>6
  <2> QED
    BY <1>1, <2>5, <2>7, <2>8
<1>4. CASE ~ (over > 0) /\ elba = Cap - 1 /\ ~ FlushFaults(z, elba)
  <2>1. ImplicitFlush(z, elba) = elba - w + 1
    BY <1>1, <1>4 DEF ImplicitFlush
  <2> QED
    BY <1>1, <1>2, <1>4, <2>1
<1>5. CASE ~ (over > 0) /\ elba # Cap - 1 /\ ~ FlushFaults(z, elba)
  <2>1. ImplicitFlush(z, elba) = 0
    BY <1>1, <1>5 DEF ImplicitFlush
  <2> QED
    BY <1>1, <1>2, <2>1
<1>6. CASE FlushFaults(z, elba)
  <2>1. ImplicitFlush(z, elba) = 0
    BY <1>6 DEF ImplicitFlush
  <2> QED
    BY <1>1, <1>2, <2>1
<1> QED
  BY <1>3, <1>4, <1>5, <1>6

\* A write of a zone with a random write area.
LEMMA ZrwaWriteKeeps ==
  ASSUME IInv, NEW z \in Zones, NEW off \in 0 .. Cap - 1, NEW n \in 1 .. MaxWrite,
         zns.zrwav[z], ZrwaWrite(z, off, n)
  PROVE  IInv'
<1>1. PICK elba, room, t, flush :
        /\ elba = off + n - 1
        /\ room = zrwaBuf[z] - (IF zns.state[z] = "CLOSED" THEN BufferAllocate(zrwaBuf[z], Zrwa)
                                ELSE 0)
        /\ t = OpenToWrite(zns, z) /\ flush = ImplicitFlush(z, elba)
  OBVIOUS
<1>2. /\ Sound(zns) /\ BufferTypes /\ MayWrite(zns, z) /\ wb' = wb
      /\ ValidRange(off, n) /\ off >= zns.wp[z]
      /\ \/ /\ ZrwaFault(z, elba) # "none"
            /\ zns' = Dead(IF NoBuffer(z) THEN Acquire(zns, "OPEN") ELSE t, ZrwaFault(z, elba))
            /\ zrwaBuf' = [zrwaBuf EXCEPT ![z] = room] /\ pending' = pending
         \/ /\ zns' = t /\ zrwaBuf' = [zrwaBuf EXCEPT ![z] = room] /\ pending' = pending
         \/ /\ flush # 0 /\ BufferAllocate(room, flush) # 0
            /\ zns' = IncreaseWp(t, z, flush)
            /\ zrwaBuf' = [zrwaBuf EXCEPT ![z] = room - flush]
            /\ pending' = IF zns'.bug # "none" THEN pending
                          ELSE [pending EXCEPT !.zrwa[z] = @ + Flushed(zns.wp[z], flush)]
  BY <1>1 DEF ZrwaWrite, Alive, IInv, Running, Dead
<1>3. /\ n \in Nat \ {0} /\ off \in Nat /\ elba \in Nat /\ elba < Cap /\ zns.wp[z] \in Nat
      /\ zns.wp[z] <= elba /\ Cap \in Nat
  <2>1. n \in Nat \ {0} /\ off \in Nat /\ Cap \in Nat
    BY Sizes
  <2>2. zns.wp[z] \in Nat
    BY <1>2, Fields DEF Sound
  <2>3. off + n <= Cap /\ off >= zns.wp[z]
    BY <1>2 DEF ValidRange
  <2> QED
    BY <1>1, <2>1, <2>2, <2>3
<1>4. flush \in Nat /\ zns.wp[z] + flush <= Cap
  BY <1>1, <1>2, <1>3, FlushBound
<1>5. room \in 0 .. MaxSpace
  <2>1. zrwaBuf[z] \in 0 .. MaxSpace /\ Zrwa \in Nat /\ MaxSpace \in Nat
    BY <1>2, Sizes DEF BufferTypes
  <2> QED
    BY <1>1, <2>1 DEF BufferAllocate
<1>6. /\ Sound(t) /\ Kept(zns, t) /\ t.wp = zns.wp /\ t.zrwav = zns.zrwav
      /\ t.state[z] \in Opened
  BY <1>1, <1>2, Opening
<1>7. CASE zns' = t /\ zrwaBuf' = [zrwaBuf EXCEPT ![z] = room] /\ pending' = pending
  <2>1. Running(zns') /\ Kept(zns, zns')
    BY <1>6, <1>7, SoundRuns
  <2>2. BufferTypes'
    BY <1>2, <1>5, <1>7 DEF BufferTypes
  <2> QED
    BY <1>2, <1>7, <2>1, <2>2, NothingTaken
<1>8. CASE /\ flush # 0 /\ BufferAllocate(room, flush) # 0
           /\ zns' = IncreaseWp(t, z, flush)
           /\ zrwaBuf' = [zrwaBuf EXCEPT ![z] = room - flush]
           /\ pending' = IF zns'.bug # "none" THEN pending
                         ELSE [pending EXCEPT !.zrwa[z] = @ + Flushed(zns.wp[z], flush)]
  <2>1. PICK u : u = zns'
    OBVIOUS
  <2>2. Increased(t, u, z, flush)
    <3>1. t.wp[z] + flush <= Cap
      BY <1>4, <1>6
    <3> QED
      BY <1>4, <1>6, <1>8, <2>1, <3>1, IncreaseFacts
  <2>3. Kept(zns, u)
    BY <1>2, <1>6, <2>2, ElsewhereKept
  <2>4. Running(u)
    BY <2>2 DEF Increased
  <2>5. room - flush \in 0 .. MaxSpace
    <3>1. room >= flush
      BY <1>4, <1>5, <1>8, Sizes DEF BufferAllocate
    <3> QED
      BY <1>4, <1>5, <3>1, Sizes
  <2>6. Flushed(zns.wp[z], flush) \in Nat
    BY <1>3, <1>4, FlushedNumber
  <2>7. pending \in [page : [Buffers -> Nat], tail : [Buffers -> Nat],
                     zrwa : [Zones -> Nat], whole : BOOLEAN]
    BY <1>2 DEF BufferTypes
  <2>8. /\ pending' \in [page : [Buffers -> Nat], tail : [Buffers -> Nat],
                          zrwa : [Zones -> Nat], whole : BOOLEAN]
        /\ pending'.page = pending.page /\ pending'.tail = pending.tail
        /\ pending'.whole = pending.whole
    <3>1. PICK p : p = Flushed(zns.wp[z], flush)
      OBVIOUS
    <3>2. pending.zrwa[z] + p \in Nat
      BY <2>6, <2>7, <3>1
    <3>3. \/ pending' = pending
          \/ pending' = [pending EXCEPT !.zrwa[z] = pending.zrwa[z] + p]
      BY <1>8, <3>1
    <3> QED
      BY <2>7, <3>2, <3>3
  <2>9. BufferTypes'
    BY <1>2, <1>8, <2>5, <2>8 DEF BufferTypes
  <2> QED
    BY <1>2, <2>1, <2>3, <2>4, <2>8, <2>9, NothingTaken
<1>9. CASE /\ ZrwaFault(z, elba) # "none"
           /\ zns' = Dead(IF NoBuffer(z) THEN Acquire(zns, "OPEN") ELSE t, ZrwaFault(z, elba))
           /\ zrwaBuf' = [zrwaBuf EXCEPT ![z] = room] /\ pending' = pending
  <2>1. PICK bug, s : /\ bug = ZrwaFault(z, elba)
                      /\ s = IF NoBuffer(z) THEN Acquire(zns, "OPEN") ELSE t
    OBVIOUS
  <2>2. bug \in {"division", "null"}
    BY <1>9, <2>1 DEF ZrwaFault
  <2>3. Bounded(s) /\ Kept(zns, s)
    <3>1. CASE ~ NoBuffer(z)
      BY <1>6, <2>1, <3>1, SoundRuns DEF Running, Bounded
    <3>2. CASE NoBuffer(z)
      <4>1. /\ zns \in Records /\ NrZones \in Nat /\ zns.acquired["OPEN"] < NrZones
            /\ \A r \in Resources : zns.acquired[r] \in Nat /\ zns.acquired[r] <= NrZones
        <5>1. zns.state[z] = "CLOSED"
          BY <3>2 DEF NoBuffer
        <5>2. zns.acquired["OPEN"] # NrZones
          BY <1>2, <5>1 DEF MayWrite, IsFull
        <5>3. zns \in Records /\ \A r \in Resources : zns.acquired[r] <= NrZones
          BY <1>2, SoundRuns DEF Running
        <5>4. \A r \in Resources : zns.acquired[r] \in Nat
          BY <5>3, Fields
        <5>5. NrZones \in Nat
          BY Sizes
        <5> QED
          BY <5>2, <5>3, <5>4, <5>5, Three
      <4>2. Takes(zns, s, "OPEN")
        BY <2>1, <3>2, <4>1, Three, AcquireFacts
      <4>3. /\ s \in Records /\ s.wp = zns.wp /\ s.zrwav = zns.zrwav /\ s.state = zns.state
        BY <4>2 DEF Takes, Same
      <4>4. ASSUME NEW r \in Resources PROVE s.acquired[r] <= NrZones
        <5>1. s.acquired[r] = zns.acquired[r] + One(r = "OPEN")
          BY <4>2 DEF Takes
        <5>2. r = "OPEN" => s.acquired[r] = zns.acquired[r] + 1
          BY <5>1 DEF One
        <5>3. r # "OPEN" => s.acquired[r] = zns.acquired[r]
          BY <4>1, <5>1 DEF One
        <5> QED
          BY <4>1, <5>2, <5>3
      <4>5. Placed(s)
        BY <1>2, <4>3 DEF Sound, Placed
      <4> QED
        BY <4>3, <4>4, <4>5, RunsOn DEF Bounded
    <3> QED
      BY <3>1, <3>2
  <2>4. /\ Running(zns') /\ zns'.wp = s.wp /\ zns'.zrwav = s.zrwav /\ zns'.state = s.state
    BY <1>9, <2>1, <2>2, <2>3, Dying
  <2>5. Kept(zns, zns')
    BY <2>3, <2>4 DEF Kept
  <2>6. BufferTypes'
    BY <1>2, <1>5, <1>9 DEF BufferTypes
  <2> QED
    BY <1>2, <1>9, <2>4, <2>5, <2>6, NothingTaken
<1> QED
  BY <1>2, <1>7, <1>8, <1>9

\* A step without a change of the state keeps the invariant.
LEMMA StutterKeeps ==
  ASSUME IInv, UNCHANGED vars
  PROVE  IInv'
BY DEF vars, IInv, BufferTypes, Settled

\* Every step keeps the invariant.
LEMMA NextKeeps ==
  ASSUME IInv, [Next]_vars
  PROVE  IInv'
<1>1. CASE CloseCmd \/ FinishCmd \/ OpenCmd \/ FlushCmd
  BY <1>1, CommandsKeep
<1>2. CASE ResetCmd
  BY <1>2, ResetsKeep
<1>3. ASSUME NEW z \in Zones, NEW off \in 0 .. Cap - 1, NEW n \in 1 .. MaxWrite,
             WriteCmd(z, off, n)
      PROVE  IInv'
  BY <1>3, WriteKeeps, ZrwaWriteKeeps DEF WriteCmd
<1>4. ASSUME NEW b \in Buffers, ReleasePage(b) \/ ReleaseTail(b) PROVE IInv'
  BY <1>4, PageReleased, TailReleased
<1>5. ASSUME NEW z \in Zones, ReleaseZrwa(z) PROVE IInv'
  BY <1>5, ZrwaReleased
<1>6. CASE UNCHANGED vars
  BY <1>6, StutterKeeps
<1> QED
  BY <1>1, <1>2, <1>3, <1>4, <1>5, <1>6 DEF Next

\* What is owed to a buffer is what the model counts.
LEMMA OwedIsUnprogrammed == \A b : Unprogrammed(b) = Owed(zns, b)
BY DEF Unprogrammed, Owed, Active, ZonesIn, InUse, Blocks

\* The invariant implies what the runs check.
LEMMA Implied ==
  ASSUME IInv
  PROVE  TypeOK /\ ResourcesExact /\ ZonesConsistent /\ BufferNeverOverdrawn
<1>1. /\ Running(zns) /\ BufferTypes /\ zns \in Records
      /\ pending.whole => Settled
  BY DEF IInv, Running
<1>2. BufferNeverOverdrawn
  BY <1>1, OwedIsUnprogrammed DEF Settled, BufferNeverOverdrawn
<1>3. wb \in [Buffers -> 0 .. MaxSpace]
  BY <1>1 DEF BufferTypes
<1>4. TypeOK
  <2>1. /\ zns.state \in [Zones -> States] /\ zns.wp \in [Zones -> Nat]
        /\ zns.zrwav \in [Zones -> BOOLEAN] /\ zns.acquired \in [Resources -> Nat]
        /\ zns.bug \in {"none", "release", "zrwa full", "division", "null"}
    BY <1>1, Fields
  <2>2. zns.wp \in [Zones -> 0 .. Cap]
    <3>1. \A z \in Zones : zns.wp[z] \in Nat /\ zns.wp[z] <= Cap
      BY <1>1, <2>1 DEF Running, Placed
    <3>2. \A z \in Zones : zns.wp[z] \in 0 .. Cap
      BY <3>1, Sizes
    <3> QED
      BY <2>1, <3>2
  <2>3. zns.acquired \in [Resources -> 0 .. NrZones]
    <3>1. \A r \in Resources : zns.acquired[r] \in Nat /\ zns.acquired[r] <= NrZones
      BY <1>1, <2>1 DEF Running
    <3>2. \A r \in Resources : zns.acquired[r] \in 0 .. NrZones
      BY <3>1, Sizes
    <3> QED
      BY <2>1, <3>2
  <2> QED
    BY <1>1, <1>3, <2>1, <2>2, <2>3 DEF TypeOK, BufferTypes
<1>5. ZonesConsistent
  BY <1>1, <1>4 DEF ZonesConsistent, Running, Sound, Placed, Roomy, Active, ZonesIn, InUse
<1>6. ResourcesExact
  <2>1. zns.bug # "release"
    BY <1>1 DEF Running
  <2>2. ASSUME zns.bug = "none"
        PROVE  /\ zns.acquired["OPEN"] = Cardinality(ZonesIn(Opened))
               /\ zns.acquired["ACTIVE"] = Cardinality(Active)
               /\ zns.acquired["ZRWA"] = Cardinality({z \in Active : zns.zrwav[z]})
    <3>1. Exact(zns)
      BY <1>1, <2>2 DEF Running, Sound
    <3>2. Holders(zns, "OPEN") = ZonesIn(Opened)
      BY HasFacts DEF Holders, ZonesIn
    <3>3. Holders(zns, "ACTIVE") = Active
      BY HasFacts DEF Holders, ZonesIn, Active, InUse
    <3>4. Holders(zns, "ZRWA") = {z \in Active : zns.zrwav[z]}
      BY HasFacts DEF Holders, ZonesIn, Active, InUse
    <3> QED
      BY <3>1, <3>2, <3>3, <3>4, Three DEF Exact
  <2> QED
    BY <2>1, <2>2 DEF ResourcesExact
<1> QED
  BY <1>2, <1>4, <1>5, <1>6
-----------------------------------------------------------------------------
\* The invariant holds in every reachable state.
THEOREM Invariance == Spec => []IInv
<1>1. Init => IInv
  BY InitIInv
<1>2. IInv /\ [Next]_vars => IInv'
  BY NextKeeps
<1> QED
  BY <1>1, <1>2, PTL DEF Spec

\* The counts of resources are the numbers of zones that hold them, so that
\* release_zone_resource never finds a count of zero, whatever commands are
\* given on single zones and on all.
THEOREM ResourcesCounted == Spec => []ResourcesExact
<1>1. IInv => ResourcesExact
  BY Implied
<1> QED
  BY <1>1, Invariance, PTL

\* The state and the write pointer of each zone agree, and all is of its type.
THEOREM ZonesInOrder == Spec => []ZonesConsistent
<1>1. IInv => ZonesConsistent
  BY Implied
<1> QED
  BY <1>1, Invariance, PTL

\* As long as commands write whole pages, a write buffer is never given back
\* more than was taken from it.
THEOREM BufferBalanced == Spec => []BufferNeverOverdrawn
<1>1. IInv => BufferNeverOverdrawn
  BY Implied
<1> QED
  BY <1>1, Invariance, PTL

-------------------------------------------------------------------------------
\* The key-value FTL.
\* What a slot may be linked to, and the values of kv.
Links == Slots \cup {None}
Tables ==
  [key : [Slots -> Contents], off : [Slots -> Areas \cup {None}],
   next : [Slots -> Links], mem : [Areas -> Vals \cup {NoVal}], latest : Nat,
   bits : SUBSET Nat, stopped : {"no", "BUG_ON", "endless"}]

\* The sequence c is the chain of slot s.
Passes(t, s, c) ==
  /\ c \in [0 .. NrSlots -> Links]
  /\ c[0] = IF Free(t, s) THEN None ELSE s
  /\ \A n \in 1 .. NrSlots : c[n] = Follow(t, c[n - 1])

\* Each link leads to a slot that was occupied later.
Rises(t, rank) ==
  /\ rank \in [Slots -> Nat]
  /\ \A s \in Slots : ~ Free(t, s) /\ ~ IsTail(t, s) => rank[s] < rank[t.next[s]]

\* The least of some numbers.
LEMMA FirstNumber ==
  ASSUME NEW T, T \subseteq Nat, T # {}
  PROVE  Min(T) \in T /\ \A i \in T : Min(T) <= i
<1>1. \E x \in T : \A y \in T : x <= y
  BY LeastNumber
<1> QED
  BY <1>1 DEF Min

\* A bounded set of numbers has a greatest.
LEMMA LastNumber ==
  ASSUME NEW n \in Nat, NEW T, T \subseteq 0 .. n, T # {}
  PROVE  Max(T) \in T /\ \A i \in T : i <= Max(T)
<1> DEFINE U == {n - i : i \in T}
<1>1. U \subseteq Nat /\ U # {}
  <2>1. \A i \in T : n - i \in Nat
    OBVIOUS
  <2>2. PICK i : i \in T
    OBVIOUS
  <2>3. n - i \in U
    BY <2>2
  <2> QED
    BY <2>1, <2>3
<1>2. PICK u \in U : \A v \in U : u <= v
  <2> HIDE DEF U
  <2> QED
    BY <1>1, LeastNumber
<1>3. PICK i \in T : u = n - i
  BY <1>2
<1>4. \A j \in T : n - j \in U
  OBVIOUS
<1>5. ASSUME NEW j \in T PROVE i >= j
  <2>1. u <= n - j
    BY <1>2, <1>4
  <2>2. i \in Nat /\ j \in Nat
    OBVIOUS
  <2> QED
    BY <1>3, <2>1, <2>2
<1>6. \E x \in T : \A y \in T : x >= y
  BY <1>5
<1>7. Max(T) \in T /\ \A y \in T : Max(T) >= y
  BY <1>6 DEF Max
<1>8. T \subseteq Int
  OBVIOUS
<1> QED
  BY <1>7, <1>8

\* The slots are numbered from 0.
LEMMA SlotFacts ==
  /\ NrSlots \in Nat /\ NrSlots > 0 /\ 0 \in Slots /\ None \notin Slots
  /\ \A s \in Slots : s \in Nat /\ s < NrSlots
BY CountsAssumption DEF Slots, None

\* A search goes on to an occupied slot that the one before is linked to.
LEMMA FollowFacts ==
  ASSUME NEW t \in Tables, NEW s \in Links
  PROVE  /\ Follow(t, s) \in Links
         /\ Follow(t, s) # None =>
              /\ s \in Slots /\ Follow(t, s) \in Slots /\ Follow(t, s) = t.next[s]
              /\ ~ Free(t, Follow(t, s)) /\ ~ IsTail(t, s)
<1>1. s # None => s \in Slots /\ t.next[s] \in Links
  BY DEF Tables, Links
<1> QED
  BY <1>1, SlotFacts DEF Follow, IsTail, Links

\* The chain of a slot follows the links from it.
LEMMA ChainPasses ==
  ASSUME NEW t \in Tables, NEW s \in Slots
  PROVE  Passes(t, s, Chain(t, s))
<1> DEFINE Linked(f) == [n \in 0 .. NrSlots |-> IF n # 0 THEN Follow(t, f[n - 1])
                                                ELSE IF Free(t, s) THEN None ELSE s]
           h == CHOOSE f : f = Linked(f)
<1>1. Chain(t, s) = h
  BY DEF Chain
<1>2. PICK a : a = IF Free(t, s) THEN None ELSE s
  OBVIOUS
<1>3. a \in Links
  BY <1>2 DEF Links
<1>4. PICK F : F = [p \in Links \X (0 .. NrSlots - 1) |-> Follow(t, p[1])]
  OBVIOUS
<1>5. F \in Steps(Links, NrSlots)
  BY <1>4, FollowFacts DEF Steps
<1>6. PICK f : Iterates(f, Links, a, NrSlots, F)
  BY <1>3, <1>5, SlotFacts, Iterated
<1>7. ASSUME NEW n \in 1 .. NrSlots PROVE f[n] = Follow(t, f[n - 1])
  <2>1. n - 1 \in 0 .. NrSlots - 1 /\ n - 1 \in 0 .. NrSlots
    BY SlotFacts
  <2>2. f[n - 1] \in Links /\ f[n] = F[<<f[n - 1], n - 1>>]
    BY <1>6, <2>1 DEF Iterates
  <2> QED
    BY <1>4, <2>1, <2>2
<1>8. f = Linked(f)
  <2>1. f = [n \in 0 .. NrSlots |-> f[n]] /\ f[0] = a
    BY <1>6 DEF Iterates
  <2>2. \A n \in 0 .. NrSlots : n # 0 => n \in 1 .. NrSlots
    BY SlotFacts
  <2> QED
    BY <1>2, <1>7, <2>1, <2>2
<1>9. h = Linked(h)
  BY <1>8
<1> HIDE DEF h
<1>10. /\ h[0] = a /\ \A n \in 1 .. NrSlots : h[n] = Follow(t, h[n - 1])
       /\ h = [n \in 0 .. NrSlots |-> h[n]]
  <2>1. 0 \in 0 .. NrSlots /\ \A n \in 1 .. NrSlots : n \in 0 .. NrSlots /\ n # 0
    BY SlotFacts
  <2> QED
    BY <1>2, <1>9, <2>1
<1>11. \A n \in 0 .. NrSlots : h[n] \in Links
  <2> DEFINE T == {n \in Nat : h[n] \in Links}
  <2>1. 0 \in T
    BY <1>3, <1>10
  <2>2. ASSUME NEW n \in 0 .. NrSlots - 1, n \in T PROVE n + 1 \in T
    <3>1. n + 1 \in 1 .. NrSlots /\ (n + 1) - 1 = n /\ n + 1 \in Nat /\ h[n] \in Links
      BY <2>2, SlotFacts
    <3>2. h[n + 1] = Follow(t, h[n])
      BY <1>10, <3>1
    <3> QED
      BY <3>1, <3>2, FollowFacts
  <2>3. \A n \in 0 .. NrSlots : n \in T
    <3> HIDE DEF T
    <3> QED
      BY <2>1, <2>2, SlotFacts, UpTo
  <2> QED
    BY <2>3
<1>12. h \in [0 .. NrSlots -> Links]
  BY <1>10, <1>11
<1> QED
  BY <1>1, <1>2, <1>10, <1>12 DEF Passes

\* A search passes occupied slots only, and none after the last.
LEMMA PassesSlots ==
  ASSUME NEW t \in Tables, NEW s \in Slots, NEW c, Passes(t, s, c),
         NEW n \in 0 .. NrSlots, c[n] # None
  PROVE  c[n] \in Slots /\ ~ Free(t, c[n])
<1>1. c[n] \in Slots
  BY DEF Passes, Links
<1>2. CASE n = 0
  BY <1>1, <1>2 DEF Passes
<1>3. CASE n # 0
  <2>1. n \in 1 .. NrSlots /\ n - 1 \in 0 .. NrSlots
    BY <1>3, SlotFacts
  <2>2. c[n] = Follow(t, c[n - 1]) /\ c[n - 1] \in Links
    BY <2>1 DEF Passes
  <2> QED
    BY <1>1, <2>2, FollowFacts
<1> QED
  BY <1>2, <1>3

\* A chain that reaches a slot has not ended before it.
LEMMA PassedBefore ==
  ASSUME NEW t \in Tables, NEW s \in Slots, NEW c, Passes(t, s, c),
         NEW n \in 0 .. NrSlots, c[n] # None, NEW m \in 0 .. n
  PROVE  c[m] # None
<1> DEFINE T == {j \in Nat : j <= NrSlots => \A i \in 0 .. j : c[j] # None => c[i] # None}
<1>1. 0 \in T
  OBVIOUS
<1>2. ASSUME NEW j \in 0 .. NrSlots - 1, j \in T PROVE j + 1 \in T
  <2>1. j + 1 \in 1 .. NrSlots /\ (j + 1) - 1 = j /\ j \in 0 .. NrSlots /\ j + 1 \in Nat
    BY SlotFacts
  <2>2. c[j + 1] = Follow(t, c[j]) /\ c[j] \in Links
    BY <2>1 DEF Passes
  <2>3. c[j + 1] # None => c[j] # None
    BY <2>2, SlotFacts, FollowFacts
  <2>4. ASSUME NEW i \in 0 .. j + 1, c[j + 1] # None PROVE c[i] # None
    <3>1. CASE i = j + 1
      BY <2>4, <3>1
    <3>2. CASE i # j + 1
      <4>1. i \in 0 .. j
        BY <3>2
      <4> QED
        BY <1>2, <2>1, <2>3, <2>4, <4>1
    <3> QED
      BY <3>1, <3>2
  <2> QED
    BY <2>1, <2>4
<1>3. \A j \in 0 .. NrSlots : j \in T
  <2> HIDE DEF T
  <2> QED
    BY <1>1, <1>2, SlotFacts, UpTo
<1> QED
  BY <1>3

\* The ranks rise along a chain, so that no slot stands in it twice.
LEMMA ChainRises ==
  ASSUME NEW t \in Tables, NEW s \in Slots, NEW c, Passes(t, s, c), NEW rank, Rises(t, rank),
         NEW n \in 0 .. NrSlots, c[n] # None, NEW m \in 0 .. n - 1
  PROVE  c[m] # c[n]
<1> DEFINE T == {j \in Nat : j <= NrSlots => \A i \in 0 .. j - 1 : c[j] # None => rank[c[i]] < rank[c[j]]}
<1>1. 0 \in T
  OBVIOUS
<1>2. ASSUME NEW j \in 0 .. NrSlots - 1, j \in T PROVE j + 1 \in T
  <2>1. j + 1 \in 1 .. NrSlots /\ (j + 1) - 1 = j /\ j \in 0 .. NrSlots /\ j + 1 \in Nat
        /\ j + 1 \in 0 .. NrSlots
    BY SlotFacts
  <2>2. c[j + 1] = Follow(t, c[j]) /\ c[j] \in Links
    BY <2>1 DEF Passes
  <2>3. ASSUME NEW i \in 0 .. j, c[j + 1] # None PROVE rank[c[i]] < rank[c[j + 1]]
    <3>1. c[j] # None /\ ~ IsTail(t, c[j]) /\ c[j + 1] = t.next[c[j]] /\ c[j + 1] \in Slots
      BY <2>2, <2>3, SlotFacts, FollowFacts
    <3>2. c[j] \in Slots /\ ~ Free(t, c[j])
      BY <2>1, <3>1, PassesSlots
    <3>3. rank[c[j]] < rank[c[j + 1]]
      BY <3>1, <3>2 DEF Rises
    <3>4. i \in 0 .. NrSlots
      BY <2>1, SlotFacts
    <3>5. c[i] # None
      BY <2>1, <3>1, PassedBefore
    <3>6. c[i] \in Slots
      BY <3>4, <3>5, PassesSlots
    <3>7. rank[c[i]] \in Nat /\ rank[c[j]] \in Nat /\ rank[c[j + 1]] \in Nat
      BY <3>1, <3>2, <3>6 DEF Rises
    <3>8. i = j \/ i \in 0 .. j - 1
      OBVIOUS
    <3>9. CASE i = j
      BY <3>3, <3>9
    <3>10. CASE i \in 0 .. j - 1
      <4>1. rank[c[i]] < rank[c[j]]
        BY <1>2, <2>1, <3>1, <3>10
      <4> QED
        BY <3>3, <3>7, <4>1
    <3> QED
      BY <3>8, <3>9, <3>10
  <2>4. (j + 1) - 1 = j
    OBVIOUS
  <2> QED
    BY <2>1, <2>3, <2>4
<1>3. \A j \in 0 .. NrSlots : j \in T
  <2> HIDE DEF T
  <2> QED
    BY <1>1, <1>2, SlotFacts, UpTo
<1>4. rank[c[m]] < rank[c[n]]
  BY <1>3
<1>5. m \in 0 .. NrSlots /\ m \in 0 .. n
  BY SlotFacts
<1>6. c[m] # None
  BY <1>5, PassedBefore
<1>7. c[m] \in Slots /\ c[n] \in Slots
  BY <1>5, <1>6, PassesSlots
<1>8. rank[c[m]] \in Nat /\ rank[c[n]] \in Nat
  BY <1>7 DEF Rises
<1> QED
  BY <1>4, <1>8

\* So a chain has no more slots than there are.
LEMMA ChainShort ==
  ASSUME NEW t \in Tables, NEW s \in Slots, NEW c, Passes(t, s, c), NEW rank, Rises(t, rank)
  PROVE  c[NrSlots] = None
<1> SUFFICES ASSUME c[NrSlots] # None PROVE FALSE
  OBVIOUS
<1>1. NrSlots \in 0 .. NrSlots /\ NrSlots \in Nat
  BY SlotFacts
<1>2. \A n \in 0 .. NrSlots : c[n] # None
  BY <1>1, PassedBefore
<1>3. \A n \in 0 .. NrSlots : c[n] \in Slots
  BY <1>2, PassesSlots
<1>4. c \in [0 .. NrSlots -> Slots]
  BY <1>3 DEF Passes
<1>5. /\ IsFiniteSet(0 .. NrSlots) /\ Cardinality(0 .. NrSlots) = NrSlots + 1
      /\ IsFiniteSet(Slots) /\ Cardinality(Slots) = NrSlots
  BY <1>1, FS_Interval, SlotFacts DEF Slots
<1>6. Cardinality(Slots) < Cardinality(0 .. NrSlots)
  BY <1>1, <1>5
<1>7. PICK m, n \in 0 .. NrSlots : m # n /\ c[m] = c[n]
  <2>1. PICK S : S = 0 .. NrSlots
    OBVIOUS
  <2>2. IsFiniteSet(S) /\ IsFiniteSet(Slots) /\ Cardinality(Slots) < Cardinality(S) /\ c \in [S -> Slots]
    BY <1>4, <1>5, <1>6, <2>1
  <2>3. \E m, n \in S : m # n /\ c[m] = c[n]
    BY <2>2, FS_PigeonHole
  <2> QED
    BY <2>1, <2>3
<1>8. m < n \/ n < m
  BY <1>7
<1>9. CASE m < n
  <2>1. m \in 0 .. n - 1
    BY <1>9
  <2> QED
    BY <1>2, <1>7, <2>1, ChainRises
<1>10. CASE n < m
  <2>1. n \in 0 .. m - 1
    BY <1>10
  <2> QED
    BY <1>2, <1>7, <2>1, ChainRises
<1> QED
  BY <1>8, <1>9, <1>10

\* Slot f is filled, and linked to the end p of a chain if p is not None.
Fills(t, u, f, p) ==
  /\ f \in Slots /\ Free(t, f) /\ ~ Free(u, f) /\ u.next[f] = None
  /\ p \in Slots => ~ Free(t, p) /\ IsTail(t, p) /\ u.next[p] = f
  /\ \A s \in Slots \ {f} : u.off[s] = t.off[s] /\ u.key[s] = t.key[s]
  /\ \A s \in Slots \ {f, p} : u.next[s] = t.next[s]

\* Slot x is cleared.
Clears(t, u, x) ==
  /\ x \in Slots /\ Free(u, x)
  /\ \A s \in Slots \ {x} : u.off[s] = t.off[s] /\ u.key[s] = t.key[s] /\ u.next[s] = t.next[s]

\* A chain that is not cut goes on as before, or by the slot that was filled.
LEMMA Grows ==
  ASSUME NEW t \in Tables, NEW u \in Tables, NEW f, NEW p \in Links, Fills(t, u, f, p),
         NEW s \in Slots, NEW c, NEW d, Passes(t, s, c), Passes(u, s, d), NEW n \in 0 .. NrSlots
  PROVE  IF c[n] # None THEN d[n] = c[n] ELSE d[n] \in {None, f}
<1> DEFINE T == {j \in Nat : j <= NrSlots => IF c[j] # None THEN d[j] = c[j] ELSE d[j] \in {None, f}}
<1>1. 0 \in T
  <2>1. IF c[0] # None THEN d[0] = c[0] ELSE d[0] \in {None, f}
    <3>1. s # f => (Free(u, s) <=> Free(t, s))
      BY DEF Fills, Free
    <3>2. s # None /\ f # None
      BY SlotFacts DEF Fills
    <3> QED
      BY <3>1, <3>2 DEF Passes, Fills
  <2> QED
    BY <2>1
<1>2. ASSUME NEW j \in 0 .. NrSlots - 1, j \in T PROVE j + 1 \in T
  <2>1. j + 1 \in 1 .. NrSlots /\ (j + 1) - 1 = j /\ j \in 0 .. NrSlots /\ j + 1 \in Nat
    BY SlotFacts
  <2>2. c[j + 1] = Follow(t, c[j]) /\ d[j + 1] = Follow(u, d[j]) /\ c[j] \in Links /\ d[j] \in Links
    BY <2>1 DEF Passes
  <2>3. IF c[j] # None THEN d[j] = c[j] ELSE d[j] \in {None, f}
    BY <1>2, <2>1
  <2>4. CASE c[j] = None
    <3>1. c[j + 1] = None
      BY <2>2, <2>4 DEF Follow
    <3>2. d[j + 1] = None
      BY <2>2, <2>3, <2>4 DEF Follow, IsTail, Fills
    <3> QED
      BY <2>1, <3>1, <3>2
  <2>5. CASE c[j] # None
    <3>1. PICK x : x = c[j]
      OBVIOUS
    <3>2. x \in Slots /\ ~ Free(t, x) /\ x # f /\ x # None
      <4>1. c[j] \in Slots /\ ~ Free(t, c[j])
        BY <2>1, <2>5, PassesSlots
      <4> QED
        BY <2>5, <3>1, <4>1 DEF Fills
    <3>3. c[j + 1] = Follow(t, x) /\ d[j + 1] = Follow(u, x)
      BY <2>2, <2>3, <2>5, <3>1
    <3>4. f \in Slots /\ f # None
      BY SlotFacts DEF Fills
    <3>5. t.next[x] \in Links /\ u.next[x] \in Links
      BY <3>2 DEF Tables
    <3>6. CASE x = p
      <4>1. Follow(t, x) = None
        BY <3>2, <3>6 DEF Follow, Fills
      <4>2. Follow(u, x) = f
        BY <3>2, <3>4, <3>6 DEF Follow, Fills, IsTail
      <4> QED
        BY <2>1, <3>3, <4>1, <4>2
    <3>7. CASE x # p
      <4>1. PICK y : y = t.next[x]
        OBVIOUS
      <4>2. u.next[x] = y /\ y \in Links
        BY <3>2, <3>5, <3>7, <4>1 DEF Fills
      <4>3. CASE y = None
        BY <2>1, <3>2, <3>3, <4>1, <4>2, <4>3 DEF Follow, IsTail
      <4>4. CASE y = f
        <5>1. Follow(t, x) = None
          BY <4>1, <4>4 DEF Follow, IsTail, Fills
        <5>2. Follow(u, x) \in {None, f}
          BY <4>2, <4>4 DEF Follow
        <5> QED
          BY <2>1, <3>3, <5>1, <5>2
      <4>5. CASE y # None /\ y # f
        <5>1. y \in Slots /\ (Free(u, y) <=> Free(t, y))
          BY <4>2, <4>5 DEF Links, Free, Fills
        <5>2. IsTail(u, x) <=> IsTail(t, x)
          BY <4>1, <4>2, <5>1 DEF IsTail
        <5>3. Follow(u, x) = Follow(t, x)
          BY <4>1, <4>2, <5>2 DEF Follow
        <5> QED
          BY <2>1, <3>3, <5>3
      <4> QED
        BY <4>3, <4>4, <4>5
    <3> QED
      BY <3>6, <3>7
  <2> QED
    BY <2>4, <2>5
<1>3. \A j \in 0 .. NrSlots : j \in T
  <2> HIDE DEF T
  <2> QED
    BY <1>1, <1>2, SlotFacts, UpTo
<1> QED
  BY <1>3

\* A chain from which a slot is cleared goes on as before up to that slot.
LEMMA Shrinks ==
  ASSUME NEW t \in Tables, NEW u \in Tables, NEW x, Clears(t, u, x),
         NEW s \in Slots, NEW c, NEW d, Passes(t, s, c), Passes(u, s, d), NEW n \in 0 .. NrSlots
  PROVE  d[n] = IF \E m \in 0 .. n : c[m] = x THEN None ELSE c[n]
<1> DEFINE T == {j \in Nat : j <= NrSlots => d[j] = IF \E m \in 0 .. j : c[m] = x THEN None ELSE c[j]}
<1>0. x \in Slots /\ x # None /\ s # None
  BY SlotFacts DEF Clears
<1>1. 0 \in T
  <2>1. d[0] = IF c[0] = x THEN None ELSE c[0]
    <3>1. s # x => (Free(u, s) <=> Free(t, s))
      BY DEF Clears, Free
    <3>2. Free(u, x)
      BY DEF Clears
    <3> QED
      BY <1>0, <3>1, <3>2 DEF Passes
  <2>2. (\E m \in 0 .. 0 : c[m] = x) <=> c[0] = x
    OBVIOUS
  <2> QED
    BY <2>1, <2>2
<1>2. ASSUME NEW j \in 0 .. NrSlots - 1, j \in T PROVE j + 1 \in T
  <2>1. j + 1 \in 1 .. NrSlots /\ (j + 1) - 1 = j /\ j \in 0 .. NrSlots /\ j + 1 \in Nat
    BY SlotFacts
  <2>2. c[j + 1] = Follow(t, c[j]) /\ d[j + 1] = Follow(u, d[j]) /\ c[j] \in Links /\ d[j] \in Links
    BY <2>1 DEF Passes
  <2>3. d[j] = IF \E m \in 0 .. j : c[m] = x THEN None ELSE c[j]
    BY <1>2, <2>1
  <2>4. (\E m \in 0 .. j + 1 : c[m] = x) <=> (\E m \in 0 .. j : c[m] = x) \/ c[j + 1] = x
    <3>1. \A m \in 0 .. j + 1 : m \in 0 .. j \/ m = j + 1
      OBVIOUS
    <3>2. j + 1 \in 0 .. j + 1 /\ \A m \in 0 .. j : m \in 0 .. j + 1
      OBVIOUS
    <3> QED
      BY <3>1, <3>2
  <2>5. CASE \E m \in 0 .. j : c[m] = x
    <3>1. d[j + 1] = None
      BY <2>2, <2>3, <2>5 DEF Follow
    <3> QED
      BY <2>1, <2>4, <2>5, <3>1
  <2>6. CASE ~ (\E m \in 0 .. j : c[m] = x)
    <3>1. PICK y : y = c[j]
      OBVIOUS
    <3>2. d[j] = y /\ y # x /\ c[j + 1] = Follow(t, y) /\ d[j + 1] = Follow(u, y)
      <4>1. j \in 0 .. j
        OBVIOUS
      <4> QED
        BY <2>2, <2>3, <2>6, <3>1, <4>1
    <3>3. CASE y = None
      <4>1. Follow(t, y) = None /\ Follow(u, y) = None
        BY <3>3 DEF Follow
      <4> QED
        BY <1>0, <2>1, <2>4, <2>6, <3>2, <4>1
    <3>4. CASE y # None
      <4>1. y \in Slots
        BY <2>2, <3>1, <3>4 DEF Links
      <4>2. PICK z : z = t.next[y]
        OBVIOUS
      <4>3. u.next[y] = z /\ z \in Links
        BY <3>2, <4>1, <4>2 DEF Clears, Tables
      <4>4. CASE z = x
        <5>1. Follow(u, y) = None
          BY <1>0, <4>3, <4>4 DEF Follow, IsTail, Clears
        <5>2. Follow(t, y) \in {None, x}
          BY <4>2, <4>4 DEF Follow
        <5> QED
          BY <1>0, <2>1, <2>4, <2>6, <3>2, <5>1, <5>2
      <4>5. CASE z # x
        <5>1. IsTail(u, y) <=> IsTail(t, y)
          <6>1. z # None => (Free(u, z) <=> Free(t, z))
            BY <4>3, <4>5 DEF Links, Free, Clears
          <6> QED
            BY <4>2, <4>3, <6>1 DEF IsTail
        <5>2. Follow(u, y) = Follow(t, y)
          BY <4>2, <4>3, <5>1 DEF Follow
        <5>3. Follow(t, y) # x
          BY <1>0, <4>2, <4>5 DEF Follow
        <5> QED
          BY <2>1, <2>4, <2>6, <3>2, <5>2, <5>3
      <4> QED
        BY <4>4, <4>5
    <3> QED
      BY <3>3, <3>4
  <2> QED
    BY <2>5, <2>6
<1>3. \A j \in 0 .. NrSlots : j \in T
  <2> HIDE DEF T
  <2> QED
    BY <1>1, <1>2, SlotFacts, UpTo
<1> QED
  BY <1>3

\* The slot that is filled gets a rank above the others; a slot that is
\* cleared keeps its rank.
LEMMA FilledRises ==
  ASSUME NEW t \in Tables, NEW u \in Tables, NEW f, NEW p \in Links, Fills(t, u, f, p),
         NEW rank, Rises(t, rank), NEW top \in Nat, \A s \in Slots : rank[s] < top,
         NEW new, new = [rank EXCEPT ![f] = top]
  PROVE  Rises(u, new) /\ \A s \in Slots : new[s] < top + 1
<1>1. f \in Slots /\ f # None /\ p # f /\ ~ Free(u, f) /\ u.next[f] = None
  BY SlotFacts DEF Fills
<1>2. /\ new \in [Slots -> Nat] /\ new[f] = top
      /\ \A s \in Slots : s # f => new[s] = rank[s] /\ rank[s] \in Nat /\ rank[s] < top
  BY <1>1 DEF Rises
<1>3. ASSUME NEW s \in Slots, ~ Free(u, s), ~ IsTail(u, s) PROVE new[s] < new[u.next[s]]
  <2>1. s # f /\ u.next[s] # None /\ u.next[s] \in Slots /\ ~ Free(u, u.next[s])
    BY <1>1, <1>3 DEF IsTail, Tables, Links
  <2>2. CASE u.next[s] = f
    BY <1>2, <2>1, <2>2
  <2>3. CASE u.next[s] # f
    <3>1. s # p
      BY <2>1, <2>3 DEF Fills
    <3>2. u.next[s] = t.next[s] /\ ~ Free(t, s) /\ ~ Free(t, t.next[s])
      BY <1>3, <2>1, <2>3, <3>1 DEF Fills, Free
    <3>3. ~ IsTail(t, s)
      BY <2>1, <3>2 DEF IsTail
    <3>4. rank[s] < rank[t.next[s]]
      BY <3>2, <3>3 DEF Rises
    <3> QED
      BY <1>2, <2>1, <2>3, <3>2, <3>4
  <2> QED
    BY <2>2, <2>3
<1>4. ASSUME NEW s \in Slots PROVE new[s] < top + 1
  BY <1>2
<1> QED
  BY <1>2, <1>3, <1>4 DEF Rises

\* Clearing a slot leaves no link that does not lead to a later one.
LEMMA ClearedRises ==
  ASSUME NEW t \in Tables, NEW u \in Tables, NEW x, Clears(t, u, x), NEW rank, Rises(t, rank)
  PROVE  Rises(u, rank)
<1>1. ASSUME NEW s \in Slots, ~ Free(u, s), ~ IsTail(u, s) PROVE rank[s] < rank[u.next[s]]
  <2>1. s # x /\ u.next[s] \in Slots /\ ~ Free(u, u.next[s]) /\ u.next[s] # x /\ u.next[s] # None
    BY <1>1 DEF IsTail, Tables, Links, Clears
  <2>2. u.next[s] = t.next[s] /\ ~ Free(t, s) /\ ~ Free(t, t.next[s])
    BY <1>1, <2>1 DEF Clears, Free
  <2>3. ~ IsTail(t, s)
    BY <2>1, <2>2 DEF IsTail
  <2> QED
    BY <2>2, <2>3 DEF Rises
<1> QED
  BY <1>1 DEF Rises

Hashed == hash \in [slot : [Keys -> Slots], bitmap : BOOLEAN]

\* The slot n links on in the chain c holds the key.
Holding(t, k, c, n) == c[n] # None /\ Matches(k, t.key[c[n]])

\* What is written for a key matches it, and what two keys match makes them alike.
LEMMA WrittenFacts ==
  ASSUME NEW k \in Keys, NEW content \in Contents
  PROVE  /\ Written(k, content) \in Contents /\ Matches(k, Written(k, content))
         /\ \A x \in Keys : Matches(x, content) /\ Matches(k, content) => <<x, k>> \in Alike
<1>1. \A x \in Keys : /\ Len(x) \in 1 .. KeyBytes /\ KeyBytes \in Nat
                     /\ \A b \in 1 .. Len(x) : b \in 1 .. KeyBytes /\ x[b] \in Bytes
  BY KeysAssumption, CountsAssumption
<1>2. \A b \in 1 .. KeyBytes : b <= Len(k) => b \in 1 .. Len(k)
  BY <1>1
<1>3. Written(k, content) \in Contents
  BY <1>1, <1>2 DEF Written, Contents
<1>4. Matches(k, Written(k, content))
  BY <1>1 DEF Matches, Written
<1>5. ASSUME NEW x \in Keys, Matches(x, content), Matches(k, content) PROVE <<x, k>> \in Alike
  <2>1. ASSUME NEW b \in 1 .. KeyBytes, b <= Len(x), b <= Len(k) PROVE x[b] = k[b]
    <3>1. b \in 1 .. Len(x) /\ b \in 1 .. Len(k)
      BY <1>1, <2>1
    <3> QED
      BY <1>5, <3>1 DEF Matches
  <2> QED
    BY <2>1 DEF Alike
<1> QED
  BY <1>3, <1>4, <1>5

\* A search starts from a slot.
LEMMA Home == ASSUME Hashed, NEW k \in Keys PROVE hash.slot[k] \in Slots
BY DEF Hashed

\* A key is found in the first slot of its chain that matches it.
LEMMA FindFacts ==
  ASSUME Hashed, NEW t \in Tables, NEW k \in Keys, NEW c, c = Chain(t, hash.slot[k])
  PROVE  \/ Find(t, k) = None /\ \A n \in 0 .. NrSlots : ~ Holding(t, k, c, n)
         \/ \E n \in 0 .. NrSlots : /\ Holding(t, k, c, n) /\ Find(t, k) = c[n]
                                    /\ \A m \in 0 .. n - 1 : ~ Holding(t, k, c, m)
<1>1. PICK hits : hits = {n \in 0 .. NrSlots : Holding(t, k, c, n)}
  OBVIOUS
<1>2. Find(t, k) = IF hits = {} THEN None ELSE c[Min(hits)]
  BY <1>1 DEF Find, Holding
<1>3. CASE hits = {}
  <2>1. \A n \in 0 .. NrSlots : ~ Holding(t, k, c, n)
    BY <1>1, <1>3
  <2> QED
    BY <1>2, <1>3, <2>1
<1>4. CASE hits # {}
  <2>1. hits \subseteq Nat
    BY <1>1
  <2>2. PICK n : n = Min(hits)
    OBVIOUS
  <2>3. n \in hits /\ \A m \in hits : n <= m
    BY <1>4, <2>1, <2>2, FirstNumber
  <2>4. n \in 0 .. NrSlots /\ Holding(t, k, c, n) /\ Find(t, k) = c[n]
    BY <1>1, <1>2, <1>4, <2>2, <2>3
  <2>5. ASSUME NEW m \in 0 .. n - 1 PROVE ~ Holding(t, k, c, m)
    <3>1. m \in 0 .. NrSlots /\ ~ (n <= m)
      BY <2>4, SlotFacts
    <3> QED
      BY <1>1, <2>3, <3>1
  <2> QED
    BY <2>4, <2>5
<1> QED
  BY <1>3, <1>4

\* A search finds the first slot on the chain that holds the key.
LEMMA FindAt ==
  ASSUME Hashed, NEW t \in Tables, NEW k \in Keys, NEW c, c = Chain(t, hash.slot[k]),
         NEW n \in 0 .. NrSlots, Holding(t, k, c, n), \A m \in 0 .. n - 1 : ~ Holding(t, k, c, m)
  PROVE  Find(t, k) = c[n]
<1>1. PICK i \in 0 .. NrSlots : /\ Holding(t, k, c, i) /\ Find(t, k) = c[i]
                                /\ \A m \in 0 .. i - 1 : ~ Holding(t, k, c, m)
  BY FindFacts
<1>2. i \in 0 .. n - 1 \/ n \in 0 .. i - 1 \/ i = n
  BY SlotFacts
<1> QED
  BY <1>1, <1>2

\* The slot in which a key is found.
LEMMA FoundSlot ==
  ASSUME Hashed, NEW t \in Tables, NEW k \in Keys
  PROVE  /\ Find(t, k) \in Links
         /\ Find(t, k) # None => /\ Find(t, k) \in Slots /\ ~ Free(t, Find(t, k))
                                 /\ Matches(k, t.key[Find(t, k)])
<1>1. PICK c : c = Chain(t, hash.slot[k])
  OBVIOUS
<1>2. Passes(t, hash.slot[k], c) /\ hash.slot[k] \in Slots
  BY <1>1, Home, ChainPasses
<1>3. CASE Find(t, k) = None
  BY <1>3 DEF Links
<1>4. CASE Find(t, k) # None
  <2>1. PICK n \in 0 .. NrSlots : Holding(t, k, c, n) /\ Find(t, k) = c[n]
    BY <1>1, <1>4, FindFacts
  <2>2. c[n] \in Slots /\ ~ Free(t, c[n])
    BY <1>2, <1>4, <2>1, PassesSlots
  <2> QED
    BY <2>1, <2>2 DEF Holding, Links
<1> QED
  BY <1>3, <1>4

\* A slot that is filled takes no key that is found away from its slot, and
\* only the key in it can be found where it was not.
LEMMA FilledFind ==
  ASSUME Hashed, NEW t \in Tables, NEW u \in Tables, NEW f, NEW p \in Links, Fills(t, u, f, p),
         NEW k \in Keys
  PROVE  IF Find(t, k) # None THEN Find(u, k) = Find(t, k)
         ELSE Find(u, k) = None \/ (Find(u, k) = f /\ Matches(k, u.key[f]))
<1>1. PICK s, c, d : s = hash.slot[k] /\ c = Chain(t, s) /\ d = Chain(u, s)
  OBVIOUS
<1>2. s \in Slots /\ Passes(t, s, c) /\ Passes(u, s, d)
  BY <1>1, Home, ChainPasses
<1>3. \A n \in 0 .. NrSlots : IF c[n] # None THEN d[n] = c[n] ELSE d[n] \in {None, f}
  BY <1>2, Grows
<1>4. ASSUME NEW n \in 0 .. NrSlots, c[n] # None PROVE Holding(u, k, d, n) <=> Holding(t, k, c, n)
  <2>1. c[n] \in Slots /\ ~ Free(t, c[n])
    BY <1>2, <1>4, PassesSlots
  <2>2. c[n] # f /\ d[n] = c[n]
    BY <1>3, <1>4, <2>1 DEF Fills
  <2>3. u.key[c[n]] = t.key[c[n]]
    BY <2>1, <2>2 DEF Fills
  <2> QED
    BY <2>2, <2>3 DEF Holding
<1>5. CASE Find(t, k) # None
  <2>1. PICK n \in 0 .. NrSlots : /\ Holding(t, k, c, n) /\ Find(t, k) = c[n]
                                  /\ \A m \in 0 .. n - 1 : ~ Holding(t, k, c, m)
    BY <1>1, <1>5, FindFacts
  <2>2. c[n] # None /\ d[n] = c[n] /\ Holding(u, k, d, n)
    BY <1>3, <1>4, <1>5, <2>1
  <2>3. ASSUME NEW m \in 0 .. n - 1 PROVE ~ Holding(u, k, d, m)
    <3>1. m \in 0 .. n /\ m \in 0 .. NrSlots
      BY SlotFacts
    <3>2. c[m] # None
      BY <1>2, <2>2, <3>1, PassedBefore
    <3> QED
      BY <1>4, <2>1, <3>1, <3>2
  <2>4. Find(u, k) = d[n]
    BY <1>1, <2>2, <2>3, FindAt
  <2> QED
    BY <1>5, <2>1, <2>2, <2>4
<1>6. CASE Find(t, k) = None /\ Find(u, k) # None
  <2>1. PICK n \in 0 .. NrSlots : Holding(u, k, d, n) /\ Find(u, k) = d[n]
    BY <1>1, <1>6, FindFacts
  <2>2. ~ Holding(t, k, c, n)
    <3>1. \A i \in 0 .. NrSlots : Holding(t, k, c, i) => c[i] # None
      BY DEF Holding
    <3> QED
      BY <1>1, <1>6, <3>1, FindFacts
  <2>3. c[n] = None
    BY <1>4, <2>1, <2>2
  <2>4. d[n] = f
    BY <1>3, <1>6, <2>1, <2>3
  <2> QED
    BY <1>6, <2>1, <2>4 DEF Holding
<1> QED
  BY <1>5, <1>6

\* The slot f is the first that a search for the key passes when it is filled,
\* or comes behind the last one, p.
AtEnd(t, k, f, p) ==
  IF p = None THEN f = hash.slot[k]
  ELSE \E n \in 0 .. NrSlots - 1 : Chain(t, hash.slot[k])[n] = p

\* A key that was not found is found in the slot that is filled at the end of
\* its chain.
LEMMA FilledFound ==
  ASSUME Hashed, NEW t \in Tables, NEW u \in Tables, NEW f, NEW p \in Links, Fills(t, u, f, p),
         NEW k \in Keys, Find(t, k) = None, AtEnd(t, k, f, p), Matches(k, u.key[f])
  PROVE  Find(u, k) = f
<1>1. PICK s, c, d : s = hash.slot[k] /\ c = Chain(t, s) /\ d = Chain(u, s)
  OBVIOUS
<1>2. s \in Slots /\ Passes(t, s, c) /\ Passes(u, s, d)
  BY <1>1, Home, ChainPasses
<1>3. \A n \in 0 .. NrSlots : IF c[n] # None THEN d[n] = c[n] ELSE d[n] \in {None, f}
  BY <1>2, Grows
<1>4. f \in Slots /\ f # None /\ ~ Free(u, f) /\ Free(t, f)
  BY SlotFacts DEF Fills
<1>5. ASSUME NEW n \in 0 .. NrSlots, d[n] = f, \A m \in 0 .. n - 1 : c[m] # None
      PROVE  Find(u, k) = f
  <2>1. Holding(u, k, d, n)
    BY <1>4, <1>5 DEF Holding
  <2>2. ASSUME NEW m \in 0 .. n - 1 PROVE ~ Holding(u, k, d, m)
    <3>1. m \in 0 .. NrSlots /\ c[m] # None
      BY <1>5, SlotFacts
    <3>2. c[m] \in Slots /\ ~ Free(t, c[m]) /\ d[m] = c[m]
      BY <1>2, <1>3, <3>1, PassesSlots
    <3>3. u.key[c[m]] = t.key[c[m]]
      BY <1>4, <3>2 DEF Fills
    <3>4. ~ Holding(t, k, c, m)
      <4>1. \A i \in 0 .. NrSlots : Holding(t, k, c, i) => c[i] # None
        BY DEF Holding
      <4> QED
        BY <1>1, <3>1, <4>1, FindFacts
    <3> QED
      BY <3>1, <3>2, <3>3, <3>4 DEF Holding
  <2>3. Find(u, k) = d[n]
    BY <1>1, <2>1, <2>2, FindAt
  <2> QED
    BY <1>5, <2>3
<1>6. CASE p = None
  <2>1. d[0] = f /\ 0 \in 0 .. NrSlots
    BY <1>1, <1>2, <1>4, <1>6, SlotFacts DEF AtEnd, Passes
  <2> QED
    BY <1>5, <2>1
<1>7. CASE p # None
  <2>1. PICK n \in 0 .. NrSlots - 1 : c[n] = p
    BY <1>1, <1>7 DEF AtEnd
  <2>2. /\ n \in 0 .. NrSlots /\ n + 1 \in 0 .. NrSlots /\ n + 1 \in 1 .. NrSlots
        /\ (n + 1) - 1 = n
    BY SlotFacts
  <2>3. d[n] = p /\ p \in Slots /\ u.next[p] = f
    BY <1>3, <1>7, <2>1, <2>2 DEF Links, Fills
  <2>4. d[n + 1] = Follow(u, d[n])
    BY <1>2, <2>2 DEF Passes
  <2>5. d[n + 1] = f
    BY <1>4, <1>7, <2>3, <2>4 DEF Follow, IsTail
  <2>6. \A m \in 0 .. n : c[m] # None
    BY <1>2, <1>7, <2>1, <2>2, PassedBefore
  <2> QED
    BY <1>5, <2>2, <2>5, <2>6
<1> QED
  BY <1>6, <1>7

\* A slot that is cleared loses keys, the one in it among them, and moves none.
LEMMA ClearedFind ==
  ASSUME Hashed, NEW t \in Tables, NEW u \in Tables, NEW x, Clears(t, u, x), NEW k \in Keys,
         Find(u, k) # None
  PROVE  Find(u, k) = Find(t, k) /\ Find(t, k) # x
<1>1. PICK s, c, d : s = hash.slot[k] /\ c = Chain(t, s) /\ d = Chain(u, s)
  OBVIOUS
<1>2. s \in Slots /\ Passes(t, s, c) /\ Passes(u, s, d)
  BY <1>1, Home, ChainPasses
<1>3. \A n \in 0 .. NrSlots : d[n] = IF \E m \in 0 .. n : c[m] = x THEN None ELSE c[n]
  BY <1>2, Shrinks
<1>4. PICK n \in 0 .. NrSlots : /\ Holding(u, k, d, n) /\ Find(u, k) = d[n]
                                /\ \A m \in 0 .. n - 1 : ~ Holding(u, k, d, m)
  BY <1>1, FindFacts
<1>5. \A m \in 0 .. n : c[m] # x /\ d[m] = c[m]
  <2>1. \A m \in 0 .. n : c[m] # x
    BY <1>3, <1>4
  <2>2. \A m \in 0 .. n : m \in 0 .. NrSlots /\ \A i \in 0 .. m : i \in 0 .. n
    BY SlotFacts
  <2> QED
    BY <1>3, <2>1, <2>2
<1>6. ASSUME NEW m \in 0 .. n PROVE Holding(u, k, d, m) <=> Holding(t, k, c, m)
  <2>1. m \in 0 .. NrSlots /\ d[m] = c[m] /\ c[m] # x
    BY <1>5, SlotFacts
  <2>2. CASE c[m] # None
    <3>1. c[m] \in Slots
      BY <1>2, <2>1, <2>2, PassesSlots
    <3>2. u.key[c[m]] = t.key[c[m]]
      BY <2>1, <3>1 DEF Clears
    <3> QED
      BY <2>1, <3>2 DEF Holding
  <2>3. CASE c[m] = None
    BY <2>1, <2>3 DEF Holding
  <2> QED
    BY <2>2, <2>3
<1>7. n \in 0 .. n /\ \A m \in 0 .. n - 1 : m \in 0 .. n
  OBVIOUS
<1>8. Holding(t, k, c, n) /\ \A m \in 0 .. n - 1 : ~ Holding(t, k, c, m)
  BY <1>4, <1>6, <1>7
<1>9. Find(t, k) = c[n]
  BY <1>1, <1>8, FindAt
<1> QED
  BY <1>4, <1>5, <1>7, <1>9

\* What is found depends on the columns of keys, offsets and links alone.
LEMMA SameFind ==
  ASSUME Hashed, NEW t \in Tables, NEW u \in Tables,
         u.key = t.key, u.off = t.off, u.next = t.next, NEW k \in Keys
  PROVE  Find(u, k) = Find(t, k)
<1>1. PICK s, c, d : s = hash.slot[k] /\ c = Chain(t, s) /\ d = Chain(u, s)
  OBVIOUS
<1>2. s \in Slots /\ Passes(t, s, c) /\ Passes(u, s, d)
  BY <1>1, Home, ChainPasses
<1> DEFINE T == {n \in Nat : n <= NrSlots => d[n] = c[n]}
<1>3. \A x : Follow(u, x) = Follow(t, x) /\ (Free(u, x) <=> Free(t, x))
  BY DEF Follow, IsTail, Free
<1>4. 0 \in T
  BY <1>2, <1>3 DEF Passes
<1>5. ASSUME NEW n \in 0 .. NrSlots - 1, n \in T PROVE n + 1 \in T
  <2>1. n + 1 \in 1 .. NrSlots /\ (n + 1) - 1 = n /\ n \in 0 .. NrSlots /\ n + 1 \in Nat
    BY SlotFacts
  <2>2. c[n + 1] = Follow(t, c[n]) /\ d[n + 1] = Follow(u, d[n]) /\ d[n] = c[n]
    BY <1>2, <1>5, <2>1 DEF Passes
  <2> QED
    BY <1>3, <2>1, <2>2
<1>6. \A n \in 0 .. NrSlots : n \in T
  <2> HIDE DEF T
  <2> QED
    BY <1>4, <1>5, SlotFacts, UpTo
<1>7. \A n \in 0 .. NrSlots : d[n] = c[n] /\ (Holding(u, k, d, n) <=> Holding(t, k, c, n))
  BY <1>6 DEF Holding
<1>8. CASE Find(t, k) = None
  <2>1. \A n \in 0 .. NrSlots : ~ Holding(t, k, c, n)
    <3>1. \A n \in 0 .. NrSlots : Holding(t, k, c, n) => c[n] # None
      BY DEF Holding
    <3> QED
      BY <1>1, <1>8, <3>1, FindFacts
  <2> QED
    BY <1>1, <1>7, <1>8, <2>1, FindFacts
<1>9. CASE Find(t, k) # None
  <2>1. PICK n \in 0 .. NrSlots : /\ Holding(t, k, c, n) /\ Find(t, k) = c[n]
                                  /\ \A m \in 0 .. n - 1 : ~ Holding(t, k, c, m)
    BY <1>1, <1>9, FindFacts
  <2>2. \A m \in 0 .. n - 1 : m \in 0 .. NrSlots
    BY SlotFacts
  <2>3. Holding(u, k, d, n) /\ \A m \in 0 .. n - 1 : ~ Holding(u, k, d, m)
    BY <1>7, <2>1, <2>2
  <2>4. Find(u, k) = d[n]
    BY <1>1, <2>3, FindAt
  <2> QED
    BY <1>7, <2>1, <2>4
<1> QED
  BY <1>8, <1>9

\* What holds of the table: the links lead from older to newer slots; a free
\* slot has none; storage in use was allocated, once if any was left; only a
\* full table is searched without end.
Ranked(t) == \E rank : \E top \in Nat : Rises(t, rank) /\ \A s \in Slots : rank[s] < top
FreeUnlinked(t) == \A s \in Slots : Free(t, s) => t.next[s] = None
InStorage(t) == \A s \in Slots : ~ Free(t, s) =>
  IF hash.bitmap THEN t.off[s] \in t.bits ELSE t.off[s] < t.latest
OwnStorage(t) == ~ Exhausted(t) =>
  \A s, x \in Slots : t.off[s] = t.off[x] /\ ~ Free(t, s) => s = x
Allocator(t) ==
  IF hash.bitmap THEN t.bits \subseteq 0 .. NrBits + 1 /\ t.latest <= NrBits
  ELSE t.bits = {} /\ (t.stopped = "no" => t.latest <= NrAreas)
EndlessIfFull(t) == t.stopped = "endless" => \A s \in Slots : ~ Free(t, s)
SoundTable(t) ==
  /\ t \in Tables /\ Ranked(t) /\ FreeUnlinked(t)
  /\ InStorage(t) /\ OwnStorage(t) /\ Allocator(t) /\ EndlessIfFull(t)

\* Place at has been allocated, and v written there.
Readied(t, u, at, v) ==
  /\ at \in Areas /\ u \in Tables
  /\ u.key = t.key /\ u.off = t.off /\ u.next = t.next /\ u.stopped = t.stopped
  /\ u.mem[at] = v /\ \A a \in Areas \ {at} : u.mem[a] = t.mem[a]
  /\ hash.bitmap => /\ at \in u.bits /\ t.bits \subseteq u.bits /\ u.bits \subseteq 0 .. NrBits + 1
                    /\ u.latest <= NrBits /\ at < 2 * NrBits + 2
                    /\ at \in t.bits => Exhausted(u)
  /\ ~ hash.bitmap => at = t.latest /\ u.latest = at + 1 /\ u.bits = {}

\* The new entry is made in slot f.
Entered(t, u, k, at, f, p) ==
  /\ p \in Links /\ Fills(t, u, f, p) /\ AtEnd(t, k, f, p) /\ u \in Tables /\ FreeUnlinked(u)
  /\ u.key[f] \in Contents /\ Matches(k, u.key[f]) /\ u.off[f] = at
  /\ u.mem = t.mem /\ u.latest = t.latest /\ u.bits = t.bits /\ u.stopped = t.stopped
  /\ ~ hash.bitmap => at < NrAreas

\* The counts, and the storage areas they number.
LEMMA CountFacts ==
  /\ NrAreas \in Nat \ {0} /\ NrBits \in Nat \ {0} /\ NrSlots \in Nat \ {0}
  /\ None \notin Areas /\ 0 .. NrAreas \subseteq Areas /\ 0 .. NrBits + 1 \subseteq Areas
BY CountsAssumption DEF None, Areas

\* Slot x is the last of the chain of slot s.
ChainEnd(t, s, x) ==
  /\ x \in Slots /\ ~ Free(t, x) /\ IsTail(t, x)
  /\ \E n \in 0 .. NrSlots - 1 : Chain(t, s)[n] = x

\* The last slot of a chain is occupied, and the chain ends there.
LEMMA TailEnds ==
  ASSUME NEW t \in Tables, Ranked(t), NEW s \in Slots, ~ Free(t, s), NEW c, c = Chain(t, s),
         NEW tail, tail = c[Max({n \in 0 .. NrSlots : c[n] # None})]
  PROVE  ChainEnd(t, s, tail)
<1>1. Passes(t, s, c)
  BY ChainPasses
<1>2. PICK rank : Rises(t, rank)
  BY DEF Ranked
<1>3. PICK T : T = {n \in 0 .. NrSlots : c[n] # None}
  OBVIOUS
<1>4. c[0] # None /\ 0 \in 0 .. NrSlots
  BY <1>1, SlotFacts DEF Passes
<1>5. T \subseteq 0 .. NrSlots /\ T # {}
  BY <1>3, <1>4
<1>6. PICK n : n = Max(T)
  OBVIOUS
<1>7. n \in T /\ \A i \in T : i <= n
  BY <1>5, <1>6, SlotFacts, LastNumber
<1>8. n \in 0 .. NrSlots /\ c[n] # None /\ tail = c[n]
  BY <1>3, <1>6, <1>7
<1>9. tail \in Slots /\ ~ Free(t, tail)
  BY <1>1, <1>8, PassesSlots
<1>10. n # NrSlots
  BY <1>1, <1>2, <1>8, ChainShort
<1>11. n + 1 \in 1 .. NrSlots /\ n + 1 \in 0 .. NrSlots /\ (n + 1) - 1 = n /\ ~ (n + 1 <= n)
  BY <1>8, <1>10, SlotFacts
<1>12. c[n + 1] = None
  BY <1>3, <1>7, <1>11
<1>13. Follow(t, tail) = None
  BY <1>1, <1>8, <1>11, <1>12 DEF Passes
<1>14. tail # None
  BY <1>9, SlotFacts
<1>15. IsTail(t, tail) \/ t.next[tail] = None
  BY <1>13, <1>14 DEF Follow
<1>16. n \in 0 .. NrSlots - 1
  BY <1>8, <1>10, SlotFacts
<1> QED
  BY <1>8, <1>9, <1>15, <1>16 DEF IsTail, ChainEnd

\* Going round the table from any slot meets every other.
LEMMA GoesRound ==
  ASSUME NEW s \in Slots, NEW x \in Slots
  PROVE  \E d \in 0 .. NrSlots - 1 : (s + d) % NrSlots = x
<1>1. NrSlots \in Nat \ {0} /\ s \in Nat /\ x \in Nat /\ x \in 0 .. NrSlots - 1 /\ s < NrSlots
  BY SlotFacts DEF Slots
<1>2. CASE s <= x
  <2>1. x - s \in 0 .. NrSlots - 1 /\ s + (x - s) = x
    BY <1>1, <1>2
  <2>2. x = NrSlots * 0 + x /\ 0 \in Nat
    BY <1>1
  <2>3. x % NrSlots = x
    BY <1>1, <2>2, OneQuotient
  <2> QED
    BY <2>1, <2>3
<1>3. CASE x < s
  <2>1. x - s + NrSlots \in 0 .. NrSlots - 1 /\ s + (x - s + NrSlots) = NrSlots + x
    BY <1>1, <1>3
  <2>2. NrSlots + x = NrSlots * 1 + x /\ 1 \in Nat /\ NrSlots + x \in Nat
    BY <1>1
  <2>3. (NrSlots + x) % NrSlots = x
    BY <1>1, <2>2, OneQuotient
  <2> QED
    BY <2>1, <2>3
<1> QED
  BY <1>1, <1>2, <1>3

\* The end of the chain, and a free slot.
LEMMA FindSlotFacts ==
  ASSUME NEW t \in Tables, Ranked(t), NEW h \in Slots, ~ Free(t, h),
         NEW x \in Slots, Free(t, x), NEW r, r = FindSlot(t, h)
  PROVE  /\ ChainEnd(t, h, r.prev)
         /\ r.slot \in Slots /\ Free(t, r.slot)
<1>1. PICK c, tail : c = Chain(t, h) /\ tail = c[Max({n \in 0 .. NrSlots : c[n] # None})]
  OBVIOUS
<1>9. ChainEnd(t, h, tail)
  BY <1>1, TailEnds
<1>2. tail \in Slots
  BY <1>9 DEF ChainEnd
<1>3. PICK T : T = {d \in 0 .. NrSlots - 1 : Free(t, (tail + d) % NrSlots)}
  OBVIOUS
<1>4. r = [prev |-> tail, slot |-> (tail + Min(T)) % NrSlots]
  BY <1>1, <1>3 DEF FindSlot
<1>5. T # {} /\ T \subseteq Nat
  <2>1. PICK d \in 0 .. NrSlots - 1 : (tail + d) % NrSlots = x
    BY <1>2, GoesRound
  <2>2. d \in T
    BY <1>3, <2>1
  <2> QED
    BY <1>3, <2>2
<1>6. PICK d : d = Min(T)
  OBVIOUS
<1>7. d \in 0 .. NrSlots - 1 /\ Free(t, (tail + d) % NrSlots)
  BY <1>3, <1>5, <1>6, FirstNumber
<1>8. (tail + d) % NrSlots \in Slots
  <2>1. tail + d \in Nat /\ NrSlots \in Nat \ {0}
    BY <1>2, <1>7, SlotFacts
  <2> QED
    BY <2>1, Quotient DEF Slots
<1> QED
  BY <1>4, <1>6, <1>7, <1>8, <1>9

\* What a new value takes.
LEMMA AllocateFacts ==
  ASSUME Hashed, NEW t, SoundTable(t), t.stopped = "no", NEW v \in Vals,
         NEW new, new = Allocate(t), NEW u, u = [new.t EXCEPT !.mem[new.at] = v]
  PROVE  Readied(t, u, new.at, v)
<1>1. t \in Tables /\ Allocator(t)
  BY DEF SoundTable
<1>2. CASE hash.bitmap
  <2>1. PICK zeros : zeros = {b \in t.latest .. NrBits - 1 : b \notin t.bits}
    OBVIOUS
  <2>2. PICK at : at = IF zeros = {} THEN NrBits + 1 ELSE Min(zeros)
    OBVIOUS
  <2>3. PICK l : l = IF at + 1 > NrBits THEN 0 ELSE at + 1
    OBVIOUS
  <2>4. new = [at |-> at, t |-> [t EXCEPT !.bits = @ \cup {at}, !.latest = l]]
    BY <1>2, <2>1, <2>2, <2>3 DEF Allocate, BitmapAllocate
  <2>5. at \in 0 .. NrBits + 1 /\ (at \in t.bits => at = NrBits + 1)
    <3>1. t.latest \in Nat
      BY <1>1 DEF Tables
    <3>2. zeros \subseteq Nat /\ \A b \in zeros : b \in 0 .. NrBits - 1 /\ b \notin t.bits
      BY <2>1, <3>1, CountFacts
    <3>3. zeros # {} => Min(zeros) \in zeros
      BY <3>2, FirstNumber
    <3>4. zeros # {} => at \in 0 .. NrBits - 1 /\ at \notin t.bits
      BY <2>2, <3>2, <3>3
    <3>5. zeros = {} => at = NrBits + 1
      BY <2>2
    <3> QED
      BY <3>4, <3>5, CountFacts
  <2>6. l \in Nat /\ l <= NrBits
    BY <2>3, <2>5, CountFacts
  <2>7. PICK b : b = t.bits \cup {at}
    OBVIOUS
  <2>8. b \in SUBSET Nat /\ b \subseteq 0 .. NrBits + 1
    BY <1>1, <1>2, <2>5, <2>7, CountFacts DEF Allocator
  <2>9. new.at = at /\ new.t = [t EXCEPT !.bits = b, !.latest = l]
    BY <1>1, <2>4, <2>7 DEF Tables
  <2>10. PICK m : m = [t.mem EXCEPT ![at] = v]
    OBVIOUS
  <2>11. m \in [Areas -> Vals \cup {NoVal}] /\ m[at] = v /\ \A a \in Areas \ {at} : m[a] = t.mem[a]
    <3>1. t.mem \in [Areas -> Vals \cup {NoVal}] /\ at \in Areas
      BY <1>1, <2>5, CountFacts DEF Tables
    <3> QED
      BY <2>10, <3>1
  <2>12. u = [t EXCEPT !.bits = b, !.latest = l, !.mem = m]
    BY <1>1, <2>9, <2>10 DEF Tables
  <2>13. /\ u.key = t.key /\ u.off = t.off /\ u.next = t.next /\ u.stopped = t.stopped
         /\ u.mem = m /\ u.bits = b /\ u.latest = l /\ u \in Tables
    BY <1>1, <2>6, <2>8, <2>11, <2>12 DEF Tables
  <2>14. at \in t.bits => Exhausted(u)
    BY <2>5, <2>7, <2>13 DEF Exhausted
  <2>15. at \in Areas /\ at < 2 * NrBits + 2
    BY <2>5, CountFacts
  <2> QED
    BY <1>2, <2>6, <2>7, <2>8, <2>9, <2>11, <2>13, <2>14, <2>15 DEF Readied
<1>3. CASE ~ hash.bitmap
  <2>1. PICK at, l : at = t.latest /\ l = at + 1
    OBVIOUS
  <2>2. new = [at |-> at, t |-> [t EXCEPT !.latest = l]]
    <3>1. new = [at |-> t.latest, t |-> [t EXCEPT !.latest = @ + 1]]
      BY <1>3 DEF Allocate, AppendOnlyAllocate
    <3>2. [t EXCEPT !.latest = @ + 1] = [t EXCEPT !.latest = t.latest + 1]
      BY <1>1 DEF Tables
    <3> QED
      BY <2>1, <3>1, <3>2
  <2>3. at \in Nat /\ at <= NrAreas /\ t.bits = {}
    BY <1>1, <1>3, <2>1 DEF Allocator, Tables
  <2>4. at \in Areas /\ l \in Nat
    BY <2>1, <2>3, CountFacts
  <2>5. PICK m : m = [t.mem EXCEPT ![at] = v]
    OBVIOUS
  <2>6. m \in [Areas -> Vals \cup {NoVal}] /\ m[at] = v /\ \A a \in Areas \ {at} : m[a] = t.mem[a]
    <3>1. t.mem \in [Areas -> Vals \cup {NoVal}]
      BY <1>1 DEF Tables
    <3> QED
      BY <2>4, <2>5, <3>1
  <2>7. u = [t EXCEPT !.latest = l, !.mem = m] /\ new.at = at
    <3>1. new.at = at /\ new.t = [t EXCEPT !.latest = l]
      BY <2>2
    <3>2. u = [[t EXCEPT !.latest = l] EXCEPT !.mem[at] = v]
      BY <3>1
    <3> QED
      BY <1>1, <2>5, <3>1, <3>2 DEF Tables
  <2>8. /\ u.key = t.key /\ u.off = t.off /\ u.next = t.next /\ u.stopped = t.stopped
        /\ u.mem = m /\ u.bits = t.bits /\ u.latest = l /\ u \in Tables
    BY <1>1, <2>4, <2>6, <2>7 DEF Tables
  <2> QED
    BY <1>3, <2>1, <2>3, <2>4, <2>6, <2>7, <2>8 DEF Readied
<1>4. hash.bitmap \in BOOLEAN
  BY DEF Hashed
<1> QED
  BY <1>2, <1>3, <1>4

\* Storage and keys have no part in the order of the slots.
LEMMA SameRanked ==
  ASSUME NEW t, NEW u, u.off = t.off, u.next = t.next, Ranked(t)
  PROVE  Ranked(u)
BY DEF Ranked, Rises, Free, IsTail

\* An entry is made in a free slot, at home or linked to the end of the chain,
\* or the thread stops.
LEMMA EntryFacts ==
  ASSUME Hashed, NEW u \in Tables, Ranked(u), FreeUnlinked(u), NEW at \in Areas, NEW k \in Keys,
         hash.bitmap => at < 2 * NrBits + 2, NEW w, w = NewEntry(u, k, at)
  PROVE  \/ \E f, p : Entered(u, w, k, at, f, p)
         \/ \E st \in {"BUG_ON", "endless"} :
              w = [u EXCEPT !.stopped = st] /\ (st = "endless" => \A s \in Slots : ~ Free(u, s))
<1>1. PICK h : h = hash.slot[k]
  OBVIOUS
<1>2. h \in Slots
  BY <1>1, Home
<1> DEFINE fill(s) == [u EXCEPT !.key[s] = Written(k, @), !.off[s] = at]
<1>3. ASSUME NEW s \in Slots
      PROVE  /\ fill(s) \in Tables /\ fill(s).key[s] \in Contents
             /\ Matches(k, fill(s).key[s]) /\ fill(s).off[s] = at
             /\ \A x \in Slots \ {s} : fill(s).key[x] = u.key[x] /\ fill(s).off[x] = u.off[x]
             /\ fill(s).next = u.next /\ fill(s).mem = u.mem /\ fill(s).latest = u.latest
             /\ fill(s).bits = u.bits /\ fill(s).stopped = u.stopped
  <2>0. PICK z : z = Written(k, u.key[s])
    OBVIOUS
  <2>1. PICK K, O : K = [u.key EXCEPT ![s] = z] /\ O = [u.off EXCEPT ![s] = at]
    OBVIOUS
  <2>4. z \in Contents /\ Matches(k, z)
    <3>1. u.key[s] \in Contents
      BY DEF Tables
    <3> QED
      BY <2>0, <3>1, WrittenFacts
  <2>2. /\ K \in [Slots -> Contents] /\ O \in [Slots -> Areas \cup {None}]
        /\ K[s] = z /\ O[s] = at
        /\ \A x \in Slots \ {s} : K[x] = u.key[x] /\ O[x] = u.off[x]
    BY <2>1, <2>4 DEF Tables
  <2>3. fill(s) = [u EXCEPT !.key = K, !.off = O]
    BY <2>0, <2>1 DEF Tables
  <2> QED
    BY <2>2, <2>3, <2>4 DEF Tables
<1>4. w = IF at >= StorageSize THEN [u EXCEPT !.stopped = "BUG_ON"]
          ELSE IF Free(u, h) THEN fill(h)
          ELSE IF \A s \in Slots : ~ Free(u, s) THEN [u EXCEPT !.stopped = "endless"]
          ELSE [fill(FindSlot(u, h).slot) EXCEPT !.next[FindSlot(u, h).prev] = FindSlot(u, h).slot]
  BY <1>1 DEF NewEntry
<1>5. at # None /\ None \notin Slots
  BY CountFacts, SlotFacts
<1>6. ~ (at >= StorageSize) => (~ hash.bitmap => at < NrAreas)
  <2>1. at \in Nat /\ NrAreas \in Nat
    BY CountFacts DEF Areas
  <2> QED
    BY <2>1 DEF StorageSize
<1> HIDE DEF fill
<1>7. CASE at >= StorageSize
  <2>1. w = [u EXCEPT !.stopped = "BUG_ON"]
    BY <1>4, <1>7
  <2> QED
    BY <2>1
<1>8. CASE ~ (at >= StorageSize) /\ Free(u, h)
  <2>1. w = fill(h)
    BY <1>4, <1>8
  <2>2. ~ Free(w, h) /\ w.off[h] = at /\ w.key[h] \in Contents /\ Matches(k, w.key[h])
    BY <1>2, <1>3, <1>5, <2>1 DEF Free
  <2>3. Fills(u, w, h, None)
    BY <1>2, <1>3, <1>5, <1>8, <2>1, <2>2 DEF Fills, FreeUnlinked
  <2>4. FreeUnlinked(w)
    <3>1. ASSUME NEW s \in Slots, Free(w, s) PROVE w.next[s] = None
      <4>1. s # h
        BY <2>2, <3>1
      <4>2. Free(u, s) /\ w.next = u.next
        BY <1>2, <1>3, <2>1, <3>1, <4>1 DEF Free
      <4> QED
        BY <4>2 DEF FreeUnlinked
    <3> QED
      BY <3>1 DEF FreeUnlinked
  <2>6. AtEnd(u, k, h, None)
    BY <1>1 DEF AtEnd
  <2>5. Entered(u, w, k, at, h, None)
    BY <1>2, <1>3, <1>6, <1>8, <2>1, <2>2, <2>3, <2>4, <2>6 DEF Entered, Links
  <2> QED
    BY <2>5
<1>9. CASE ~ (at >= StorageSize) /\ ~ Free(u, h) /\ \A s \in Slots : ~ Free(u, s)
  <2>1. w = [u EXCEPT !.stopped = "endless"]
    BY <1>4, <1>9
  <2> QED
    BY <1>9, <2>1
<1>10. CASE ~ (at >= StorageSize) /\ ~ Free(u, h) /\ ~ (\A s \in Slots : ~ Free(u, s))
  <2>1. PICK f, p : f = FindSlot(u, h).slot /\ p = FindSlot(u, h).prev
    OBVIOUS
  <2>2. w = [fill(f) EXCEPT !.next[p] = f]
    BY <1>4, <1>10, <2>1
  <2>3. /\ p \in Slots /\ ~ Free(u, p) /\ IsTail(u, p) /\ f \in Slots /\ Free(u, f) /\ p # f
        /\ \E n \in 0 .. NrSlots - 1 : Chain(u, h)[n] = p
    <3>1. PICK x \in Slots : Free(u, x)
      BY <1>10
    <3>2. ChainEnd(u, h, p) /\ f \in Slots /\ Free(u, f)
      BY <1>2, <1>10, <2>1, <3>1, FindSlotFacts
    <3> QED
      BY <3>2 DEF ChainEnd
  <2>4. PICK g : g = fill(f)
    OBVIOUS
  <2>5. PICK N : N = [g.next EXCEPT ![p] = f]
    OBVIOUS
  <2>6. g \in Tables /\ g.next = u.next
    BY <1>3, <2>3, <2>4
  <2>7. /\ N \in [Slots -> Links] /\ N[p] = f
        /\ \A s \in Slots \ {p} : N[s] = u.next[s]
    BY <2>3, <2>5, <2>6 DEF Tables, Links
  <2>8. w = [g EXCEPT !.next = N]
    BY <2>2, <2>4, <2>5, <2>6 DEF Tables
  <2>9. /\ w \in Tables /\ w.key = g.key /\ w.off = g.off /\ w.next = N /\ w.mem = g.mem
        /\ w.latest = g.latest /\ w.bits = g.bits /\ w.stopped = g.stopped
    BY <2>6, <2>7, <2>8 DEF Tables
  <2>10. /\ g.key[f] \in Contents /\ Matches(k, g.key[f]) /\ g.off[f] = at
         /\ \A x \in Slots \ {f} : g.key[x] = u.key[x] /\ g.off[x] = u.off[x]
         /\ g.mem = u.mem /\ g.latest = u.latest /\ g.bits = u.bits /\ g.stopped = u.stopped
    BY <1>3, <2>3, <2>4
  <2>11. ~ Free(w, f) /\ w.next[f] = None
    BY <1>5, <2>3, <2>7, <2>9, <2>10 DEF Free, FreeUnlinked
  <2>12. Fills(u, w, f, p)
    BY <2>3, <2>7, <2>9, <2>10, <2>11 DEF Fills
  <2>13. FreeUnlinked(w)
    <3>1. ASSUME NEW s \in Slots, Free(w, s) PROVE w.next[s] = None
      <4>1. s # f
        BY <2>11, <3>1
      <4>2. Free(u, s)
        BY <2>9, <2>10, <3>1, <4>1 DEF Free
      <4>3. s # p
        BY <2>3, <4>2
      <4> QED
        BY <2>7, <2>9, <4>2, <4>3 DEF FreeUnlinked
    <3> QED
      BY <3>1 DEF FreeUnlinked
  <2>14. p \in Links
    BY <2>3 DEF Links
  <2>16. AtEnd(u, k, f, p)
    BY <1>1, <2>3, SlotFacts DEF AtEnd
  <2>15. Entered(u, w, k, at, f, p)
    BY <1>6, <1>10, <2>9, <2>10, <2>12, <2>13, <2>14, <2>16 DEF Entered
  <2> QED
    BY <2>15
<1> QED
  BY <1>7, <1>8, <1>9, <1>10

\* What a host may find after a store of value v for key k: v for k, and what it
\* found before, or v, for a key alike.
Answers(t, u, k, v) ==
  /\ Retrieved(u, k) = v
  /\ \A x \in Keys \ {k} : Retrieved(u, x) = Retrieved(t, x) \/ (Retrieved(u, x) = v /\ <<x, k>> \in Alike)

\* Every key that is still found is found where it was.
Unmoved(t, u) == \A x \in Keys : Find(t, x) # None /\ Find(u, x) # None =>
  Find(u, x) = Find(t, x) /\ u.key[Find(t, x)] = t.key[Find(t, x)]

\* A store leaves a sound table in which no key was moved.
StoredIn(t, u, k, v) ==
  /\ SoundTable(u) /\ Unmoved(t, u)
  /\ ~ Exhausted(u) => IF u.stopped = "no" THEN Answers(t, u, k, v)
                       ELSE \A x \in Keys : Retrieved(u, x) = Retrieved(t, x)

\* An entry in storage of its own leaves a sound table.
LEMMA EnteredSound ==
  ASSUME Hashed, NEW t, SoundTable(t), t.stopped = "no", NEW at, NEW v, NEW u, Readied(t, u, at, v),
         NEW k, NEW w, NEW f, NEW p, Entered(u, w, k, at, f, p)
  PROVE  SoundTable(w)
<1>1. /\ t \in Tables /\ u \in Tables /\ w \in Tables
      /\ u.key = t.key /\ u.off = t.off /\ u.next = t.next /\ w.bits = u.bits /\ w.latest = u.latest
      /\ w.stopped = "no" /\ Fills(u, w, f, p) /\ w.off[f] = at /\ FreeUnlinked(w) /\ f \in Slots
      /\ p \in Links
  BY DEF Readied, Entered, SoundTable, Fills
<1>2. \A s \in Slots \ {f} : w.off[s] = t.off[s] /\ (Free(w, s) <=> Free(t, s))
  BY <1>1 DEF Fills, Free
<1>3. Ranked(w)
  <2>1. Ranked(u)
    BY <1>1, SameRanked DEF SoundTable
  <2>2. PICK rank, top : top \in Nat /\ Rises(u, rank) /\ \A s \in Slots : rank[s] < top
    BY <2>1 DEF Ranked
  <2>3. PICK new : new = [rank EXCEPT ![f] = top]
    OBVIOUS
  <2>4. Rises(w, new) /\ \A s \in Slots : new[s] < top + 1
    BY <1>1, <2>2, <2>3, FilledRises
  <2>5. top + 1 \in Nat
    BY <2>2
  <2> QED
    BY <2>4, <2>5 DEF Ranked
<1>4. InStorage(w)
  <2>1. ASSUME NEW s \in Slots, ~ Free(w, s)
        PROVE  IF hash.bitmap THEN w.off[s] \in w.bits ELSE w.off[s] < w.latest
    <3>1. CASE s = f
      <4>1. IF hash.bitmap THEN at \in u.bits ELSE at < u.latest
        <5>1. at \in Nat
          BY DEF Readied, Areas
        <5> QED
          BY <5>1 DEF Readied
      <4> QED
        BY <1>1, <3>1, <4>1
    <3>2. CASE s # f
      <4>1. ~ Free(t, s) /\ w.off[s] = t.off[s]
        BY <1>2, <2>1, <3>2
      <4>2. IF hash.bitmap THEN t.off[s] \in t.bits ELSE t.off[s] < t.latest
        BY <4>1 DEF SoundTable, InStorage
      <4>3. hash.bitmap => t.bits \subseteq u.bits
        BY DEF Readied
      <4>4. ~ hash.bitmap => u.latest = t.latest + 1 /\ t.latest \in Nat
        BY <1>1 DEF Readied, Tables
      <4>5. t.off[s] \in Int
        BY <1>1 DEF Tables, Areas, None
      <4> QED
        BY <1>1, <4>1, <4>2, <4>3, <4>4, <4>5
    <3> QED
      BY <3>1, <3>2
  <2> QED
    BY <2>1 DEF InStorage
<1>5. OwnStorage(w)
  <2> SUFFICES ASSUME ~ Exhausted(w) PROVE \A s, x \in Slots : w.off[s] = w.off[x] /\ ~ Free(w, s) => s = x
    BY DEF OwnStorage
  <2>1. ~ Exhausted(u) /\ ~ Exhausted(t)
    <3>1. hash.bitmap => t.bits \subseteq u.bits
      BY DEF Readied
    <3>2. ~ hash.bitmap => t.bits = {}
      BY DEF SoundTable, Allocator
    <3> QED
      BY <1>1, <3>1, <3>2 DEF Exhausted
  <2>2. \A s \in Slots : ~ Free(t, s) => t.off[s] # at
    <3>1. ASSUME NEW s \in Slots, ~ Free(t, s) PROVE t.off[s] # at
      <4>1. IF hash.bitmap THEN t.off[s] \in t.bits ELSE t.off[s] < t.latest
        BY <3>1 DEF SoundTable, InStorage
      <4>2. hash.bitmap => at \notin t.bits
        BY <2>1 DEF Readied
      <4>3. ~ hash.bitmap => at = t.latest /\ t.latest \in Nat
        BY <1>1 DEF Readied, Tables
      <4> QED
        BY <4>1, <4>2, <4>3
    <3> QED
      BY <3>1
  <2>3. at # None
    BY CountFacts DEF Readied
  <2>4. ASSUME NEW s \in Slots, NEW x \in Slots, w.off[s] = w.off[x], ~ Free(w, s) PROVE s = x
    <3>1. ~ Free(w, x)
      BY <2>4 DEF Free
    <3>2. CASE s = f /\ x # f
      BY <1>1, <1>2, <2>2, <2>4, <3>1, <3>2
    <3>3. CASE s # f /\ x = f
      BY <1>1, <1>2, <2>2, <2>4, <3>1, <3>3
    <3>4. CASE s # f /\ x # f
      <4>1. t.off[s] = t.off[x] /\ ~ Free(t, s)
        BY <1>2, <2>4, <3>4
      <4> QED
        BY <2>1, <4>1 DEF SoundTable, OwnStorage
    <3> QED
      BY <3>2, <3>3, <3>4
  <2> QED
    BY <2>4
<1>6. Allocator(w)
  <2>1. hash.bitmap => w.bits \subseteq 0 .. NrBits + 1 /\ w.latest <= NrBits
    BY <1>1 DEF Readied
  <2>2. ~ hash.bitmap => w.bits = {} /\ w.latest <= NrAreas
    <3>1. at \in Nat /\ NrAreas \in Nat
      BY CountFacts DEF Readied, Areas
    <3> QED
      BY <1>1, <3>1 DEF Readied, Entered
  <2> QED
    BY <2>1, <2>2 DEF Allocator
<1>7. EndlessIfFull(w)
  BY <1>1 DEF EndlessIfFull
<1> QED
  BY <1>1, <1>3, <1>4, <1>5, <1>6, <1>7 DEF SoundTable

\* As long as the bitmap allocator has places, the one it gives is of no slot.
LEMMA FreshPlace ==
  ASSUME Hashed, NEW t, SoundTable(t), NEW at, NEW v, NEW u, Readied(t, u, at, v)
  PROVE  /\ Exhausted(t) => Exhausted(u)
         /\ ~ Exhausted(u) => \A s \in Slots : ~ Free(t, s) => t.off[s] # at
<1>1. Exhausted(t) => Exhausted(u)
  <2>1. hash.bitmap => t.bits \subseteq u.bits
    BY DEF Readied
  <2>2. ~ hash.bitmap => t.bits = {}
    BY DEF SoundTable, Allocator
  <2> QED
    BY <2>1, <2>2 DEF Exhausted
<1>2. ASSUME ~ Exhausted(u), NEW s \in Slots, ~ Free(t, s) PROVE t.off[s] # at
  <2>1. IF hash.bitmap THEN t.off[s] \in t.bits ELSE t.off[s] < t.latest
    BY <1>2 DEF SoundTable, InStorage
  <2>2. hash.bitmap => at \notin t.bits
    BY <1>2 DEF Readied
  <2>3. ~ hash.bitmap => at = t.latest /\ t.latest \in Nat
    BY DEF Readied, SoundTable, Tables
  <2> QED
    BY <2>1, <2>2, <2>3
<1> QED
  BY <1>1, <1>2

\* What a key finds, from where it is found.
LEMMA RetrievedFacts ==
  ASSUME Hashed, NEW t \in Tables, NEW k \in Keys
  PROVE  /\ Find(t, k) = None => Retrieved(t, k) = NoVal
         /\ Find(t, k) # None => /\ Retrieved(t, k) = t.mem[t.off[Find(t, k)]]
                                 /\ t.off[Find(t, k)] \in Areas
<1>1. Find(t, k) # None => Find(t, k) \in Slots /\ ~ Free(t, Find(t, k))
  BY FoundSlot
<1>2. Find(t, k) # None => t.off[Find(t, k)] \in Areas
  BY <1>1 DEF Tables, Free
<1> QED
  BY <1>2 DEF Retrieved

\* A store of a key that is found, in the storage it has.
LEMMA StoredInPlace ==
  ASSUME Hashed, NEW t, SoundTable(t), t.stopped = "no", NEW k \in Keys, NEW v \in Vals,
         NEW s, s = Find(t, k), s # None,
         NEW u, u = [t EXCEPT !.mem[t.off[s]] = v]
  PROVE  StoredIn(t, u, k, v)
<1>1. t \in Tables /\ s \in Slots /\ ~ Free(t, s) /\ Matches(k, t.key[s]) /\ t.off[s] \in Areas
  BY FoundSlot, RetrievedFacts DEF SoundTable
<1>2. PICK a, m : a = t.off[s] /\ m = [t.mem EXCEPT ![a] = v]
  OBVIOUS
<1>3. m \in [Areas -> Vals \cup {NoVal}] /\ m[a] = v /\ \A b \in Areas \ {a} : m[b] = t.mem[b]
  BY <1>1, <1>2 DEF Tables
<1>4. u = [t EXCEPT !.mem = m]
  BY <1>1, <1>2 DEF Tables
<1>5. /\ u \in Tables /\ u.key = t.key /\ u.off = t.off /\ u.next = t.next /\ u.mem = m
      /\ u.latest = t.latest /\ u.bits = t.bits /\ u.stopped = t.stopped
  BY <1>1, <1>3, <1>4 DEF Tables
<1>6. SoundTable(u)
  <2>1. Ranked(u)
    BY <1>5, SameRanked DEF SoundTable
  <2>2. FreeUnlinked(u) /\ InStorage(u) /\ EndlessIfFull(u)
    BY <1>5 DEF SoundTable, FreeUnlinked, InStorage, EndlessIfFull, Free
  <2>3. OwnStorage(u) /\ Allocator(u)
    BY <1>5 DEF SoundTable, OwnStorage, Allocator, Exhausted, Free
  <2> QED
    BY <1>5, <2>1, <2>2, <2>3 DEF SoundTable
<1>8. \A x \in Keys : Find(u, x) = Find(t, x)
  BY <1>1, <1>5, SameFind
<1>7. Unmoved(t, u)
  BY <1>5, <1>8 DEF Unmoved
<1>9. ASSUME ~ Exhausted(u), NEW x \in Keys \ {k}
      PROVE  Retrieved(u, x) = Retrieved(t, x) \/ (Retrieved(u, x) = v /\ <<x, k>> \in Alike)
  <2>1. CASE Find(t, x) = None
    BY <1>1, <1>5, <1>8, <2>1, RetrievedFacts
  <2>2. CASE Find(t, x) # None
    <3>1. PICK y : y = Find(t, x)
      OBVIOUS
    <3>2. y \in Slots /\ ~ Free(t, y) /\ Matches(x, t.key[y]) /\ t.off[y] \in Areas
      BY <1>1, <2>2, <3>1, FoundSlot, RetrievedFacts
    <3>3. ~ Exhausted(t)
      BY <1>5, <1>9 DEF Exhausted
    <3>4. Retrieved(u, x) = u.mem[u.off[y]] /\ Retrieved(t, x) = t.mem[t.off[y]]
      BY <1>1, <1>5, <1>8, <2>2, <3>1, RetrievedFacts
    <3>5. CASE y = s
      <4>1. t.key[s] \in Contents
        BY <1>1 DEF Tables
      <4>2. <<x, k>> \in Alike
        BY <1>1, <3>2, <3>5, <4>1, WrittenFacts
      <4> QED
        BY <1>2, <1>3, <1>5, <3>4, <3>5, <4>2
    <3>6. CASE y # s
      <4>1. t.off[y] # a
        BY <1>1, <1>2, <3>2, <3>3, <3>6 DEF SoundTable, OwnStorage
      <4> QED
        BY <1>3, <1>5, <3>2, <3>4, <4>1
    <3> QED
      BY <3>5, <3>6
  <2> QED
    BY <2>1, <2>2
<1>10. Retrieved(u, k) = v
  <2>1. Retrieved(u, k) = u.mem[u.off[s]]
    BY <1>5, <1>8, RetrievedFacts
  <2> QED
    BY <1>2, <1>3, <1>5, <2>1
<1>11. ~ Exhausted(u) => Answers(t, u, k, v)
  BY <1>9, <1>10 DEF Answers
<1> QED
  BY <1>5, <1>6, <1>7, <1>11 DEF StoredIn

\* A store for which an entry is made.
LEMMA StoredAnew ==
  ASSUME Hashed, NEW t, SoundTable(t), t.stopped = "no", NEW k \in Keys, NEW v \in Vals,
         Find(t, k) = None, NEW at, NEW u, Readied(t, u, at, v),
         NEW w, NEW f, NEW p, Entered(u, w, k, at, f, p)
  PROVE  StoredIn(t, w, k, v)
<1>1. /\ t \in Tables /\ u \in Tables /\ w \in Tables /\ p \in Links /\ f \in Slots
      /\ u.key = t.key /\ u.off = t.off /\ u.next = t.next /\ w.bits = u.bits /\ w.mem = u.mem
      /\ Fills(u, w, f, p) /\ AtEnd(u, k, f, p) /\ w.off[f] = at /\ w.key[f] \in Contents
      /\ Matches(k, w.key[f]) /\ at \in Areas /\ w.stopped = "no"
      /\ u.mem[at] = v /\ \A a \in Areas \ {at} : u.mem[a] = t.mem[a]
  BY DEF Readied, Entered, SoundTable, Fills
<1>2. SoundTable(w)
  BY EnteredSound
<1>3. /\ Exhausted(w) <=> Exhausted(u)
      /\ Exhausted(t) => Exhausted(u)
      /\ ~ Exhausted(u) => \A s \in Slots : ~ Free(t, s) => t.off[s] # at
  BY <1>1, FreshPlace DEF Exhausted
<1>4. \A x \in Keys : Find(u, x) = Find(t, x)
  BY <1>1, SameFind
<1>5. \A x \in Keys : IF Find(t, x) # None THEN Find(w, x) = Find(t, x)
                      ELSE Find(w, x) = None \/ (Find(w, x) = f /\ <<x, k>> \in Alike)
  <2>1. ASSUME NEW x \in Keys
        PROVE  IF Find(t, x) # None THEN Find(w, x) = Find(t, x)
               ELSE Find(w, x) = None \/ (Find(w, x) = f /\ Matches(x, w.key[f]))
    BY <1>1, <1>4, FilledFind
  <2>2. \A x \in Keys : Matches(x, w.key[f]) => <<x, k>> \in Alike
    BY <1>1, WrittenFacts
  <2> QED
    BY <2>1, <2>2
<1>8. Find(w, k) = f
  BY <1>1, <1>4, FilledFound
<1>9. Unmoved(t, w)
  <2>1. ASSUME NEW x \in Keys, Find(t, x) # None PROVE w.key[Find(t, x)] = t.key[Find(t, x)]
    <3>1. Find(t, x) \in Slots /\ ~ Free(t, Find(t, x))
      BY <1>1, <2>1, FoundSlot
    <3>2. Find(t, x) # f
      BY <1>1, <3>1 DEF Fills, Free
    <3> QED
      BY <1>1, <3>1, <3>2 DEF Fills
  <2> QED
    BY <1>5, <2>1 DEF Unmoved
<1>10. Retrieved(w, k) = v
  <2>1. Retrieved(w, k) = w.mem[w.off[f]]
    BY <1>1, <1>8, SlotFacts, RetrievedFacts DEF Fills
  <2> QED
    BY <1>1, <2>1
<1>6. ASSUME ~ Exhausted(w), NEW x \in Keys \ {k}
      PROVE  Retrieved(w, x) = Retrieved(t, x) \/ (Retrieved(w, x) = v /\ <<x, k>> \in Alike)
  <2>1. CASE Find(t, x) = None
    <3>1. CASE Find(w, x) = None
      BY <1>1, <2>1, <3>1, RetrievedFacts
    <3>2. CASE Find(w, x) # None
      <4>1. Find(w, x) = f /\ <<x, k>> \in Alike
        BY <1>5, <2>1, <3>2
      <4>2. Retrieved(w, x) = w.mem[w.off[f]]
        BY <1>1, <3>2, <4>1, RetrievedFacts
      <4> QED
        BY <1>1, <4>1, <4>2
    <3> QED
      BY <3>1, <3>2
  <2>2. CASE Find(t, x) # None
    <3>1. PICK y : y = Find(t, x)
      OBVIOUS
    <3>2. y \in Slots /\ ~ Free(t, y) /\ t.off[y] \in Areas
      BY <1>1, <2>2, <3>1, FoundSlot, RetrievedFacts
    <3>3. y # f /\ w.off[y] = t.off[y]
      BY <1>1, <3>2 DEF Fills, Free
    <3>4. t.off[y] # at
      BY <1>3, <1>6, <3>2
    <3>5. Retrieved(w, x) = w.mem[w.off[y]] /\ Retrieved(t, x) = t.mem[t.off[y]]
      BY <1>1, <1>5, <2>2, <3>1, RetrievedFacts
    <3> QED
      BY <1>1, <3>2, <3>3, <3>4, <3>5
  <2> QED
    BY <2>1, <2>2
<1>7. ~ Exhausted(w) => Answers(t, w, k, v)
  BY <1>6, <1>10 DEF Answers
<1> QED
  BY <1>1, <1>2, <1>7, <1>9 DEF StoredIn

\* A store with which the thread stops.
LEMMA StoredNowhere ==
  ASSUME Hashed, NEW t, SoundTable(t), NEW k \in Keys, NEW v \in Vals,
         NEW at, NEW u, Readied(t, u, at, v), NEW st \in {"BUG_ON", "endless"},
         NEW w, w = [u EXCEPT !.stopped = st], st = "endless" => \A s \in Slots : ~ Free(u, s)
  PROVE  StoredIn(t, w, k, v)
<1>1. /\ t \in Tables /\ u \in Tables /\ w \in Tables
      /\ w.key = t.key /\ w.off = t.off /\ w.next = t.next /\ w.bits = u.bits /\ w.mem = u.mem
      /\ w.latest = u.latest /\ w.stopped = st /\ at \in Areas /\ u.off = t.off
      /\ u.mem[at] = v /\ \A a \in Areas \ {at} : u.mem[a] = t.mem[a]
  BY DEF Readied, SoundTable, Tables
<1>2. /\ Exhausted(w) <=> Exhausted(u)
      /\ Exhausted(t) => Exhausted(u)
      /\ ~ Exhausted(u) => \A s \in Slots : ~ Free(t, s) => t.off[s] # at
  BY <1>1, FreshPlace DEF Exhausted
<1>3. SoundTable(w)
  <2>1. Ranked(w)
    BY <1>1, SameRanked DEF SoundTable
  <2>2. FreeUnlinked(w)
    BY <1>1 DEF SoundTable, FreeUnlinked, Free
  <2>3. InStorage(w)
    <3>1. ASSUME NEW s \in Slots, ~ Free(w, s)
          PROVE  IF hash.bitmap THEN w.off[s] \in w.bits ELSE w.off[s] < w.latest
      <4>1. ~ Free(t, s) /\ w.off[s] = t.off[s]
        BY <1>1, <3>1 DEF Free
      <4>2. IF hash.bitmap THEN t.off[s] \in t.bits ELSE t.off[s] < t.latest
        BY <4>1 DEF SoundTable, InStorage
      <4>3. hash.bitmap => t.bits \subseteq u.bits
        BY DEF Readied
      <4>4. ~ hash.bitmap => u.latest = t.latest + 1 /\ t.latest \in Nat
        BY <1>1 DEF Readied, Tables
      <4>5. t.off[s] \in Int
        BY <1>1 DEF Tables, Areas, None
      <4> QED
        BY <1>1, <4>1, <4>2, <4>3, <4>4, <4>5
    <3> QED
      BY <3>1 DEF InStorage
  <2>4. OwnStorage(w)
    BY <1>1, <1>2 DEF SoundTable, OwnStorage, Free
  <2>5. Allocator(w)
    <3>1. hash.bitmap => w.bits \subseteq 0 .. NrBits + 1 /\ w.latest <= NrBits
      BY <1>1 DEF Readied
    <3>2. ~ hash.bitmap => w.bits = {} /\ w.stopped # "no"
      BY <1>1 DEF Readied
    <3> QED
      BY <3>1, <3>2 DEF Allocator
  <2>6. EndlessIfFull(w)
    BY <1>1 DEF EndlessIfFull, Free
  <2> QED
    BY <1>1, <2>1, <2>2, <2>3, <2>4, <2>5, <2>6 DEF SoundTable
<1>4. \A x \in Keys : Find(w, x) = Find(t, x)
  BY <1>1, SameFind
<1>5. ASSUME ~ Exhausted(w), NEW x \in Keys PROVE Retrieved(w, x) = Retrieved(t, x)
  <2>1. CASE Find(t, x) = None
    BY <1>1, <1>4, <2>1, RetrievedFacts
  <2>2. CASE Find(t, x) # None
    <3>1. PICK y : y = Find(t, x)
      OBVIOUS
    <3>2. y \in Slots /\ ~ Free(t, y) /\ t.off[y] \in Areas
      BY <1>1, <2>2, <3>1, FoundSlot, RetrievedFacts
    <3>3. t.off[y] # at
      BY <1>2, <1>5, <3>2
    <3>4. Retrieved(w, x) = w.mem[w.off[y]] /\ Retrieved(t, x) = t.mem[t.off[y]]
      BY <1>1, <1>4, <2>2, <3>1, RetrievedFacts
    <3> QED
      BY <1>1, <3>2, <3>3, <3>4
  <2> QED
    BY <2>1, <2>2
<1>6. Unmoved(t, w) /\ w.stopped # "no"
  BY <1>1, <1>4 DEF Unmoved
<1> QED
  BY <1>3, <1>5, <1>6 DEF StoredIn

\* A store, by what becomes of it: the key is found, or it is not.
LEMMA StoreFacts ==
  ASSUME Hashed, NEW t, SoundTable(t), t.stopped = "no", NEW k \in Keys, NEW v \in Vals, NEW u, u = StoreKey(t, k, v)
  PROVE  StoredIn(t, u, k, v)
<1>1. CASE Find(t, k) # None
  <2>1. PICK s : s = Find(t, k)
    OBVIOUS
  <2>2. u = [t EXCEPT !.mem[t.off[s]] = v]
    BY <1>1, <2>1 DEF StoreKey
  <2> QED
    BY <1>1, <2>1, <2>2, StoredInPlace
<1>2. CASE Find(t, k) = None
  <2>1. PICK new, at : new = Allocate(t) /\ at = new.at
    OBVIOUS
  <2>2. PICK r : r = [new.t EXCEPT !.mem[new.at] = v]
    OBVIOUS
  <2>3. u = NewEntry(r, k, at)
    BY <1>2, <2>1, <2>2 DEF StoreKey
  <2>4. Readied(t, r, at, v)
    BY <1>2, <2>1, <2>2, AllocateFacts
  <2>5. /\ r \in Tables /\ at \in Areas /\ (hash.bitmap => at < 2 * NrBits + 2)
        /\ r.off = t.off /\ r.next = t.next
    BY <2>4 DEF Readied
  <2>6. Ranked(r)
    BY <2>5, SameRanked DEF SoundTable
  <2>7. FreeUnlinked(r)
    BY <2>5 DEF SoundTable, FreeUnlinked, Free
  <2>8. \/ \E f, p : Entered(r, u, k, at, f, p)
        \/ \E st \in {"BUG_ON", "endless"} :
             u = [r EXCEPT !.stopped = st] /\ (st = "endless" => \A s \in Slots : ~ Free(r, s))
    BY <2>3, <2>5, <2>6, <2>7, EntryFacts
  <2>9. CASE \E f, p : Entered(r, u, k, at, f, p)
    <3>1. PICK f, p : Entered(r, u, k, at, f, p)
      BY <2>9
    <3> QED
      BY <1>2, <2>4, <3>1, StoredAnew
  <2>10. CASE \E st \in {"BUG_ON", "endless"} :
                u = [r EXCEPT !.stopped = st] /\ (st = "endless" => \A s \in Slots : ~ Free(r, s))
    <3>1. PICK st \in {"BUG_ON", "endless"} :
            u = [r EXCEPT !.stopped = st] /\ (st = "endless" => \A s \in Slots : ~ Free(r, s))
      BY <2>10
    <3> QED
      BY <2>4, <3>1, StoredNowhere
  <2> QED
    BY <2>8, <2>9, <2>10
<1> QED
  BY <1>1, <1>2

\* A delete of key k: no key moves, k and keys behind it may be lost.
RemovedFrom(t, u, k) ==
  /\ SoundTable(u) /\ Unmoved(t, u) /\ u.stopped = t.stopped
  /\ \A x \in Keys : Retrieved(u, x) \in {Retrieved(t, x), NoVal}
  /\ Retrieved(u, k) = NoVal

\* A delete clears the slot in which its key is found.
LEMMA DeleteFacts ==
  ASSUME Hashed, NEW t, SoundTable(t), t.stopped = "no", NEW k \in Keys,
         NEW s, s = Find(t, k), s # None, NEW u, u = Freed(t, s)
  PROVE  RemovedFrom(t, u, k)
<1>1. t \in Tables /\ s \in Slots /\ ~ Free(t, s)
  BY FoundSlot DEF SoundTable
<1>0. PICK z : z = [b \in 1 .. KeyBytes |-> OnesByte]
  OBVIOUS
<1>2. PICK K, O, N : /\ K = [t.key EXCEPT ![s] = z] /\ O = [t.off EXCEPT ![s] = None]
                     /\ N = [t.next EXCEPT ![s] = None]
  OBVIOUS
<1>13. z \in Contents
  BY <1>0, KeysAssumption DEF Contents
<1>3. /\ K \in [Slots -> Contents] /\ O \in [Slots -> Areas \cup {None}] /\ N \in [Slots -> Links]
      /\ O[s] = None /\ N[s] = None
      /\ \A x \in Slots \ {s} : K[x] = t.key[x] /\ O[x] = t.off[x] /\ N[x] = t.next[x]
  BY <1>1, <1>2, <1>13 DEF Tables, Links
<1>4. u = [t EXCEPT !.key = K, !.off = O, !.next = N]
  BY <1>0, <1>1, <1>2 DEF Freed, Tables
<1>5. /\ u \in Tables /\ u.key = K /\ u.off = O /\ u.next = N /\ u.mem = t.mem
      /\ u.latest = t.latest /\ u.bits = t.bits /\ u.stopped = t.stopped
  BY <1>1, <1>3, <1>4 DEF Tables
<1>6. Clears(t, u, s)
  BY <1>1, <1>3, <1>5 DEF Clears, Free
<1>7. \A x \in Slots : ~ Free(u, x) => x # s /\ ~ Free(t, x) /\ u.off[x] = t.off[x]
  BY <1>3, <1>5 DEF Free
<1>8. SoundTable(u)
  <2>1. Ranked(u)
    <3>1. PICK rank, top : top \in Nat /\ Rises(t, rank) /\ \A x \in Slots : rank[x] < top
      BY DEF SoundTable, Ranked
    <3>2. Rises(u, rank)
      BY <1>1, <1>5, <1>6, <3>1, ClearedRises
    <3> QED
      BY <3>1, <3>2 DEF Ranked
  <2>2. FreeUnlinked(u)
    <3>1. ASSUME NEW x \in Slots, Free(u, x) PROVE u.next[x] = None
      <4>1. CASE x = s
        BY <1>3, <1>5, <4>1
      <4>2. CASE x # s
        <5>1. Free(t, x) /\ u.next[x] = t.next[x]
          BY <1>3, <1>5, <3>1, <4>2 DEF Free
        <5> QED
          BY <5>1 DEF SoundTable, FreeUnlinked
      <4> QED
        BY <4>1, <4>2
    <3> QED
      BY <3>1 DEF FreeUnlinked
  <2>3. InStorage(u)
    BY <1>5, <1>7 DEF SoundTable, InStorage
  <2>4. OwnStorage(u)
    <3>1. ASSUME ~ Exhausted(u), NEW x \in Slots, NEW y \in Slots, u.off[x] = u.off[y], ~ Free(u, x)
          PROVE  x = y
      <4>1. ~ Free(u, y)
        BY <3>1 DEF Free
      <4>2. t.off[x] = t.off[y] /\ ~ Free(t, x)
        BY <1>7, <3>1, <4>1
      <4>3. ~ Exhausted(t)
        BY <1>5, <3>1 DEF Exhausted
      <4> QED
        BY <4>2, <4>3 DEF SoundTable, OwnStorage
    <3> QED
      BY <3>1 DEF OwnStorage
  <2>5. Allocator(u) /\ EndlessIfFull(u)
    BY <1>5 DEF SoundTable, Allocator, EndlessIfFull
  <2> QED
    BY <1>5, <2>1, <2>2, <2>3, <2>4, <2>5 DEF SoundTable
<1>9. \A x \in Keys : Find(u, x) # None => Find(u, x) = Find(t, x) /\ Find(t, x) # s
  BY <1>1, <1>5, <1>6, ClearedFind
<1>10. ASSUME NEW x \in Keys PROVE Retrieved(u, x) \in {Retrieved(t, x), NoVal}
  <2>1. CASE Find(u, x) = None
    BY <1>5, <2>1, RetrievedFacts
  <2>2. CASE Find(u, x) # None
    <3>1. PICK y : y = Find(t, x)
      OBVIOUS
    <3>2. Find(u, x) = y /\ y # s /\ y # None
      BY <1>9, <2>2, <3>1
    <3>3. y \in Slots
      BY <1>1, <3>1, <3>2, FoundSlot
    <3>4. u.off[y] = t.off[y]
      BY <1>3, <1>5, <3>2, <3>3
    <3>5. Retrieved(u, x) = u.mem[u.off[y]] /\ Retrieved(t, x) = t.mem[t.off[y]]
      BY <1>1, <1>5, <3>1, <3>2, RetrievedFacts
    <3> QED
      BY <1>5, <3>4, <3>5
  <2> QED
    BY <2>1, <2>2
<1>11. Find(u, k) = None
  BY <1>9
<1>12. Retrieved(u, k) = NoVal
  BY <1>5, <1>11, RetrievedFacts
<1>14. Unmoved(t, u)
  <2>1. ASSUME NEW x \in Keys, Find(t, x) # None, Find(u, x) # None
        PROVE  Find(u, x) = Find(t, x) /\ u.key[Find(t, x)] = t.key[Find(t, x)]
    <3>1. Find(u, x) = Find(t, x) /\ Find(t, x) # s
      BY <1>9, <2>1
    <3>2. Find(t, x) \in Slots
      BY <1>1, <2>1, FoundSlot
    <3> QED
      BY <1>3, <1>5, <3>1, <3>2
  <2> QED
    BY <2>1 DEF Unmoved
<1> QED
  BY <1>5, <1>8, <1>10, <1>12, <1>14 DEF RemovedFrom

\* The entry of a key that could be found all the time since the iterator was
\* opened is in a slot the iterator has not come to, or has been reported.
Watched(i) == \A k \in watch[i].steady :
  /\ Find(kv, k) # None /\ kv.key[Find(kv, k)] \in iter[i].filter
  /\ Find(kv, k) < iter[i].pos => kv.key[Find(kv, k)] \in watch[i].seen

IterTypes ==
  /\ iter \in [Iters -> [open : BOOLEAN, pos : 0 .. NrSlots, filter : Filters \cup {{}}]]
  /\ watch \in [Iters -> [steady : SUBSET Keys, seen : SUBSET Contents]]

KvInv ==
  /\ Hashed /\ SoundTable(kv)
  /\ found = [k \in Keys |-> Retrieved(kv, k)]
  /\ IterTypes /\ \A i \in Iters : iter[i].open => Watched(i)

\* The hash function does not change, and what is found depends on kv alone.
LEMMA SameHash ==
  ASSUME hash' = hash
  PROVE  /\ \A k : Find(kv, k)' = Find(kv', k)
         /\ \A k : Retrieved(kv, k)' = Retrieved(kv', k)
         /\ SoundTable(kv)' <=> SoundTable(kv')
<1>1. \A k : Find(kv, k)' = Find(kv', k)
  BY DEF Find
<1>2. \A k : Retrieved(kv, k)' = Retrieved(kv', k)
  BY <1>1 DEF Retrieved
<1>3. SoundTable(kv)' <=> SoundTable(kv')
  BY DEF SoundTable, InStorage, Allocator
<1> QED
  BY <1>1, <1>2, <1>3

\* A change of the table.
LEMMA TableStep ==
  ASSUME KvInv, SoundTable(kv'), Unmoved(kv, kv'), Observed, UNCHANGED <<hash, iter>>
  PROVE  KvInv'
<1>1. Hashed'
  BY DEF KvInv, Hashed
<1>2. SoundTable(kv)'
  BY SameHash
<1>3. (found = [k \in Keys |-> Retrieved(kv, k)])'
  BY SameHash DEF Observed
<1>4. \A i \in Iters : /\ watch[i] \in [steady : SUBSET Keys, seen : SUBSET Contents]
                       /\ watch'[i] = [watch[i] EXCEPT !.steady = {k \in @ : found'[k] # NoVal}]
  BY DEF KvInv, IterTypes, Observed
<1>5. \A i \in Iters : /\ watch'[i] \in [steady : SUBSET Keys, seen : SUBSET Contents]
                       /\ watch'[i].seen = watch[i].seen
                       /\ watch'[i].steady = {k \in watch[i].steady : found'[k] # NoVal}
  <2>1. ASSUME NEW i \in Iters
        PROVE  /\ watch'[i] \in [steady : SUBSET Keys, seen : SUBSET Contents]
               /\ watch'[i].seen = watch[i].seen
               /\ watch'[i].steady = {k \in watch[i].steady : found'[k] # NoVal}
    <3>1. PICK x, S : x = watch[i] /\ S = {k \in x.steady : found'[k] # NoVal}
      OBVIOUS
    <3>2. x \in [steady : SUBSET Keys, seen : SUBSET Contents]
          /\ watch'[i] = [x EXCEPT !.steady = S]
      BY <1>4, <3>1
    <3>3. S \in SUBSET Keys
      BY <3>1, <3>2
    <3> QED
      BY <3>1, <3>2, <3>3
  <2> QED
    BY <2>1
<1>6. IterTypes'
  <2>1. watch' \in [Iters -> [steady : SUBSET Keys, seen : SUBSET Contents]]
    BY <1>5 DEF Observed
  <2> QED
    BY <2>1 DEF KvInv, IterTypes
<1>7. ASSUME NEW i \in Iters, iter'[i].open PROVE Watched(i)'
  <2>1. Watched(i) /\ iter' = iter
    BY <1>7 DEF KvInv
  <2>2. ASSUME NEW k \in watch'[i].steady
        PROVE  /\ Find(kv, k)' # None /\ kv'.key[Find(kv, k)'] \in iter'[i].filter
               /\ Find(kv, k)' < iter'[i].pos => kv'.key[Find(kv, k)'] \in watch'[i].seen
    <3>1. k \in watch[i].steady /\ found'[k] # NoVal /\ k \in Keys
      BY <1>4, <1>5, <2>2
    <3>2. /\ Find(kv, k) # None /\ kv.key[Find(kv, k)] \in iter[i].filter
          /\ Find(kv, k) < iter[i].pos => kv.key[Find(kv, k)] \in watch[i].seen
      BY <2>1, <3>1 DEF Watched
    <3>3. Retrieved(kv', k) # NoVal
      BY <3>1 DEF Observed
    <3>4. Find(kv', k) # None
      BY <3>3 DEF Retrieved
    <3>5. /\ Find(kv', k) = Find(kv, k) /\ Find(kv, k)' = Find(kv', k)
          /\ kv'.key[Find(kv, k)] = kv.key[Find(kv, k)]
      BY <3>1, <3>2, <3>4, SameHash DEF Unmoved
    <3> QED
      BY <1>5, <2>1, <3>2, <3>5
  <2> QED
    BY <2>2 DEF Watched
<1> QED
  BY <1>1, <1>2, <1>3, <1>6, <1>7 DEF KvInv

\* A store.
LEMMA StoreKeeps ==
  ASSUME KvInv, NEW k \in Keys, NEW v \in Vals, Store(k, v)
  PROVE  KvInv'
<1>1. StoredIn(kv, kv', k, v) /\ Observed /\ UNCHANGED <<hash, iter>>
  BY StoreFacts DEF KvInv, Store, Serving
<1>2. SoundTable(kv') /\ Unmoved(kv, kv')
  BY <1>1 DEF StoredIn
<1> QED
  BY <1>1, <1>2, TableStep

\* What a host finds is what the table has for the key.
LEMMA FoundNow ==
  ASSUME KvInv, NEW k \in Keys
  PROVE  /\ found[k] = Retrieved(kv, k) /\ (found[k] # NoVal => Find(kv, k) # None)
         /\ kv \in Tables
BY DEF KvInv, Retrieved, SoundTable

\* A delete removes its key.
LEMMA DeleteRemoves ==
  ASSUME KvInv, NEW k \in Keys, Delete(k)
  PROVE  RemovedFrom(kv, kv', k)
<1>1. Find(kv, k) # None
  BY FoundNow DEF Delete
<1>2. kv.stopped = "no" /\ kv' = Freed(kv, Find(kv, k))
  BY DEF Delete, Serving
<1> QED
  BY <1>1, <1>2, DeleteFacts DEF KvInv

\* A delete.
LEMMA DeleteKeeps ==
  ASSUME KvInv, NEW k \in Keys, Delete(k)
  PROVE  KvInv'
<1>1. RemovedFrom(kv, kv', k) /\ Observed /\ UNCHANGED <<hash, iter>>
  BY DeleteRemoves DEF Delete
<1>2. SoundTable(kv') /\ Unmoved(kv, kv')
  BY <1>1 DEF RemovedFrom
<1> QED
  BY <1>1, <1>2, TableStep

\* A command of an iterator changes no other, and not the table.
LEMMA IterStep ==
  ASSUME KvInv, UNCHANGED <<hash, kv, found>>, NEW i \in Iters, NEW r, NEW x,
         iter' = [iter EXCEPT ![i] = r], watch' = [watch EXCEPT ![i] = x],
         r \in [open : BOOLEAN, pos : 0 .. NrSlots, filter : Filters \cup {{}}],
         x \in [steady : SUBSET Keys, seen : SUBSET Contents],
         r.open => \A k \in x.steady : /\ Find(kv, k) # None /\ kv.key[Find(kv, k)] \in r.filter
                                       /\ Find(kv, k) < r.pos => kv.key[Find(kv, k)] \in x.seen
  PROVE  KvInv'
<1>1. Hashed' /\ SoundTable(kv)' /\ (found = [k \in Keys |-> Retrieved(kv, k)])'
  <2>1. hash' = hash /\ kv' = kv /\ found' = found
    OBVIOUS
  <2> QED
    BY <2>1, SameHash DEF KvInv, Hashed
<1>2. /\ iter' \in [Iters -> [open : BOOLEAN, pos : 0 .. NrSlots, filter : Filters \cup {{}}]]
      /\ watch' \in [Iters -> [steady : SUBSET Keys, seen : SUBSET Contents]]
      /\ iter'[i] = r /\ watch'[i] = x
      /\ \A j \in Iters \ {i} : iter'[j] = iter[j] /\ watch'[j] = watch[j]
  BY DEF KvInv, IterTypes
<1>3. \A k : Find(kv, k)' = Find(kv, k)
  BY SameHash
<1>4. ASSUME NEW j \in Iters, iter'[j].open PROVE Watched(j)'
  <2>1. CASE j = i
    BY <1>2, <1>3, <1>4, <2>1 DEF Watched
  <2>2. CASE j # i
    <3>1. Watched(j) /\ iter'[j] = iter[j] /\ watch'[j] = watch[j]
      BY <1>2, <1>4, <2>2 DEF KvInv
    <3> QED
      BY <1>3, <3>1 DEF Watched
  <2> QED
    BY <2>1, <2>2
<1>5. IterTypes'
  BY <1>2 DEF IterTypes
<1> QED
  BY <1>1, <1>4, <1>5 DEF KvInv

\* An iterator is opened.
LEMMA IterOpenKeeps ==
  ASSUME KvInv, NEW F \in Filters, IterOpen(F)
  PROVE  KvInv'
<1>1. PICK free : free = {i \in Iters : ~ iter[i].open}
  OBVIOUS
<1>2. PICK i : i = Min(free)
  OBVIOUS
<1>3. i \in Iters
  <2>1. free # {}
    BY <1>1 DEF IterOpen
  <2>2. free \subseteq Nat
    BY <1>1 DEF Iters
  <2> QED
    BY <1>1, <1>2, <2>1, <2>2, FirstNumber
<1>4. PICK r, x : /\ r = [open |-> TRUE, pos |-> 0, filter |-> F]
                  /\ x = [steady |-> {k \in Keys : found[k] # NoVal /\ kv.key[Find(kv, k)] \in F},
                          seen |-> {}]
  OBVIOUS
<1>5. /\ iter' = [iter EXCEPT ![i] = r] /\ watch' = [watch EXCEPT ![i] = x]
      /\ UNCHANGED <<hash, kv, found>>
  BY <1>1, <1>2, <1>4 DEF IterOpen
<1>7. /\ r \in [open : BOOLEAN, pos : 0 .. NrSlots, filter : Filters \cup {{}}]
      /\ x \in [steady : SUBSET Keys, seen : SUBSET Contents]
  BY <1>4, SlotFacts
<1>8. \A k \in x.steady : /\ Find(kv, k) # None /\ kv.key[Find(kv, k)] \in r.filter
                          /\ Find(kv, k) < r.pos => kv.key[Find(kv, k)] \in x.seen
  <2>1. ASSUME NEW k \in x.steady
        PROVE  /\ Find(kv, k) # None /\ kv.key[Find(kv, k)] \in r.filter
               /\ ~ (Find(kv, k) < r.pos)
    <3>1. kv.key[Find(kv, k)] \in F /\ found[k] # NoVal /\ k \in Keys /\ r.filter = F /\ r.pos = 0
      BY <1>4, <2>1
    <3>2. Find(kv, k) # None /\ kv \in Tables
      BY <3>1, FoundNow
    <3>3. Find(kv, k) \in Slots
      BY <3>1, <3>2, FoundSlot DEF KvInv
    <3>4. Find(kv, k) \in Nat
      BY <3>3, SlotFacts
    <3> QED
      BY <3>1, <3>2, <3>4
  <2> QED
    BY <2>1
<1> QED
  BY <1>3, <1>5, <1>7, <1>8, IterStep

\* An iterator is closed.
LEMMA IterCloseKeeps ==
  ASSUME KvInv, NEW i \in Iters, IterClose(i)
  PROVE  KvInv'
<1>1. PICK r, x : r = Closed /\ x = [steady |-> {}, seen |-> {}]
  OBVIOUS
<1>2. /\ iter' = [iter EXCEPT ![i] = r] /\ watch' = [watch EXCEPT ![i] = x]
      /\ UNCHANGED <<hash, kv, found>>
  BY <1>1 DEF IterClose
<1>3. /\ r \in [open : BOOLEAN, pos : 0 .. NrSlots, filter : Filters \cup {{}}] /\ ~ r.open
      /\ x \in [steady : SUBSET Keys, seen : SUBSET Contents]
  BY <1>1, SlotFacts DEF Closed
<1> QED
  BY <1>2, <1>3, IterStep

\* A read reports the keys in the slots it passes.
LEMMA IterReadKeeps ==
  ASSUME KvInv, NEW i \in Iters, IterRead(i)
  PROVE  KvInv'
<1>1. PICK S, fits : /\ S = Selected(i)
                     /\ fits = {s \in S : Cardinality({x \in S : x <= s}) <= KeysPerRead}
  OBVIOUS
<1>2. PICK n : n = ReadUpTo(i)
  OBVIOUS
<1>3. n = IF fits = S THEN NrSlots ELSE Min(S \ fits)
  BY <1>1, <1>2 DEF ReadUpTo
<1>4. S \subseteq Slots /\ fits \subseteq S
  BY <1>1 DEF Selected
<1>5. n \in 0 .. NrSlots /\ \A s \in S : s < n => s \in fits
  <2>1. CASE fits = S
    BY <1>3, <2>1, SlotFacts
  <2>2. CASE fits # S
    <3>1. S \ fits # {} /\ S \ fits \subseteq Nat
      BY <1>4, <2>2, SlotFacts
    <3>2. n \in S \ fits /\ \A s \in S \ fits : n <= s
      BY <1>3, <2>2, <3>1, FirstNumber
    <3>3. \A s \in S : s \in Nat /\ s < NrSlots
      BY <1>4, SlotFacts
    <3> QED
      BY <3>2, <3>3, SlotFacts
  <2> QED
    BY <2>1, <2>2
<1>6. /\ iter[i] \in [open : BOOLEAN, pos : 0 .. NrSlots, filter : Filters \cup {{}}]
      /\ watch[i] \in [steady : SUBSET Keys, seen : SUBSET Contents]
      /\ iter[i].open /\ Watched(i)
  BY DEF KvInv, IterTypes, IterRead
<1>7. PICK r, x : /\ r = [iter[i] EXCEPT !.pos = n]
                  /\ x = [watch[i] EXCEPT !.seen = @ \cup {kv.key[s] : s \in fits}]
  OBVIOUS
<1>8. /\ iter' = [iter EXCEPT ![i] = r] /\ watch' = [watch EXCEPT ![i] = x]
      /\ UNCHANGED <<hash, kv, found>>
  <2>1. iter' = [iter EXCEPT ![i].pos = n]
    BY <1>2 DEF IterRead
  <2>2. watch' = [watch EXCEPT ![i].seen = @ \cup {kv.key[s] : s \in fits}]
    BY <1>1 DEF IterRead
  <2>3. UNCHANGED <<hash, kv, found>>
    BY DEF IterRead
  <2> QED
    BY <1>7, <2>1, <2>2, <2>3
<1>9. /\ r \in [open : BOOLEAN, pos : 0 .. NrSlots, filter : Filters \cup {{}}]
      /\ r.pos = n /\ r.filter = iter[i].filter
  BY <1>5, <1>6, <1>7
<1>10. kv.key \in [Slots -> Contents] /\ kv \in Tables
  BY DEF KvInv, SoundTable, Tables
<1>11. /\ x \in [steady : SUBSET Keys, seen : SUBSET Contents]
       /\ x.steady = watch[i].steady /\ x.seen = watch[i].seen \cup {kv.key[s] : s \in fits}
  <2>1. {kv.key[s] : s \in fits} \subseteq Contents
    BY <1>4, <1>10
  <2> QED
    BY <1>6, <1>7, <2>1
<1>12. ASSUME NEW k \in x.steady
       PROVE  /\ Find(kv, k) # None /\ kv.key[Find(kv, k)] \in r.filter
              /\ Find(kv, k) < r.pos => kv.key[Find(kv, k)] \in x.seen
  <2>1. PICK s : s = Find(kv, k)
    OBVIOUS
  <2>2. /\ k \in Keys /\ kv.key[s] \in iter[i].filter /\ s # None
        /\ s < iter[i].pos => kv.key[s] \in watch[i].seen
    BY <1>6, <1>11, <1>12, <2>1 DEF Watched
  <2>3. s \in Slots /\ ~ Free(kv, s)
    BY <1>10, <2>1, <2>2, FoundSlot DEF KvInv
  <2>4. CASE s < iter[i].pos
    BY <1>9, <1>11, <2>1, <2>2, <2>4
  <2>5. CASE ~ (s < iter[i].pos)
    <3>1. s >= iter[i].pos
      BY <1>6, <2>3, <2>5, SlotFacts
    <3>2. s \in S
      BY <1>1, <2>2, <2>3, <3>1 DEF Selected
    <3>3. s < n => kv.key[s] \in x.seen
      BY <1>5, <1>11, <2>3, <3>2
    <3> QED
      BY <1>9, <2>1, <2>2, <3>3
  <2> QED
    BY <2>4, <2>5
<1> QED
  BY <1>8, <1>9, <1>11, <1>12, IterStep

\* At first every slot is free.
LEMMA KvInitInv == KvInit => KvInv
<1> SUFFICES ASSUME KvInit PROVE KvInv
  OBVIOUS
<1>1. Hashed
  BY DEF KvInit, Hashed
<1>2. /\ kv \in Tables /\ kv.bits = {} /\ kv.latest = 0 /\ kv.stopped = "no"
      /\ \A s \in Slots : Free(kv, s) /\ kv.next[s] = None
  <2>1. [b \in 1 .. KeyBytes |-> ZeroByte] \in Contents
    BY KeysAssumption DEF Contents
  <2> QED
    BY <2>1, SlotFacts DEF KvInit, Tables, Links, Free
<1>3. Ranked(kv)
  <2>1. PICK rank : rank = [s \in Slots |-> 0]
    OBVIOUS
  <2>2. Rises(kv, rank) /\ \A s \in Slots : rank[s] < 1
    BY <1>2, <2>1 DEF Rises
  <2>3. 1 \in Nat
    OBVIOUS
  <2> QED
    BY <2>2, <2>3 DEF Ranked
<1>4. FreeUnlinked(kv) /\ InStorage(kv) /\ OwnStorage(kv) /\ EndlessIfFull(kv)
  BY <1>2 DEF FreeUnlinked, InStorage, OwnStorage, EndlessIfFull
<1>5. Allocator(kv)
  BY <1>2, CountFacts DEF Allocator
<1>6. SoundTable(kv)
  BY <1>2, <1>3, <1>4, <1>5 DEF SoundTable
<1>7. \A k \in Keys : Retrieved(kv, k) = NoVal
  <2>1. ASSUME NEW k \in Keys PROVE Retrieved(kv, k) = NoVal
    <3>1. Find(kv, k) = None
      BY <1>1, <1>2, FoundSlot
    <3> QED
      BY <1>1, <1>2, <3>1, RetrievedFacts
  <2> QED
    BY <2>1
<1>8. found = [k \in Keys |-> Retrieved(kv, k)]
  BY <1>7 DEF KvInit
<1>9. IterTypes /\ \A i \in Iters : ~ iter[i].open
  BY SlotFacts DEF KvInit, IterTypes, Closed
<1> QED
  BY <1>1, <1>6, <1>8, <1>9 DEF KvInv

\* Every step keeps the invariant.
LEMMA KvKeeps == KvInv /\ [KvNext]_kvVars => KvInv'
<1> SUFFICES ASSUME KvInv, [KvNext]_kvVars PROVE KvInv'
  OBVIOUS
<1>1. ASSUME NEW k \in Keys, Delete(k) PROVE KvInv'
  BY <1>1, DeleteKeeps
<1>2. ASSUME NEW k \in Keys, NEW v \in Vals, Store(k, v) PROVE KvInv'
  BY <1>2, StoreKeeps
<1>3. ASSUME NEW F \in Filters, IterOpen(F) PROVE KvInv'
  BY <1>3, IterOpenKeeps
<1>4. ASSUME NEW i \in Iters, IterClose(i) PROVE KvInv'
  BY <1>4, IterCloseKeeps
<1>5. ASSUME NEW i \in Iters, IterRead(i) PROVE KvInv'
  BY <1>5, IterReadKeeps
<1>6. CASE UNCHANGED kvVars
  <2>1. hash' = hash /\ kv' = kv /\ iter' = iter /\ found' = found /\ watch' = watch
    BY <1>6 DEF kvVars
  <2>2. \A k : Find(kv, k)' = Find(kv, k) /\ Retrieved(kv, k)' = Retrieved(kv, k)
    BY <2>1, SameHash
  <2>3. SoundTable(kv)' <=> SoundTable(kv)
    BY <2>1, SameHash
  <2>4. Hashed' /\ IterTypes' /\ (found = [k \in Keys |-> Retrieved(kv, k)])'
    BY <2>1, <2>2 DEF KvInv, Hashed, IterTypes
  <2>5. \A i \in Iters : Watched(i) => Watched(i)'
    BY <2>1, <2>2 DEF Watched
  <2> QED
    BY <2>1, <2>3, <2>4, <2>5 DEF KvInv
<1> QED
  BY <1>1, <1>2, <1>3, <1>4, <1>5, <1>6 DEF KvNext, IterCommand

\* With one worker: in every state the table is sound, what a host finds is
\* what is in it, and an entry that stays is reported or lies ahead.
THEOREM KvInvariance == KvSpec => []KvInv
<1>1. KvInit => KvInv
  BY KvInitInv
<1>2. KvInv /\ [KvNext]_kvVars => KvInv'
  BY KvKeeps
<1> QED
  BY <1>1, <1>2, PTL DEF KvSpec

\* In a ranked table every search ends.
LEMMA SearchEnds == KvInv => SearchesEnd
<1> SUFFICES ASSUME KvInv PROVE SearchesEnd
  OBVIOUS
<1>1. kv \in Tables /\ Ranked(kv) /\ EndlessIfFull(kv)
  BY DEF KvInv, SoundTable
<1>2. KvTypeOK
  BY <1>1 DEF KvTypeOK, KvInv, IterTypes, Tables, Links
<1>3. ASSUME NEW s \in Slots, NEW c, c = Chain(kv, s), NEW i \in 0 .. NrSlots, NEW j \in 0 .. NrSlots, i < j
      PROVE  c[j] # c[i] \/ c[j] = None
  <2>1. Passes(kv, s, c)
    BY <1>1, <1>3, ChainPasses
  <2>2. PICK rank : Rises(kv, rank)
    BY <1>1 DEF Ranked
  <2>3. i \in 0 .. j - 1
    BY <1>3
  <2>4. c[j] # None => c[i] # c[j]
    BY <1>1, <2>1, <2>2, <2>3, ChainRises
  <2> QED
    BY <2>4
<1>4. \A s \in Slots : LET c == Chain(kv, s) IN
        \A i, j \in 0 .. NrSlots : i < j => c[j] # c[i] \/ c[j] = None
  BY <1>3
<1> QED
  BY <1>1, <1>2, <1>4 DEF SearchesEnd, EndlessIfFull

\* With one worker, no chain becomes a cycle, so that a search along it ends;
\* only the search for a free slot of a full table does not.
THEOREM SearchesAlwaysEnd == KvSpec => []SearchesEnd
BY KvInvariance, SearchEnds, PTL

\* With one worker, no two slots have the same storage while there is some left.
THEOREM StorageApart == KvSpec => []AreasDistinct
<1>1. KvInv => AreasDistinct
  BY DEF KvInv, SoundTable, OwnStorage, AreasDistinct
<1> QED
  BY <1>1, KvInvariance, PTL

\* A key that has been in its slot all the time has been passed and reported.
LEMMA IterationReports == KvInv => IterationComplete
<1> SUFFICES ASSUME KvInv, NEW i \in Iters, iter[i].open, iter[i].pos = NrSlots,
                    NEW k \in watch[i].steady
             PROVE  kv.key[Find(kv, k)] \in watch[i].seen
  BY DEF IterationComplete
<1>1. /\ k \in Keys /\ Find(kv, k) # None
      /\ Find(kv, k) < iter[i].pos => kv.key[Find(kv, k)] \in watch[i].seen
  BY DEF KvInv, IterTypes, Watched
<1>2. Find(kv, k) \in Slots
  BY <1>1, FoundNow, FoundSlot DEF KvInv
<1> QED
  BY <1>1, <1>2, SlotFacts

\* With one worker, an iterator at the end has reported every entry that could
\* be found all the time since it was opened.
THEOREM IterationsComplete == KvSpec => []IterationComplete
BY KvInvariance, IterationReports, PTL

\* A store is a store of the map, of its key and its value.
LEMMA StoreIsPut ==
  ASSUME KvInv, NEW k \in Keys, NEW v \in Vals, Store(k, v), ~ Exhausted(kv')
  PROVE  Map!Put(k, v)
<1>1. /\ kv.stopped = "no" /\ kv' = StoreKey(kv, k, v)
      /\ found' = [x \in Keys |-> Retrieved(kv', x)]
  BY DEF Store, Observed, Serving
<1>2. StoredIn(kv, kv', k, v)
  BY <1>1, StoreFacts DEF KvInv
<1>3. \A x \in Keys : found[x] = Retrieved(kv, x) /\ found'[x] = Retrieved(kv', x)
  BY <1>1, FoundNow
<1>4. CASE kv'.stopped = "no"
  <2>1. Answers(kv, kv', k, v)
    BY <1>2, <1>4 DEF StoredIn
  <2>2. /\ found'[k] = v
        /\ \A x \in Keys \ {k} : found'[x] = found[x] \/ (found'[x] = v /\ <<x, k>> \in Alike)
    BY <1>3, <2>1 DEF Answers
  <2> QED
    BY <1>1, <1>4, <2>2 DEF Map!Put
<1>5. CASE kv'.stopped # "no"
  <2>1. \A x \in Keys : found'[x] = found[x]
    BY <1>2, <1>3, <1>5 DEF StoredIn
  <2>2. found = [x \in Keys |-> found[x]] /\ found' = [x \in Keys |-> found'[x]]
    BY <1>1 DEF KvInv
  <2>3. found' = found
    BY <2>1, <2>2
  <2> QED
    BY <1>1, <1>5, <2>3 DEF Map!Put
<1> QED
  BY <1>4, <1>5

\* A delete removes its key from the map, and no key gets a value by it.
LEMMA DeleteIsRemoval ==
  ASSUME KvInv, NEW k \in Keys, Delete(k)
  PROVE  Map!Remove(k)
<1>1. /\ RemovedFrom(kv, kv', k) /\ found[k] # NoVal /\ kv.stopped = "no"
      /\ found' = [x \in Keys |-> Retrieved(kv', x)]
  BY DeleteRemoves DEF Delete, Observed, Serving
<1>2. \A x \in Keys : found'[x] \in {found[x], NoVal}
  BY <1>1, FoundNow DEF RemovedFrom
<1>3. found'[k] = NoVal /\ kv'.stopped = "no"
  BY <1>1 DEF RemovedFrom
<1> QED
  BY <1>1, <1>2, <1>3 DEF Map!Remove

\* With one worker: every store puts its value for its key, and changes what is
\* found for no other key but one alike; every delete removes its key and gives
\* no key a value; no lost, deleted or overwritten value comes back, as long as
\* the bitmap allocator has places.
THEOREM KvImplementsLossyMap == KvSpec => ImplementsLossyMap
<1>1. KvInit => Map!Init
  BY DEF KvInit, Map!Init
<1>2. KvInv => \/ Exhausted(kv)'
              \/ \A k \in Keys : /\ Delete(k) => Map!Remove(k)
                                 /\ \A v \in Vals : Store(k, v) => Map!Put(k, v)
  <2>1. Exhausted(kv)' <=> Exhausted(kv')
    BY DEF Exhausted
  <2> QED
    BY <2>1, StoreIsPut, DeleteIsRemoval
<1> QED
  BY <1>1, <1>2, KvInvariance, PTL DEF KvSpec, ImplementsLossyMap
==============================================================================
