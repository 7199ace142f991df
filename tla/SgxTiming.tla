------------------------------ MODULE SgxTiming ------------------------------
(***************************************************************************)
(* When the flash operations of an FTL thread in the enclave take place    *)
(* (sgx_ftl.cpp).  Each LUN has a list of the intervals in which it is     *)
(* free, and an operation takes the first one at or after its start time   *)
(* that is long enough.  Requests carry the clocks of several dispatchers, *)
(* so start times come in any order, and garbage collection books its      *)
(* operations from time 0 on.  A request first needs the mapping page of   *)
(* its logical page: it is fetched into a small cache, and a changed one   *)
(* is written back when it is evicted.  A step is one page of a request,   *)
(* or one operation of a collection.  SgxFtl has the mapping itself.       *)
(***************************************************************************)
EXTENDS Integers, Sequences, FiniteSets, SequencesExt, Functions

CONSTANTS
  NrLuns,     \* LUNs of the thread (lun_cnt)
  MapPages,   \* mapping pages of the thread, of 1024 logical pages each
  SplitUnits, \* FTL_split_units, in mapping pages: what thread 0 has of a segment
  SplitRatio, \* split_ratio: how many times that the thread has of it
  CacheSize,  \* mapping pages the cache holds (SGX_FTL_cache_size)
  ReadLat, WriteLat, EraseLat,   \* pg_rd_lat, pg_wr_lat, blk_er_lat
  StartTimes, \* the start times of requests
  Forever,    \* the largest time, the end of the last free interval
  MaxSteps    \* bound: steps of a behaviour

SegSize == SplitUnits * (1 + SplitRatio)

ASSUME TimingAssumption ==
  {ReadLat, WriteLat, EraseLat, Forever, CacheSize, NrLuns} \subseteq Nat \ {0}
ASSUME LayoutAssumption ==
  /\ {SplitUnits, SplitRatio} \subseteq Nat \ {0}
  /\ \A p \in MapPages : p \in Nat /\ p % SegSize >= SplitUnits
\* Clocks have run for longer than the longest operation: the code subtracts
\* a latency from the end of a free interval without looking for a borrow.
ASSUME ClockAssumption ==
  \A t \in StartTimes : t \in Nat /\ t >= ReadLat /\ t >= WriteLat /\ t >= EraseLat

\* Time does not run out: no step takes longer than a page written back, one
\* fetched, another operation and an erasure.
StepLat == 2 * ReadLat + 2 * WriteLat + EraseLat
ASSUME ForeverAssumption ==
  /\ MaxSteps \in Nat
  /\ \A t \in StartTimes \cup {0} : t + (MaxSteps + 1) * StepLat <= Forever

Luns == 0 .. NrLuns - 1
Ids  == 1 .. CacheSize

\* The LUN a mapping page is on.
MapLun(p) == ((p \div SegSize) * SplitRatio + (p % SegSize) - 1) % NrLuns

VARIABLES
  gaps,    \* SGX_lun: of each LUN, its free intervals in order
  cache,   \* the cache of mapping pages, and the free indices
  seen,    \* history: what was booked, changed and fetched
  steps    \* the number of steps taken

vars == <<gaps, cache, seen, steps>>

\* The process that allocates the cache hands it over with all indices free.
Init ==
  /\ gaps = [l \in Luns |-> <<[start |-> 0, end |-> Forever]>>]
  /\ cache = [list |-> <<>>,                        \* most recently used first
              slot |-> <<>>,                        \* page -> index
              free |-> [i \in Ids |-> i],           \* freeSGXID, top last
              dirty |-> [i \in Ids |-> FALSE],
              avail |-> [i \in Ids |-> 0]]
  /\ seen = [booked |-> [l \in Luns |-> {}],        \* units of time in use
             unsaved |-> {},                        \* pages changed by a write
             fetched |-> [p \in MapPages |-> 0],    \* when p last arrived
             clock |-> [l \in Luns |-> 0],          \* of requests to l: the latest
             last |-> <<>>]                         \* the last request page
  /\ steps = 0
-----------------------------------------------------------------------------
(* The free intervals of a LUN. *)

Later(a, b) == IF a < b THEN b ELSE a

\* The interval from a to b, if there is any.
Between(a, b) == IF a < b THEN <<[start |-> a, end |-> b]>> ELSE <<>>

\* The interval i of g loses lat units from time t on; what is left of it is
\* dropped where it is empty.
Carve(g, i, t, lat) ==
  SubSeq(g, 1, i - 1) \o Between(g[i].start, t) \o Between(t + lat, g[i].end)
                      \o SubSeq(g, i + 1, Len(g))

\* The test of the code: an unsigned difference, huge when it would be negative.
HoldsFor(s, lat) == s.end < lat \/ s.end - lat >= s.start

\* Faulty: the interval that has begun is taken whenever it is long enough in all.
BugAdvanceTimeSlot(g, at, lat) ==
  LET begun == Cardinality({i \in DOMAIN g : g[i].start <= at})
      fits  == {i \in begun + 1 .. Len(g) : HoldsFor(g[i], lat)}
  IN IF begun > 0 /\ HoldsFor(g[begun], lat)
     THEN [from |-> at, gaps |-> Carve(g, begun, at, lat)]
     ELSE LET i == CHOOSE i \in fits : \A j \in fits : i <= j
          IN [from |-> g[i].start, gaps |-> Carve(g, i, g[i].start, lat)]

\* An operation of lat units at time at: in the interval that has begun by
\* then if enough of it is left, else at the start of the first later one.
AdvanceTimeSlot(g, at, lat) ==
  LET begun == Cardinality({i \in DOMAIN g : g[i].start <= at})
      fits  == {i \in begun + 1 .. Len(g) : HoldsFor(g[i], lat)}
  IN IF begun > 0 /\ g[begun].end >= at + lat
     THEN [from |-> at, gaps |-> Carve(g, begun, at, lat)]
     ELSE LET i == CHOOSE i \in fits : \A j \in fits : i <= j
          IN [from |-> g[i].start, gaps |-> Carve(g, i, g[i].start, lat)]

\* Faulty: the interval in which the clock is now is forgotten too.
BugFlushed(g, at) ==
  LET kept == {i \in DOMAIN g : g[i].start >= at \/ i = Len(g)}
  IN SubSeq(g, CHOOSE i \in kept : \A j \in kept : i <= j, Len(g))

\* The intervals before the clock of a request are forgotten with it.
Flushed(g, at) ==
  LET kept == {i \in DOMAIN g : g[i].end >= at}
  IN SubSeq(g, CHOOSE i \in kept : \A j \in kept : i <= j, Len(g))

\* Everything a request changes on its way, with the time it has reached.
Work == [gaps |-> gaps, cache |-> cache, seen |-> seen, time |-> 0]

\* w after an operation of lat units on LUN l, from the time it has reached.
Flash(w, l, lat) ==
  LET a == AdvanceTimeSlot(w.gaps[l], w.time, lat)
  IN [w EXCEPT !.gaps[l] = a.gaps,
               !.time = a.from + lat,
               !.seen.booked[l] = @ \cup (a.from .. a.from + lat - 1)]
-----------------------------------------------------------------------------
(* The cache of mapping pages. *)

\* The list without page p.
Without(list, p) == RemoveAt(list, CHOOSE i \in DOMAIN list : list[i] = p)

\* The cache without its least recently used page, whose index is free from
\* time t on.
WithoutLast(c, t) ==
  LET v == Last(c.list)
  IN [list |-> Front(c.list), slot |-> Restrict(c.slot, DOMAIN c.slot \ {v}),
      free |-> Append(c.free, c.slot[v]), dirty |-> [c.dirty EXCEPT ![c.slot[v]] = FALSE],
      avail |-> [c.avail EXCEPT ![c.slot[v]] = t]]

\* The cache with page p in the free index on top, where it arrives at time t.
WithPage(c, p, dirty, t) ==
  LET id == Last(c.free)
  IN [list |-> <<p>> \o c.list,
      slot |-> [q \in DOMAIN c.slot \cup {p} |-> IF q = p THEN id ELSE c.slot[q]],
      free |-> Front(c.free), dirty |-> [c.dirty EXCEPT ![id] = dirty],
      avail |-> [c.avail EXCEPT ![id] = t]]

\* The cache after page p in it has been used.
WithUsed(c, p, dirty) ==
  [c EXCEPT !.list = <<p>> \o Without(c.list, p), !.dirty[c.slot[p]] = @ \/ dirty]

FtlPageRead(w, p)  == Flash(w, MapLun(p), ReadLat)
FtlPageWrite(w, p) == Flash(w, MapLun(p), WriteLat)

\* The least recently used page leaves, and is written back if it is dirty.
Popped(w) ==
  LET v  == Last(w.cache.list)
      id == w.cache.slot[v]
      waited == [w EXCEPT !.time = Later(@, w.cache.avail[id])]
      saved  == IF w.cache.dirty[id]
                THEN [FtlPageWrite(waited, v) EXCEPT !.seen.unsaved = @ \ {v}]
                ELSE waited
  IN [saved EXCEPT !.cache = WithoutLast(@, saved.time)]

\* Page p is fetched into a free index, made free first if there is none.
Put(w, p, dirty) ==
  LET room == IF w.cache.free = <<>> THEN Popped(w) ELSE w
      id   == Last(room.cache.free)
      got  == FtlPageRead([room EXCEPT !.time = Later(@, room.cache.avail[id])], p)
  IN [got EXCEPT !.cache = WithPage(@, p, dirty, got.time), !.seen.fetched[p] = got.time]

\* Faulty: the dirty flag is set to that of the last access.
BugHit(w, p, dirty) ==
  LET id == w.cache.slot[p]
  IN [w EXCEPT !.cache.list = <<p>> \o Without(@, p),
               !.cache.dirty[id] = dirty,
               !.time = Later(@, w.cache.avail[id])]

\* Faulty: a page on its way in is used at once.
BugHitAtOnce(w, p, dirty) == [w EXCEPT !.cache = WithUsed(@, p, dirty)]

\* Page p is in the cache, or on its way: the request waits for it.
Hit(w, p, dirty) ==
  [w EXCEPT !.cache = WithUsed(@, p, dirty),
            !.time = Later(@, w.cache.avail[w.cache.slot[p]])]

GetFtlPage(w, p, dirty) ==
  IF p \in DOMAIN w.cache.slot THEN Hit(w, p, dirty) ELSE Put(w, p, dirty)
-----------------------------------------------------------------------------
(* Steps. *)

Take(w) ==
  /\ steps < MaxSteps
  /\ steps' = steps + 1
  /\ gaps' = w.gaps
  /\ cache' = w.cache
  /\ seen' = w.seen

\* One page of a request that starts at time at: a logical page mapped by p,
\* on LUN l.  A write changes the mapping page.
Request(p, l, at, lat, changes) ==
  LET mapped == GetFtlPage([Work EXCEPT !.time = at], p, changes)
      done   == Flash(mapped, l, lat)
  IN Take([done EXCEPT !.gaps[l] = Flushed(@, mapped.time),
                       !.seen.unsaved = IF changes THEN @ \cup {p} ELSE @,
                       !.seen.clock[l] = Later(@, mapped.time),
                       !.seen.last = <<p, done.time - lat>>])

SsdRead(p, l, at)  == Request(p, l, at, ReadLat, FALSE)
SsdWrite(p, l, at) == Request(p, l, at, WriteLat, TRUE)

\* A collection copies a page, from one LUN to the LUN of the write pointer.
GcCopyPage(l, m) ==
  LET read == Flash(Work, l, ReadLat)
  IN Take(Flash([read EXCEPT !.time = 0], m, WriteLat))

GcErase(l) == Take(Flash(Work, l, EraseLat))

Next ==
  \/ \E p \in MapPages, l \in Luns, at \in StartTimes : SsdRead(p, l, at) \/ SsdWrite(p, l, at)
  \/ \E l, m \in Luns : GcCopyPage(l, m)
  \/ \E l \in Luns : GcErase(l)

Spec == Init /\ [][Next]_vars
-----------------------------------------------------------------------------
(* Properties. *)

\* A LUN does one thing at a time (sgx_ftl.cpp:452): no interval that its list
\* offers as free holds a unit of time that an operation was given, whatever
\* order the start times come in; the intervals are in order and not empty,
\* which the search by start time needs, and the last one never ends.
OneAtATime ==
  \A l \in Luns :
    LET g == gaps[l] IN
    /\ \A i \in DOMAIN g : /\ g[i].start < g[i].end
                           /\ \A t \in seen.booked[l] : t < g[i].start \/ t >= g[i].end
    /\ \A i \in 1 .. Len(g) - 1 : g[i].end < g[i + 1].start
    /\ g # <<>> /\ Last(g).end = Forever

\* An operation takes place as early as it can (sgx_ftl.cpp:456-494): never
\* before its start time nor over another operation, and from the first time on
\* from which nothing else is booked for as long as it lasts, unless that is
\* before the clock of an earlier request, where idle time has been forgotten.
EarliestFit ==
  \A l \in Luns, at \in StartTimes \cup {0}, lat \in {ReadLat, WriteLat, EraseLat} :
    LET from    == AdvanceTimeSlot(gaps[l], at, lat).from
        Idle(t) == (t .. t + lat - 1) \cap seen.booked[l] = {}
    IN /\ from >= at /\ Idle(from)
       /\ at >= seen.clock[l] => \A t \in at .. from - 1 : ~ Idle(t)

\* A mapping page that a write has changed is in the cache with its flag set
\* until it is written back, also when reads hit it in between and when its
\* index has been another page's (sgx_ftl.cpp:973-1126).  No two pages share an
\* index, no index is lost, and the list has each page once.
ChangesKept ==
  /\ seen.unsaved = {p \in DOMAIN cache.slot : cache.dirty[cache.slot[p]]}
  /\ ToSet(cache.list) = DOMAIN cache.slot /\ IsInjective(cache.list)
  /\ IsInjective(cache.slot) /\ IsInjective(cache.free)
  /\ Range(cache.slot) \cap ToSet(cache.free) = {}
  /\ Range(cache.slot) \cup ToSet(cache.free) = Ids

\* A request uses a mapping page only once it has arrived, also when its own
\* start time is earlier than that of the request that fetched it
\* (sgx_ftl.cpp:1106-1123).
MappingFirst == seen.last # <<>> => seen.last[2] >= seen.fetched[seen.last[1]]
=============================================================================
