------------------------------- MODULE KvFtl --------------------------------
(***************************************************************************)
(* The key-value FTL (kv_ftl.c): a hash table whose collisions are chained *)
(* through the slots of the table itself, two allocators that never take   *)
(* storage back (append_only.c, bitmap.c), and iterators over the table.   *)
(* The module has one I/O worker, the default of nr_io_workers: commands   *)
(* run one after another and a command is one step.  Nothing in the code   *)
(* keeps two workers, the most it accepts, out of each other's commands,   *)
(* and nothing below holds for two.  Values are of one length, at most     *)
(* SMALL_LENGTH, and the storage is counted in values.  Keys are strings   *)
(* of bytes, and the hash function is any function of them.                *)
(***************************************************************************)
EXTENDS Integers, FiniteSets, FiniteSetsExt, Sequences

CONSTANTS
  Bytes, ZeroByte, OnesByte,
  KeyBytes,     \* bytes of the key that a slot has room for
  Keys, Vals, NoVal,
  NrSlots,      \* hash_slots
  NrAreas,      \* storage_size: values the append-only allocator can place
  NrBits,       \* small_nbits: values the bitmap allocator can place
  NrIters,      \* handles of iterators
  KeysPerRead,  \* keys that fit into the buffer of an iterator
  Filters       \* what bitmask and prefix of an iterator select

ASSUME CountsAssumption ==
  {NrSlots, NrAreas, NrBits, NrIters, KeysPerRead, KeyBytes} \subseteq Nat \ {0}
ASSUME KeysAssumption ==
  /\ {ZeroByte, OnesByte} \subseteq Bytes /\ NoVal \notin Vals
  /\ \A k \in Keys : k \in Seq(Bytes) /\ Len(k) \in 1 .. KeyBytes

None == -1                  \* -1, as a slot and as an offset
Slots == 0 .. NrSlots - 1
Areas == 0 .. NrAreas + NrBits
Iters == 1 .. NrIters
Contents == [1 .. KeyBytes -> Bytes]
ASSUME FiltersAssumption == Filters \subseteq SUBSET Contents

VARIABLES
  hash,     \* get_hash_slot, and the allocator that is compiled in
  kv,       \* the mapping table by column, the storage, the allocator, and
            \* why the thread stopped: a failed assertion or an endless loop
  iter,     \* iter_handle: position, filter, or closed
  found,    \* history: what a retrieve of each key would find
  watch     \* history: keys found ever since an iterator was opened, and
            \* what it has reported

kvVars == <<hash, kv, iter, found, watch>>

Closed == [open |-> FALSE, pos |-> 0, filter |-> {}]

KvInit ==
  /\ hash \in [slot : [Keys -> Slots], bitmap : BOOLEAN]
  /\ kv = [key |-> [s \in Slots |-> [b \in 1 .. KeyBytes |-> ZeroByte]],
           off |-> [s \in Slots |-> None], next |-> [s \in Slots |-> None],
           mem |-> [a \in Areas |-> NoVal], latest |-> 0, bits |-> {}, stopped |-> "no"]
  /\ iter = [i \in Iters |-> Closed]
  /\ found = [k \in Keys |-> NoVal]
  /\ watch = [i \in Iters |-> [steady |-> {}, seen |-> {}]]
-----------------------------------------------------------------------------
(* The chain of a slot, as a search follows it: occupied slots up to one    *)
(* without a successor or with a free one.                                  *)

Free(t, s) == t.off[s] = None
IsTail(t, s) == t.next[s] = None \/ Free(t, t.next[s])

\* Where a search goes from a slot.
Follow(t, s) == IF s = None \/ IsTail(t, s) THEN None ELSE t.next[s]

\* The slots that a search from s passes, None behind the last: c[n] is n links
\* away.  A longer chain would be a cycle.
Chain(t, s) ==
  LET c[n \in 0 .. NrSlots] == IF n # 0 THEN Follow(t, c[n - 1])
                               ELSE IF Free(t, s) THEN None ELSE s
  IN c

\* A slot keeps the bytes of a key and not how many: a search compares as many
\* as its own key has, and an insertion leaves those behind them as they are.
Matches(k, content) == \A b \in 1 .. Len(k) : content[b] = k[b]
Written(k, content) == [b \in 1 .. KeyBytes |-> IF b <= Len(k) THEN k[b] ELSE content[b]]

\* get_mapping_entry: the first slot of the chain whose key matches.
Find(t, k) ==
  LET c == Chain(t, hash.slot[k])
      holds(s) == s # None /\ Matches(k, t.key[s])
      hits == {n \in 0 .. NrSlots : holds(c[n])}
  IN IF hits = {} THEN None ELSE c[Min(hits)]
-----------------------------------------------------------------------------
(* Allocation.  The bitmap allocator searches on from its last position and *)
(* returns a place past the end if it finds nothing there.                  *)

AppendOnlyAllocate(t) == [at |-> t.latest, t |-> [t EXCEPT !.latest = @ + 1]]

BitmapAllocate(t) ==
  LET zeros == {b \in t.latest .. NrBits - 1 : b \notin t.bits}
      at == IF zeros = {} THEN NrBits + 1 ELSE Min(zeros)
  IN [at |-> at,
      t |-> [t EXCEPT !.bits = @ \cup {at},
                      !.latest = IF at + 1 > NrBits THEN 0 ELSE at + 1]]

\* Faulty: the append-only allocator does not move on.
BugAllocate(t) ==
  LET at == IF hash.bitmap THEN Cardinality(t.bits) ELSE t.latest
  IN [at |-> at, t |-> [t EXCEPT !.bits = @ \cup {at}]]

Allocate(t) == IF hash.bitmap THEN BitmapAllocate(t) ELSE AppendOnlyAllocate(t)

Exhausted(t) == NrBits + 1 \in t.bits
StorageSize == IF hash.bitmap THEN 2 * NrBits + 2 ELSE NrAreas
-----------------------------------------------------------------------------
\* Faulty: the search for a free slot starts at the home of the key, and the
\* slot found is linked to it.
BugFindSlot(t, h) ==
  LET free(d) == Free(t, (h + d) % NrSlots)
  IN [prev |-> h, slot |-> (h + Min({d \in 0 .. NrSlots - 1 : free(d)})) % NrSlots]

\* find_next_slot: the end of the chain and the first free slot after it.
FindSlot(t, h) ==
  LET c == Chain(t, h)
      tail == c[Max({n \in 0 .. NrSlots : c[n] # None})]
      free(d) == Free(t, (tail + d) % NrSlots)
  IN [prev |-> tail, slot |-> (tail + Min({d \in 0 .. NrSlots - 1 : free(d)})) % NrSlots]

\* new_mapping_entry.  Without a free slot the search never ends.
NewEntry(t, k, at) ==
  LET h == hash.slot[k]
      fill(u, s) == [u EXCEPT !.key[s] = Written(k, @), !.off[s] = at]
  IN IF at >= StorageSize THEN [t EXCEPT !.stopped = "BUG_ON"]
     ELSE IF Free(t, h) THEN fill(t, h)
     ELSE IF \A s \in Slots : ~ Free(t, s) THEN [t EXCEPT !.stopped = "endless"]
     ELSE LET f == FindSlot(t, h)
          IN [fill(t, f.slot) EXCEPT !.next[f.prev] = f.slot]

\* The store of a key, alone or in a batch: in place if it is found, in new storage otherwise.
StoreKey(t, k, v) ==
  LET s == Find(t, k)
      new == Allocate(t)
  IN IF s # None THEN [t EXCEPT !.mem[t.off[s]] = v]
     ELSE NewEntry([new.t EXCEPT !.mem[new.at] = v], k, new.at)

\* Faulty: the slot that is cleared keeps its link.
BugFreed(t, s) == [t EXCEPT !.key[s] = [b \in 1 .. KeyBytes |-> OnesByte], !.off[s] = None]

\* delete_mapping_entry: every byte of the slot is set, to ones.
Freed(t, s) == [t EXCEPT !.key[s] = [b \in 1 .. KeyBytes |-> OnesByte],
                         !.off[s] = None, !.next[s] = None]
-----------------------------------------------------------------------------
Retrieved(t, k) == LET s == Find(t, k) IN IF s = None THEN NoVal ELSE t.mem[t.off[s]]

\* What every change of the table means for a host.
Observed ==
  /\ found' = [k \in Keys |-> Retrieved(kv', k)]
  /\ watch' = [i \in Iters |->
                [watch[i] EXCEPT !.steady = {k \in @ : found'[k] # NoVal}]]
Serving == kv.stopped = "no"

Store(k, v) ==
  /\ Serving
  /\ kv' = StoreKey(kv, k, v)
  /\ Observed /\ UNCHANGED <<hash, iter>>

Delete(k) ==
  /\ Serving /\ found[k] # NoVal
  /\ kv' = Freed(kv, Find(kv, k))
  /\ Observed /\ UNCHANGED <<hash, iter>>

\* kv_iter_open takes the first free handle.
IterOpen(F) ==
  LET free == {i \in Iters : ~ iter[i].open} IN
  /\ Serving /\ free # {}
  /\ iter' = [iter EXCEPT ![Min(free)] = [open |-> TRUE, pos |-> 0, filter |-> F]]
  /\ watch' = [watch EXCEPT ![Min(free)] =
                [steady |-> {k \in Keys : found[k] # NoVal /\ kv.key[Find(kv, k)] \in F},
                 seen |-> {}]]
  /\ UNCHANGED <<hash, kv, found>>

IterClose(i) ==
  /\ Serving /\ iter[i].open
  /\ iter' = [iter EXCEPT ![i] = Closed]
  /\ watch' = [watch EXCEPT ![i] = [steady |-> {}, seen |-> {}]]
  /\ UNCHANGED <<hash, kv, found>>

Selected(i) == {s \in Slots : s >= iter[i].pos /\ ~ Free(kv, s) /\ kv.key[s] \in iter[i].filter}

\* Faulty: the slot whose key did not fit is passed over.
BugReadUpTo(i) ==
  LET S == Selected(i)
      fitting == {s \in S : Cardinality({x \in S : x <= s}) <= KeysPerRead}
  IN IF fitting = S THEN NrSlots ELSE Min(S \ fitting) + 1

\* Where a read of the iterator stops: at the first key that does not fit.
ReadUpTo(i) ==
  LET S == Selected(i)
      fitting == {s \in S : Cardinality({x \in S : x <= s}) <= KeysPerRead}
  IN IF fitting = S THEN NrSlots ELSE Min(S \ fitting)

IterRead(i) ==
  LET upTo == ReadUpTo(i)
      reported == {s \in Selected(i) : Cardinality({x \in Selected(i) : x <= s}) <= KeysPerRead}
  IN /\ Serving /\ iter[i].open
     /\ iter' = [iter EXCEPT ![i].pos = upTo]
     /\ watch' = [watch EXCEPT ![i].seen = @ \cup {kv.key[s] : s \in reported}]
     /\ UNCHANGED <<hash, kv, found>>

IterCommand ==
  \/ \E F \in Filters : IterOpen(F)
  \/ \E i \in Iters : IterClose(i) \/ IterRead(i)

KvNext ==
  \/ \E k \in Keys : Delete(k) \/ \E v \in Vals : Store(k, v)
  \/ IterCommand

KvSpec == KvInit /\ [][KvNext]_kvVars
-----------------------------------------------------------------------------
KvTypeOK ==
  /\ kv.key \in [Slots -> Contents] /\ kv.off \in [Slots -> Areas \cup {None}]
  /\ kv.next \in [Slots -> Slots \cup {None}]
  /\ kv.mem \in [Areas -> Vals \cup {NoVal}]
  /\ kv.stopped \in {"no", "BUG_ON", "endless"}
  /\ iter \in [Iters -> [open : BOOLEAN, pos : 0 .. NrSlots, filter : Filters \cup {{}}]]

\* However stores, deletes and stores into slots that were freed reshape the
\* chains, none becomes a cycle, so that a search ends, and the only store
\* that does not end is one into a full table.
SearchesEnd ==
  /\ KvTypeOK
  /\ \A s \in Slots : LET c == Chain(kv, s) IN
       \A i, j \in 0 .. NrSlots : i < j => c[j] # c[i] \/ c[j] = None
  /\ kv.stopped = "endless" => \A s \in Slots : ~ Free(kv, s)

\* No two slots have the same storage, those of lost keys included, until the
\* bitmap allocator has run out of places: it then returns the same place for
\* ever, which its caller, who looks for -1, does not notice.
AreasDistinct ==
  ~ Exhausted(kv) => \A s, x \in Slots : kv.off[s] = kv.off[x] /\ ~ Free(kv, s) => s = x

\* Keys of which one begins with the other: a search for the shorter one may
\* stop at the longer one's slot.
Alike == {p \in Keys \X Keys :
            \A b \in 1 .. KeyBytes : b <= Len(p[1]) /\ b <= Len(p[2]) => p[1][b] = p[2][b]}

\* What a host finds in the table is a lossy map, command by command: after a
\* store of a key its value is found for it, and nothing else changes but what
\* is found for a key alike; a delete removes its key, and others only in that
\* it loses them (it cuts the chain).  No lost, deleted or overwritten value is
\* found again.  It ends when the bitmap allocator has run out of places.
Map == INSTANCE LossyMap WITH store <- found, halted <- kv.stopped # "no"
ImplementsLossyMap ==
  /\ Map!Init
  /\ [][\/ Exhausted(kv)'
        \/ \A k \in Keys : /\ Delete(k) => Map!Remove(k)
                           /\ \A v \in Vals : Store(k, v) => Map!Put(k, v)]_kvVars

\* An iterator that has come to the end of the table has reported every entry of
\* its selection that could be found all the time since it was opened, whatever
\* was stored and deleted between its reads.
IterationComplete == \A i \in Iters :
  iter[i].open /\ iter[i].pos = NrSlots =>
    {kv.key[Find(kv, k)] : k \in watch[i].steady} \subseteq watch[i].seen
=============================================================================
