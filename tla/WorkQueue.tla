------------------------------ MODULE WorkQueue ------------------------------
(***************************************************************************)
(* The list of an I/O worker (io.c): operations, sorted by the time they   *)
(* are due, in a static array whose entries are chained by their indices.  *)
(* A dispatcher allocates entries, fills and inserts them and takes the    *)
(* finished ones back; the worker thread walks the list and carries them   *)
(* out: it copies the data of a command and posts its completion, or gives *)
(* buffer space back.  There is no lock.  A step has one access to what    *)
(* both threads use: the chain in the direction the worker goes, the flags *)
(* of an entry, io_seq and latest_nsecs.                                   *)
(***************************************************************************)
EXTENDS Integers, Sequences, FiniteSets, SequencesExt

CONSTANTS
  NrEntries,   \* NR_MAX_PARALLEL_IO
  MaxTime      \* bound: the last tick of the clock

ASSUME EntriesAssumption == NrEntries \in Nat \ {0, 1} /\ MaxTime \in Nat

Entries == 0 .. NrEntries - 1
Nil == -1
Link == Entries \cup {Nil}
Time == 0 .. MaxTime
Kinds == {"completion", "buffer"}

VARIABLES
  next, prev,   \* the chains of the list and of the free entries
  work,         \* of each entry: nsecs_target, is_completed, is_copied, is_internal
  ends,           \* io_seq, io_seq_end, free_seq, free_seq_end, latest_nsecs
  disp,         \* the dispatcher: where it is, its entry, curr
  worker,       \* the worker: where it is, curr, curr_nsecs
  now,          \* local_clock()
  owed          \* history: the effect each entry is still to have

workVars == <<next, prev, work, ends, disp, worker, now, owed>>
lists == <<next, prev, ends>>

Idle == [pc |-> "idle", e |-> Nil, curr |-> Nil]

WorkInit ==
  /\ next = [e \in Entries |-> IF e + 1 \in Entries THEN e + 1 ELSE Nil]
  /\ prev = [e \in Entries |-> e - 1]
  /\ work = [e \in Entries |-> [target |-> 0, completed |-> FALSE,
                                copied |-> FALSE, internal |-> FALSE]]
  /\ ends = [seq |-> Nil, end |-> Nil, free |-> 0, freeEnd |-> NrEntries - 1, latest |-> 0]
  /\ disp = Idle
  /\ worker = [pc |-> "start", curr |-> Nil, tick |-> 0]
  /\ now = 0
  /\ owed = [e \in Entries |-> "nothing"]
-----------------------------------------------------------------------------
(* The dispatcher. *)

At(pc) == disp.pc = pc

\* The worker does not stand on one entry while the dispatcher takes that entry
\* back and then goes through the free ones before it, so not on the one that is
\* given away.  That takes as many insertions as entries are free then, most of
\* the 16384 as a rule and few when the list is nearly full.  A restriction of
\* the model: nothing in the code enforces it.
NotStalled(e) == worker.curr # e

\* The data of a command are still to be copied.
Filled(kind, t) ==
  [target |-> t, completed |-> FALSE, copied |-> kind = "buffer", internal |-> kind = "buffer"]

\* __allocate_work_queue_entry never gives the last free entry away: without
\* one more the operation is dropped, and nothing changes.
MayAllocate == next[ends.free] # Nil

\* The entry is filled; the search for its place begins at the end of the list.
Schedule(kind, t) ==
  LET e == ends.free IN
  /\ At("idle")
  /\ MayAllocate
  /\ NotStalled(e)
  /\ work' = [work EXCEPT ![e] = Filled(kind, t)]
  /\ prev' = [prev EXCEPT ![e] = Nil]
  /\ next' = [next EXCEPT ![e] = Nil]
  /\ ends' = [ends EXCEPT !.free = next[e]]
  /\ disp' = [pc |-> "insert", e |-> e, curr |-> ends.end]
  /\ owed' = [owed EXCEPT ![e] = kind]
  /\ UNCHANGED <<worker, now>>

\* An entry goes behind one that is due, or that is not due later.
BelongsBehind(c) == work[c].target <= ends.latest \/ work[c].target <= work[disp.e].target

\* __insert_req_sorted.  What it writes before the last link cannot be seen
\* by the worker: the new entry is in no chain yet.
InsertFirst ==
  /\ At("insert") /\ ends.seq = Nil
  /\ ends' = [ends EXCEPT !.seq = disp.e, !.end = disp.e]
  /\ disp' = Idle
  /\ UNCHANGED <<next, prev, work, worker, now, owed>>
Search ==
  /\ At("insert") /\ ends.seq # Nil /\ disp.curr # Nil
  /\ ~ BelongsBehind(disp.curr)
  /\ disp' = [disp EXCEPT !.curr = prev[@]]
  /\ UNCHANGED <<lists, work, worker, now, owed>>
InsertHead ==
  /\ At("insert") /\ ends.seq # Nil /\ disp.curr = Nil
  /\ prev' = [prev EXCEPT ![ends.seq] = disp.e]
  /\ next' = [next EXCEPT ![disp.e] = ends.seq]
  /\ ends' = [ends EXCEPT !.seq = disp.e]
  /\ disp' = Idle
  /\ UNCHANGED <<work, worker, now, owed>>
InsertBehind ==
  /\ At("insert") /\ ends.seq # Nil /\ disp.curr # Nil
  /\ BelongsBehind(disp.curr)
  /\ LET after == next[disp.curr] IN
     /\ next' = [next EXCEPT ![disp.e] = after, ![disp.curr] = disp.e]
     /\ prev' = [e \in Entries |-> IF e = disp.e THEN disp.curr
                                   ELSE IF e = after THEN disp.e ELSE prev[e]]
     /\ ends' = IF after = Nil THEN [ends EXCEPT !.end = disp.e] ELSE ends
  /\ disp' = Idle
  /\ UNCHANGED <<work, worker, now, owed>>

After(c) == IF c = Nil THEN Nil ELSE next[c]

\* The entries from e on, in the order of the chain: nth[n] is the one n links
\* behind e.
Chain(e) ==
  LET nth[n \in 0 .. NrEntries] == IF n = 0 THEN e ELSE After(nth[n - 1])
  IN  [i \in 1 .. Cardinality({n \in 0 .. NrEntries : nth[n] # Nil}) |-> nth[i - 1]]

Finished(e) ==
  work[e].completed /\ work[e].copied /\ work[e].target <= ends.latest

\* Faulty: finished entries are taken back wherever they stand.
BugReclaimable(list) == {i \in DOMAIN list : Finished(list[i])}

\* The finished entries at the beginning of the list.
Reclaimable(list) == {i \in DOMAIN list : \A j \in 1 .. i : Finished(list[j])}

\* __reclaim_completed_reqs: the finished entries leave the list ...
Reclaim ==
  LET list == Chain(ends.seq)
      done == Reclaimable(list)
      last == list[Max(done)]
  IN /\ At("idle") /\ done # {}
     /\ ends' = [ends EXCEPT !.seq = next[last]]
     /\ prev' = IF next[last] = Nil THEN prev ELSE [prev EXCEPT ![next[last]] = Nil]
     /\ disp' = [disp EXCEPT !.pc = "cut", !.e = ends.seq, !.curr = last]
     /\ UNCHANGED <<next, work, worker, now, owed>>

\* Faulty: the finished entries keep their link into the list.
BugCut ==
  /\ At("cut")
  /\ disp' = [disp EXCEPT !.pc = "free"]
  /\ UNCHANGED <<lists, work, worker, now, owed>>

\* ... are cut off, whether the worker stands on one of them or not, ...
Cut ==
  /\ At("cut")
  /\ next' = [next EXCEPT ![disp.curr] = Nil]
  /\ disp' = [disp EXCEPT !.pc = "free"]
  /\ UNCHANGED <<prev, work, ends, worker, now, owed>>

\* ... and go to the end of the free entries.
GiveBack ==
  /\ At("free")
  /\ prev' = [prev EXCEPT ![disp.e] = ends.freeEnd]
  /\ next' = [next EXCEPT ![ends.freeEnd] = disp.e]
  /\ ends' = [ends EXCEPT !.freeEnd = disp.curr]
  /\ disp' = Idle
  /\ UNCHANGED <<work, worker, now, owed>>

\* What the dispatcher does to finish what it has begun.
Proceed == InsertFirst \/ Search \/ InsertHead \/ InsertBehind \/ Cut \/ GiveBack

DispatcherStep == Proceed \/ Reclaim \/ \E kind \in Kinds, t \in Time : Schedule(kind, t)
-----------------------------------------------------------------------------
(* The worker. *)

StepTo(e) == [worker EXCEPT !.pc = IF e = Nil THEN "irq" ELSE "visit", !.curr = e, !.tick = 0]

\* Faulty: the pass begins at the end of the list.
BugStart ==
  /\ worker.pc = "start"
  /\ worker' = StepTo(ends.end)
  /\ UNCHANGED <<lists, work, disp, now, owed>>

Start ==
  /\ worker.pc = "start"
  /\ worker' = StepTo(ends.seq)
  /\ UNCHANGED <<lists, work, disp, now, owed>>

\* The time is taken anew at every entry.
Visit ==
  /\ worker.pc = "visit"
  /\ ends' = [ends EXCEPT !.latest = now]
  /\ worker' = [worker EXCEPT !.tick = now,
                  !.pc = IF work[worker.curr].completed THEN "follow" ELSE "serve"]
  /\ UNCHANGED <<next, prev, work, disp, now, owed>>

\* The data of a command is copied; if the operation is due it has its effect.
Serve ==
  LET e == worker.curr
      kind == IF work[e].internal THEN "buffer" ELSE "completion"
      due == work[e].target <= worker.tick
  IN /\ worker.pc = "serve"
     /\ work' = [work EXCEPT ![e].copied = TRUE]
     /\ worker' = [worker EXCEPT !.pc = IF due THEN "mark" ELSE "follow"]
     /\ owed' = IF due THEN [owed EXCEPT ![e] = IF @ = kind THEN "nothing" ELSE "wrong"]
                ELSE owed
     /\ UNCHANGED <<lists, disp, now>>

\* After the barrier the dispatcher may have the entry back.
Mark ==
  /\ worker.pc = "mark"
  /\ work' = [work EXCEPT ![worker.curr].completed = TRUE]
  /\ worker' = [worker EXCEPT !.pc = "follow"]
  /\ UNCHANGED <<lists, disp, now, owed>>

Follow ==
  /\ worker.pc = "follow"
  /\ worker' = StepTo(next[worker.curr])
  /\ UNCHANGED <<lists, work, disp, now, owed>>

\* At the end of a pass interrupts are raised for the completions posted in it.
Signal ==
  /\ worker.pc = "irq"
  /\ worker' = [worker EXCEPT !.pc = "start"]
  /\ UNCHANGED <<lists, work, disp, now, owed>>

Worker == Start \/ Visit \/ Serve \/ Mark \/ Follow \/ Signal

Tick == now < MaxTime /\ now' = now + 1 /\ UNCHANGED <<lists, work, disp, worker, owed>>

WorkNext == DispatcherStep \/ Worker \/ Tick

\* The worker is a loop on a CPU of its own; the dispatcher finishes what it
\* has begun, but nothing makes it begin.
WorkSpec == WorkInit /\ [][WorkNext]_workVars
FairSpec == WorkSpec /\ WF_workVars(Worker) /\ WF_workVars(Proceed) /\ WF_workVars(Tick)
-----------------------------------------------------------------------------
List == Chain(ends.seq)
Free == Chain(ends.free)

\* What an entry that is free or finished was scheduled for, and how it was
\* linked backwards, does not make two states different.
View ==
  LET listed == ToSet(List)
      free == ToSet(Free)
  IN  << next,
         [e \in Entries |-> IF e \in listed THEN prev[e] ELSE Nil],
         [e \in Entries |-> IF work[e].completed \/ e \in free THEN "spent" ELSE work[e]],
         [ends EXCEPT !.end = IF ends.seq = Nil THEN Nil ELSE @],
         disp, worker, now, owed >>

WorkTypeOK ==
  /\ next \in [Entries -> Link] /\ prev \in [Entries -> Link]
  /\ work \in [Entries -> [target : Time, completed : BOOLEAN, copied : BOOLEAN,
                           internal : BOOLEAN]]
  /\ ends \in [seq : Link, end : Link, free : Entries, freeEnd : Entries, latest : Time]
  /\ disp \in [pc : {"idle", "insert", "cut", "free"}, e : Link, curr : Link]
  /\ worker \in [pc : {"start", "visit", "serve", "mark", "follow", "irq"}, curr : Link, tick : Time]
  /\ now \in Time /\ owed \in [Entries -> Kinds \cup {"nothing", "wrong"}]

\* Between two operations of the dispatcher every entry is in the list or
\* free, once, in chains that agree in both directions and end where the
\* dispatcher believes; and no entry stands before one that is due earlier,
\* unless it is due itself, so that nothing finished waits behind what is not
\* due yet.  Wherever the worker stands, entries taken back under its feet
\* included, it comes to an end.
ListsSound ==
  LET list == List
      free == Free
  IN
  /\ WorkTypeOK
  /\ Len(Chain(worker.curr)) <= NrEntries
  /\ At("idle") =>
       /\ Len(list) + Len(free) = NrEntries
       /\ ToSet(list) \cup ToSet(free) = Entries
       /\ Last(free) = ends.freeEnd
       /\ list # <<>> => Last(list) = ends.end /\ prev[ends.seq] = Nil
       /\ \A i \in DOMAIN list : i > 1 => prev[list[i]] = list[i - 1]
       /\ \A j \in DOMAIN list : \A i \in 1 .. j :
            work[list[i]].target <= work[list[j]].target \/ work[list[i]].target <= ends.latest

\* Every operation has the effect it was scheduled for, once, before its
\* entry is taken back, although the worker may stand on an entry that is
\* taken back, and follow its chain, at any moment.
OnceEach ==
  /\ \A e \in Entries : owed[e] # "wrong"
  /\ At("idle") => \A e \in ToSet(Free) : owed[e] = "nothing"

\* Every operation that was given an entry is performed, however often the
\* list changes before the worker's eyes.  The completions are signalled at the
\* end of a pass, and passes end when no new operations come (one that is
\* always fed does not).
EveryOperationPerformed ==
  /\ \A e \in Entries : (owed[e] # "nothing") ~> (owed[e] = "nothing")
  /\ <>[][Proceed \/ Reclaim \/ Worker \/ Tick]_workVars => []<>(worker.pc = "irq")
=============================================================================
