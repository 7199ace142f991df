------------------------------ MODULE ConvFtl ------------------------------
(***************************************************************************)
(* One partition of the conventional FTL in the kernel module              *)
(* (conv_ftl.c).  Unlike the enclave's FTL it writes user data and         *)
(* collected data to two lines, keeps the lines to collect in a heap that  *)
(* is reordered by every overwrite, and paces collection by write credits: *)
(* a user page costs one, and whenever they are used up one line at most   *)
(* is collected and as many credits are added as the last line collected   *)
(* had invalid pages.  One thread runs it; a step writes one page of a     *)
(* write command, or cleans one page.  Latencies are left out.             *)
(***************************************************************************)
EXTENDS PQueue

CONSTANTS
  NrLines,       \* lines of the partition (tt_lines)
  NrLuns,        \* LUNs, over all channels, in the order they are written
  PgsPerBlk,     \* pages of a block
  OneShotPgs,    \* pages programmed into a LUN at once (pgs_per_oneshotpg)
  FlashPgs,      \* pages read from a LUN at once (pgs_per_flashpg)
  Lpns,          \* logical pages of the partition
  Thres          \* gc_thres_lines_high

PgsPerLine == NrLuns * PgsPerBlk

ASSUME SizesAssumption ==
  /\ {NrLines, NrLuns, PgsPerBlk, OneShotPgs, FlashPgs} \subseteq Nat \ {0}
  /\ PgsPerBlk % OneShotPgs = 0 /\ PgsPerBlk % FlashPgs = 0
  /\ NrLines >= 2
ASSUME ThresAssumption == Thres \in Nat
\* conv_init_params sets the threshold to two lines, one for the host's
\* writes and one for collection.  The over-provisioned area has to hold these
\* and the two open lines; the code takes it to be large enough.
ASSUME SpareAssumption ==
  /\ Thres >= 2
  /\ IsFiniteSet(Lpns) /\ Cardinality(Lpns) <= (NrLines - Thres - 2) * PgsPerLine

Lines == 0 .. NrLines - 1
Pages == Lines \X (0 .. NrLuns - 1) \X (0 .. PgsPerBlk - 1)
LineOf(p) == p[1]
Unmapped == <<>>          \* UNMAPPED_PPA
NoLpn  == "no lpn"        \* INVALID_LPN
NoLine == -1

VARIABLES
  maptbl, rmap,     \* logical page -> flash page, and back
  status,           \* of each flash page
  lm,               \* line_mgmt: free list, heap of victims, full lines, vpc, ipc
  wp,               \* the write pointers of user writes and of collection
  wfc,              \* write_flow_control: credits, refill
  gc                \* the victim being cleaned and its next page; or a dead thread

vars == <<maptbl, rmap, status, lm, wp, wfc, gc>>

Idle == [victim |-> NoLine, lun |-> 0, pg |-> 0, dead |-> FALSE]

\* Lines 0 and 1 are taken by the two write pointers, the others are free.
InitLines ==
  [free |-> [i \in 1 .. NrLines - 2 |-> i + 1], full |-> {},
   pq |-> [d |-> <<>>, pos |-> [n \in Lines |-> 0]],
   vpc |-> [n \in Lines |-> 0], ipc |-> [n \in Lines |-> 0]]
InitPointers == [user |-> <<0, 0, 0>>, gc |-> <<1, 0, 0>>]
InitCredits == [credits |-> PgsPerLine, refill |-> PgsPerLine]

Init ==
  /\ maptbl = [l \in Lpns |-> Unmapped]
  /\ rmap = [p \in Pages |-> NoLpn]
  /\ status = [p \in Pages |-> "free"]
  /\ lm = InitLines /\ wp = InitPointers /\ wfc = InitCredits
  /\ gc = Idle
-----------------------------------------------------------------------------
(* Lines. *)

InHeap(m, n) == m.pq.pos[n] # 0
MarkValid(m, n) == [m EXCEPT !.vpc[n] = @ + 1]

\* Faulty: a full line that loses a page stays among the full lines.
BugMarkInvalidStaysFull(m, n) ==
  [m EXCEPT !.ipc[n] = @ + 1, !.vpc[n] = @ - 1,
            !.pq = IF InHeap(m, n) THEN ChangePriority(@, m.vpc, m.vpc[n] - 1, n)
                   ELSE @]

\* A page of line n becomes invalid: the heap is reordered when n is in it,
\* and a full line enters it.
MarkInvalid(m, n) ==
  LET c == [m EXCEPT !.ipc[n] = @ + 1, !.vpc[n] = @ - 1,
                     !.pq = IF InHeap(m, n) THEN ChangePriority(@, m.vpc, m.vpc[n] - 1, n)
                            ELSE @]
  IN IF m.vpc[n] = PgsPerLine
     THEN [c EXCEPT !.full = @ \ {n}, !.pq = Insert(@, c.vpc, n)]
     ELSE c

\* Where a write pointer goes after p within its line; at its end, nowhere.
AtEnd(p) == p[2] = NrLuns - 1 /\ p[3] = PgsPerBlk - 1
NextPage(p) ==
  IF (p[3] + 1) % OneShotPgs # 0 THEN <<p[1], p[2], p[3] + 1>>
  ELSE IF p[2] + 1 # NrLuns THEN <<p[1], p[2] + 1, p[3] + 1 - OneShotPgs>>
  ELSE <<p[1], 0, p[3] + 1>>

\* m after line n has been closed and the next line taken from the free list.
Closed(m, n) ==
  LET c == IF m.vpc[n] = PgsPerLine THEN [m EXCEPT !.full = @ \cup {n}]
           ELSE [m EXCEPT !.pq = Insert(@, m.vpc, n)]
  IN [c EXCEPT !.free = Tail(@)]

\* Advancing the write pointer of io finds no free line: the code follows a
\* null pointer.
Dies(m, io) == AtEnd(wp[io]) /\ m.free = <<>>
Die == gc' = [gc EXCEPT !.dead = TRUE] /\ UNCHANGED <<lm, wfc>>

\* m after a page has been written at the write pointer of io.
Written(m, io) ==
  LET valid == MarkValid(m, LineOf(wp[io]))
  IN IF AtEnd(wp[io]) THEN Closed(valid, LineOf(wp[io])) ELSE valid

\* Logical page l goes to the write pointer of io, m being the lines by now,
\* and st the states of the pages; then the pointer advances.
Program(m, st, io, l) ==
  LET p == wp[io] IN
  /\ maptbl' = [maptbl EXCEPT ![l] = p]
  /\ status' = [st EXCEPT ![p] = "valid"]
  /\ wp' = [wp EXCEPT ![io] = IF ~ AtEnd(p) THEN NextPage(p)
                              ELSE IF m.free = <<>> THEN p
                              ELSE <<Head(m.free), 0, 0>>]
-----------------------------------------------------------------------------
(* User writes. *)

\* Faulty: the credits a collection brings are read when the victim is clean.
BugVictimTaken(m) ==
  LET v == Peek(m.pq) IN
  /\ lm' = [m EXCEPT !.pq = [Pop(@, m.vpc) EXCEPT !.pos[v] = 0]]
  /\ gc' = [Idle EXCEPT !.victim = v]
  /\ wfc' = [credits |-> 0, refill |-> 0]

\* The line with the fewest valid pages leaves the heap to be cleaned.
VictimTaken(m) ==
  LET v == Peek(m.pq) IN
  /\ lm' = [m EXCEPT !.pq = [Pop(@, m.vpc) EXCEPT !.pos[v] = 0]]
  /\ gc' = [Idle EXCEPT !.victim = v]
  /\ wfc' = [credits |-> 0, refill |-> m.ipc[v]]

ShouldGcHigh(m) == Len(m.free) <= Thres

\* A page has been paid for.  With the credits used up a line is collected,
\* if there is need and a candidate, and the credits are refilled.
Paid(m) ==
  IF wfc.credits - 1 > 0
  THEN lm' = m /\ gc' = gc /\ wfc' = [wfc EXCEPT !.credits = @ - 1]
  ELSE IF ShouldGcHigh(m) /\ m.pq.d # <<>> THEN VictimTaken(m)
  ELSE lm' = m /\ gc' = gc /\ wfc' = [wfc EXCEPT !.credits = wfc.refill]

\* Faulty: the old page stays marked as valid.
BugWritePageKeepsOld(l) ==
  /\ gc = Idle
  /\ LET old == maptbl[l]
         m == IF old = Unmapped THEN lm ELSE MarkInvalid(lm, LineOf(old))
     IN /\ Program(m, status, "user", l)
        /\ rmap' = [rmap EXCEPT ![wp.user] = l]
        /\ IF Dies(m, "user") THEN Die ELSE Paid(Written(m, "user"))

\* A page of a write command.
WritePage(l) ==
  /\ gc = Idle
  /\ LET old == maptbl[l]
         m == IF old = Unmapped THEN lm ELSE MarkInvalid(lm, LineOf(old))
     IN /\ IF old = Unmapped
           THEN /\ Program(m, status, "user", l)
                /\ rmap' = [rmap EXCEPT ![wp.user] = l]
           ELSE /\ Program(m, [status EXCEPT ![old] = "invalid"], "user", l)
                /\ rmap' = [rmap EXCEPT ![old] = NoLpn, ![wp.user] = l]
        /\ IF Dies(m, "user") THEN Die ELSE Paid(Written(m, "user"))
-----------------------------------------------------------------------------
(* Collection. *)

\* The cleaning order: the pages of a flash page, the LUNs, the flash pages.
AfterPage ==
  IF (gc.pg + 1) % FlashPgs # 0 THEN [gc EXCEPT !.pg = @ + 1]
  ELSE IF gc.lun + 1 # NrLuns THEN [gc EXCEPT !.lun = @ + 1, !.pg = @ + 1 - FlashPgs]
  ELSE [gc EXCEPT !.lun = 0, !.pg = @ + 1]

\* A block is erased when its last page is done with.
Erased ==
  IF gc.pg + 1 # PgsPerBlk THEN status
  ELSE [p \in Pages |-> IF p[1] = gc.victim /\ p[2] = gc.lun THEN "free" ELSE status[p]]

Cleaning == ~ gc.dead /\ gc.victim # NoLine /\ gc.pg < PgsPerBlk
GcPage == <<gc.victim, gc.lun, gc.pg>>

\* A valid page of the victim is copied to the write pointer of collection.
\* Its own entries stay until its block is erased.
CopyPage ==
  /\ Cleaning /\ status[GcPage] = "valid"
  /\ Program(lm, Erased, "gc", rmap[GcPage])
  /\ rmap' = [rmap EXCEPT ![wp.gc] = rmap[GcPage]]
  /\ IF Dies(lm, "gc") THEN Die
     ELSE lm' = Written(lm, "gc") /\ gc' = AfterPage /\ wfc' = wfc

SkipPage ==
  /\ Cleaning /\ status[GcPage] # "valid"
  /\ gc' = AfterPage /\ status' = Erased
  /\ UNCHANGED <<maptbl, rmap, lm, wp, wfc>>

\* The victim is clean: it is a free line again and the credits are refilled.
FreeLine ==
  /\ ~ gc.dead /\ gc.victim # NoLine /\ gc.pg = PgsPerBlk
  /\ lm' = [lm EXCEPT !.vpc[gc.victim] = 0, !.ipc[gc.victim] = 0,
                      !.free = Append(@, gc.victim)]
  /\ wfc' = [wfc EXCEPT !.credits = @ + wfc.refill]
  /\ gc' = Idle
  /\ UNCHANGED <<maptbl, rmap, status, wp>>

Next == (\E l \in Lpns : WritePage(l)) \/ CopyPage \/ SkipPage \/ FreeLine

Spec == Init /\ [][Next]_vars
-----------------------------------------------------------------------------
(* What has to hold. *)

PagesOf(n, s) == {p \in Pages : LineOf(p) = n /\ status[p] = s}
Open == {LineOf(wp.user), LineOf(wp.gc)}

TypeOK ==
  /\ maptbl \in [Lpns -> Pages \cup {Unmapped}]
  /\ rmap \in [Pages -> Lpns \cup {NoLpn}]
  /\ status \in [Pages -> {"free", "valid", "invalid"}]
  /\ lm.free \in Seq(Lines) /\ lm.full \subseteq Lines
  /\ lm.pq.d \in Seq(Lines) /\ lm.pq.pos \in [Lines -> 0 .. NrLines]
  /\ wp \in [{"user", "gc"} -> Pages]
  /\ gc.victim \in Lines \cup {NoLine}

\* The two tables agree: a logical page is mapped to a valid flash page that
\* points back at it, and every other valid page is an original that the
\* collector has copied and not erased yet.
TablesAgree ==
  /\ \A l \in Lpns : maptbl[l] # Unmapped =>
       status[maptbl[l]] = "valid" /\ rmap[maptbl[l]] = l
  /\ \A p \in Pages : status[p] = "valid" =>
       maptbl[rmap[p]] = p \/ LineOf(p) = gc.victim

\* Every line is in one place: open for writing, free, in the heap, full, or
\* being cleaned; its counts are those of its pages; and the full lines are
\* those of the closed ones that have no invalid page, so that collection can
\* find every page it could gain.
LinesSound ==
  /\ TypeOK
  /\ \A n \in Lines : Cardinality({k \in 1 .. 5 :
       \/ k = 1 /\ n \in Open
       \/ k = 2 /\ \E i \in DOMAIN lm.free : lm.free[i] = n
       \/ k = 3 /\ \E i \in DOMAIN lm.pq.d : lm.pq.d[i] = n
       \/ k = 4 /\ n \in lm.full
       \/ k = 5 /\ n = gc.victim}) = 1
  /\ \A n \in Lines \ {gc.victim} :
                      /\ lm.vpc[n] = Cardinality(PagesOf(n, "valid"))
                      /\ lm.ipc[n] = Cardinality(PagesOf(n, "invalid"))
                      /\ n \in lm.full => lm.ipc[n] = 0
                      /\ InHeap(lm, n) => lm.ipc[n] > 0 /\ lm.vpc[n] + lm.ipc[n] = PgsPerLine

\* The heap is one, and pos tells the lines in it and where they are: it is
\* how mark_page_invalid decides whether to reorder it, overwrites coming in
\* any order.  So the line collected is always one with the fewest valid pages.
HeapSound ==
  /\ IsValid(lm.pq, lm.vpc)
  /\ \A n \in Lines : InHeap(lm, n) <=> \E i \in DOMAIN lm.pq.d : lm.pq.d[i] = n

\* The write credits pace collection: no write finds the free list empty, and
\* the credits, an unsigned number, are never used up between two user
\* writes, or the next one would turn collection off.
CollectionKeepsUp == ~ gc.dead /\ (gc = Idle => wfc.credits > 0)
=============================================================================
