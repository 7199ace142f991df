------------------------------- MODULE SgxFtl -------------------------------
(***************************************************************************)
(* The page mapping and the garbage collection of an FTL thread in the     *)
(* enclave (sgx_ftl.cpp).  The flash of the thread is NrLines lines of one *)
(* block per LUN.  Pages are written at a write pointer that user writes   *)
(* and garbage collection share; a closed line is full when all of its     *)
(* pages are valid, and a candidate for collection otherwise.  The thread  *)
(* serves one request at a time: a step writes one page, or cleans one.    *)
(* What is not here: latencies, the cache of mapping pages, and the        *)
(* counters of blocks, which the code never reads.                         *)
(***************************************************************************)
EXTENDS Integers, Sequences, FiniteSets, SequencesExt

CONSTANTS
  NrLines,       \* lines (tt_lines)
  NrLuns,        \* LUNs of the thread (lun_cnt)
  PgsPerBlk,     \* pages of a block
  NrLpns,        \* logical pages of the thread, numbered from 0
  NrWarm,        \* logical pages that the warm-up writes
  Thres,         \* gc_thres_lines
  ThresHigh,     \* gc_thres_lines_high
  MinShare,      \* 8: collection in the background leaves a line alone when
                 \* less than this part of it is invalid
  MaxPages       \* the most pages of one write request

PgsPerLine == NrLuns * PgsPerBlk    \* pgs_per_line_FTL

ASSUME SizesAssumption ==
  /\ {NrLines, NrLuns, PgsPerBlk, NrLpns, MinShare, MaxPages} \subseteq Nat \ {0}
  /\ NrWarm \in 0 .. NrLpns
ASSUME ThresAssumption == Thres \in Nat /\ ThresHigh \in Nat
\* What the user-space process that sizes the device has to respect: a spare
\* line when forced collection starts, more flash than logical pages, and no
\* request larger than a line.
ASSUME SpareAssumption ==
  /\ ThresHigh >= 1
  /\ NrLpns < (NrLines - 1 - ThresHigh) * PgsPerLine
  /\ MaxPages <= PgsPerLine

Lines == 0 .. NrLines - 1
Lpns  == 0 .. NrLpns - 1
Pages == Lines \X (0 .. NrLuns - 1) \X (0 .. PgsPerBlk - 1)
LineOf(p) == p[1]
LunOf(p) == p[2]

Unmapped == <<>>    \* UNMAPPED_PPA
NoLpn    == -1      \* INVALID_LPN
NoLine   == -1

VARIABLES
  maptbl,   \* of each logical page: where it is
  rmap,     \* of each flash page: the logical page last written to it
  status,   \* of each flash page
  lm,       \* line_mgmt: the three lists, and the vpc and ipc of each line
  wp,       \* the write pointer: where the next page is written
  ctl       \* what the thread is doing

vars == <<maptbl, rmap, status, lm, wp, ctl>>
-----------------------------------------------------------------------------
(* Lines. *)

Init ==
  /\ maptbl = [l \in Lpns |-> Unmapped]
  /\ rmap = [p \in Pages |-> NoLpn]
  /\ status = [p \in Pages |-> "free"]
  /\ lm = [free |-> [i \in 1 .. NrLines - 1 |-> i], victim |-> <<>>, full |-> <<>>,
           vpc |-> [n \in Lines |-> 0], ipc |-> [n \in Lines |-> 0]]
  /\ wp = <<0, 0, 0>>
  /\ ctl = [pc |-> "warm", lpn |-> 0, last |-> NrWarm - 1,
            victim |-> NoLine, lun |-> 0, pg |-> 0, after |-> "idle"]

ShouldGc     == Len(lm.free) <= Thres
ShouldGcHigh == Len(lm.free) <= ThresHigh

\* Faulty: a full line that loses a page stays among the full lines.
BugMarkInvalidStaysFull(m, n) == [m EXCEPT !.vpc[n] = @ - 1, !.ipc[n] = @ + 1]

\* The list without the node of line n (QTAILQ_REMOVE).
Without(list, n) == RemoveAt(list, CHOOSE i \in DOMAIN list : list[i] = n)

\* m after a page of line n has become valid, or invalid.  A full line that
\* loses a page becomes a candidate for collection.
MarkValid(m, n) == [m EXCEPT !.vpc[n] = @ + 1]
MarkInvalid(m, n) ==
  LET counted == [m EXCEPT !.vpc[n] = @ - 1, !.ipc[n] = @ + 1] IN
  IF m.vpc[n] = PgsPerLine
  THEN [counted EXCEPT !.full = Without(@, n), !.victim = Append(@, n)]
  ELSE counted

\* The page after the write pointer: the next LUN, then the next page of the
\* blocks, then the first free line.
LastOfLine == wp[2] = NrLuns - 1 /\ wp[3] = PgsPerBlk - 1
NextPage(m) ==
  IF LastOfLine THEN <<Head(m.free), 0, 0>>
  ELSE IF wp[2] = NrLuns - 1 THEN <<wp[1], 0, wp[3] + 1>>
  ELSE <<wp[1], wp[2] + 1, wp[3]>>

\* m after the write pointer has moved on: the line it leaves is closed, the
\* line it enters is taken from the free list.
Advanced(m) ==
  IF ~ LastOfLine THEN m
  ELSE LET closed == IF m.vpc[wp[1]] = PgsPerLine
                     THEN [m EXCEPT !.full = Append(@, wp[1])]
                     ELSE [m EXCEPT !.victim = Append(@, wp[1])]
       IN [closed EXCEPT !.free = IF @ = <<>> THEN @ ELSE Tail(@)]

\* Logical page l is written at the write pointer, m being the lines by now.
\* Without a free line to go on with the thread is dead (assert(0)).
Program(m, l, c) ==
  LET valid == MarkValid(m, wp[1]) IN
  /\ maptbl' = [maptbl EXCEPT ![l] = wp]
  /\ lm' = Advanced(valid)
  /\ IF LastOfLine /\ m.free = <<>>
     THEN wp' = wp /\ ctl' = [ctl EXCEPT !.pc = "dead"]
     ELSE wp' = NextPage(valid) /\ ctl' = c
-----------------------------------------------------------------------------
(* Requests. *)

\* The next page of a warm-up, or of a write request: what follows it.
NextLpn(end) ==
  IF ctl.lpn = ctl.last THEN [ctl EXCEPT !.pc = end, !.lpn = 0, !.last = 0]
  ELSE [ctl EXCEPT !.lpn = @ + 1]

\* The warm-up fills the first logical pages, which are not mapped yet.
WarmUp ==
  /\ ctl.pc = "warm"
  /\ IF ctl.lpn > ctl.last
     THEN /\ ctl' = [ctl EXCEPT !.pc = "idle", !.lpn = 0, !.last = 0]
          /\ UNCHANGED <<maptbl, rmap, status, lm, wp>>
     ELSE /\ maptbl[ctl.lpn] = Unmapped
          /\ Program(lm, ctl.lpn, NextLpn("idle"))
          /\ rmap' = [rmap EXCEPT ![wp] = ctl.lpn]
          /\ status' = [status EXCEPT ![wp] = "valid"]

\* A write request of n pages from logical page l on.
StartWrite(l, n) ==
  /\ ctl.pc = "idle"
  /\ ctl' = [ctl EXCEPT !.pc = "gc", !.lpn = l, !.last = l + n - 1]
  /\ UNCHANGED <<maptbl, rmap, status, lm, wp>>

\* Faulty: the old page is counted out but stays marked as valid.
BugWritePageKeepsOld ==
  /\ ctl.pc = "write"
  /\ LET old == maptbl[ctl.lpn]
         lines == IF old = Unmapped THEN lm ELSE MarkInvalid(lm, LineOf(old))
     IN Program(lines, ctl.lpn, NextLpn("background"))
  /\ rmap' = [rmap EXCEPT ![wp] = ctl.lpn]
  /\ status' = [status EXCEPT ![wp] = "valid"]

\* The page of a write request: what it held before becomes invalid first.
WritePage ==
  /\ ctl.pc = "write"
  /\ LET l == ctl.lpn
         old == maptbl[l]
         lines == IF old = Unmapped THEN lm ELSE MarkInvalid(lm, LineOf(old))
     IN /\ Program(lines, l, NextLpn("background"))
        /\ IF old = Unmapped
           THEN /\ rmap' = [rmap EXCEPT ![wp] = l]
                /\ status' = [status EXCEPT ![wp] = "valid"]
           ELSE /\ rmap' = [rmap EXCEPT ![old] = NoLpn, ![wp] = l]
                /\ status' = [status EXCEPT ![old] = "invalid", ![wp] = "valid"]

\* A read, or a deallocation, changes nothing here.
OtherRequest ==
  /\ ctl.pc = "idle"
  /\ ctl' = [ctl EXCEPT !.pc = "background"]
  /\ UNCHANGED <<maptbl, rmap, status, lm, wp>>
-----------------------------------------------------------------------------
(* Garbage collection. *)

\* The first line of the victim list with the fewest valid pages, unless too
\* few of its pages are invalid for a collection that nothing forces.
Fewest ==
  LET list == lm.victim
      least == {i \in DOMAIN list : \A j \in DOMAIN list :
                  lm.vpc[list[i]] < lm.vpc[list[j]]
                    \/ (lm.vpc[list[i]] = lm.vpc[list[j]] /\ i <= j)}
  IN list[CHOOSE i \in least : TRUE]

\* Whether there is a line to collect.
HasVictim(force) ==
  /\ lm.victim # <<>>
  /\ force \/ lm.ipc[Fewest] >= PgsPerLine \div MinShare

\* Faulty: the victim line stays on its list.
BugStartGcStays(after) ==
  /\ ctl' = [ctl EXCEPT !.pc = "clean", !.victim = Fewest, !.lun = 0, !.pg = 0,
                        !.after = after]
  /\ UNCHANGED <<maptbl, rmap, status, lm, wp>>

\* The victim line leaves its list; when it is clean the thread goes on at
\* `after'.
StartGc(after) ==
  /\ lm' = [lm EXCEPT !.victim = Without(@, Fewest)]
  /\ ctl' = [ctl EXCEPT !.pc = "clean", !.victim = Fewest, !.lun = 0, !.pg = 0,
                        !.after = after]
  /\ UNCHANGED <<maptbl, rmap, status, wp>>

\* Before a write, lines are collected until there are enough free ones or
\* nothing to collect.
ForcedGc ==
  /\ ctl.pc = "gc"
  /\ IF ShouldGcHigh /\ HasVictim(TRUE) THEN StartGc("gc")
     ELSE /\ ctl' = [ctl EXCEPT !.pc = "write"]
          /\ UNCHANGED <<maptbl, rmap, status, lm, wp>>

\* After every request, one line at most.
BackgroundGc ==
  /\ ctl.pc = "background"
  /\ IF ShouldGc /\ HasVictim(FALSE) THEN StartGc("idle")
     ELSE /\ ctl' = [ctl EXCEPT !.pc = "idle"]
          /\ UNCHANGED <<maptbl, rmap, status, lm, wp>>

\* Faulty: the last page of a block is not looked at.
BugAfterPageShort ==
  IF ctl.pg + 2 < PgsPerBlk THEN [ctl EXCEPT !.pg = @ + 1]
  ELSE [ctl EXCEPT !.pc = "erase"]

\* What the thread turns to after a page of the victim line.
AfterPage ==
  IF ctl.pg + 1 < PgsPerBlk THEN [ctl EXCEPT !.pg = @ + 1]
  ELSE [ctl EXCEPT !.pc = "erase"]

\* A valid page of the victim's block is copied to the write pointer; its old
\* entries stay as they are until the block is erased.
CleanPage ==
  /\ ctl.pc = "clean"
  /\ LET p == <<ctl.victim, ctl.lun, ctl.pg>> IN
     IF status[p] = "valid"
     THEN /\ Program(lm, rmap[p], AfterPage)
          /\ rmap' = [rmap EXCEPT ![wp] = rmap[p]]
          /\ status' = [status EXCEPT ![wp] = "valid"]
     ELSE /\ ctl' = AfterPage
          /\ UNCHANGED <<maptbl, rmap, status, lm, wp>>

\* Faulty: the last page of the block is not erased.
BugErasedShort(p) ==
  LineOf(p) = ctl.victim /\ LunOf(p) = ctl.lun /\ p[3] < PgsPerBlk - 1

\* The pages that mark_block_free erases.
Erased(p) == LineOf(p) = ctl.victim /\ LunOf(p) = ctl.lun

\* Faulty: the clean line does not come back to the free list.
BugFreedLineLost(m) == [m EXCEPT !.vpc[ctl.victim] = 0, !.ipc[ctl.victim] = 0]

\* m after the clean line has become a free one.
FreedLine(m) == [m EXCEPT !.free = Append(@, ctl.victim),
                          !.vpc[ctl.victim] = 0, !.ipc[ctl.victim] = 0]

\* The block is erased; after the last block the line is free.
EraseBlock ==
  /\ ctl.pc = "erase"
  /\ status' = [p \in Pages |-> IF Erased(p) THEN "free" ELSE status[p]]
  /\ IF ctl.lun + 1 < NrLuns
     THEN /\ ctl' = [ctl EXCEPT !.pc = "clean", !.lun = @ + 1, !.pg = 0]
          /\ UNCHANGED lm
     ELSE /\ lm' = FreedLine(lm)
          /\ ctl' = [ctl EXCEPT !.pc = ctl.after, !.victim = NoLine, !.lun = 0, !.pg = 0,
                                !.after = "idle"]
  /\ UNCHANGED <<maptbl, rmap, wp>>
-----------------------------------------------------------------------------
Work == WarmUp \/ ForcedGc \/ WritePage \/ BackgroundGc \/ CleanPage \/ EraseBlock

Request == (\E l \in Lpns : \E n \in 1 .. MaxPages : l + n <= NrLpns /\ StartWrite(l, n))
           \/ OtherRequest

Next == Work \/ Request

Spec == Init /\ [][Next]_vars

\* The thread never sleeps; nothing makes the host send requests.
FairSpec == Spec /\ WF_vars(Work)
-----------------------------------------------------------------------------
TypeOK ==
  /\ maptbl \in [Lpns -> Pages \cup {Unmapped}]
  /\ rmap \in [Pages -> Lpns \cup {NoLpn}]
  /\ status \in [Pages -> {"free", "valid", "invalid"}]
  /\ lm \in [free : Seq(Lines), victim : Seq(Lines), full : Seq(Lines),
            vpc : [Lines -> 0 .. PgsPerLine], ipc : [Lines -> 0 .. PgsPerLine]]
  /\ wp \in Pages
  /\ ctl \in [pc : {"warm", "idle", "gc", "write", "background", "clean", "erase", "dead"},
             lpn : Nat, last : Int, victim : Lines \cup {NoLine},
             lun : 0 .. NrLuns - 1, pg : 0 .. PgsPerBlk - 1, after : {"idle", "gc"}]

\* A page of the block being cleaned that the collector has already passed.
Passed(p) == /\ LineOf(p) = ctl.victim /\ LunOf(p) = ctl.lun
             /\ ctl.pc = "erase" \/ p[3] < ctl.pg

\* The two tables are inverse to one another on the valid pages, at every
\* step of a write and of a collection: every logical page leads to a valid
\* page that names it, and every other valid page is a copy's original.
TablesAgree ==
  /\ TypeOK
  /\ \A l \in Lpns : maptbl[l] # Unmapped =>
       status[maptbl[l]] = "valid" /\ rmap[maptbl[l]] = l
  /\ \A p \in Pages : status[p] = "valid" /\ ~ Passed(p) =>
       rmap[p] \in Lpns /\ maptbl[rmap[p]] = p

\* A logical page once written stays mapped, and is moved only by a write of
\* that page or by the collection of the line it is in.
Moves(l) == maptbl'[l] # maptbl[l] =>
              \/ ctl.pc \in {"warm", "write"} /\ ctl.lpn = l
              \/ ctl.pc = "clean" /\ LineOf(maptbl[l]) = ctl.victim
OnlyMoved ==
  [][\A l \in Lpns : Moves(l) /\ (maptbl[l] # Unmapped => maptbl'[l] # Unmapped)]_vars

\* Every line is free, a candidate, full, written to or being cleaned, once,
\* and stands in the list its pages call for: the counts by which lines are
\* chosen are those of their pages, full lines have nothing to reclaim and
\* candidates have (the assertions of ssd_advance_write_pointer).
InList(list, n) == Cardinality({i \in DOMAIN list : list[i] = n})
CountOf(n, s) == Cardinality({p \in Pages : LineOf(p) = n /\ status[p] = s})
LinesPartitioned ==
  /\ \A n \in Lines :
       InList(lm.free, n) + InList(lm.victim, n) + InList(lm.full, n)
         + (IF n = LineOf(wp) /\ ctl.pc # "dead" THEN 1 ELSE 0)
         + (IF n = ctl.victim THEN 1 ELSE 0) = 1
  /\ \A n \in Lines \ {ctl.victim} :
       lm.vpc[n] = CountOf(n, "valid") /\ lm.ipc[n] = CountOf(n, "invalid")
  /\ \A i \in DOMAIN lm.full : lm.vpc[lm.full[i]] = PgsPerLine
  /\ \A i \in DOMAIN lm.victim : lm.ipc[lm.victim[i]] > 0

\* The page at the write pointer has been erased (the assertion of
\* mark_page_valid), and so has the rest of its line.
Ahead(p) == \/ p[3] > wp[3]
            \/ p[3] = wp[3] /\ LunOf(p) >= LunOf(wp)
WritesToErased ==
  ctl.pc # "dead" =>
    \A p \in Pages : LineOf(p) = LineOf(wp) => (status[p] = "free" <=> Ahead(p))

\* The thread never has to close a line without a free one to go on with
\* (the assert(0) of get_next_free_line), collections included.
NeverOutOfLines == ctl.pc # "dead"

\* Every write request, with the collections it waits for, comes to an end.
WritesEnd == (ctl.pc = "gc") ~> (ctl.pc = "idle")
=============================================================================
