------------------------------- MODULE ZnsFtl -------------------------------
(***************************************************************************)
(* The zoned-namespace FTL (zns_ftl.c, zns_read_write.c, zns_mgmt_send.c): *)
(* the states of the zones, the counts of ACTIVE, OPEN and ZRWA resources, *)
(* the write pointers, and the buffers a write takes space from, which the *)
(* I/O worker gives back when the flash page has been programmed.  Blocks  *)
(* (LBAs) and pages are numbered within their zone; all sizes are in       *)
(* blocks.  A command is one step: the dispatcher performs it and no other *)
(* thread touches the zones; the worker, which only releases space, runs   *)
(* between any two.  No command makes a zone read-only or, therefore,      *)
(* offline, so the branches for these states and the action OFFLINE have   *)
(* no effect and are left out, and so are reads and reports, which change  *)
(* no zone.                                                                *)
(***************************************************************************)
EXTENDS Integers, FiniteSets

CONSTANTS
  NrZones,      \* zones
  Cap,          \* zone_capacity, the size of a zone
  SecsPerPg,    \* secs_per_pg: blocks of a page
  OneShot,      \* pgs_per_oneshotpg: pages programmed at once
  WriteUnit,    \* write_unit_size
  WbSize,       \* zone_wb_size or, if it is 0, the size of the one write buffer
  SharedWb,     \* zone_wb_size = 0
  Zrwa,         \* lbas_per_zrwa: the random write area of a zone, 0 in both builds
  Zrwafg,       \* lbas_per_zrwafg: what a flush of it is a multiple of, likewise
  ZrwaBuf,      \* zrwa_buffer_size, likewise
  MaxWrite,     \* bound: blocks of a write command
  MaxPending,   \* bound: releases of a kind that are not carried out yet
  MaxSpace      \* bound: space of a buffer, which releases can take beyond its size

ASSUME SizesAssumption ==
  /\ {NrZones, Cap, SecsPerPg, OneShot, WriteUnit, WbSize, MaxWrite} \subseteq Nat \ {0}
  /\ {Zrwa, ZrwaBuf, MaxPending, MaxSpace} \subseteq Nat
  /\ SharedWb \in BOOLEAN /\ ZrwaBuf <= MaxSpace /\ WbSize <= MaxSpace
  /\ Cap % SecsPerPg = 0      \* NVMEV_ASSERT of zns_init_params
ASSUME ZrwaAssumption == Zrwafg \in Nat /\ Zrwafg <= Zrwa

Zones == 0 .. NrZones - 1
Opened == {"OPENED_IMPL", "OPENED_EXPL"}
States == {"EMPTY", "CLOSED", "FULL"} \cup Opened
Resources == {"ACTIVE", "OPEN", "ZRWA"}
FlashPage == OneShot * SecsPerPg      \* pgs_per_oneshotpg * pgsz
Unaligned == Cap % FlashPage          \* unaligned_space
Buffers == IF SharedWb THEN {0} ELSE Zones
BufferOf(z) == IF SharedWb THEN 0 ELSE z

VARIABLES
  zns,      \* zones: state, wp, zrwav; resources: acquired_cnt; bug: an
            \* assertion that failed or a fault, which stops the thread
  wb,       \* write buffers: remaining space
  zrwaBuf,  \* ZRWA buffers: remaining space
  pending   \* releases scheduled with the I/O worker, by buffer and size;
            \* whole (history): no command has written a part of a page

vars == <<zns, wb, zrwaBuf, pending>>

Init ==
  /\ zns = [state |-> [z \in Zones |-> "EMPTY"], wp |-> [z \in Zones |-> 0],
            zrwav |-> [z \in Zones |-> FALSE],
            acquired |-> [r \in Resources |-> 0], bug |-> "none"]
  /\ wb = [b \in Buffers |-> WbSize]
  /\ zrwaBuf = [z \in Zones |-> ZrwaBuf]
  /\ pending = [page |-> [b \in Buffers |-> 0], tail |-> [b \in Buffers |-> 0],
                zrwa |-> [z \in Zones |-> 0], whole |-> TRUE]
-----------------------------------------------------------------------------
(* Resources.  An operation takes the zones s and gives the zones after it. *)

IsFull(s, r) == s.acquired[r] = NrZones
Acquire(s, r) == [s EXCEPT !.acquired[r] = @ + 1]

\* ASSERT(acquired_cnt > 0)
Release(s, r) ==
  IF s.acquired[r] = 0 THEN [s EXCEPT !.bug = "release"]
  ELSE [s EXCEPT !.acquired[r] = @ - 1]
ReleaseIf(c, s, r) == IF c THEN Release(s, r) ELSE s

SetState(s, z, st) == [s EXCEPT !.state[z] = st]

\* __increase_write_ptr.  (A zone with a ZRWA that fills up by a write hits
\* ASSERT(0) after it has given its resources back.)
IncreaseWp(s, z, n) ==
  LET moved == [s EXCEPT !.wp[z] = @ + n]
      released == Release(Release(moved, "OPEN"), "ACTIVE")
  IN IF moved.wp[z] # Cap THEN moved
     ELSE IF s.zrwav[z] THEN [released EXCEPT !.bug = "zrwa full"]
     ELSE SetState(released, z, "FULL")
-----------------------------------------------------------------------------
(* Zone management: close, finish, open, reset, flush. *)

CloseZone(s, z) ==
  IF s.state[z] \in Opened THEN Release(SetState(s, z, "CLOSED"), "OPEN") ELSE s

\* Faulty: an open zone keeps its OPEN resource when it is finished.
BugDeactivated(s, z) ==
  IF s.state[z] \notin Opened \cup {"CLOSED"} THEN s
  ELSE ReleaseIf(s.zrwav[z], Release(s, "ACTIVE"), "ZRWA")

\* What an active zone gives back when it is finished or reset.
Deactivated(s, z) ==
  IF s.state[z] \notin Opened \cup {"CLOSED"} THEN s
  ELSE ReleaseIf(s.zrwav[z],
                 Release(ReleaseIf(s.state[z] \in Opened, s, "OPEN"), "ACTIVE"), "ZRWA")

FinishZone(s, z) == SetState(Deactivated(s, z), z, "FULL")

OpenZone(s, z, zrwa) ==
  CASE s.state[z] = "EMPTY" ->
         IF \/ IsFull(s, "ACTIVE") \/ IsFull(s, "OPEN")
            \/ zrwa /\ IsFull(s, "ZRWA") THEN s
         ELSE LET a == Acquire(Acquire(s, "ACTIVE"), "OPEN")
                  b == IF zrwa THEN [Acquire(a, "ZRWA") EXCEPT !.zrwav[z] = TRUE] ELSE a
              IN SetState(b, z, "OPENED_EXPL")
    [] s.state[z] = "CLOSED" ->
         IF IsFull(s, "OPEN") THEN s
         ELSE SetState(Acquire(s, "OPEN"), z, "OPENED_EXPL")
    [] s.state[z] = "OPENED_IMPL" -> SetState(s, z, "OPENED_EXPL")
    [] OTHER -> s

\* Faulty: a zone that is reset keeps its write pointer.
BugResetZone(s, z) == [SetState(Deactivated(s, z), z, "EMPTY") EXCEPT !.zrwav[z] = FALSE]

ResetZone(s, z) ==
  [SetState(Deactivated(s, z), z, "EMPTY") EXCEPT !.wp[z] = 0, !.zrwav[z] = FALSE]

\* The end of a random write area of k times its size, wp + k * Zrwa - 1, is
\* an unsigned number: it is the largest one if the area has no blocks and
\* the pointer is the first block of the device.
InZrwa(s, z, lba, k) ==
  /\ lba >= s.wp[z]
  /\ \/ lba < s.wp[z] + k * Zrwa
     \/ Zrwa = 0 /\ z = 0 /\ s.wp[z] = 0

\* An explicit flush of the ZRWA up to block lba.  Its length is divided by
\* Zrwafg, be that zero or not.
FlushZrwa(s, z, lba) ==
  LET moved == [s EXCEPT !.wp[z] = lba + 1]
  IN IF s.bug # "none" \/ ~ s.zrwav[z] \/ ~ InZrwa(s, z, lba, 1) THEN s
     ELSE IF Zrwafg = 0 THEN [s EXCEPT !.bug = "division"]
     ELSE IF \/ s.state[z] \notin Opened \cup {"CLOSED"}
             \/ (lba - s.wp[z] + 1) % Zrwafg # 0 THEN s
     ELSE IF moved.wp[z] # Cap THEN moved
     ELSE SetState(Deactivated(moved, z), z, "FULL")

Alive == zns.bug = "none"
OneZone(op(_, _)) == \E z \in Zones : zns' = op(zns, z)

\* "select all": the zones in turn.
AllZones(op(_, _)) ==
  LET upTo[n \in 0 .. NrZones] == IF n = 0 THEN zns ELSE op(upTo[n - 1], n - 1)
  IN zns' = upTo[NrZones]

CloseCmd ==
  /\ Alive /\ (OneZone(CloseZone) \/ AllZones(CloseZone))
  /\ UNCHANGED <<wb, zrwaBuf, pending>>
FinishCmd ==
  /\ Alive /\ (OneZone(FinishZone) \/ AllZones(FinishZone))
  /\ UNCHANGED <<wb, zrwaBuf, pending>>
OpenCmd == \E zrwa \in BOOLEAN : LET Open(s, z) == OpenZone(s, z, zrwa) IN
  /\ Alive /\ (OneZone(Open) \/ AllZones(Open))
  /\ UNCHANGED <<wb, zrwaBuf, pending>>
FlushCmd ==
  /\ Alive
  /\ \/ \E lba \in 0 .. Cap - 1 : OneZone(LAMBDA s, z : FlushZrwa(s, z, lba))
     \/ AllZones(LAMBDA s, z : FlushZrwa(s, z, 0))
  /\ UNCHANGED <<wb, zrwaBuf, pending>>

BufferRefill(z) == zrwaBuf' = [zrwaBuf EXCEPT ![z] = ZrwaBuf]

\* The ZRWA buffer of a zone that is reset is refilled, releases of it that
\* are still to come or not.  The write buffer is not.
ResetCmd ==
  /\ Alive
  /\ \/ \E z \in Zones : zns' = ResetZone(zns, z) /\ BufferRefill(z)
     \/ AllZones(ResetZone) /\ zrwaBuf' = [z \in Zones |-> ZrwaBuf]
  /\ UNCHANGED <<wb, pending>>
-----------------------------------------------------------------------------
(* Writes, of zones without and with a random write area. *)

\* What a buffer with that much space left gives: all that is asked for, or nothing.
BufferAllocate(remaining, size) == IF remaining < size THEN 0 ELSE size

ValidRange(off, n) == n % WriteUnit = 0 /\ off + n <= Cap

MayWrite(s, z) ==
  CASE s.state[z] = "EMPTY"  -> ~ IsFull(s, "ACTIVE") /\ ~ IsFull(s, "OPEN")
    [] s.state[z] = "CLOSED" -> ~ IsFull(s, "OPEN")
    [] OTHER                 -> s.state[z] \in Opened

OpenToWrite(s, z) ==
  CASE s.state[z] = "EMPTY"  -> SetState(Acquire(Acquire(s, "ACTIVE"), "OPEN"), z, "OPENED_IMPL")
    [] s.state[z] = "CLOSED" -> SetState(Acquire(s, "OPEN"), z, "OPENED_IMPL")
    [] OTHER                 -> s

PageOf(lba) == lba \div SecsPerPg      \* lba_to_lpn
LastPage == Cap \div SecsPerPg - 1     \* zone_elpn

\* How many of the pages from first to last are the last of a flash page.
Ends(first, last) == Cardinality({p \in first .. last : (p + 1) % OneShot = 0})

\* Faulty: the odd end of a zone counts as a flash page as well.
BugProgrammed(off, n) ==
  Cardinality({p \in PageOf(off) .. PageOf(off + n - 1) : (p + 1) % OneShot = 0 \/ p = LastPage})

\* The flash pages that a write of n blocks at off has programmed: those whose
\* last page it touches, whether or not it or an earlier write filled them.
Programmed(off, n) == Ends(PageOf(off), PageOf(off + n - 1))
EndsUnaligned(off, n) == IF PageOf(off + n - 1) = LastPage /\ Unaligned > 0 THEN 1 ELSE 0
WholePages(off, n) == off % SecsPerPg = 0 /\ n % SecsPerPg = 0

\* __zns_write.  The space is taken before the command is checked, and a
\* command that fails keeps it.  Without space nothing happens: the command
\* stays in its queue.  (An append is a write at the write pointer.)
Write(z, off, n) ==
  LET b == BufferOf(z) IN
  /\ Alive
  /\ BufferAllocate(wb[b], n) = n
  /\ wb' = [wb EXCEPT ![b] = @ - n]
  /\ IF ValidRange(off, n) /\ off = zns.wp[z] /\ MayWrite(zns, z)
     THEN /\ zns' = IncreaseWp(OpenToWrite(zns, z), z, n)
          /\ pending' = [pending EXCEPT !.page[b] = @ + Programmed(off, n),
                                        !.tail[b] = @ + EndsUnaligned(off, n),
                                        !.whole = @ /\ WholePages(off, n)]
          /\ pending'.whole \/ (pending'.page[b] <= MaxPending /\ pending'.tail[b] <= MaxPending)
     ELSE UNCHANGED <<zns, pending>>
  /\ UNCHANGED zrwaBuf

\* The blocks a write up to elba pushes out of the random write area.
\* (FlushFaults: their number cannot be computed.)
FlushFaults(z, elba) == Zrwafg = 0 /\ elba >= zns.wp[z] + Zrwa
ImplicitFlush(z, elba) ==
  LET over == elba - (zns.wp[z] + Zrwa) + 1
  IN IF FlushFaults(z, elba) THEN 0
     ELSE IF over > 0 THEN ((over + Zrwafg - 1) \div Zrwafg) * Zrwafg
     ELSE IF elba = Cap - 1 THEN elba - zns.wp[z] + 1
     ELSE 0

\* The flash pages that a flush of n blocks from the write pointer programs.
Flushed(wp, n) == Ends(PageOf(wp), PageOf(wp) + n \div SecsPerPg - 1)

\* What stops the thread in a write up to elba, in the order of the code:
\* without ZRWA buffers there is a null pointer in their place.
NoBuffer(z) == zns.state[z] = "CLOSED" /\ ZrwaBuf = 0
ZrwaFault(z, elba) ==
  IF NoBuffer(z) THEN "null"
  ELSE IF FlushFaults(z, elba) THEN "division"
  ELSE IF ImplicitFlush(z, elba) > 0 /\ ZrwaBuf = 0 THEN "null"
  ELSE "none"

\* __zns_write_zrwa.  A zone that is opened takes the space of the area, if
\* there is that much.  If the flush has no room the command stays in its
\* queue, with the zone open and the space of the area taken.
ZrwaWrite(z, off, n) ==
  LET elba == off + n - 1
      opening == zns.state[z] = "CLOSED"
      room == zrwaBuf[z] - (IF opening THEN BufferAllocate(zrwaBuf[z], Zrwa) ELSE 0)
      opened == OpenToWrite(zns, z)
      flush == ImplicitFlush(z, elba)
      fault == ZrwaFault(z, elba)
  IN /\ Alive /\ ValidRange(off, n)
     /\ off >= zns.wp[z] /\ InZrwa(zns, z, elba, 2)
     /\ MayWrite(zns, z)
     /\ pending.zrwa[z] + Flushed(zns.wp[z], flush) <= MaxPending
     /\ IF fault # "none"
        THEN /\ zns' = [(IF NoBuffer(z) THEN Acquire(zns, "OPEN") ELSE opened)
                          EXCEPT !.bug = fault]
             /\ zrwaBuf' = [zrwaBuf EXCEPT ![z] = room]
             /\ UNCHANGED pending
        ELSE IF flush = 0 \/ BufferAllocate(room, flush) = 0
        THEN /\ zns' = opened /\ zrwaBuf' = [zrwaBuf EXCEPT ![z] = room]
             /\ UNCHANGED pending
        ELSE /\ zns' = IncreaseWp(opened, z, flush)
             /\ zrwaBuf' = [zrwaBuf EXCEPT ![z] = room - flush]
             /\ pending' = IF zns'.bug # "none" THEN pending
                           ELSE [pending EXCEPT !.zrwa[z] = @ + Flushed(zns.wp[z], flush)]
     /\ UNCHANGED wb

\* A zone with a random write area is written through it.
WriteCmd(z, off, n) ==
  \/ zns.zrwav[z]   /\ ZrwaWrite(z, off, n)
  \/ ~ zns.zrwav[z] /\ Write(z, off, n)

\* The I/O worker carries a release out: buffer_release.
ReleasePage(b) ==
  /\ pending.page[b] > 0 /\ wb[b] + FlashPage <= MaxSpace
  /\ pending' = [pending EXCEPT !.page[b] = @ - 1]
  /\ wb' = [wb EXCEPT ![b] = @ + FlashPage]
  /\ UNCHANGED <<zns, zrwaBuf>>
ReleaseTail(b) ==
  /\ pending.tail[b] > 0 /\ wb[b] + Unaligned <= MaxSpace
  /\ pending' = [pending EXCEPT !.tail[b] = @ - 1]
  /\ wb' = [wb EXCEPT ![b] = @ + Unaligned]
  /\ UNCHANGED <<zns, zrwaBuf>>
ReleaseZrwa(z) ==
  /\ pending.zrwa[z] > 0 /\ zrwaBuf[z] + FlashPage <= MaxSpace
  /\ pending' = [pending EXCEPT !.zrwa[z] = @ - 1]
  /\ zrwaBuf' = [zrwaBuf EXCEPT ![z] = @ + FlashPage]
  /\ UNCHANGED <<zns, wb>>

Next ==
  \/ CloseCmd \/ FinishCmd \/ OpenCmd \/ ResetCmd \/ FlushCmd
  \/ \E z \in Zones, off \in 0 .. Cap - 1, n \in 1 .. MaxWrite : WriteCmd(z, off, n)
  \/ \E b \in Buffers : ReleasePage(b) \/ ReleaseTail(b)
  \/ \E z \in Zones : ReleaseZrwa(z)

Spec == Init /\ [][Next]_vars
-----------------------------------------------------------------------------
ZonesIn(S) == {z \in Zones : zns.state[z] \in S}
Active == ZonesIn(Opened \cup {"CLOSED"})

TypeOK ==
  /\ zns.state \in [Zones -> States] /\ zns.wp \in [Zones -> 0 .. Cap]
  /\ zns.zrwav \in [Zones -> BOOLEAN]
  /\ zns.acquired \in [Resources -> 0 .. NrZones]
  /\ zns.bug \in {"none", "release", "zrwa full", "division", "null"}
  /\ wb \in [Buffers -> 0 .. MaxSpace]
  /\ \A z \in Zones : zrwaBuf[z] \in 0 .. MaxSpace

\* The counts of resources are the numbers of zones that hold them, so that
\* no resource is ever refused to a zone that may have it and the assertion
\* of release_zone_resource never fails, whatever sequence of commands on
\* single zones and on all zones moved the zones through their states.
ResourcesExact ==
  /\ zns.bug # "release"
  /\ zns.bug = "none" =>
       /\ zns.acquired["OPEN"] = Cardinality(ZonesIn(Opened))
       /\ zns.acquired["ACTIVE"] = Cardinality(Active)
       /\ zns.acquired["ZRWA"] = Cardinality({z \in Active : zns.zrwav[z]})

\* State and write pointer of a zone agree: an empty zone starts at its
\* beginning and has no random write area, and an active zone has room to
\* write, so that a zone written to its end has left the active ones.
ZonesConsistent ==
  /\ TypeOK
  /\ \A z \in Zones :
       /\ zns.state[z] = "EMPTY" => zns.wp[z] = 0 /\ ~ zns.zrwav[z]
       /\ zns.bug = "none" /\ z \in Active => zns.wp[z] < Cap

\* The blocks of b that no flash page will give back yet: those of a flash
\* page that is written in part, in an active zone.
Unprogrammed(b) ==
  {x \in Zones \X (0 .. Cap - 1) :
     /\ BufferOf(x[1]) = b /\ x[1] \in Active /\ ~ zns.zrwav[x[1]]
     /\ x[2] < zns.wp[x[1]] /\ x[2] \div FlashPage = zns.wp[x[1]] \div FlashPage}

\* As long as commands write whole pages, the space of a write buffer that is
\* left, that is to be released and that the unprogrammed end of each zone
\* holds is never more than its size: the flash pages of a zone, its odd last
\* one included, give back what they took and no more, however writes,
\* resets and releases interleave.  (Writes of parts of a page, which a write
\* unit of less than a page allows, are given back several times over.)
BufferNeverOverdrawn == pending.whole => \A b \in Buffers :
  wb[b] + pending.page[b] * FlashPage + pending.tail[b] * Unaligned
    + Cardinality(Unprogrammed(b)) <= WbSize
=============================================================================
