------------------------------- MODULE IoPath -------------------------------
(***************************************************************************)
(* The live I/O path of the device.  Dispatcher threads (main.c, io.c)     *)
(* poll the doorbells, split every command into pieces, send the pieces to *)
(* the FTL threads over the in_que rings, collect the answers from the     *)
(* out_que rings, and post a completion when the last piece of a command   *)
(* has come back and its emulated latency has passed.  FTL threads         *)
(* (sgx_ftl.cpp) poll their rings for ever.  The host driver is external.  *)
(* A ring slot is Empty when its is_completed flag is clear (FlagRing      *)
(* shows that the flag protocol makes this sound).                         *)
(***************************************************************************)
EXTENDS Integers, Sequences, FiniteSets, SequencesExt

CONSTANTS
  NrQueues,      \* I/O queue pairs, numbered from 1 (sqid = cqid)
  NrDispatcher,  \* dispatcher threads
  NrFTL,         \* FTL threads (nr_io_workers): 1 or 2
  QSize,         \* entries of a submission or completion queue
  InSize,        \* in_que_size
  OutSize,       \* out_que_size
  Units,         \* FTL_split_units
  Ratio,         \* split_ratio
  Requests,      \* bound: the <<slba, nlb>> pairs the host asks for
  Lats,          \* bound: the latencies an FTL thread computes for a piece
  HackNum,       \* commands completed at once after start-up (200)
  MaxCmds,       \* bound: commands issued in a behaviour
  MaxTime        \* bound: the last tick of the clock

ASSUME IoPathAssumption ==
  /\ {NrQueues, NrDispatcher, InSize, OutSize, Units, Ratio} \subseteq Nat \ {0}
  /\ NrFTL \in {1, 2} /\ QSize \in Nat \ {0, 1}
  /\ HackNum \in Nat /\ MaxCmds \in Nat /\ MaxTime \in Nat
  /\ Requests \subseteq Nat \X (Nat \ {0}) /\ Lats \subseteq Nat /\ 0 \in Lats

Queues      == 1 .. NrQueues
Dispatchers == 0 .. NrDispatcher - 1
FTLs        == 0 .. NrFTL - 1
Entries     == 0 .. QSize - 1
Cids        == 1 .. QSize - 1   \* the driver's tags: one fewer than entries
ReqIds      == 0 .. QSize       \* internal_req; the free list starts at 1
Time        == 0 .. MaxTime

Empty == [q |-> 0]              \* a ring slot whose is_completed is clear

VARIABLES
  host,       \* of each queue: sqTail, cqHead, phase, the tags in use
  issued,     \* commands the host has issued
  sqMem, sqDb,      \* submission queue entries and tail doorbells
  cqMem, cqDb, irq, \* completion queue entries, head doorbells, interrupts
  dev,        \* of each queue: the device's nvmev_submission_queue,
              \* nvmev_completion_queue and nvmev_request_queue
  disp,       \* of each dispatcher: where it is and its local variables
  completed,  \* completed_list of each dispatcher
  inQue, inTail, inHead,     \* rings to the FTL threads
  outQue, outTail, outHead,  \* rings from the FTL threads
  ftl, pq,    \* of each FTL thread: where it is, its answers not yet sent
  hackLeft,   \* hack_num
  now,        \* ktime_get_ns()
  work        \* history: of each command slot, the blocks no FTL thread has
              \* served yet and the time its service ends

hostVars == <<host, issued, sqMem, sqDb, cqDb>>
ringIn   == <<inQue, inTail, inHead>>
ringOut  == <<outQue, outTail, outHead>>
vars == <<hostVars, cqMem, irq, dev, disp, completed, ringIn, ringOut, ftl, pq,
          hackLeft, now, work>>
-----------------------------------------------------------------------------
\* (An operator named Bug... is the operator after it with a plausible mistake
\* in it; the mutants listed in PROJECT.json put it in that operator's place.)
Succ(i, size) == IF i + 1 >= size THEN 0 ELSE i + 1

BugDistanceInclusive(from, to) == (IF to < from THEN to - from + QSize ELSE to - from) + 1

\* How far a doorbell has moved.
Distance(from, to) == IF to < from THEN to - from + QSize ELSE to - from
MaxOf(a, b) == IF a >= b THEN a ELSE b

\* The FTL thread a command starts at, and the most blocks of a command that
\* go to an FTL thread in one piece.
FirstFTL(slpa) == IF NrFTL = 1 \/ (slpa \div Units) % (1 + Ratio) = 0 THEN 0 ELSE 1
BugSegUnitsSwapped(f) == IF f = 0 THEN Ratio * Units ELSE Units
SegUnits(f) == IF f = 0 THEN Units ELSE Ratio * Units

Init ==
  /\ host = [q \in Queues |-> [sqTail |-> 0, cqHead |-> 0, phase |-> 1, busy |-> {}]]
  /\ issued = 0
  /\ sqMem = [q \in Queues |-> [e \in Entries |-> [cid |-> 0, slba |-> 0, nlb |-> 0]]]
  /\ cqMem = [q \in Queues |-> [e \in Entries |-> [cid |-> 0, phase |-> 0]]]
  /\ sqDb = [q \in Queues |-> 0] /\ cqDb = [q \in Queues |-> 0]
  /\ irq = [q \in Queues |-> FALSE]
  /\ dev = [q \in Queues |->
        [oldSq |-> 0, oldCq |-> 0, head |-> 0, phase |-> 1, ready |-> FALSE,
         inFlight |-> 0, tag |-> [c \in Cids |-> 0],
         free |-> [i \in 1 .. QSize |-> i],
         req |-> [r \in ReqIds |->
                    [flight |-> FALSE, cid |-> 0, left |-> 0, start |-> 0, end |-> 0]]]]
  /\ disp = [d \in Dispatchers |->
        [pc |-> "sq", q |-> d + 1, todo |-> 0, entry |-> 0, f |-> 0,
         slpa |-> 0, nlb |-> 0, req |-> 0, tick |-> 0, hack |-> 0]]
  /\ completed = [d \in Dispatchers |-> <<>>]
  /\ inQue = [d \in Dispatchers |-> [f \in FTLs |-> [i \in 0 .. InSize - 1 |-> Empty]]]
  /\ outQue = [d \in Dispatchers |-> [f \in FTLs |-> [i \in 0 .. OutSize - 1 |-> Empty]]]
  /\ inTail = [d \in Dispatchers |-> [f \in FTLs |-> 0]] /\ inHead = inTail
  /\ outTail = inTail /\ outHead = inTail
  /\ ftl = [f \in FTLs |-> [pc |-> "req", d |-> 0]]
  /\ pq = [f \in FTLs |-> [d \in Dispatchers |-> <<>>]]
  /\ hackLeft = HackNum
  /\ now = 0
  /\ work = [q \in Queues |-> [c \in Cids |-> [left |-> {}, due |-> 0]]]
-----------------------------------------------------------------------------
(* The host driver. *)

\* A command with a free tag is written at the tail and the doorbell rung.
Submit(q) ==
  /\ issued < MaxCmds
  /\ \E rq \in Requests, c \in Cids \ host[q].busy :
       /\ sqMem' = [sqMem EXCEPT ![q][host[q].sqTail] =
                                   [cid |-> c, slba |-> rq[1], nlb |-> rq[2]]]
       /\ host' = [host EXCEPT ![q].sqTail = Succ(@, QSize), ![q].busy = @ \cup {c}]
       /\ work' = [work EXCEPT ![q][c] =
                                 [left |-> rq[1] .. rq[1] + rq[2] - 1, due |-> 0]]
  /\ sqDb' = [sqDb EXCEPT ![q] = Succ(host[q].sqTail, QSize)]
  /\ issued' = issued + 1
  /\ UNCHANGED <<cqDb, cqMem, irq, dev, disp, completed, ringIn, ringOut, ftl, pq,
                 hackLeft, now>>

\* The k-th completion entry from the host's head, and whether its phase tag
\* says that it is new.
EntryAt(q, k) == (host[q].cqHead + k) % QSize
IsNew(q, k) ==
  cqMem[q][EntryAt(q, k)].phase =
    IF host[q].cqHead + k < QSize THEN host[q].phase ELSE 1 - host[q].phase
NewEntries(q) == {k \in 0 .. QSize - 1 : \A j \in 0 .. k : IsNew(q, j)}
NewCids(q) == {cqMem[q][EntryAt(q, k)].cid : k \in NewEntries(q)}

\* The interrupt handler takes every new completion and frees its tag.
Reap(q) ==
  /\ irq[q]
  /\ cqDb[q] = host[q].cqHead
  /\ irq' = [irq EXCEPT ![q] = FALSE]
  /\ LET n == Cardinality(NewEntries(q)) IN
     host' = [host EXCEPT ![q].busy = @ \ NewCids(q),
                          ![q].cqHead = (@ + n) % QSize,
                          ![q].phase = IF host[q].cqHead + n >= QSize THEN 1 - @ ELSE @]
  /\ UNCHANGED <<issued, sqMem, sqDb, cqDb, cqMem, dev, disp, completed, ringIn, ringOut,
                 ftl, pq, hackLeft, now, work>>

\* Before it returns the handler rings the head doorbell.
RingCq(q) ==
  /\ cqDb[q] # host[q].cqHead
  /\ cqDb' = [cqDb EXCEPT ![q] = host[q].cqHead]
  /\ UNCHANGED <<host, issued, sqMem, sqDb, cqMem, irq, dev, disp, completed, ringIn,
                 ringOut, ftl, pq, hackLeft, now, work>>

Tick == /\ now < MaxTime
        /\ now' = now + 1
        /\ UNCHANGED <<hostVars, cqMem, irq, dev, disp, completed, ringIn, ringOut, ftl, pq,
                       hackLeft, work>>
-----------------------------------------------------------------------------
(* A dispatcher's pass: its submission queues, its completion queues, the  *)
(* answers of each FTL thread, the interrupts.                             *)

At(d, pc) == disp[d].pc = pc

\* The dispatcher's state after it is done with queue disp[d].q in a loop
\* over its queues: the next one, or the loop's end.
NextQueue(d, loop, end) ==
  IF disp[d].q + NrDispatcher <= NrQueues
  THEN [disp[d] EXCEPT !.pc = loop, !.q = @ + NrDispatcher, !.entry = 0,
                       !.slpa = 0, !.req = 0, !.f = 0]
  ELSE [disp[d] EXCEPT !.pc = end, !.q = d + 1, !.entry = 0,
                       !.slpa = 0, !.req = 0, !.f = 0]

\* A completion entry is written at the device's head of queue q.
Post(q, cid) ==
  cqMem' = [cqMem EXCEPT ![q][dev[q].head] = [cid |-> cid, phase |-> dev[q].phase]]
BugPostedInPlace(s) == [s EXCEPT !.ready = TRUE]
BugPostedSamePhase(s) == [s EXCEPT !.head = Succ(@, QSize), !.ready = TRUE]
Posted(s) ==
  [s EXCEPT !.head = Succ(@, QSize),
            !.phase = IF s.head + 1 = QSize THEN 1 - @ ELSE @,
            !.ready = TRUE]

\* One submission queue: are there new entries?
ProcSq(d) ==
  /\ At(d, "sq")
  /\ LET q == disp[d].q IN
     disp' = [disp EXCEPT ![d] =
        IF q \notin Queues THEN [@ EXCEPT !.pc = "deq", !.q = d + 1]
        ELSE IF sqDb[q] # dev[q].oldSq
        THEN [@ EXCEPT !.pc = "io", !.entry = dev[q].oldSq,
                       !.todo = Distance(dev[q].oldSq, sqDb[q])]
        ELSE NextQueue(d, "sq", "cq")]
  /\ UNCHANGED <<hostVars, cqMem, irq, dev, completed, ringIn, ringOut, ftl, pq, hackLeft,
                 now, work>>

\* What nvmev_proc_io_sq does when it is done with an entry: q's counters,
\* the next entry or the next queue.
Dispatched(d, s) ==
  [s EXCEPT !.inFlight = @ + 1,
            !.oldSq = IF disp[d].todo = 1 THEN Succ(disp[d].entry, QSize) ELSE @]
AfterEntry(d) ==
  IF disp[d].todo = 1 THEN [NextQueue(d, "sq", "cq") EXCEPT !.todo = 0, !.nlb = 0]
  ELSE [disp[d] EXCEPT !.pc = "io", !.todo = @ - 1, !.entry = Succ(@, QSize),
                       !.slpa = 0, !.nlb = 0, !.req = 0, !.f = 0]

\* The first HackNum commands are completed at once.  hack_num is shared and
\* its decrement not atomic: it is read ...
ReadHack(d) ==
  /\ At(d, "io")
  /\ hackLeft > 0
  /\ disp' = [disp EXCEPT ![d].pc = "hack", ![d].hack = hackLeft]
  /\ UNCHANGED <<hostVars, cqMem, irq, dev, completed, ringIn, ringOut, ftl, pq, hackLeft,
                 now, work>>

\* ... and written back, whatever other dispatchers have made of it meanwhile.
HackIo(d) ==
  /\ At(d, "hack")
  /\ hackLeft' = disp[d].hack - 1
  /\ LET q == disp[d].q
         c == sqMem[q][disp[d].entry].cid
     IN /\ Post(q, c)
        /\ dev' = [dev EXCEPT ![q] = Dispatched(d, Posted(@))]
        /\ work' = [work EXCEPT ![q][c] = [left |-> {}, due |-> now]]
  /\ disp' = [disp EXCEPT ![d] = [AfterEntry(d) EXCEPT !.hack = 0]]
  /\ UNCHANGED <<hostVars, irq, completed, ringIn, ringOut, ftl, pq, now>>

\* Any other command takes an internal request from the free list.
StartIo(d) ==
  /\ At(d, "io")
  /\ hackLeft = 0
  /\ LET q == disp[d].q
         cmd == sqMem[q][disp[d].entry]
         r == Head(dev[q].free)
     IN /\ dev' = [dev EXCEPT ![q].free = Tail(@), ![q].tag[cmd.cid] = r,
                     ![q].req[r] = [@ EXCEPT !.flight = TRUE, !.cid = cmd.cid,
                                             !.start = now, !.end = now]]
        /\ disp' = [disp EXCEPT ![d].pc = "split", ![d].slpa = cmd.slba,
                      ![d].nlb = cmd.nlb, ![d].req = r, ![d].f = FirstFTL(cmd.slba)]
  /\ UNCHANGED <<hostVars, cqMem, irq, completed, ringIn, ringOut, ftl, pq, hackLeft,
                 now, work>>

\* One piece of the command goes to the next FTL thread's ring.  A slot that
\* is still full is overwritten.
EnqueuePiece(d) ==
  /\ At(d, "split")
  /\ LET q == disp[d].q
         f == disp[d].f
         r == disp[d].req
         n == IF disp[d].nlb <= SegUnits(f) THEN disp[d].nlb ELSE SegUnits(f)
         sent == [dev[q] EXCEPT !.req[r].left = @ + 1]
     IN /\ inQue' = [inQue EXCEPT ![d][f][inTail[d][f]] =
                       [q |-> q, cid |-> dev[q].req[r].cid, slpa |-> disp[d].slpa,
                        nlb |-> n, nsecs |-> dev[q].req[r].start]]
        /\ inTail' = [inTail EXCEPT ![d][f] = Succ(@, InSize)]
        /\ IF n = disp[d].nlb
           THEN /\ dev' = [dev EXCEPT ![q] = Dispatched(d, sent)]
                /\ disp' = [disp EXCEPT ![d] = AfterEntry(d)]
           ELSE /\ dev' = [dev EXCEPT ![q] = sent]
                /\ disp' = [disp EXCEPT ![d].slpa = @ + n, ![d].nlb = @ - n,
                                        ![d].f = Succ(@, NrFTL)]
  /\ UNCHANGED <<hostVars, cqMem, irq, completed, inHead, ringOut, ftl, pq, hackLeft,
                 now, work>>

\* One completion queue: the host has taken the entries before the doorbell.
ProcCq(d) ==
  /\ At(d, "cq")
  /\ LET q == disp[d].q IN
     dev' = [dev EXCEPT ![q].inFlight = @ - Distance(dev[q].oldCq, cqDb[q]),
                        ![q].oldCq = cqDb[q]]
  /\ disp' = [disp EXCEPT ![d] = NextQueue(d, "cq", "deq")]
  /\ UNCHANGED <<hostVars, cqMem, irq, completed, ringIn, ringOut, ftl, pq, hackLeft,
                 now, work>>

\* A finished request is inserted behind the first one of the completed list
\* that does not end before it.
EndOf(x) == dev[x[1]].req[x[2]].end
PushCompleted(list, x, end) ==
  LET later == {i \in DOMAIN list : end <= EndOf(list[i])}
  IN  IF later = {} THEN Append(list, x)
      ELSE InsertAt(list, (CHOOSE i \in later : \A j \in later : i <= j) + 1, x)

\* Only the first request of the completed list is looked at.
IsDue(list, t) == list # <<>> /\ t >= EndOf(Head(list))

\* Where the dispatcher goes when the clock said t and list is what is left
\* of its completed list: it completes the first request if that is due, and
\* turns to the next FTL thread otherwise.
AfterAnswers(d, list, t) ==
  IF IsDue(list, t)
  THEN [disp[d] EXCEPT !.pc = "fill", !.tick = t]
  ELSE IF disp[d].f + 1 < NrFTL
  THEN [disp[d] EXCEPT !.pc = "deq", !.f = @ + 1, !.tick = 0]
  ELSE [disp[d] EXCEPT !.pc = "irq", !.f = 0, !.tick = 0]

BugAnsweredLastEnd(rq, ans) ==
  [rq EXCEPT !.left = @ - 1, !.end = ans.nsecs, !.cid = IF rq.left = 1 THEN ans.cid ELSE @]
BugAnsweredNoCount(rq, ans) ==
  [rq EXCEPT !.left = IF @ = 1 THEN 0 ELSE @, !.end = MaxOf(@, ans.nsecs), !.cid = ans.cid]

\* A request after the answer ans for one of its pieces.  The last answer is
\* copied into the request.
Answered(rq, ans) ==
  [rq EXCEPT !.left = @ - 1,
             !.end = MaxOf(@, ans.nsecs),
             !.cid = IF rq.left = 1 THEN ans.cid ELSE @]

\* One answer of FTL thread disp[d].f is taken; when there is none left the
\* clock is read.
Dequeue(d) ==
  /\ At(d, "deq")
  /\ LET f == disp[d].f
         ans == outQue[d][f][outHead[d][f]]
     IN IF ans = Empty
        THEN /\ disp' = [disp EXCEPT ![d] = AfterAnswers(d, completed[d], now)]
             /\ UNCHANGED <<dev, completed, outQue, outHead>>
        ELSE LET r == dev[ans.q].tag[ans.cid]
                 rq == Answered(dev[ans.q].req[r], ans)
             IN /\ dev' = [dev EXCEPT ![ans.q].req[r] = rq]
                /\ completed' = IF rq.left # 0 THEN completed
                     ELSE [completed EXCEPT ![d] = PushCompleted(@, <<ans.q, r>>, rq.end)]
                /\ outQue' = [outQue EXCEPT ![d][f][outHead[d][f]] = Empty]
                /\ outHead' = [outHead EXCEPT ![d][f] = Succ(@, OutSize)]
                /\ UNCHANGED disp
  /\ UNCHANGED <<hostVars, cqMem, irq, ringIn, outTail, ftl, pq, hackLeft, now, work>>

BugFreedTagKept(s, r, c) == [s EXCEPT !.free = Append(@, r), !.req[r].flight = FALSE]

\* Request r of command identifier c goes back to the free list.
Freed(s, r, c) ==
  [s EXCEPT !.tag[c] = 0, !.free = Append(@, r), !.req[r].flight = FALSE]

BugFillCqNotRemoved(d) ==
  /\ At(d, "fill")
  /\ LET x == Head(completed[d])
     IN /\ Post(x[1], dev[x[1]].req[x[2]].cid)
        /\ dev' = [dev EXCEPT ![x[1]] = Posted(@)]
  /\ disp' = [disp EXCEPT ![d] = AfterAnswers(d, Tail(completed[d]), disp[d].tick)]
  /\ UNCHANGED <<hostVars, irq, completed, ringIn, ringOut, ftl, pq, hackLeft, now, work>>

\* The first request of the completed list, which is due, is completed.
FillCq(d) ==
  /\ At(d, "fill")
  /\ LET q == Head(completed[d])[1]
         r == Head(completed[d])[2]
         c == dev[q].req[r].cid
     IN /\ Post(q, c)
        /\ dev' = [dev EXCEPT ![q] = Freed(Posted(@), r, c)]
        /\ completed' = [completed EXCEPT ![d] = Tail(@)]
  /\ disp' = [disp EXCEPT ![d] = AfterAnswers(d, Tail(completed[d]), disp[d].tick)]
  /\ UNCHANGED <<hostVars, irq, ringIn, ringOut, ftl, pq, hackLeft, now, work>>

\* An interrupt for every own completion queue with new entries.
RaiseIrq(d) ==
  /\ At(d, "irq")
  /\ LET mine == {q \in Queues : (q - 1) % NrDispatcher = d /\ dev[q].ready} IN
     /\ irq' = [q \in Queues |-> irq[q] \/ q \in mine]
     /\ dev' = [q \in Queues |-> IF q \in mine THEN [dev[q] EXCEPT !.ready = FALSE]
                                               ELSE dev[q]]
  /\ disp' = [disp EXCEPT ![d].pc = "sq", ![d].q = d + 1]
  /\ UNCHANGED <<hostVars, cqMem, completed, ringIn, ringOut, ftl, pq, hackLeft, now, work>>

Dispatcher(d) ==
  \/ ProcSq(d) \/ ReadHack(d) \/ HackIo(d) \/ StartIo(d) \/ EnqueuePiece(d) \/ ProcCq(d)
  \/ Dequeue(d) \/ FillCq(d) \/ RaiseIrq(d)
-----------------------------------------------------------------------------
(* An FTL thread's pass: one request of each dispatcher, then all answers. *)

BugNextAnswersSkip(f, d, p) ==
  LET owed == {i \in Dispatchers : i > d /\ p[f][i] # <<>>} IN
  IF owed = {} THEN [pc |-> "req", d |-> 0]
  ELSE [pc |-> "resp", d |-> CHOOSE i \in owed : \A j \in owed : i <= j]

\* The next dispatcher from d on that FTL thread f, its answers being p, has
\* an answer for; the thread polls its requests again when there is none.
NextAnswers(f, d, p) ==
  LET owed == {i \in Dispatchers : i >= d /\ p[f][i] # <<>>} IN
  IF owed = {} THEN [pc |-> "req", d |-> 0]
  ELSE [pc |-> "resp", d |-> CHOOSE i \in owed : \A j \in owed : i <= j]

\* A piece is read, served and its slot given back in one step.  The code reads
\* the slot's fields one after the other until it clears the flag: the step
\* stands for that as long as nobody overwrites the slot meanwhile (NoOverrun).
CheckReq(f) ==
  /\ ftl[f].pc = "req"
  /\ LET d == ftl[f].d
         p == inQue[d][f][inHead[d][f]]
     IN /\ IF p = Empty THEN UNCHANGED <<inQue, inHead, pq, work>>
           ELSE /\ \E lat \in Lats :
                     LET end == IF p.nsecs + lat <= MaxTime THEN p.nsecs + lat ELSE MaxTime
                     IN /\ pq' = [pq EXCEPT ![f][d] =
                                    <<[q |-> p.q, cid |-> p.cid, nsecs |-> end]>> \o @]
                        /\ work' = [work EXCEPT ![p.q][p.cid] =
                              [left |-> @.left \ (p.slpa .. p.slpa + p.nlb - 1),
                               due |-> MaxOf(@.due, end)]]
                /\ inQue' = [inQue EXCEPT ![d][f][inHead[d][f]] = Empty]
                /\ inHead' = [inHead EXCEPT ![d][f] = Succ(@, InSize)]
        /\ ftl' = [ftl EXCEPT ![f] = IF d + 1 < NrDispatcher THEN [@ EXCEPT !.d = d + 1]
                                     ELSE NextAnswers(f, 0, pq')]
  /\ UNCHANGED <<hostVars, cqMem, irq, dev, disp, completed, inTail, ringOut, hackLeft, now>>

\* The latest answer first; a full slot is waited for.
CheckResp(f) ==
  /\ ftl[f].pc = "resp"
  /\ LET d == ftl[f].d IN
     /\ outQue[d][f][outTail[d][f]] = Empty
     /\ outQue' = [outQue EXCEPT ![d][f][outTail[d][f]] = Head(pq[f][d])]
     /\ outTail' = [outTail EXCEPT ![d][f] = Succ(@, OutSize)]
     /\ pq' = [pq EXCEPT ![f][d] = Tail(@)]
     /\ ftl' = [ftl EXCEPT ![f] = NextAnswers(f, d, pq')]
  /\ UNCHANGED <<hostVars, cqMem, irq, dev, disp, completed, ringIn, outHead, hackLeft,
                 now, work>>

FTL(f) == CheckReq(f) \/ CheckResp(f)
-----------------------------------------------------------------------------
Host(q) == Submit(q) \/ Reap(q) \/ RingCq(q)

Next == \/ \E q \in Queues : Host(q)
        \/ \E d \in Dispatchers : Dispatcher(d)
        \/ \E f \in FTLs : FTL(f)
        \/ Tick

Spec == Init /\ [][Next]_vars

\* Every thread has a CPU of its own and never sleeps; the host serves its
\* interrupts; the clock runs.  Nothing makes the host submit.
Fairness == /\ \A d \in Dispatchers : WF_vars(Dispatcher(d))
            /\ \A f \in FTLs : WF_vars(FTL(f))
            /\ \A q \in Queues : WF_vars(Reap(q)) /\ WF_vars(RingCq(q))
            /\ WF_vars(Tick)

FairSpec == Spec /\ Fairness
-----------------------------------------------------------------------------
Piece  == [q : Queues, cid : Cids, slpa : Nat, nlb : Nat \ {0}, nsecs : Time]
Answer == [q : Queues, cid : Cids, nsecs : Time]
Request == [flight : BOOLEAN, cid : Cids \cup {0}, left : Int, start : Time, end : Time]
Driver == [sqTail : Entries, cqHead : Entries, phase : {0, 1}, busy : SUBSET Cids]
Device == [oldSq : Entries, oldCq : Entries, head : Entries, phase : {0, 1},
           ready : BOOLEAN, inFlight : Int, tag : [Cids -> ReqIds],
           free : Seq(ReqIds), req : [ReqIds -> Request]]
Thread == [pc : {"sq", "io", "hack", "split", "cq", "deq", "fill", "irq"},
           q : Nat, todo : Int, entry : Entries, f : FTLs, slpa : Nat, nlb : Nat,
           req : ReqIds, tick : Time, hack : 0 .. HackNum]

TypeOK ==
  /\ host \in [Queues -> Driver] /\ issued \in 0 .. MaxCmds
  /\ sqMem \in [Queues -> [Entries -> [cid : Cids \cup {0}, slba : Nat, nlb : Nat]]]
  /\ cqMem \in [Queues -> [Entries -> [cid : Cids \cup {0}, phase : {0, 1}]]]
  /\ sqDb \in [Queues -> Entries] /\ cqDb \in [Queues -> Entries]
  /\ irq \in [Queues -> BOOLEAN]
  /\ dev \in [Queues -> Device]
  /\ disp \in [Dispatchers -> Thread]
  /\ completed \in [Dispatchers -> Seq(Queues \X ReqIds)]
  /\ inQue \in [Dispatchers -> [FTLs -> [0 .. InSize - 1 -> Piece \cup {Empty}]]]
  /\ outQue \in [Dispatchers -> [FTLs -> [0 .. OutSize - 1 -> Answer \cup {Empty}]]]
  /\ {inTail, inHead} \subseteq [Dispatchers -> [FTLs -> 0 .. InSize - 1]]
  /\ {outTail, outHead} \subseteq [Dispatchers -> [FTLs -> 0 .. OutSize - 1]]
  /\ ftl \in [FTLs -> [pc : {"req", "resp"}, d : Dispatchers]]
  /\ pq \in [FTLs -> [Dispatchers -> Seq(Answer)]]
  /\ hackLeft \in 0 .. HackNum /\ now \in Time
  /\ work \in [Queues -> [Cids -> [left : SUBSET Nat, due : Time]]]

\* The device implements its promise to the host: every command completed
\* once, and no completion for a command the host did not send.
Slots == Queues \X Cids
Service == INSTANCE NvmeService WITH
  status <- [s \in Slots |-> IF s[2] \notin host[s[1]].busy THEN "free"
                             ELSE IF s[2] \in NewCids(s[1]) THEN "done" ELSE "queued"]
ImplementsService == Service!Spec

\* A completion is posted only when every block of the command has been
\* served by an FTL thread, and never before the latest end of that service.
ServedBeforePosted ==
  [][\A q \in Queues : \A e \in Entries : cqMem'[q][e] # cqMem[q][e] =>
       LET w == work'[q][cqMem'[q][e].cid] IN w.left = {} /\ w.due <= now]_vars

\* A completion the host has not taken yet is never overwritten: the device
\* does not look at the head doorbell before it posts.
NoCqeLost ==
  [][\A q \in Queues : \A k \in NewEntries(q) :
       cqMem'[q][EntryAt(q, k)] = cqMem[q][EntryAt(q, k)]]_vars

\* The assertion of __enqueue_io_req_to_ftl: the slot at the tail was given
\* back by the FTL thread.
NoOverrun ==
  \A d \in Dispatchers : At(d, "split") =>
    inQue[d][disp[d].f][inTail[d][disp[d].f]] = Empty

\* The assertions of enqueue_io_req_to_ftl when it takes a request.
DispatchAsserts ==
  \A d \in Dispatchers : At(d, "io") /\ hackLeft = 0 =>
    LET q == disp[d].q IN
      /\ dev[q].free # <<>>
      /\ ~ dev[q].req[Head(dev[q].free)].flight
      /\ dev[q].req[Head(dev[q].free)].left = 0
      /\ dev[q].tag[sqMem[q][disp[d].entry].cid] = 0

\* Every internal request is either free or in flight for the one command
\* whose tag leads to it, so that a command is never given a request, or a
\* tag, that another one still uses.
RequestsPartitioned ==
  /\ \A q \in Queues :
       /\ \A i, j \in DOMAIN dev[q].free : dev[q].free[i] = dev[q].free[j] => i = j
       /\ \A r \in 1 .. QSize :
            /\ dev[q].req[r].flight <=> \A i \in DOMAIN dev[q].free : dev[q].free[i] # r
            /\ dev[q].req[r].flight => dev[q].tag[dev[q].req[r].cid] = r
  /\ DispatchAsserts

\* remaining_req is the number of the request's pieces that are in a ring or
\* with an FTL thread.
PiecesOf(q, c) ==
  LET of(p) == p.q = q /\ p.cid = c
      rings(n) == Dispatchers \X FTLs \X (0 .. n - 1)
      owed == UNION {{<<d, f, i>> : i \in DOMAIN pq[f][d]} : d \in Dispatchers, f \in FTLs}
  IN Cardinality({x \in rings(InSize) : of(inQue[x[1]][x[2]][x[3]])})
       + Cardinality({x \in rings(OutSize) : of(outQue[x[1]][x[2]][x[3]])})
       + Cardinality({x \in owed : of(pq[x[2]][x[1]][x[3]])})
PiecesAccounted ==
  /\ TypeOK
  /\ \A q \in Queues : \A r \in 1 .. QSize : dev[q].req[r].flight =>
       dev[q].req[r].left = PiecesOf(q, dev[q].req[r].cid)

\* nr_in_flight, an unsigned counter, covers the commands the device holds.
Dispatching(q) == \E d \in Dispatchers : At(d, "split") /\ disp[d].q = q
InFlightSound ==
  \A q \in Queues :
    LET held == Cardinality({r \in 1 .. QSize : dev[q].req[r].flight})
    IN dev[q].inFlight + (IF Dispatching(q) THEN 1 ELSE 0) >= held

\* The FTL thread whose mapping table holds block b: segments of Units blocks
\* of thread 0 alternate with segments of Ratio * Units blocks of thread 1
\* (the layout the enclave's warm-up writes, and asserts).
Owner(b) == IF NrFTL = 2 /\ (b \div Units) % (1 + Ratio) > 0 THEN 1 ELSE 0

\* Every block of a piece belongs to the FTL thread the piece is sent to:
\* otherwise it is read from, or written to, a mapping table that never holds it.
RoutedToOwner ==
  \A d \in Dispatchers, f \in FTLs : \A i \in DOMAIN inQue[d][f] :
    LET p == inQue[d][f][i] IN
    p # Empty => \A b \in p.slpa .. p.slpa + p.nlb - 1 : Owner(b) = f

\* An FTL thread never holds more than one answer for a dispatcher, so that
\* its pool of flight records cannot run empty.
FlightPoolSuffices == \A f \in FTLs : \A d \in Dispatchers : Len(pq[f][d]) <= 1

\* Every command is completed and its tag given back.
EveryCommandCompletes ==
  \A q \in Queues : \A c \in Cids : (c \in host[q].busy) ~> (c \notin host[q].busy)
=============================================================================
