--------------------------- MODULE IoPath_proofs ---------------------------
(***************************************************************************)
(* Theorems about IoPath, for any number of queues, dispatchers, entries   *)
(* and ring slots.                                                         *)
(***************************************************************************)
EXTENDS IoPathInv

-----------------------------------------------------------------------------
(* What follows for every behaviour. *)

\* Every step keeps the invariant.
LEMMA NextIInv == IInv /\ [Next]_vars => IInv'
<1> SUFFICES ASSUME IInv, [Next]_vars PROVE IInv'
  OBVIOUS
<1>1. CASE \E q \in Queues : Host(q)
  BY <1>1, SubmitKeeps, ReapKeeps, RingCqKeeps DEF Host
<1>2. ASSUME NEW d \in Dispatchers, Dispatcher(d) PROVE IInv'
  BY <1>2, ProcSqKeeps, ReadHackKeeps, HackIoKeeps, StartIoKeeps, EnqueuePieceKeeps,
     ProcCqKeeps, NoAnswerKeeps, AnswerKeeps, FillCqKeeps, RaiseIrqKeeps DEF Dispatcher
<1>3. ASSUME NEW f \in FTLs, FTL(f) PROVE IInv'
  BY <1>3, CheckReqKeeps, CheckRespKeeps DEF FTL
<1>4. CASE Tick \/ UNCHANGED vars
  BY <1>4, RingCqKeeps
<1> QED
  BY <1>1, <1>2, <1>3, <1>4 DEF Next

\* IInv is an invariant of the I/O path.
THEOREM Invariance == Spec => []IInv
BY InitIInv, NextIInv, PTL DEF Spec

\* Every variable keeps its type.  In particular the device never looks for a
\* queue, a tag, a request or a ring slot that does not exist, however many
\* commands, dispatchers and FTL threads there are.
THEOREM Typing == Spec => []TypeOK
<1>1. IInv => TypeOK
  BY DEF IInv
<1> QED
  BY <1>1, Invariance, PTL

\* A dispatcher that is about to take an entry of its queue finds one there.
LEMMA EntryThere ==
  ASSUME IInv, NEW d \in Dispatchers, disp[d].pc \in {"io", "hack"},
         NEW q, q = disp[d].q, NEW e, e = disp[d].entry
  PROVE  /\ q \in Queues /\ DOf(q) = d /\ e \in Entries /\ Cursor(q) = e
         /\ e # host[q].sqTail
         /\ sqMem[q][e].cid \in Cids /\ In(sqMem[q], e, host[q].sqTail, sqMem[q][e].cid)
<1> DEFINE x == disp[d]
           t == host[q].sqTail
<1>1. /\ x \in Thread /\ ThreadOk(d) /\ Batch(x) /\ q \in Queues /\ DOf(q) = d
      /\ x.todo >= 1 /\ x.todo \in Int /\ e \in Entries
  BY ThreadNow, ThreadFields DEF ThreadOk, Batch
<1>2. Cursor(q) = e
  BY <1>1 DEF Cursor, CursorOf
<1>3. /\ host[q] \in Driver /\ t \in Entries
      /\ QueueOk(host[q], sqMem[q], cqMem[q], dev[q], e)
  BY <1>1, <1>2, QueueNow, RecordFacts
<1>4. x.todo <= Distance(e, t)
  <2>1. x.todo - One(x.pc = "split") <= Distance(Cursor(q), t) /\ One(x.pc = "split") = 0
    BY <1>1 DEF ThreadOk, One
  <2> QED
    BY <1>1, <1>2, <2>1
<1>5. e # t
  <2>1. Distance(e, t) # 0
    BY <1>1, <1>4
  <2> QED
    BY <1>1, <1>3, <2>1, DistanceFacts
<1>6. Distinct(sqMem[q], e, t)
  BY <1>3 DEF QueueOk, Placed
<1>7. sqMem[q][e].cid \in Cids /\ In(sqMem[q], e, t, sqMem[q][e].cid)
  <2> HIDE DEF t
  <2> QED
    BY <1>1, <1>3, <1>5, <1>6, Popped DEF t
<1> QED
  BY <1>1, <1>2, <1>5, <1>7

\* A command is never given an internal request that another one still uses,
\* nor one that is not there: the assertions of enqueue_io_req_to_ftl hold.
THEOREM RequestsAreParted == Spec => []RequestsPartitioned
<1>1. ASSUME IInv, NEW q \in Queues
      PROVE  /\ \A i, j \in DOMAIN dev[q].free : dev[q].free[i] = dev[q].free[j] => i = j
             /\ \A r \in 1 .. QSize :
                  /\ dev[q].req[r].flight <=> \A i \in DOMAIN dev[q].free : dev[q].free[i] # r
                  /\ dev[q].req[r].flight => dev[q].tag[dev[q].req[r].cid] = r
  <2>1. Requested(dev[q])
    BY <1>1, QueueNow DEF QueueOk
  <2> QED
    BY <2>1 DEF Requested, Once, On
<1>2. ASSUME IInv, NEW d \in Dispatchers, At(d, "io")
      PROVE  LET q == disp[d].q IN
               /\ dev[q].free # <<>>
               /\ ~ dev[q].req[Head(dev[q].free)].flight
               /\ dev[q].req[Head(dev[q].free)].left = 0
               /\ dev[q].tag[sqMem[q][disp[d].entry].cid] = 0
  <2>1. PICK q, e : q = disp[d].q /\ e = disp[d].entry
    OBVIOUS
  <2>2. disp[d].pc \in {"io", "hack"}
    BY <1>2 DEF At
  <2>3. /\ q \in Queues /\ e \in Entries /\ Cursor(q) = e
        /\ sqMem[q][e].cid \in Cids /\ In(sqMem[q], e, host[q].sqTail, sqMem[q][e].cid)
    BY <1>2, <2>1, <2>2, EntryThere
  <2>4. /\ dev[q] \in Device /\ QueueOk(host[q], sqMem[q], cqMem[q], dev[q], e)
        /\ Requested(dev[q]) /\ dev[q].free \in Seq(ReqIds)
    BY <1>2, <2>3, QueueNow, RecordFacts DEF QueueOk
  <2>5. dev[q].tag[sqMem[q][e].cid] = 0
    <3>1. PICK c : c = sqMem[q][e].cid
      OBVIOUS
    <3>2. c \in Cids /\ In(sqMem[q], e, host[q].sqTail, c)
      BY <2>3, <3>1
    <3>3. Placed(host[q], sqMem[q], cqMem[q], dev[q], e)
      BY <2>4 DEF QueueOk
    <3> QED
      BY <3>1, <3>2, <3>3, InUse
  <2>6. dev[q].free # <<>>
    BY <2>4, RequestLeft
  <2>7. PICK r : r = Head(dev[q].free)
    OBVIOUS
  <2>8. r \in ReqIds /\ On(dev[q].free, r)
    BY <2>4, <2>6, <2>7, TailOnce
  <2>9. r \in 1 .. QSize
    <3>1. r # 0
      BY <2>4, <2>8 DEF Requested
    <3> QED
      BY <2>8, <3>1, IoSizes DEF ReqIds
  <2>10. ~ dev[q].req[r].flight /\ dev[q].req[r].left = 0
    BY <2>4, <2>8, <2>9 DEF Requested
  <2> QED
    BY <2>1, <2>5, <2>6, <2>7, <2>10
<1>3. IInv => RequestsPartitioned
  <2> SUFFICES ASSUME IInv PROVE RequestsPartitioned
    OBVIOUS
  <2>1. DispatchAsserts
    BY <1>2 DEF DispatchAsserts
  <2> QED
    BY <1>1, <2>1 DEF RequestsPartitioned
<1> QED
  BY <1>3, Invariance, PTL

\* An FTL thread sends an answer before it takes the same dispatcher's next
\* request, so that one flight record for each dispatcher is enough.
THEOREM OneAnswerAtATime == Spec => []FlightPoolSuffices
<1>1. IInv => FlightPoolSuffices
  BY DEF IInv, FtlOk, FlightPoolSuffices
<1> QED
  BY <1>1, Invariance, PTL

-----------------------------------------------------------------------------
(* What the host sees: which tags are in use, and which completions wait.  *)

\* The completion of the command c waits for the host.
Waits(q, c) == In(cqMem[q], host[q].cqHead, dev[q].head, c)

\* The completions that wait stay in place.
WaitingKept ==
  \A q \in Queues : \A e \in Entries :
    Inside(host[q].cqHead, dev[q].head, e) => cqMem'[q][e] = cqMem[q][e]

\* What a step may do to a queue, as the host sees it.
Same(q) ==
  host'[q].busy = host[q].busy /\ \A c \in Cids : Waits(q, c)' <=> Waits(q, c)
Submits(q, c) ==
  /\ c \in Cids /\ c \notin host[q].busy /\ host'[q].busy = host[q].busy \cup {c}
  /\ \A k \in Cids : Waits(q, k)' <=> Waits(q, k)
Reaps(q) ==
  /\ \A c \in Cids : c \in host'[q].busy <=> c \in host[q].busy /\ ~ Waits(q, c)
  /\ \A c \in Cids : ~ Waits(q, c)'
Posts(q, c) ==
  /\ c \in Cids /\ c \in host[q].busy /\ ~ Waits(q, c)
  /\ host'[q].busy = host[q].busy
  /\ \A k \in Cids : Waits(q, k)' <=> Waits(q, k) \/ k = c
OneOf(q) == (\E c \in Cids : Submits(q, c) \/ Posts(q, c)) \/ Reaps(q)
Sees(q) == OneOf(q) /\ \A p \in Queues : p # q => Same(p)

\* A step that leaves the host, the completion queues and their heads alone
\* is not seen by the host.
LEMMA UnseenStep ==
  ASSUME UNCHANGED <<host, cqMem>>, \A q \in Queues : dev'[q].head = dev[q].head
  PROVE  WaitingKept /\ \A q \in Queues : Same(q)
BY DEF WaitingKept, Same, Waits

\* So is one that leaves the head of the queue alone whose device state it
\* changes.
LEMMA UnseenDevice ==
  ASSUME IInv, NEW q, NEW w, dev' = [dev EXCEPT ![q] = w], w.head = dev[q].head,
         UNCHANGED <<host, cqMem>>
  PROVE  WaitingKept /\ \A p \in Queues : Same(p)
<1>1. dev \in [Queues -> Device]
  BY DEF IInv, TypeOK
<1>2. \A p \in Queues : dev'[p].head = dev[p].head
  BY <1>1
<1> QED
  BY <1>2, UnseenStep

\* The host fills a slot of the submission queue.
LEMMA SubmitSeen ==
  ASSUME IInv, NEW q \in Queues, Submit(q)
  PROVE  WaitingKept /\ Sees(q)
<1>1. PICK c \in Cids \ host[q].busy :
        host' = [host EXCEPT ![q].sqTail = Succ(@, QSize), ![q].busy = @ \cup {c}]
  BY DEF Submit
<1>2. UNCHANGED <<cqMem, dev>>
  BY DEF Submit
<1>3. host \in [Queues -> Driver] /\ host[q] \in Driver
  BY DEF IInv, TypeOK
<1>4. /\ host'[q] = [host[q] EXCEPT !.sqTail = Succ(@, QSize), !.busy = @ \cup {c}]
      /\ \A p \in Queues : p # q => host'[p] = host[p]
  BY <1>1, <1>3
<1>5. host'[q].busy = host[q].busy \cup {c} /\ host'[q].cqHead = host[q].cqHead
  BY <1>3, <1>4 DEF Driver
<1>6. \A p \in Queues : host'[p].cqHead = host[p].cqHead
  BY <1>4, <1>5
<1>7. \A p \in Queues : \A k \in Cids : Waits(p, k)' <=> Waits(p, k)
  BY <1>2, <1>6 DEF Waits
<1>8. Submits(q, c) /\ \A p \in Queues : p # q => Same(p)
  BY <1>1, <1>4, <1>5, <1>7 DEF Submits, Same
<1>9. WaitingKept
  BY <1>2 DEF WaitingKept
<1> QED
  BY <1>8, <1>9 DEF Sees, OneOf

\* The host takes all the completions that wait.
LEMMA ReapSeen ==
  ASSUME IInv, NEW q \in Queues, Reap(q)
  PROVE  WaitingKept /\ Sees(q)
<1> DEFINE n == Cardinality(NewEntries(q))
           taken == NewCids(q)
           h == host[q]
           g == [h EXCEPT !.busy = @ \ taken, !.cqHead = (@ + n) % QSize,
                          !.phase = IF h.cqHead + n >= QSize THEN 1 - @ ELSE @]
<1>1. /\ host' = [host EXCEPT ![q].busy = @ \ taken, ![q].cqHead = (@ + n) % QSize,
                              ![q].phase = IF host[q].cqHead + n >= QSize THEN 1 - @ ELSE @]
      /\ UNCHANGED <<cqMem, dev>>
  BY DEF Reap
<1>2. host \in [Queues -> Driver] /\ h \in Driver
  BY DEF IInv, TypeOK
<1>3. host'[q] = g /\ \A p \in Queues : p # q => host'[p] = host[p]
  BY <1>1, <1>2
<1>4. /\ (h.cqHead + n) % QSize = dev[q].head
      /\ \A c \in Cids : c \in taken <=> Waits(q, c)
  BY NewFacts DEF Waits
<1> HIDE DEF n, taken
<1>5. g.busy = h.busy \ taken /\ g.cqHead = dev[q].head
  BY <1>2, <1>4 DEF Driver
<1> HIDE DEF g
<1>6. \A c \in Cids : c \in host'[q].busy <=> c \in host[q].busy /\ ~ Waits(q, c)
  BY <1>3, <1>4, <1>5
<1>7. dev[q].head \in Entries
  BY QueueNow, RecordFacts
<1>8. \A c : ~ In(cqMem[q], dev[q].head, dev[q].head, c)
  BY <1>7, DistanceFacts DEF In
<1>9. \A c \in Cids : ~ Waits(q, c)'
  BY <1>1, <1>3, <1>5, <1>8 DEF Waits
<1>10. \A p \in Queues : p # q => Same(p)
  BY <1>1, <1>3 DEF Same, Waits
<1>11. WaitingKept
  BY <1>1 DEF WaitingKept
<1> QED
  BY <1>6, <1>9, <1>10, <1>11 DEF Sees, OneOf, Reaps

\* The device posts the completion of a command in use: at the head of the
\* queue, where none waits.
LEMMA PostSeen ==
  ASSUME IInv, NEW q \in Queues, NEW c \in Cids, c \in host[q].busy, ~ Waits(q, c),
         Post(q, c), UNCHANGED host,
         NEW w, dev' = [dev EXCEPT ![q] = w], w.head = Posted(dev[q]).head
  PROVE  WaitingKept /\ Sees(q)
<1>1. /\ host[q] \in Driver /\ dev[q] \in Device
      /\ Distinct(cqMem[q], host[q].cqHead, dev[q].head)
      /\ Phases(host[q], cqMem[q], dev[q])
  BY QueueNow DEF QueueOk, Placed
<1>2. /\ Written(cqMem'[q], cqMem[q], dev[q], c)
      /\ \A p \in Queues : p # q => cqMem'[p] = cqMem[p]
  BY PostFacts
<1>3. PICK m : m = cqMem'[q]
  OBVIOUS
<1>4. Written(m, cqMem[q], dev[q], c) /\ ~ In(cqMem[q], host[q].cqHead, dev[q].head, c)
  BY <1>2, <1>3 DEF Waits
<1>5. /\ \A x : In(m, host[q].cqHead, Posted(dev[q]).head, x) <=>
                  In(cqMem[q], host[q].cqHead, dev[q].head, x) \/ x = c
      /\ ~ Inside(host[q].cqHead, dev[q].head, dev[q].head)
  BY <1>1, <1>4, QueuePost
<1>6. dev'[q] = w /\ \A p \in Queues : p # q => dev'[p] = dev[p]
  BY DEF IInv, TypeOK
<1>7. \A k \in Cids : Waits(q, k)' <=> Waits(q, k) \/ k = c
  BY <1>3, <1>5, <1>6 DEF Waits
<1>8. \A p \in Queues : p # q => Same(p)
  BY <1>2, <1>6 DEF Same, Waits
<1>9. Posts(q, c)
  BY <1>7 DEF Posts
<1>10. ASSUME NEW p \in Queues, NEW e \in Entries, Inside(host[p].cqHead, dev[p].head, e)
       PROVE  cqMem'[p][e] = cqMem[p][e]
  <2>1. CASE p = q
    <3>1. e # dev[q].head
      BY <1>5, <1>10, <2>1
    <3> QED
      BY <1>2, <2>1, <3>1 DEF Written
  <2>2. CASE p # q
    BY <1>2, <2>2
  <2> QED
    BY <2>1, <2>2
<1> QED
  BY <1>8, <1>9, <1>10 DEF WaitingKept, Sees, OneOf

\* One of the first commands is completed at once.
LEMMA HackSeen ==
  ASSUME IInv, NEW d \in Dispatchers, HackIo(d)
  PROVE  WaitingKept /\ \E q \in Queues : Sees(q)
<1>1. PICK q, e : q = disp[d].q /\ e = disp[d].entry
  OBVIOUS
<1>2. PICK c : c = sqMem[q][e].cid
  OBVIOUS
<1>3. /\ disp[d].pc = "hack" /\ Post(q, c)
      /\ dev' = [dev EXCEPT ![q] = Dispatched(d, Posted(@))]
      /\ UNCHANGED host
  BY <1>1, <1>2 DEF HackIo, At, hostVars
<1>4. q \in Queues /\ e \in Entries /\ Cursor(q) = e /\ c \in Cids
      /\ In(sqMem[q], e, host[q].sqTail, c)
  <2>1. disp[d].pc \in {"io", "hack"}
    BY <1>3
  <2> QED
    BY <1>1, <1>2, <2>1, EntryThere
<1>5. /\ dev[q] \in Device /\ Placed(host[q], sqMem[q], cqMem[q], dev[q], e)
  BY <1>4, QueueNow DEF QueueOk
<1>6. c \in host[q].busy /\ ~ Waits(q, c)
  BY <1>4, <1>5, InUse DEF Waits
<1>7. PICK u, w : u = Posted(dev[q]) /\ w = Dispatched(d, u)
  OBVIOUS
<1>8. u \in Device
  BY <1>5, <1>7, DeviceTypes
<1>9. w.head = Posted(dev[q]).head
  BY <1>7, <1>8, DispatchedFields
<1>10. dev' = [dev EXCEPT ![q] = w]
  BY <1>3, <1>7
<1>11. WaitingKept /\ Sees(q)
  BY <1>3, <1>4, <1>6, <1>9, <1>10, PostSeen
<1> QED
  BY <1>4, <1>11

\* The completion of a finished request is posted.
LEMMA FillSeen ==
  ASSUME IInv, NEW d \in Dispatchers, FillCq(d)
  PROVE  WaitingKept /\ \E q \in Queues : Sees(q)
<1>1. PICK h : h = Head(completed[d])
  OBVIOUS
<1>2. PICK q, r : q = h[1] /\ r = h[2]
  OBVIOUS
<1>3. PICK c : c = dev[q].req[r].cid
  OBVIOUS
<1>4. /\ disp[d].pc = "fill" /\ Post(q, c)
      /\ dev' = [dev EXCEPT ![q] = Freed(Posted(@), r, c)]
      /\ UNCHANGED host
  BY <1>1, <1>2, <1>3 DEF FillCq, At, hostVars
<1>5. /\ completed[d] \in Seq(Queues \X ReqIds) /\ completed[d] # <<>> /\ CompletedOk(d)
  BY <1>4, ThreadNow DEF ThreadOk
<1>6. h \in Queues \X ReqIds /\ On(completed[d], h)
  BY <1>1, <1>5, TailOnce DEF CompletedOk
<1>7. q \in Queues /\ r \in ReqIds /\ r # 0 /\ dev[q].req[r].flight
  BY <1>2, <1>5, <1>6 DEF CompletedOk
<1>8. /\ dev[q] \in Device /\ Requested(dev[q])
      /\ Placed(host[q], sqMem[q], cqMem[q], dev[q], Cursor(q))
  BY <1>7, QueueNow DEF QueueOk
<1>9. c \in Cids /\ dev[q].tag[c] # 0
  <2>1. r \in 1 .. QSize
    BY <1>7, IoSizes DEF ReqIds
  <2> QED
    BY <1>3, <1>7, <1>8, <2>1 DEF Requested
<1>10. c \in host[q].busy /\ ~ Waits(q, c)
  BY <1>8, <1>9, InUse DEF Waits
<1>11. PICK u, w : u = Posted(dev[q]) /\ w = Freed(u, r, c)
  OBVIOUS
<1>12. u \in Device
  BY <1>8, <1>11, DeviceTypes
<1>13. w.head = Posted(dev[q]).head
  BY <1>11, <1>12 DEF Freed, Device
<1>14. dev' = [dev EXCEPT ![q] = w]
  BY <1>4, <1>11
<1>15. WaitingKept /\ Sees(q)
  BY <1>4, <1>7, <1>9, <1>10, <1>13, <1>14, PostSeen
<1> QED
  BY <1>7, <1>15

\* The other steps of a dispatcher are not seen by the host.
LEMMA QuietDispatcher ==
  ASSUME IInv, NEW d \in Dispatchers,
         \/ ProcSq(d) \/ ReadHack(d) \/ StartIo(d) \/ EnqueuePiece(d) \/ ProcCq(d)
         \/ Dequeue(d) \/ RaiseIrq(d)
  PROVE  WaitingKept /\ \A q \in Queues : Same(q)
<1>1. UNCHANGED <<host, cqMem>>
  BY DEF ProcSq, ReadHack, StartIo, EnqueuePiece, ProcCq, Dequeue, RaiseIrq, hostVars
<1>2. dev \in [Queues -> Device]
  BY DEF IInv, TypeOK
<1>3. ASSUME NEW q \in Queues PROVE dev'[q].head = dev[q].head
  <2>1. dev[q] \in Device
    BY <1>2
  <2>2. CASE ProcSq(d) \/ ReadHack(d)
    BY <2>2 DEF ProcSq, ReadHack
  <2>3. CASE StartIo(d)
    <3>1. PICK p, r, c, z : dev' = [dev EXCEPT ![p].free = Tail(@), ![p].tag[c] = r,
                                               ![p].req[r] = z]
      BY <2>3 DEF StartIo
    <3> QED
      BY <1>2, <2>1, <3>1 DEF Device
  <2>4. CASE EnqueuePiece(d)
    <3>1. PICK p, s, z : /\ s = [dev[p] EXCEPT !.req = z]
                         /\ \/ dev' = [dev EXCEPT ![p] = Dispatched(d, s)]
                            \/ dev' = [dev EXCEPT ![p] = s]
      BY <2>4 DEF EnqueuePiece
    <3>2. CASE p # q \/ p \notin Queues
      BY <1>2, <3>1, <3>2
    <3>3. CASE p = q
      <4>1. s.head = dev[q].head /\ Dispatched(d, s).head = s.head
        BY <2>1, <3>1, <3>3 DEF Dispatched, Device
      <4>2. dev'[q] = Dispatched(d, s) \/ dev'[q] = s
        BY <1>2, <3>1, <3>3
      <4> QED
        BY <4>1, <4>2
    <3> QED
      BY <3>2, <3>3
  <2>5. CASE ProcCq(d)
    <3>1. PICK p, n, m : dev' = [dev EXCEPT ![p].inFlight = n, ![p].oldCq = m]
      BY <2>5 DEF ProcCq
    <3> QED
      BY <1>2, <2>1, <3>1 DEF Device
  <2>6. CASE Dequeue(d)
    <3>a. PICK f, ans : f = disp[d].f /\ ans = outQue[d][f][outHead[d][f]]
      OBVIOUS
    <3>b. PICK p, r, z : /\ p = ans.q /\ r = dev[ans.q].tag[ans.cid]
                         /\ z = Answered(dev[ans.q].req[r], ans)
      OBVIOUS
    <3>1. dev' = dev \/ dev' = [dev EXCEPT ![p].req[r] = z]
      BY <2>6, <3>a, <3>b DEF Dequeue
    <3>2. ASSUME dev' = [dev EXCEPT ![p].req[r] = z]
          PROVE  dev'[q].head = dev[q].head
      BY <1>2, <2>1, <3>2 DEF Device
    <3> QED
      BY <3>1, <3>2
  <2>7. CASE RaiseIrq(d)
    <3>1. dev'[q] = dev[q] \/ dev'[q] = [dev[q] EXCEPT !.ready = FALSE]
      BY <2>7 DEF RaiseIrq
    <3> QED
      BY <2>1, <3>1 DEF Device
  <2> QED
    BY <2>2, <2>3, <2>4, <2>5, <2>6, <2>7
<1> QED
  BY <1>1, <1>3, UnseenStep

\* Every step leaves the waiting completions in place, and the host sees at
\* most one change to one queue.
LEMMA StepSeen ==
  ASSUME IInv, [Next]_vars
  PROVE  WaitingKept /\ ((\A q \in Queues : Same(q)) \/ \E q \in Queues : Sees(q))
<1>1. ASSUME NEW q \in Queues, Host(q)
      PROVE  WaitingKept /\ ((\A p \in Queues : Same(p)) \/ Sees(q))
  <2>1. CASE Submit(q) \/ Reap(q)
    BY <2>1, SubmitSeen, ReapSeen
  <2>2. CASE RingCq(q)
    <3>1. UNCHANGED <<host, cqMem>> /\ \A p \in Queues : dev'[p].head = dev[p].head
      BY <2>2 DEF RingCq
    <3> QED
      BY <3>1, UnseenStep
  <2> QED
    BY <1>1, <2>1, <2>2 DEF Host
<1>2. ASSUME NEW d \in Dispatchers, Dispatcher(d)
      PROVE  WaitingKept /\ ((\A q \in Queues : Same(q)) \/ \E q \in Queues : Sees(q))
  BY <1>2, HackSeen, FillSeen, QuietDispatcher DEF Dispatcher
<1>3. CASE (\E f \in FTLs : FTL(f)) \/ Tick \/ UNCHANGED vars
  <2>1. UNCHANGED <<host, cqMem>> /\ \A p \in Queues : dev'[p].head = dev[p].head
    BY <1>3 DEF FTL, CheckReq, CheckResp, Tick, vars, hostVars
  <2> QED
    BY <2>1, UnseenStep
<1> QED
  BY <1>1, <1>2, <1>3 DEF Next

\* A completion the host has not taken yet is never overwritten, although the
\* device does not look at the head doorbell before it posts: there are fewer
\* tags than entries, and a tag is not used again before its completion is
\* taken.
THEOREM CompletionsStay == Spec => NoCqeLost
<1>1. ASSUME IInv, WaitingKept, NEW q \in Queues, NEW k \in NewEntries(q)
      PROVE  cqMem'[q][EntryAt(q, k)] = cqMem[q][EntryAt(q, k)]
  <2>1. PICK e : e = EntryAt(q, k)
    OBVIOUS
  <2>2. e \in Entries /\ Inside(host[q].cqHead, dev[q].head, e)
    BY <1>1, <2>1, NewFacts
  <2> QED
    BY <1>1, <2>1, <2>2 DEF WaitingKept
<1>2. IInv /\ [Next]_vars =>
        [\A q \in Queues : \A k \in NewEntries(q) :
           cqMem'[q][EntryAt(q, k)] = cqMem[q][EntryAt(q, k)]]_vars
  BY <1>1, StepSeen
<1> QED
  BY <1>2, Invariance, PTL DEF Spec, NoCqeLost

\* What has become of the command in a slot, as the host sees it.
StatusOf(q, c) == IF c \notin host[q].busy THEN "free"
                  ELSE IF c \in NewCids(q) THEN "done" ELSE "queued"

\* A command slot is done when its completion waits.
StatusRight ==
  \A q \in Queues : \A c \in Cids :
    /\ Waits(q, c) => c \in host[q].busy
    /\ StatusOf(q, c) = IF c \notin host[q].busy THEN "free"
                        ELSE IF Waits(q, c) THEN "done" ELSE "queued"
\* The invariant says so.
LEMMA StatusFacts == IInv => StatusRight
<1> SUFFICES ASSUME IInv, NEW q \in Queues, NEW c \in Cids
             PROVE  /\ c \in NewCids(q) <=> Waits(q, c)
                    /\ Waits(q, c) => c \in host[q].busy
  BY DEF StatusRight, StatusOf
<1>1. c \in NewCids(q) <=> Waits(q, c)
  BY NewFacts DEF Waits
<1>2. Placed(host[q], sqMem[q], cqMem[q], dev[q], Cursor(q))
  BY QueueNow DEF QueueOk
<1>3. Waits(q, c) => c \in host[q].busy
  BY <1>2, InUse DEF Waits
<1> QED
  BY <1>1, <1>3

\* What a step the host sees, or does not see, makes of the statuses.
LEMMA StatusSteps ==
  ASSUME StatusRight, StatusRight', NEW q \in Queues
  PROVE  /\ Same(q) => \A c \in Cids : StatusOf(q, c)' = StatusOf(q, c)
         /\ \A c \in Cids : Submits(q, c) =>
              /\ StatusOf(q, c) = "free" /\ StatusOf(q, c)' = "queued"
              /\ \A k \in Cids : k # c => StatusOf(q, k)' = StatusOf(q, k)
         /\ \A c \in Cids : Posts(q, c) =>
              /\ StatusOf(q, c) = "queued" /\ StatusOf(q, c)' = "done"
              /\ \A k \in Cids : k # c => StatusOf(q, k)' = StatusOf(q, k)
         /\ Reaps(q) =>
              \A c \in Cids : StatusOf(q, c)' = IF StatusOf(q, c) = "done" THEN "free"
                                                ELSE StatusOf(q, c)
<1>1. \A c \in Cids :
        /\ Waits(q, c) => c \in host[q].busy
        /\ StatusOf(q, c) = IF c \notin host[q].busy THEN "free"
                            ELSE IF Waits(q, c) THEN "done" ELSE "queued"
  BY DEF StatusRight
<1>2. (\A c \in Cids :
        /\ Waits(q, c) => c \in host[q].busy
        /\ StatusOf(q, c) = IF c \notin host[q].busy THEN "free"
                            ELSE IF Waits(q, c) THEN "done" ELSE "queued")'
  BY DEF StatusRight
<1>3. Same(q) => \A c \in Cids : StatusOf(q, c)' = StatusOf(q, c)
  BY <1>1, <1>2 DEF Same
<1>4. ASSUME NEW c \in Cids, Submits(q, c)
      PROVE  /\ StatusOf(q, c) = "free" /\ StatusOf(q, c)' = "queued"
             /\ \A k \in Cids : k # c => StatusOf(q, k)' = StatusOf(q, k)
  BY <1>1, <1>2, <1>4 DEF Submits
<1>5. ASSUME NEW c \in Cids, Posts(q, c)
      PROVE  /\ StatusOf(q, c) = "queued" /\ StatusOf(q, c)' = "done"
             /\ \A k \in Cids : k # c => StatusOf(q, k)' = StatusOf(q, k)
  BY <1>1, <1>2, <1>5 DEF Posts
<1>6. ASSUME Reaps(q), NEW c \in Cids
      PROVE  StatusOf(q, c)' = IF StatusOf(q, c) = "done" THEN "free" ELSE StatusOf(q, c)
  BY <1>1, <1>2, <1>6 DEF Reaps
<1> QED
  BY <1>3, <1>4, <1>5, <1>6

\* The device implements its promise to the host, for any number of queues,
\* dispatchers and FTL threads and whatever the sizes of the rings: every
\* command is completed at most once, and no slot without a command is.
THEOREM DeviceImplementsService == Spec => ImplementsService
<1> DEFINE st == [s \in Slots |-> StatusOf(s[1], s[2])]
           sv == [s \in Slots |-> IF s[2] \notin host[s[1]].busy THEN "free"
                             ELSE IF s[2] \in NewCids(s[1]) THEN "done" ELSE "queued"]
<1>1. Init => Service!Init
  <2> SUFFICES ASSUME Init PROVE sv = [s \in Slots |-> "free"]
    BY DEF Service!Init, Service!Slots, Slots
  <2>1. \A q \in Queues : host[q].busy = {}
    BY DEF Init
  <2>2. \A s \in Slots : s[1] \in Queues
    BY DEF Slots
  <2> QED
    BY <2>1, <2>2
<1>2. ASSUME IInv, StatusRight, StatusRight', [Next]_vars PROVE [Service!Next]_sv
  <2>1. (\A q \in Queues : Same(q)) \/ \E q \in Queues : Sees(q)
    BY <1>2, StepSeen
  <2>2. \A s \in Slots : s[1] \in Queues /\ s[2] \in Cids /\ s = <<s[1], s[2]>>
    BY DEF Slots
  <2>3. sv = st /\ sv' = st'
    BY DEF StatusOf
  <2>4. CASE \A q \in Queues : Same(q)
    <3>1. \A s \in Slots : StatusOf(s[1], s[2])' = StatusOf(s[1], s[2])
      BY <1>2, <2>2, <2>4, StatusSteps
    <3> QED
      BY <2>3, <3>1
  <2>5. ASSUME NEW q \in Queues, Sees(q) PROVE Service!Next \/ sv' = sv
    <3>1. \A s \in Slots : s[1] # q => st'[s] = st[s]
      <4>1. ASSUME NEW s \in Slots, s[1] # q
            PROVE  StatusOf(s[1], s[2])' = StatusOf(s[1], s[2])
        BY <1>2, <2>2, <2>5, <4>1, StatusSteps DEF Sees
      <4> QED
        BY <4>1
    <3>2. CASE \E c \in Cids : Submits(q, c)
      <4>1. PICK c \in Cids : Submits(q, c)
        BY <3>2
      <4> DEFINE x == <<q, c>>
      <4>2. x \in Slots /\ x[1] = q /\ x[2] = c
        BY DEF Slots
      <4>3. st[x] = "free" /\ st'[x] = "queued"
        BY <1>2, <4>1, <4>2, StatusSteps
      <4>4. ASSUME NEW s \in Slots, s # x PROVE st'[s] = st[s]
        <5>1. CASE s[1] = q
          <6>1. s[2] # c /\ s[2] \in Cids
            BY <2>2, <4>4, <5>1
          <6> QED
            BY <1>2, <4>1, <5>1, <6>1, StatusSteps
        <5>2. CASE s[1] # q
          BY <3>1, <5>2
        <5> QED
          BY <5>1, <5>2
      <4>5. st' = [st EXCEPT ![x] = "queued"]
        BY <4>2, <4>3, <4>4
      <4> HIDE DEF x, st
      <4>6. Service!Moves(x, "free", "queued")
        BY <2>3, <4>3, <4>5 DEF Service!Moves
      <4> QED
        BY <4>2, <4>6 DEF Service!Next, Service!Submit, Service!Slots, Slots
    <3>3. CASE \E c \in Cids : Posts(q, c)
      <4>1. PICK c \in Cids : Posts(q, c)
        BY <3>3
      <4> DEFINE x == <<q, c>>
      <4>2. x \in Slots /\ x[1] = q /\ x[2] = c
        BY DEF Slots
      <4>3. st[x] = "queued" /\ st'[x] = "done"
        BY <1>2, <4>1, <4>2, StatusSteps
      <4>4. ASSUME NEW s \in Slots, s # x PROVE st'[s] = st[s]
        <5>1. CASE s[1] = q
          <6>1. s[2] # c /\ s[2] \in Cids
            BY <2>2, <4>4, <5>1
          <6> QED
            BY <1>2, <4>1, <5>1, <6>1, StatusSteps
        <5>2. CASE s[1] # q
          BY <3>1, <5>2
        <5> QED
          BY <5>1, <5>2
      <4>5. st' = [st EXCEPT ![x] = "done"]
        BY <4>2, <4>3, <4>4
      <4> HIDE DEF x, st
      <4>6. Service!Moves(x, "queued", "done")
        BY <2>3, <4>3, <4>5 DEF Service!Moves
      <4> QED
        BY <4>2, <4>6 DEF Service!Next, Service!Complete, Service!Slots, Slots
    <3>4. CASE Reaps(q)
      <4> DEFINE posted == {s \in Slots : s[1] = q /\ st[s] = "done"}
      <4>1. \A s \in Slots : st'[s] = IF s \in posted THEN "free" ELSE st[s]
        <5>1. ASSUME NEW s \in Slots, s[1] = q
              PROVE  st'[s] = IF st[s] = "done" THEN "free" ELSE st[s]
          BY <1>2, <2>2, <3>4, <5>1, StatusSteps
        <5> QED
          BY <3>1, <5>1
      <4>2. st' = [s \in Slots |-> IF s \in posted THEN "free" ELSE st[s]]
        BY <4>1
      <4>3. CASE posted = {}
        <5>1. st' = st
          BY <4>2, <4>3
        <5> QED
          BY <2>3, <5>1
      <4>4. CASE posted # {}
        <5>1. \A s \in posted : st'[s] = "free"
          BY <4>1
        <5> HIDE DEF st
        <5>2. Service!Reap(q)
          BY <2>3, <4>2, <4>4, <5>1 DEF Service!Reap, Service!Slots, Slots
        <5> QED
          BY <5>2 DEF Service!Next
      <4> QED
        BY <4>3, <4>4
    <3> QED
      BY <2>5, <3>2, <3>3, <3>4 DEF Sees, OneOf
  <2> QED
    BY <2>1, <2>4, <2>5
<1>3. IInv /\ StatusRight /\ StatusRight' /\ [Next]_vars => [Service!Next]_sv
  BY <1>2
<1> HIDE DEF st
<1> QED
  BY <1>1, <1>3, Invariance, StatusFacts, PTL DEF Spec, ImplementsService, Service!Spec

-----------------------------------------------------------------------------
(* The number of commands in flight.                                       *)

\* How many requests the device v holds.
HeldBy(v) == {r \in 1 .. QSize : v.req[r].flight}
Held(v) == Cardinality(HeldBy(v))

\* The dispatcher of queue q is splitting one of its commands.
Splitting(q) == disp[DOf(q)].pc = "split" /\ disp[DOf(q)].q = q

\* What nr_in_flight counts: the requests held, the completions not taken, and
\* those taken that the device has not been told of, or has not looked at.
\* (It may be more when the head runs around the queue between two looks at
\* the doorbell.)  The command being split is not counted yet.
Covers(h, v, db, split) ==
  v.inFlight + One(split) >=
    Held(v) + Distance(v.oldCq, db) + Distance(db, h.cqHead) + Distance(h.cqHead, v.head)
CoversNow(q) == Covers(host[q], dev[q], cqDb[q], Splitting(q))
FlowInv == \A q \in Queues : CoversNow(q)

\* Going round a queue by way of another entry is no shorter.
LEMMA Triangle ==
  ASSUME NEW a \in Entries, NEW b \in Entries, NEW c \in Entries
  PROVE  /\ Distance(a, c) <= Distance(a, b) + Distance(b, c)
         /\ Distance(a, a) = 0 /\ Distance(a, b) \in Nat
BY IoSizes DEF Entries, Distance

\* The requests held are finitely many; one is added or given back.
LEMMA HeldFacts ==
  ASSUME NEW v, NEW w
  PROVE  /\ Held(v) \in Nat
         /\ (\A r \in 1 .. QSize : w.req[r].flight <=> v.req[r].flight) => Held(w) = Held(v)
         /\ \A x \in 1 .. QSize :
              /\ \A r \in 1 .. QSize : r # x => (w.req[r].flight <=> v.req[r].flight)
              /\ v.req[x].flight
              /\ ~ w.req[x].flight
              => Held(w) = Held(v) - 1
         /\ \A x \in 1 .. QSize :
              /\ \A r \in 1 .. QSize : r # x => (w.req[r].flight <=> v.req[r].flight)
              /\ ~ v.req[x].flight
              /\ w.req[x].flight
              => Held(w) = Held(v) + 1
<1>1. IsFiniteSet(1 .. QSize)
  BY IoSizes, FS_Interval
<1>2. \A u : HeldBy(u) \subseteq 1 .. QSize
  BY DEF HeldBy
<1>3. IsFiniteSet(HeldBy(v)) /\ IsFiniteSet(HeldBy(w))
  BY <1>1, <1>2, FS_Subset
<1>4. Held(v) \in Nat /\ Held(w) \in Nat
  BY <1>3, FS_CardinalityType DEF Held
<1>5. ASSUME \A r \in 1 .. QSize : w.req[r].flight <=> v.req[r].flight
      PROVE  Held(w) = Held(v)
  <2>1. HeldBy(w) = HeldBy(v)
    BY <1>5 DEF HeldBy
  <2> QED
    BY <2>1 DEF Held
<1>6. ASSUME NEW x \in 1 .. QSize,
             \A r \in 1 .. QSize : r # x => (w.req[r].flight <=> v.req[r].flight),
             v.req[x].flight, ~ w.req[x].flight
      PROVE  Held(w) = Held(v) - 1
  <2>1. HeldBy(w) = HeldBy(v) \ {x} /\ x \in HeldBy(v)
    BY <1>6 DEF HeldBy
  <2> QED
    BY <1>3, <2>1, FS_RemoveElement DEF Held
<1>7. ASSUME NEW x \in 1 .. QSize,
             \A r \in 1 .. QSize : r # x => (w.req[r].flight <=> v.req[r].flight),
             ~ v.req[x].flight, w.req[x].flight
      PROVE  Held(w) = Held(v) + 1
  <2>1. HeldBy(w) = HeldBy(v) \cup {x} /\ x \notin HeldBy(v)
    BY <1>7 DEF HeldBy
  <2> QED
    BY <1>3, <2>1, FS_AddElement DEF Held
<1> QED
  BY <1>4, <1>5, <1>6, <1>7

\* The numbers Covers speaks of.
LEMMA FlowTypes ==
  ASSUME IInv, NEW q \in Queues
  PROVE  /\ host[q] \in Driver /\ dev[q] \in Device
         /\ dev[q].oldCq \in Entries /\ dev[q].head \in Entries
         /\ cqDb[q] \in Entries /\ host[q].cqHead \in Entries
         /\ dev[q].inFlight \in Int /\ Held(dev[q]) \in Nat
         /\ Distance(dev[q].oldCq, cqDb[q]) \in Nat
         /\ Distance(cqDb[q], host[q].cqHead) \in Nat
         /\ Distance(host[q].cqHead, dev[q].head) \in Nat
BY QueueNow, RecordFacts, HeldFacts, Triangle

\* A queue stays covered when neither its counter nor what it counts changes.
LEMMA FlowSame ==
  ASSUME NEW q, CoversNow(q), cqDb'[q] = cqDb[q], host'[q].cqHead = host[q].cqHead,
         dev'[q].head = dev[q].head, dev'[q].oldCq = dev[q].oldCq,
         dev'[q].inFlight = dev[q].inFlight,
         \A r \in 1 .. QSize : dev'[q].req[r].flight <=> dev[q].req[r].flight,
         Splitting(q)' <=> Splitting(q)
  PROVE  CoversNow(q)'
<1>1. Held(dev'[q]) = Held(dev[q])
  BY HeldFacts
<1>2. One(Splitting(q)') = One(Splitting(q))
  BY DEF One
<1>3. /\ dev[q].inFlight + One(Splitting(q)) >=
           Held(dev[q]) + Distance(dev[q].oldCq, cqDb[q]) + Distance(cqDb[q], host[q].cqHead)
             + Distance(host[q].cqHead, dev[q].head)
  BY DEF CoversNow, Covers
<1> QED
  BY <1>1, <1>2, <1>3 DEF CoversNow, Covers

\* A dispatcher splits commands of queue q at most: the others see no change.
LEMMA SplitOther ==
  ASSUME NEW d \in Dispatchers, NEW q,
         \A e \in Dispatchers : e # d => disp'[e] = disp[e],
         disp[d].pc = "split" => disp[d].q = q,
         disp'[d].pc = "split" => disp'[d].q = q
  PROVE  \A p \in Queues : p # q => (Splitting(p)' <=> Splitting(p))
<1>1. \A p \in Queues : DOf(p) \in Dispatchers
  BY QueueNumbers
<1> QED
  BY <1>1 DEF Splitting
\* A step that changes nothing that is counted.
LEMMA FlowQuiet ==
  ASSUME FlowInv, UNCHANGED <<host, cqDb>>,
         \A q \in Queues :
           /\ dev'[q].head = dev[q].head /\ dev'[q].oldCq = dev[q].oldCq
           /\ dev'[q].inFlight = dev[q].inFlight
           /\ \A r \in 1 .. QSize : dev'[q].req[r].flight <=> dev[q].req[r].flight
           /\ Splitting(q)' <=> Splitting(q)
  PROVE  FlowInv'
<1>1. ASSUME NEW q \in Queues PROVE CoversNow(q)'
  BY FlowSame DEF FlowInv
<1> QED
  BY <1>1 DEF FlowInv

\* A step of a dispatcher that changes what it knows of queue q only.
LEMMA FlowOne ==
  ASSUME FlowInv, NEW d \in Dispatchers, NEW q \in Queues, UNCHANGED <<host, cqDb>>,
         \A p \in Queues : p # q => dev'[p] = dev[p],
         \A e \in Dispatchers : e # d => disp'[e] = disp[e],
         disp[d].pc = "split" => disp[d].q = q,
         disp'[d].pc = "split" => disp'[d].q = q,
         CoversNow(q)'
  PROVE  FlowInv'
<1>1. ASSUME NEW p \in Queues, p # q PROVE CoversNow(p)'
  <2>1. Splitting(p)' <=> Splitting(p)
    BY <1>1, SplitOther
  <2>2. dev'[p] = dev[p] /\ CoversNow(p)
    BY <1>1 DEF FlowInv
  <2> QED
    BY <2>1, <2>2, FlowSame
<1> QED
  BY <1>1 DEF FlowInv

\* The host fills a slot of a submission queue.
LEMMA SubmitFlow ==
  ASSUME IInv, FlowInv, NEW q \in Queues, Submit(q)
  PROVE  FlowInv'
<1>1. PICK c \in Cids :
        host' = [host EXCEPT ![q].sqTail = Succ(@, QSize), ![q].busy = @ \cup {c}]
  BY DEF Submit
<1>2. UNCHANGED <<cqDb, dev, disp>>
  BY DEF Submit
<1>3. host \in [Queues -> Driver]
  BY DEF IInv, TypeOK
<1>4. ASSUME NEW p \in Queues PROVE host'[p].cqHead = host[p].cqHead
  <2>1. host[p] \in Driver
    BY <1>3
  <2> QED
    BY <1>1, <1>3, <2>1 DEF Driver
<1>5. ASSUME NEW p \in Queues PROVE CoversNow(p)'
  <2>1. Splitting(p)' <=> Splitting(p)
    BY <1>2 DEF Splitting
  <2>2. CoversNow(p)
    BY DEF FlowInv
  <2> QED
    BY <1>2, <1>4, <2>1, <2>2, FlowSame
<1> QED
  BY <1>5 DEF FlowInv

\* The host takes the completions up to the head: those counted between the
\* doorbell and the host's head are as many as before, or fewer.
LEMMA ReapFlow ==
  ASSUME IInv, FlowInv, NEW q \in Queues, Reap(q)
  PROVE  FlowInv'
<1>1. PICK n, b, x : /\ n = Cardinality(NewEntries(q))
                     /\ host' = [host EXCEPT ![q].busy = b, ![q].cqHead = (@ + n) % QSize,
                                             ![q].phase = x]
  BY DEF Reap
<1>2. UNCHANGED <<cqDb, dev, disp>>
  BY DEF Reap
<1>3. host \in [Queues -> Driver] /\ host[q] \in Driver
  BY DEF IInv, TypeOK
<1>4. (host[q].cqHead + n) % QSize = dev[q].head
  BY <1>1, NewFacts
<1>5. host'[q].cqHead = dev[q].head /\ \A p \in Queues : p # q => host'[p] = host[p]
  BY <1>1, <1>3, <1>4 DEF Driver
<1>6. ASSUME NEW p \in Queues, p # q PROVE CoversNow(p)'
  <2>1. Splitting(p)' <=> Splitting(p)
    BY <1>2 DEF Splitting
  <2>2. CoversNow(p) /\ host'[p].cqHead = host[p].cqHead
    BY <1>5, <1>6 DEF FlowInv
  <2> QED
    BY <1>2, <2>1, <2>2, FlowSame
<1>7. CoversNow(q)'
  <2>1. CoversNow(q)
    BY DEF FlowInv
  <2>2. Splitting(q)' <=> Splitting(q)
    BY <1>2 DEF Splitting
  <2>3. /\ Distance(cqDb[q], dev[q].head) <=
             Distance(cqDb[q], host[q].cqHead) + Distance(host[q].cqHead, dev[q].head)
        /\ Distance(dev[q].head, dev[q].head) = 0
        /\ Distance(cqDb[q], dev[q].head) \in Nat
    BY FlowTypes, Triangle
  <2>4. One(Splitting(q)') = One(Splitting(q)) /\ One(Splitting(q)) \in {0, 1}
    BY <2>2 DEF One
  <2>5. dev[q].inFlight + One(Splitting(q)) >=
          Held(dev[q]) + Distance(dev[q].oldCq, cqDb[q]) + Distance(cqDb[q], dev[q].head)
            + Distance(dev[q].head, dev[q].head)
    BY <2>1, <2>3, <2>4, FlowTypes DEF CoversNow, Covers
  <2> QED
    BY <1>2, <1>5, <2>4, <2>5 DEF CoversNow, Covers
<1> QED
  BY <1>6, <1>7 DEF FlowInv

\* The host rings the head doorbell.
LEMMA RingCqFlow ==
  ASSUME IInv, FlowInv, NEW q \in Queues, RingCq(q)
  PROVE  FlowInv'
<1>1. cqDb' = [cqDb EXCEPT ![q] = host[q].cqHead] /\ UNCHANGED <<host, dev, disp>>
  BY DEF RingCq
<1>2. cqDb'[q] = host[q].cqHead /\ \A p \in Queues : p # q => cqDb'[p] = cqDb[p]
  BY <1>1 DEF IInv, TypeOK
<1>3. ASSUME NEW p \in Queues, p # q PROVE CoversNow(p)'
  <2>1. Splitting(p)' <=> Splitting(p)
    BY <1>1 DEF Splitting
  <2>2. CoversNow(p) /\ cqDb'[p] = cqDb[p]
    BY <1>2, <1>3 DEF FlowInv
  <2> QED
    BY <1>1, <2>1, <2>2, FlowSame
<1>4. CoversNow(q)'
  <2>1. CoversNow(q)
    BY DEF FlowInv
  <2>2. Splitting(q)' <=> Splitting(q)
    BY <1>1 DEF Splitting
  <2> DEFINE a == host[q].cqHead
  <2>3. /\ Distance(dev[q].oldCq, a) <=
             Distance(dev[q].oldCq, cqDb[q]) + Distance(cqDb[q], a)
        /\ Distance(a, a) = 0 /\ Distance(dev[q].oldCq, a) \in Nat
    BY FlowTypes, Triangle
  <2>4. One(Splitting(q)') = One(Splitting(q)) /\ One(Splitting(q)) \in {0, 1}
    BY <2>2 DEF One
  <2>5. dev[q].inFlight + One(Splitting(q)) >=
          Held(dev[q]) + Distance(dev[q].oldCq, a) + Distance(a, a)
            + Distance(a, dev[q].head)
    BY <2>1, <2>3, <2>4, FlowTypes DEF CoversNow, Covers
  <2> QED
    BY <1>1, <1>2, <2>4, <2>5 DEF CoversNow, Covers
<1> QED
  BY <1>3, <1>4 DEF FlowInv

\* A dispatcher looks at its queues, its answers or its interrupts.
LEMMA QuietFlow ==
  ASSUME IInv, FlowInv, NEW d \in Dispatchers,
         ProcSq(d) \/ ReadHack(d) \/ Dequeue(d) \/ RaiseIrq(d)
  PROVE  FlowInv'
<1>1. UNCHANGED <<host, cqDb>>
  BY DEF ProcSq, ReadHack, Dequeue, RaiseIrq, hostVars
<1>2. dev \in [Queues -> Device] /\ disp \in [Dispatchers -> Thread]
  BY DEF IInv, TypeOK
<1>3. /\ disp[d].pc # "split" /\ disp'[d].pc # "split"
      /\ \A e \in Dispatchers : e # d => disp'[e] = disp[e]
  <2>1. disp[d] \in Thread
    BY <1>2
  <2>2. CASE ProcSq(d)
    <3>1. PICK s : s = NextQueue(d, "sq", "cq")
      OBVIOUS
    <3>2. s.pc \in {"sq", "cq"}
      BY <2>1, <3>1, ThreadNext DEF Pcs
    <3>3. \/ disp'[d] = s
          \/ \E q : disp'[d] = [disp[d] EXCEPT !.pc = "deq", !.q = q]
          \/ \E e, n : disp'[d] = [disp[d] EXCEPT !.pc = "io", !.entry = e, !.todo = n]
      BY <1>2, <2>2, <3>1 DEF ProcSq
    <3>4. disp'[d].pc # "split"
      BY <2>1, <3>2, <3>3 DEF Thread
    <3> QED
      BY <1>2, <2>2, <3>4 DEF ProcSq, At
  <2>3. CASE ReadHack(d)
    BY <1>2, <2>1, <2>3 DEF ReadHack, At, Thread
  <2>4. CASE Dequeue(d)
    <3>1. PICK s : s = AfterAnswers(d, completed[d], now)
      OBVIOUS
    <3>2. s.pc \in {"fill", "deq", "irq"}
      BY <2>1, <3>1, ThreadAnswers DEF IInv, TypeOK
    <3>3. disp' = disp \/ disp' = [disp EXCEPT ![d] = s]
      BY <2>4, <3>1 DEF Dequeue
    <3>4. disp[d].pc = "deq"
      BY <2>4 DEF Dequeue, At
    <3> QED
      BY <1>2, <3>2, <3>3, <3>4
  <2>5. CASE RaiseIrq(d)
    BY <1>2, <2>1, <2>5 DEF RaiseIrq, At, Thread
  <2> QED
    BY <2>2, <2>3, <2>4, <2>5
<1>4. ASSUME NEW q \in Queues
      PROVE  /\ dev'[q].head = dev[q].head /\ dev'[q].oldCq = dev[q].oldCq
             /\ dev'[q].inFlight = dev[q].inFlight
             /\ \A r \in 1 .. QSize : dev'[q].req[r].flight <=> dev[q].req[r].flight
  <2>1. dev[q] \in Device
    BY <1>2
  <2>2. CASE ProcSq(d) \/ ReadHack(d)
    BY <2>2 DEF ProcSq, ReadHack
  <2>3. CASE RaiseIrq(d)
    <3>1. dev'[q] = dev[q] \/ dev'[q] = [dev[q] EXCEPT !.ready = FALSE]
      BY <2>3 DEF RaiseIrq
    <3> QED
      BY <2>1, <3>1 DEF Device
  <2>4. CASE Dequeue(d)
    <3>a. PICK f, ans : f = disp[d].f /\ ans = outQue[d][f][outHead[d][f]]
      OBVIOUS
    <3>b. PICK p, r, x, z : /\ p = ans.q /\ r = dev[ans.q].tag[ans.cid]
                            /\ x = dev[ans.q].req[r] /\ z = Answered(x, ans)
      OBVIOUS
    <3>1. dev' = dev \/ dev' = [dev EXCEPT ![p].req[r] = z]
      BY <2>4, <3>a, <3>b DEF Dequeue
    <3>2. CASE dev' = [dev EXCEPT ![p].req[r] = z] /\ p = q
      <4>1. dev'[q] = [dev[q] EXCEPT !.req = [dev[q].req EXCEPT ![r] = z]]
        BY <1>2, <2>1, <3>2 DEF Device
      <4>2. dev[q].req \in [ReqIds -> Request]
        BY <2>1, RecordFacts
      <4>3. r \in ReqIds => z.flight = dev[q].req[r].flight
        <5>1. x = dev[q].req[r]
          BY <3>b, <3>2
        <5>2. r \in ReqIds => x \in Request
          BY <4>2, <5>1
        <5> QED
          BY <3>b, <5>1, <5>2 DEF Answered, Request
      <4>4. /\ dev'[q].head = dev[q].head /\ dev'[q].oldCq = dev[q].oldCq
            /\ dev'[q].inFlight = dev[q].inFlight
            /\ dev'[q].req = [dev[q].req EXCEPT ![r] = z]
        BY <2>1, <4>1 DEF Device
      <4>5. 1 .. QSize \subseteq ReqIds
        BY IoSizes DEF ReqIds
      <4> QED
        BY <4>2, <4>3, <4>4, <4>5
    <3>3. CASE dev' = dev \/ p # q
      BY <1>2, <3>1, <3>3
    <3> QED
      BY <3>1, <3>2, <3>3
  <2> QED
    BY <2>2, <2>3, <2>4
<1>5. \A q \in Queues : Splitting(q)' <=> Splitting(q)
  <2>1. \A q \in Queues : q # 0
    BY QueueNumbers
  <2> QED
    BY <1>3, <2>1, SplitOther
<1> QED
  BY <1>1, <1>4, <1>5, FlowQuiet
\* A completion is posted in place of a command in flight, or of one that has
\* just been counted: v becomes w.
LEMMA FlowPosted ==
  ASSUME IInv, NEW q \in Queues, NEW c \in Cids, c \in host[q].busy, ~ Waits(q, c),
         NEW w, w.head = Posted(dev[q]).head, w.oldCq = dev[q].oldCq,
         NEW s \in {0, 1}, s = One(Splitting(q)),
         w.inFlight + s - Held(w) >= dev[q].inFlight + s - Held(dev[q]) + 1,
         w.inFlight \in Int, CoversNow(q)
  PROVE  Covers(host[q], w, cqDb[q], Splitting(q))
<1>1. /\ host[q] \in Driver /\ dev[q] \in Device /\ host[q].cqHead \in Entries
      /\ dev[q].head \in Entries
      /\ Distinct(cqMem[q], host[q].cqHead, dev[q].head)
  BY QueueNow, RecordFacts DEF QueueOk, Placed
<1>2. ~ In(cqMem[q], host[q].cqHead, dev[q].head, c)
  BY DEF Waits
<1>3. Succ(dev[q].head, QSize) # host[q].cqHead
  BY <1>1, <1>2, RoomLeft
<1>4. w.head = Succ(dev[q].head, QSize)
  BY <1>1 DEF Posted, Device
<1>5. Distance(host[q].cqHead, w.head) = Distance(host[q].cqHead, dev[q].head) + 1
  BY <1>1, <1>3, <1>4, InsidePushed
<1>6. Held(w) \in Nat
  BY HeldFacts
<1>7. dev[q].inFlight + s >=
        Held(dev[q]) + Distance(dev[q].oldCq, cqDb[q]) + Distance(cqDb[q], host[q].cqHead)
          + Distance(host[q].cqHead, dev[q].head)
  BY DEF CoversNow, Covers
<1>8. w.inFlight + s >=
        Held(w) + Distance(dev[q].oldCq, cqDb[q]) + Distance(cqDb[q], host[q].cqHead)
          + Distance(host[q].cqHead, w.head)
  BY <1>5, <1>6, <1>7, FlowTypes
<1> QED
  BY <1>8 DEF Covers

\* One of the first commands is counted and completed at once.
LEMMA HackFlow ==
  ASSUME IInv, FlowInv, NEW d \in Dispatchers, HackIo(d)
  PROVE  FlowInv'
<1>1. PICK q, e : q = disp[d].q /\ e = disp[d].entry
  OBVIOUS
<1>2. PICK c : c = sqMem[q][e].cid
  OBVIOUS
<1>3. PICK u, w, n : /\ u = Posted(dev[q]) /\ w = Dispatched(d, u)
                     /\ n = [AfterEntry(d) EXCEPT !.hack = 0]
  OBVIOUS
<1>4. /\ disp[d].pc = "hack" /\ dev' = [dev EXCEPT ![q] = w]
      /\ disp' = [disp EXCEPT ![d] = n] /\ UNCHANGED <<host, cqDb>>
  BY <1>1, <1>2, <1>3 DEF HackIo, At, hostVars
<1>5. /\ q \in Queues /\ DOf(q) = d /\ e \in Entries /\ Cursor(q) = e /\ c \in Cids
      /\ In(sqMem[q], e, host[q].sqTail, c)
  <2>1. disp[d].pc \in {"io", "hack"}
    BY <1>4
  <2> QED
    BY <1>1, <1>2, <2>1, EntryThere
<1>6. /\ dev[q] \in Device /\ Placed(host[q], sqMem[q], cqMem[q], dev[q], e)
      /\ disp[d] \in Thread
  BY <1>5, QueueNow, ThreadNow DEF QueueOk
<1>7. c \in host[q].busy /\ ~ Waits(q, c)
  BY <1>5, <1>6, InUse DEF Waits
<1>8. /\ u \in Device /\ u.head = Posted(dev[q]).head /\ u.oldCq = dev[q].oldCq
      /\ u.inFlight = dev[q].inFlight /\ u.req = dev[q].req
  <2>1. u \in Device
    BY <1>3, <1>6, DeviceTypes
  <2> QED
    BY <1>3, <1>6, <2>1 DEF Posted, Device
<1>9. /\ w.head = u.head /\ w.oldCq = u.oldCq /\ w.inFlight = u.inFlight + 1
      /\ w.req = u.req
  BY <1>3, <1>8 DEF Dispatched, Device
<1>10. Held(w) = Held(dev[q]) /\ Held(dev[q]) \in Nat
  BY <1>8, <1>9, HeldFacts
<1>11. /\ dev'[q] = w /\ \A p \in Queues : p # q => dev'[p] = dev[p]
       /\ disp'[d] = n /\ \A a \in Dispatchers : a # d => disp'[a] = disp[a]
  BY <1>4, <1>5 DEF IInv, TypeOK
<1>12. n.pc # "split"
  <2>1. PICK m : m = AfterEntry(d)
    OBVIOUS
  <2>2. m \in Thread /\ m.pc \in {"sq", "cq", "io"}
    BY <1>6, <2>1, ThreadEntry
  <2> QED
    BY <1>3, <2>1, <2>2 DEF Thread
<1>13. ~ Splitting(q) /\ ~ Splitting(q)'
  BY <1>4, <1>5, <1>11, <1>12 DEF Splitting
<1>14. CoversNow(q)'
  <2>1. CoversNow(q) /\ dev[q].inFlight \in Int
    BY <1>5, FlowTypes DEF FlowInv
  <2>2. PICK s \in {0, 1} : s = One(Splitting(q))
    BY DEF One
  <2>3. /\ w.inFlight + s - Held(w) >= dev[q].inFlight + s - Held(dev[q]) + 1
        /\ w.inFlight \in Int /\ w.head = Posted(dev[q]).head /\ w.oldCq = dev[q].oldCq
    BY <1>8, <1>9, <1>10, <2>1
  <2>4. Covers(host[q], w, cqDb[q], Splitting(q))
    BY <1>5, <1>7, <2>1, <2>2, <2>3, FlowPosted
  <2>5. Splitting(q)' <=> Splitting(q)
    BY <1>13
  <2> QED
    BY <1>4, <1>11, <2>4, <2>5 DEF CoversNow, Covers, One
<1> QED
  BY <1>4, <1>5, <1>11, <1>12, <1>14, FlowOne

\* A request is completed: its place is taken by a completion.
LEMMA FillFlow ==
  ASSUME IInv, FlowInv, NEW d \in Dispatchers, FillCq(d)
  PROVE  FlowInv'
<1>1. PICK h : h = Head(completed[d])
  OBVIOUS
<1>2. PICK q, r : q = h[1] /\ r = h[2]
  OBVIOUS
<1>3. PICK c : c = dev[q].req[r].cid
  OBVIOUS
<1>4. PICK u, w, n : /\ u = Posted(dev[q]) /\ w = Freed(u, r, c)
                     /\ n = AfterAnswers(d, Tail(completed[d]), disp[d].tick)
  OBVIOUS
<1>5. /\ disp[d].pc = "fill" /\ dev' = [dev EXCEPT ![q] = w]
      /\ disp' = [disp EXCEPT ![d] = n] /\ UNCHANGED <<host, cqDb>>
  BY <1>1, <1>2, <1>3, <1>4 DEF FillCq, At, hostVars
<1>6. /\ completed[d] \in Seq(Queues \X ReqIds) /\ completed[d] # <<>> /\ CompletedOk(d)
      /\ disp[d] \in Thread /\ disp[d].tick \in Time
  BY <1>5, ThreadNow, ThreadFields DEF ThreadOk
<1>7. h \in Queues \X ReqIds /\ On(completed[d], h)
  BY <1>1, <1>6, TailOnce DEF CompletedOk
<1>8. /\ q \in Queues /\ DOf(q) = d /\ r \in 1 .. QSize /\ dev[q].req[r].flight
  <2>1. q \in Queues /\ r \in ReqIds /\ r # 0 /\ DOf(q) = d /\ dev[q].req[r].flight
    BY <1>2, <1>6, <1>7 DEF CompletedOk
  <2> QED
    BY <2>1, IoSizes DEF ReqIds
<1>9. /\ dev[q] \in Device /\ Requested(dev[q])
      /\ Placed(host[q], sqMem[q], cqMem[q], dev[q], Cursor(q))
  BY <1>8, QueueNow DEF QueueOk
<1>10. c \in Cids /\ dev[q].tag[c] # 0
  BY <1>3, <1>8, <1>9, IoSizes DEF Requested
<1>11. c \in host[q].busy /\ ~ Waits(q, c)
  BY <1>9, <1>10, InUse DEF Waits
<1>12. /\ u \in Device /\ u.head = Posted(dev[q]).head /\ u.oldCq = dev[q].oldCq
       /\ u.inFlight = dev[q].inFlight /\ u.req = dev[q].req
  <2>1. u \in Device
    BY <1>4, <1>9, DeviceTypes
  <2> QED
    BY <1>4, <1>9, <2>1 DEF Posted, Device
<1>13. /\ w.head = u.head /\ w.oldCq = u.oldCq /\ w.inFlight = u.inFlight
       /\ w.req = [dev[q].req EXCEPT ![r].flight = FALSE]
  BY <1>4, <1>12 DEF Freed, Device
<1>14. Held(w) = Held(dev[q]) - 1 /\ Held(dev[q]) \in Nat
  <2>1. dev[q].req \in [ReqIds -> Request] /\ 1 .. QSize \subseteq ReqIds
    BY <1>9, RecordFacts, IoSizes DEF ReqIds
  <2>2. ~ w.req[r].flight /\ \A j \in 1 .. QSize : j # r => w.req[j] = dev[q].req[j]
    BY <1>8, <1>13, <2>1 DEF Request
  <2>3. \A j \in 1 .. QSize : j # r => (w.req[j].flight <=> dev[q].req[j].flight)
    BY <2>2
  <2> QED
    BY <1>8, <2>2, <2>3, HeldFacts
<1>15. /\ dev'[q] = w /\ \A p \in Queues : p # q => dev'[p] = dev[p]
       /\ disp'[d] = n /\ \A a \in Dispatchers : a # d => disp'[a] = disp[a]
  BY <1>5, <1>8 DEF IInv, TypeOK
<1>16. n.pc # "split"
  <2>1. n.pc \in {"fill", "deq", "irq"}
    BY <1>4, <1>6, ThreadAnswers
  <2> QED
    BY <2>1
<1>17. ~ Splitting(q) /\ ~ Splitting(q)'
  BY <1>5, <1>8, <1>15, <1>16 DEF Splitting
<1>18. CoversNow(q)'
  <2>1. CoversNow(q) /\ dev[q].inFlight \in Int
    BY <1>8, FlowTypes DEF FlowInv
  <2>2. PICK s \in {0, 1} : s = One(Splitting(q))
    BY DEF One
  <2>3. /\ w.inFlight + s - Held(w) >= dev[q].inFlight + s - Held(dev[q]) + 1
        /\ w.inFlight \in Int /\ w.head = Posted(dev[q]).head /\ w.oldCq = dev[q].oldCq
    BY <1>12, <1>13, <1>14, <2>1
  <2>4. Covers(host[q], w, cqDb[q], Splitting(q))
    BY <1>8, <1>10, <1>11, <2>1, <2>2, <2>3, FlowPosted
  <2>5. Splitting(q)' <=> Splitting(q)
    BY <1>17
  <2> QED
    BY <1>5, <1>15, <2>4, <2>5 DEF CoversNow, Covers, One
<1> QED
  BY <1>5, <1>8, <1>15, <1>16, <1>18, FlowOne

\* A command gets a request before it is counted.
LEMMA StartFlow ==
  ASSUME IInv, FlowInv, NEW d \in Dispatchers, StartIo(d)
  PROVE  FlowInv'
<1>1. PICK q, e : q = disp[d].q /\ e = disp[d].entry
  OBVIOUS
<1>2. PICK cmd, r, y : /\ cmd = sqMem[q][e] /\ r = Head(dev[q].free)
                       /\ y = [dev[q].req[r] EXCEPT !.flight = TRUE, !.cid = cmd.cid,
                                                    !.start = now, !.end = now]
  OBVIOUS
<1>3. /\ disp[d].pc = "io" /\ UNCHANGED <<host, cqDb>>
      /\ dev' = [dev EXCEPT ![q].free = Tail(@), ![q].tag[cmd.cid] = r, ![q].req[r] = y]
      /\ disp' = [disp EXCEPT ![d].pc = "split", ![d].slpa = cmd.slba, ![d].nlb = cmd.nlb,
                              ![d].req = r, ![d].f = FirstFTL(cmd.slba)]
  BY <1>1, <1>2 DEF StartIo, At, hostVars
<1>4. q \in Queues /\ DOf(q) = d /\ disp[d] \in Thread
  <2>1. disp[d].pc \in {"io", "hack"}
    BY <1>3
  <2> QED
    BY <1>1, <2>1, EntryThere, ThreadNow
<1>5. dev[q] \in Device /\ Requested(dev[q])
  BY <1>4, QueueNow DEF QueueOk
<1>6. /\ r \in 1 .. QSize /\ ~ dev[q].req[r].flight
  <2>1. dev[q].free # <<>> /\ dev[q].free \in Seq(ReqIds)
    BY <1>5, RequestLeft, RecordFacts
  <2>2. r \in ReqIds /\ On(dev[q].free, r)
    BY <1>2, <1>5, <2>1, TailOnce
  <2>3. r # 0
    BY <1>5, <2>2 DEF Requested
  <2>4. r \in 1 .. QSize
    BY <2>2, <2>3, IoSizes DEF ReqIds
  <2> QED
    BY <1>5, <2>2, <2>4 DEF Requested
<1>7. dev[q].req \in [ReqIds -> Request] /\ 1 .. QSize \subseteq ReqIds
  BY <1>5, RecordFacts, IoSizes DEF ReqIds
<1>8. y.flight
  BY <1>2, <1>6, <1>7 DEF Request
<1>9. /\ dev'[q].head = dev[q].head /\ dev'[q].oldCq = dev[q].oldCq
      /\ dev'[q].inFlight = dev[q].inFlight
      /\ dev'[q].req = [dev[q].req EXCEPT ![r] = y]
      /\ \A p \in Queues : p # q => dev'[p] = dev[p]
  <2>1. dev \in [Queues -> Device]
    BY DEF IInv, TypeOK
  <2> QED
    BY <1>3, <1>4, <1>5, <2>1 DEF Device
<1>10. Held(dev'[q]) = Held(dev[q]) + 1
  <2>1. dev'[q].req[r].flight /\ \A j \in 1 .. QSize : j # r => dev'[q].req[j] = dev[q].req[j]
    BY <1>6, <1>7, <1>8, <1>9
  <2>2. \A j \in 1 .. QSize : j # r => (dev'[q].req[j].flight <=> dev[q].req[j].flight)
    BY <2>1
  <2> QED
    BY <1>6, <2>1, <2>2, HeldFacts
<1>11. /\ disp'[d].pc = "split" /\ disp'[d].q = q
       /\ \A a \in Dispatchers : a # d => disp'[a] = disp[a]
  <2>1. disp \in [Dispatchers -> Thread]
    BY DEF IInv, TypeOK
  <2> QED
    BY <1>1, <1>3, <1>4, <2>1 DEF Thread
<1>12. ~ Splitting(q) /\ Splitting(q)'
  BY <1>3, <1>4, <1>11 DEF Splitting
<1>13. CoversNow(q)'
  <2>1. CoversNow(q)
    BY <1>4 DEF FlowInv
  <2>2. One(Splitting(q)) = 0 /\ One(Splitting(q)') = 1
    BY <1>12 DEF One
  <2>3. dev[q].inFlight >=
          Held(dev[q]) + Distance(dev[q].oldCq, cqDb[q]) + Distance(cqDb[q], host[q].cqHead)
            + Distance(host[q].cqHead, dev[q].head)
    BY <1>4, <2>1, <2>2, FlowTypes DEF CoversNow, Covers
  <2>4. dev[q].inFlight + 1 >=
          Held(dev'[q]) + Distance(dev[q].oldCq, cqDb[q]) + Distance(cqDb[q], host[q].cqHead)
            + Distance(host[q].cqHead, dev[q].head)
    BY <1>4, <1>10, <2>3, FlowTypes
  <2> QED
    BY <1>3, <1>9, <2>2, <2>4 DEF CoversNow, Covers
<1> QED
  BY <1>3, <1>4, <1>9, <1>11, <1>13, FlowOne

\* A piece is sent; with the last one the command is counted.
LEMMA EnqueueFlow ==
  ASSUME IInv, FlowInv, NEW d \in Dispatchers, EnqueuePiece(d)
  PROVE  FlowInv'
<1>1. PICK q, f, r : q = disp[d].q /\ f = disp[d].f /\ r = disp[d].req
  OBVIOUS
<1>2. PICK n, sent : /\ n = IF disp[d].nlb <= SegUnits(f) THEN disp[d].nlb ELSE SegUnits(f)
                     /\ sent = [dev[q] EXCEPT !.req[r].left = @ + 1]
  OBVIOUS
<1>3. /\ disp[d].pc = "split" /\ UNCHANGED <<host, cqDb>>
      /\ \/ /\ dev' = [dev EXCEPT ![q] = Dispatched(d, sent)]
            /\ disp' = [disp EXCEPT ![d] = AfterEntry(d)]
         \/ /\ dev' = [dev EXCEPT ![q] = sent]
            /\ disp' = [disp EXCEPT ![d].slpa = @ + n, ![d].nlb = @ - n, ![d].f = Succ(@, NrFTL)]
  BY <1>1, <1>2 DEF EnqueuePiece, At, hostVars
<1>4. q \in Queues /\ DOf(q) = d /\ disp[d] \in Thread
  BY <1>1, <1>3, ThreadNow DEF ThreadOk, Batch
<1>5. dev[q] \in Device /\ dev[q].req \in [ReqIds -> Request] /\ 1 .. QSize \subseteq ReqIds
  BY <1>4, QueueNow, RecordFacts, IoSizes DEF ReqIds
<1>6. /\ sent.head = dev[q].head /\ sent.oldCq = dev[q].oldCq
      /\ sent.inFlight = dev[q].inFlight
      /\ sent.req = [dev[q].req EXCEPT ![r].left = @ + 1]
  BY <1>2, <1>5 DEF Device
<1>7. \A j \in 1 .. QSize : sent.req[j].flight <=> dev[q].req[j].flight
  BY <1>5, <1>6 DEF Request
<1>8. /\ \A p \in Queues : p # q => dev'[p] = dev[p]
      /\ \A a \in Dispatchers : a # d => disp'[a] = disp[a]
  BY <1>3 DEF IInv, TypeOK
<1>9. dev[q].inFlight \in Int /\ Splitting(q) /\ CoversNow(q)
  BY <1>1, <1>3, <1>4, FlowTypes DEF Splitting, FlowInv
<1>10. CASE /\ dev' = [dev EXCEPT ![q] = Dispatched(d, sent)]
            /\ disp' = [disp EXCEPT ![d] = AfterEntry(d)]
  <2>1. PICK w, m : w = Dispatched(d, sent) /\ m = AfterEntry(d)
    OBVIOUS
  <2>2. /\ w.head = sent.head /\ w.oldCq = sent.oldCq /\ w.inFlight = sent.inFlight + 1
        /\ w.req = sent.req
    <3>1. sent = [dev[q] EXCEPT !.req = sent.req]
      BY <1>2, <1>5, <1>6 DEF Device
    <3> QED
      BY <1>5, <2>1, <3>1 DEF Dispatched, Device
  <2>3. m.pc \in {"sq", "cq", "io"}
    BY <1>4, <2>1, ThreadEntry
  <2>4. dev'[q] = w /\ disp'[d] = m
    BY <1>4, <1>10, <2>1 DEF IInv, TypeOK
  <2>5. ~ Splitting(q)'
    BY <1>4, <2>3, <2>4 DEF Splitting
  <2>6. Held(w) = Held(dev[q])
    BY <1>7, <2>2, HeldFacts
  <2>7. One(Splitting(q)) = 1 /\ One(Splitting(q)') = 0
    BY <1>9, <2>5 DEF One
  <2>8. dev[q].inFlight + 1 >=
          Held(dev[q]) + Distance(dev[q].oldCq, cqDb[q]) + Distance(cqDb[q], host[q].cqHead)
            + Distance(host[q].cqHead, dev[q].head)
    BY <1>9, <2>7 DEF CoversNow, Covers
  <2>9. CoversNow(q)'
    <3>1. w.inFlight + 0 >=
            Held(w) + Distance(w.oldCq, cqDb[q]) + Distance(cqDb[q], host[q].cqHead)
              + Distance(host[q].cqHead, w.head)
      BY <1>6, <1>9, <2>2, <2>6, <2>8
    <3> QED
      BY <1>3, <2>4, <2>7, <3>1 DEF CoversNow, Covers
  <2>10. disp'[d].pc # "split"
    BY <2>3, <2>4
  <2>11. disp[d].pc = "split" => disp[d].q = q
    BY <1>1
  <2>12. UNCHANGED <<host, cqDb>>
    BY <1>3
  <2> QED
    BY <1>4, <1>8, <2>9, <2>10, <2>11, <2>12, FlowOne
<1>11. CASE /\ dev' = [dev EXCEPT ![q] = sent]
            /\ disp' = [disp EXCEPT ![d].slpa = @ + n, ![d].nlb = @ - n,
                                    ![d].f = Succ(@, NrFTL)]
  <2>1. dev'[q] = sent
    BY <1>4, <1>11 DEF IInv, TypeOK
  <2>2. disp'[d].pc = "split" /\ disp'[d].q = q
    <3>1. disp \in [Dispatchers -> Thread]
      BY DEF IInv, TypeOK
    <3> QED
      BY <1>1, <1>3, <1>4, <1>11, <3>1 DEF Thread
  <2>3. Splitting(q)' <=> Splitting(q)
    BY <1>4, <1>9, <2>2 DEF Splitting
  <2>4. \A j \in 1 .. QSize : dev'[q].req[j].flight <=> dev[q].req[j].flight
    BY <1>7, <2>1
  <2>5. UNCHANGED <<host, cqDb>>
    BY <1>3
  <2>6. CoversNow(q)'
    BY <1>6, <1>9, <2>1, <2>3, <2>4, <2>5, FlowSame
  <2>7. disp[d].pc = "split" => disp[d].q = q
    BY <1>1
  <2> QED
    BY <1>4, <1>8, <2>2, <2>5, <2>6, <2>7, FlowOne
<1> QED
  BY <1>3, <1>10, <1>11

\* The device looks at the head doorbell.
LEMMA ProcCqFlow ==
  ASSUME IInv, FlowInv, NEW d \in Dispatchers, ProcCq(d)
  PROVE  FlowInv'
<1>1. PICK q, n, s : /\ q = disp[d].q /\ s = NextQueue(d, "cq", "deq")
                     /\ n = dev[q].inFlight - Distance(dev[q].oldCq, cqDb[q])
  OBVIOUS
<1>2. /\ disp[d].pc = "cq" /\ UNCHANGED <<host, cqDb>>
      /\ dev' = [dev EXCEPT ![q].inFlight = n, ![q].oldCq = cqDb[q]]
      /\ disp' = [disp EXCEPT ![d] = s]
  BY <1>1 DEF ProcCq, At, hostVars
<1>3. q \in Queues /\ DOf(q) = d /\ disp[d] \in Thread
  BY <1>1, <1>2, ThreadNow DEF ThreadOk
<1>4. dev[q] \in Device /\ dev \in [Queues -> Device] /\ disp \in [Dispatchers -> Thread]
  BY <1>3 DEF IInv, TypeOK
<1>5. /\ dev'[q].head = dev[q].head /\ dev'[q].oldCq = cqDb[q] /\ dev'[q].inFlight = n
      /\ dev'[q].req = dev[q].req
      /\ \A p \in Queues : p # q => dev'[p] = dev[p]
  BY <1>2, <1>3, <1>4 DEF Device
<1>6. /\ disp'[d] = s /\ \A a \in Dispatchers : a # d => disp'[a] = disp[a]
  BY <1>2, <1>4
<1>7. s.pc # "split"
  <2>1. s.pc \in {"cq", "deq"}
    BY <1>1, <1>3, ThreadNext DEF Pcs
  <2> QED
    BY <2>1
<1>8. ~ Splitting(q) /\ ~ Splitting(q)'
  BY <1>2, <1>3, <1>6, <1>7 DEF Splitting
<1>9. CoversNow(q)'
  <2>1. CoversNow(q)
    BY <1>3 DEF FlowInv
  <2>2. One(Splitting(q)) = 0 /\ One(Splitting(q)') = 0
    BY <1>8 DEF One
  <2>3. Held(dev'[q]) = Held(dev[q]) /\ Distance(cqDb[q], cqDb[q]) = 0
    BY <1>3, <1>5, HeldFacts, FlowTypes, Triangle
  <2>4. dev[q].inFlight >=
          Held(dev[q]) + Distance(dev[q].oldCq, cqDb[q]) + Distance(cqDb[q], host[q].cqHead)
            + Distance(host[q].cqHead, dev[q].head)
    BY <1>3, <2>1, <2>2, FlowTypes DEF CoversNow, Covers
  <2>5. n + 0 >=
          Held(dev'[q]) + Distance(cqDb[q], cqDb[q]) + Distance(cqDb[q], host[q].cqHead)
            + Distance(host[q].cqHead, dev[q].head)
    BY <1>1, <1>3, <2>3, <2>4, FlowTypes
  <2> QED
    BY <1>2, <1>5, <2>2, <2>5 DEF CoversNow, Covers
<1> QED
  BY <1>2, <1>3, <1>5, <1>6, <1>7, <1>9, FlowOne

\* Every step keeps the queues covered.
LEMMA NextFlow == IInv /\ FlowInv /\ [Next]_vars => FlowInv'
<1> SUFFICES ASSUME IInv, FlowInv, [Next]_vars PROVE FlowInv'
  OBVIOUS
<1>1. ASSUME NEW q \in Queues, Host(q) PROVE FlowInv'
  BY <1>1, SubmitFlow, ReapFlow, RingCqFlow DEF Host
<1>2. ASSUME NEW d \in Dispatchers, Dispatcher(d) PROVE FlowInv'
  BY <1>2, HackFlow, FillFlow, StartFlow, EnqueueFlow, ProcCqFlow, QuietFlow DEF Dispatcher
<1>3. CASE (\E f \in FTLs : FTL(f)) \/ Tick \/ UNCHANGED vars
  <2>1. UNCHANGED <<host, cqDb, dev, disp>>
    BY <1>3 DEF FTL, CheckReq, CheckResp, Tick, vars, hostVars
  <2> QED
    BY <2>1, FlowQuiet DEF Splitting
<1> QED
  BY <1>1, <1>2, <1>3 DEF Next

\* nr_in_flight, which the code keeps in an unsigned integer, is never less
\* than the number of commands that hold a request, but for the command being
\* split; in particular it never wraps below zero.
THEOREM CounterCoversHeld == Spec => []InFlightSound
<1>1. Init => FlowInv
  <2> SUFFICES ASSUME Init, NEW q \in Queues PROVE CoversNow(q)
    BY DEF FlowInv
  <2>1. /\ dev[q].inFlight = 0 /\ dev[q].oldCq = 0 /\ dev[q].head = 0 /\ cqDb[q] = 0
        /\ host[q].cqHead = 0
    BY DEF Init
  <2>2. HeldBy(dev[q]) = {}
    <3>1. \A r \in ReqIds : ~ dev[q].req[r].flight
      BY DEF Init
    <3> QED
      BY <3>1, IoSizes DEF HeldBy, ReqIds
  <2>3. Held(dev[q]) = 0 /\ Distance(0, 0) = 0
    BY <2>2, FS_EmptySet DEF Held, Distance
  <2>4. One(Splitting(q)) \in {0, 1}
    BY DEF One
  <2> QED
    BY <2>1, <2>3, <2>4 DEF CoversNow, Covers
<1>2. IInv /\ FlowInv => InFlightSound
  <2> SUFFICES ASSUME IInv, FlowInv, NEW q \in Queues
               PROVE  dev[q].inFlight + (IF Dispatching(q) THEN 1 ELSE 0) >=
                        Cardinality({r \in 1 .. QSize : dev[q].req[r].flight})
    BY DEF InFlightSound
  <2>1. One(Splitting(q)) <= IF Dispatching(q) THEN 1 ELSE 0
    <3>1. DOf(q) \in Dispatchers
      BY QueueNumbers
    <3>2. Splitting(q) => Dispatching(q)
      BY <3>1 DEF Splitting, Dispatching, At
    <3> QED
      BY <3>2 DEF One
  <2>2. dev[q].inFlight + One(Splitting(q)) >= Held(dev[q])
    BY FlowTypes DEF FlowInv, CoversNow, Covers, One
  <2>3. PICK k \in {0, 1} : k = IF Dispatching(q) THEN 1 ELSE 0
    OBVIOUS
  <2>4. dev[q].inFlight + k >= Held(dev[q])
    BY <2>1, <2>2, <2>3, FlowTypes DEF One
  <2> QED
    BY <2>3, <2>4 DEF Held, HeldBy
<1> QED
  BY <1>1, <1>2, NextFlow, Invariance, PTL DEF Spec

-----------------------------------------------------------------------------
(* Commands are served before they are posted.                             *)

\* Block b of command c of queue q is still to be sent by the dispatcher, being
\* s, or in a piece that no FTL thread has taken.
Unsent(s, v, q, c, b) ==
  s.pc = "split" /\ s.q = q /\ s.req = v.tag[c] /\ b \in s.slpa .. s.slpa + s.nlb - 1
Sent(ring, q, c, b) ==
  \E d \in Dispatchers, f \in FTLs, i \in 0 .. InSize - 1 :
    /\ Matches(ring[d][f][i], q, c)
    /\ b \in ring[d][f][i].slpa .. ring[d][f][i].slpa + ring[d][f][i].nlb - 1

\* The request, or an answer to come, says that the command lasts until t.
Ends(ring, n, q, c, t) ==
  \E d \in Dispatchers, f \in FTLs, i \in 0 .. n - 1 :
    Matches(ring[d][f][i], q, c) /\ t <= ring[d][f][i].nsecs
Lasts(v, out, ans, q, c, t) ==
  \/ t <= v.req[v.tag[c]].end
  \/ Ends(out, OutSize, q, c, t) \/ Ends(ans, 1, q, c, t)

\* What a command of which no piece was overwritten waits for is on its way.
Awaited(w, s, v, in, out, ans, q, c) ==
  /\ \A b \in w.left : Unsent(s, v, q, c, b) \/ Sent(in, q, c, b)
  /\ Lasts(v, out, ans, q, c, w.due)
Whole(q, c) == dev[q].tag[c] # 0 /\ LeftOf(dev[q], c) = Pieces(q, c)
ServedOk(q, c) ==
  Whole(q, c) =>
    Awaited(work[q][c], disp[DOf(q)], dev[q], inQue, outQue, Answers(pq), q, c)

\* A command that no dispatcher has taken has its own blocks to be served.
Fresh(sqm, wk, cur, tail) ==
  \A e \in Entries : Inside(cur, tail, e) =>
    /\ wk[sqm[e].cid].left \subseteq sqm[e].slba .. sqm[e].slba + sqm[e].nlb - 1
    /\ wk[sqm[e].cid].due = 0

\* The clock a dispatcher has read is not ahead, and it completes what is due.
ClockOk(d) ==
  disp[d].tick <= now /\ (disp[d].pc = "fill" => IsDue(completed[d], disp[d].tick))

ServedInv ==
  /\ \A q \in Queues : /\ Fresh(sqMem[q], work[q], Cursor(q), host[q].sqTail)
                       /\ \A c \in Cids : ServedOk(q, c)
  /\ \A d \in Dispatchers : ClockOk(d)

\* A command whose pieces, request and dispatcher do not change waits for the
\* same as before.
LEMMA ServedSame ==
  ASSUME ServedInv, UNCHANGED <<inQue, outQue, pq>>, NEW q \in Queues, NEW c \in Cids,
         dev'[q].tag[c] # 0 =>
           /\ dev'[q].tag[c] = dev[q].tag[c] /\ work'[q][c] = work[q][c]
           /\ dev'[q].req[dev[q].tag[c]] = dev[q].req[dev[q].tag[c]],
         disp[DOf(q)].pc = "split" /\ disp[DOf(q)].q = q => disp'[DOf(q)] = disp[DOf(q)]
  PROVE  ServedOk(q, c)'
<1>1. SUFFICES ASSUME Whole(q, c)'
               PROVE  Awaited(work[q][c], disp[DOf(q)], dev[q], inQue, outQue, Answers(pq), q, c)'
  BY DEF ServedOk
<1>2. /\ dev'[q].tag[c] = dev[q].tag[c] /\ work'[q][c] = work[q][c] /\ dev[q].tag[c] # 0
      /\ dev'[q].req[dev[q].tag[c]] = dev[q].req[dev[q].tag[c]]
  BY <1>1 DEF Whole
<1>3. Pieces(q, c)' = Pieces(q, c)
  BY DEF Pieces
<1>4. LeftOf(dev'[q], c) = LeftOf(dev[q], c)
  BY <1>2 DEF LeftOf
<1>5. Whole(q, c)
  BY <1>1, <1>2, <1>3, <1>4 DEF Whole
<1>6. Awaited(work[q][c], disp[DOf(q)], dev[q], inQue, outQue, Answers(pq), q, c)
  BY <1>5 DEF ServedInv, ServedOk
<1>7. PICK a : a = Answers(pq)
  OBVIOUS
<1>8. Answers(pq') = a
  BY <1>7
<1>9. ASSUME NEW b, Unsent(disp[DOf(q)], dev[q], q, c, b)
      PROVE  Unsent(disp'[DOf(q)], dev'[q], q, c, b)
  BY <1>2, <1>9 DEF Unsent
<1>10. Lasts(dev'[q], outQue, a, q, c, work[q][c].due)
  BY <1>2, <1>6, <1>7 DEF Awaited, Lasts
<1>11. \A b \in work[q][c].left : Unsent(disp'[DOf(q)], dev'[q], q, c, b) \/ Sent(inQue, q, c, b)
  BY <1>6, <1>9 DEF Awaited
<1> QED
  BY <1>2, <1>8, <1>10, <1>11 DEF Awaited

\* The clock a dispatcher has read stays right.
LEMMA ClockSame ==
  ASSUME IInv, NEW d \in Dispatchers, ClockOk(d), disp'[d] = disp[d],
         completed'[d] = completed[d], now' \in Time, now' >= now,
         \A p \in Queues : \A r \in ReqIds : On(completed[d], <<p, r>>) =>
           dev'[p].req[r].end = dev[p].req[r].end
  PROVE  ClockOk(d)'
<1>1. disp[d].tick <= now'
  <2>1. disp[d].tick \in Nat /\ now \in Nat /\ now' \in Nat
    BY ThreadNow, ThreadFields DEF IInv, TypeOK, Time
  <2> QED
    BY <2>1 DEF ClockOk
<1>2. ASSUME disp[d].pc = "fill" PROVE IsDue(completed[d], disp[d].tick)'
  <2>1. completed[d] # <<>> /\ completed[d] \in Seq(Queues \X ReqIds) /\ Once(completed[d])
        /\ disp[d].tick >= EndOf(Head(completed[d]))
    BY <1>2, ThreadNow DEF ClockOk, IsDue, CompletedOk
  <2>2. PICK h : h = Head(completed[d])
    OBVIOUS
  <2>3. h \in Queues \X ReqIds /\ On(completed[d], h)
    BY <2>1, <2>2, TailOnce
  <2>4. h[1] \in Queues /\ h[2] \in ReqIds /\ h = <<h[1], h[2]>>
    BY <2>3
  <2>5. dev'[h[1]].req[h[2]].end = dev[h[1]].req[h[2]].end
    BY <2>3, <2>4
  <2>6. completed'[d] # <<>> /\ Head(completed'[d]) = h
    BY <2>1, <2>2
  <2> QED
    BY <2>1, <2>2, <2>5, <2>6 DEF IsDue, EndOf
<1> QED
  BY <1>1, <1>2 DEF ClockOk

\* A dispatcher looks at something and goes on.
LEMMA ServedQuiet ==
  ASSUME IInv, ServedInv, NEW d \in Dispatchers, disp[d].pc # "split",
         \A e \in Dispatchers : e # d => disp'[e] = disp[e],
         UNCHANGED <<host, sqMem, completed, inQue, outQue, pq, now, work>>,
         \A p \in Queues : dev'[p].tag = dev[p].tag /\ dev'[p].req = dev[p].req,
         \A p \in Queues : Cursor(p)' = Cursor(p),
         ClockOk(d)'
  PROVE  ServedInv'
<1>1. ASSUME NEW q \in Queues, NEW c \in Cids PROVE ServedOk(q, c)'
  <2>1. disp[DOf(q)].pc = "split" => disp'[DOf(q)] = disp[DOf(q)]
    BY QueueNumbers
  <2>2. /\ dev'[q].tag[c] = dev[q].tag[c] /\ work'[q][c] = work[q][c]
        /\ dev'[q].req[dev[q].tag[c]] = dev[q].req[dev[q].tag[c]]
    OBVIOUS
  <2> QED
    BY <2>1, <2>2, ServedSame
<1>2. ASSUME NEW e \in Dispatchers PROVE ClockOk(e)'
  <2>1. now' \in Time /\ now' >= now
    BY DEF IInv, TypeOK, Time
  <2>2. CASE e # d
    <3>1. ClockOk(e) /\ disp'[e] = disp[e] /\ completed'[e] = completed[e]
      BY <2>2 DEF ServedInv
    <3>2. \A p \in Queues : \A r \in ReqIds : dev'[p].req[r].end = dev[p].req[r].end
      OBVIOUS
    <3> QED
      BY <2>1, <3>1, <3>2, ClockSame
  <2> QED
    BY <2>2
<1>3. ASSUME NEW q \in Queues
      PROVE  Fresh(sqMem[q], work[q], Cursor(q), host[q].sqTail)'
  BY DEF ServedInv, Fresh
<1> QED
  BY <1>1, <1>2, <1>3 DEF ServedInv

\* The host's steps, and the clock's.
LEMMA ServedSubmit ==
  ASSUME IInv, ServedInv, NEW q \in Queues, Submit(q)
  PROVE  ServedInv'
<1>1. PICK rq \in Requests, c \in Cids \ host[q].busy :
        /\ sqMem' = [sqMem EXCEPT ![q][host[q].sqTail] =
                                    [cid |-> c, slba |-> rq[1], nlb |-> rq[2]]]
        /\ host' = [host EXCEPT ![q].sqTail = Succ(@, QSize), ![q].busy = @ \cup {c}]
        /\ work' = [work EXCEPT ![q][c] =
                                  [left |-> rq[1] .. rq[1] + rq[2] - 1, due |-> 0]]
  BY DEF Submit
<1>2. UNCHANGED <<dev, disp, completed, inQue, outQue, pq, now>>
  BY DEF Submit, ringIn, ringOut
<1>3. /\ host \in [Queues -> Driver]
      /\ sqMem \in [Queues -> [Entries -> [cid : Cids \cup {0}, slba : Nat, nlb : Nat]]]
      /\ work \in [Queues -> [Cids -> [left : SUBSET Nat, due : Time]]] /\ now \in Time
  BY DEF IInv, TypeOK
<1>t. PICK t : t = host[q].sqTail
  OBVIOUS
<1>u. PICK cur : cur = Cursor(q)
  OBVIOUS
<1>4. /\ t \in Entries /\ cur \in Entries /\ Placed(host[q], sqMem[q], cqMem[q], dev[q], cur)
  BY <1>t, <1>u, QueueNow, RecordFacts DEF QueueOk
<1>5. dev[q].tag[c] = 0 /\ ~ In(sqMem[q], cur, t, c) /\ Distinct(sqMem[q], cur, t)
  <2>1. c \in Cids /\ c \notin host[q].busy
    BY <1>1
  <2>2. PICK h, sqm, cqm, v : h = host[q] /\ sqm = sqMem[q] /\ cqm = cqMem[q] /\ v = dev[q]
    OBVIOUS
  <2>3. Placed(h, sqm, cqm, v, cur) /\ c \notin h.busy
    BY <1>4, <2>1, <2>2
  <2>4. ~ In(sqm, cur, h.sqTail, c) /\ v.tag[c] = 0
    BY <2>1, <2>3, InUse
  <2>5. Distinct(sqm, cur, h.sqTail)
    BY <2>3 DEF Placed
  <2> QED
    BY <1>t, <2>2, <2>4, <2>5
<1>6. \A p \in Queues : Cursor(p)' = Cursor(p)
  BY <1>2 DEF Cursor
<1>7. ASSUME NEW p \in Queues, NEW k \in Cids PROVE ServedOk(p, k)'
  <2>1. dev'[p].tag[k] # 0 => work'[p][k] = work[p][k]
    <3>1. CASE p = q /\ k = c
      BY <1>2, <1>5, <3>1
    <3>2. CASE ~ (p = q /\ k = c)
      BY <1>1, <1>3, <3>2
    <3> QED
      BY <3>1, <3>2
  <2> QED
    BY <1>2, <2>1, ServedSame
<1>8. ASSUME NEW p \in Queues
      PROVE  Fresh(sqMem[p], work[p], Cursor(p), host[p].sqTail)'
  <2>1. CASE p # q
    <3>1. sqMem'[p] = sqMem[p] /\ work'[p] = work[p] /\ host'[p] = host[p]
      BY <1>1, <1>3, <2>1
    <3> QED
      BY <1>6, <3>1 DEF ServedInv
  <2>2. CASE p = q
    <3>1. /\ sqMem'[q][t] = [cid |-> c, slba |-> rq[1], nlb |-> rq[2]]
          /\ \A e \in Entries : e # t => sqMem'[q][e] = sqMem[q][e]
          /\ work'[q][c] = [left |-> rq[1] .. rq[1] + rq[2] - 1, due |-> 0]
          /\ \A k \in Cids : k # c => work'[q][k] = work[q][k]
      BY <1>1, <1>3, <1>t, <1>4
    <3>2. host'[q].sqTail = Succ(t, QSize)
      BY <1>1, <1>3, <1>t DEF Driver
    <3>3. Succ(t, QSize) # cur
      BY <1>1, <1>4, <1>5, RoomLeft
    <3>4. \A e \in Entries : Inside(cur, Succ(t, QSize), e) <=> Inside(cur, t, e) \/ e = t
      BY <1>4, <3>3, InsidePushed
    <3>5. ASSUME NEW e \in Entries, Inside(cur, Succ(t, QSize), e)
          PROVE  /\ work'[q][sqMem'[q][e].cid].left
                      \subseteq sqMem'[q][e].slba .. sqMem'[q][e].slba + sqMem'[q][e].nlb - 1
                 /\ work'[q][sqMem'[q][e].cid].due = 0
      <4>1. CASE e = t
        <5>1. PICK a, n : a = rq[1] /\ n = rq[2]
          OBVIOUS
        <5>2. sqMem'[q][e] = [cid |-> c, slba |-> a, nlb |-> n]
          BY <3>1, <4>1, <5>1
        <5>3. work'[q][c] = [left |-> a .. a + n - 1, due |-> 0]
          BY <3>1, <5>1
        <5>4. sqMem'[q][e].cid = c /\ sqMem'[q][e].slba = a /\ sqMem'[q][e].nlb = n
          BY <5>2
        <5>5. work'[q][c].left = a .. a + n - 1 /\ work'[q][c].due = 0
          BY <5>3
        <5> QED
          BY <5>4, <5>5
      <4>2. CASE e # t
        <5>1. Inside(cur, t, e) /\ sqMem'[q][e] = sqMem[q][e]
          BY <3>1, <3>4, <3>5, <4>2
        <5>2. sqMem[q][e].cid \in Cids /\ sqMem[q][e].cid # c
          BY <1>5, <5>1 DEF Distinct, In
        <5>3. work'[q][sqMem[q][e].cid] = work[q][sqMem[q][e].cid]
          BY <3>1, <5>2
        <5> QED
          BY <1>t, <1>u, <5>1, <5>3 DEF ServedInv, Fresh
      <4> QED
        BY <4>1, <4>2
    <3>6. Fresh(sqMem'[q], work'[q], cur, Succ(t, QSize))
      BY <3>5 DEF Fresh
    <3> QED
      BY <1>6, <1>u, <2>2, <3>2, <3>6
  <2> QED
    BY <2>1, <2>2
<1>9. ASSUME NEW e \in Dispatchers PROVE ClockOk(e)'
  BY <1>2 DEF ServedInv, ClockOk, IsDue, EndOf
<1> QED
  BY <1>7, <1>8, <1>9 DEF ServedInv

\* The host takes completions.
LEMMA ServedReap ==
  ASSUME IInv, ServedInv, NEW q \in Queues, Reap(q)
  PROVE  ServedInv'
<1>1. UNCHANGED <<sqMem, dev, disp, completed, inQue, outQue, pq, now, work>>
  BY DEF Reap, ringIn, ringOut
<1>2. \A p \in Queues : host'[p].sqTail = host[p].sqTail
  <2>1. PICK b, a, f :
          host' = [host EXCEPT ![q] = [host[q] EXCEPT !.busy = b, !.cqHead = a, !.phase = f]]
    BY DEF Reap
  <2>2. host \in [Queues -> Driver]
    BY DEF IInv, TypeOK
  <2> QED
    BY <2>1, <2>2 DEF Driver
<1>3. \A p \in Queues : Cursor(p)' = Cursor(p)
  BY <1>1 DEF Cursor
<1>4. \A p \in Queues : \A c \in Cids : ServedOk(p, c)'
  BY <1>1, ServedSame
<1>5. \A p \in Queues : Fresh(sqMem[p], work[p], Cursor(p), host[p].sqTail)'
  BY <1>1, <1>2, <1>3 DEF ServedInv
<1>6. \A e \in Dispatchers : ClockOk(e)'
  BY <1>1 DEF ServedInv, ClockOk, IsDue, EndOf
<1> QED
  BY <1>4, <1>5, <1>6 DEF ServedInv

\* The other steps outside of the device.
LEMMA ServedIdle ==
  ASSUME IInv, ServedInv, (\E q \in Queues : RingCq(q)) \/ Tick \/ UNCHANGED vars
  PROVE  ServedInv'
<1>1. UNCHANGED <<sqMem, dev, disp, completed, inQue, outQue, pq, work, host>>
  BY DEF RingCq, Tick, ringIn, ringOut, hostVars, vars
<1>2. now' = now \/ (now' = now + 1 /\ now < MaxTime)
  BY DEF RingCq, Tick, vars
<1>3. now' \in Time /\ now' >= now
  BY <1>2, IoSizes DEF IInv, TypeOK, Time
<1>4. \A p \in Queues : Cursor(p)' = Cursor(p)
  BY <1>1 DEF Cursor
<1>5. \A p \in Queues : \A c \in Cids : ServedOk(p, c)'
  BY <1>1, ServedSame
<1>6. \A p \in Queues : Fresh(sqMem[p], work[p], Cursor(p), host[p].sqTail)'
  BY <1>1, <1>4 DEF ServedInv
<1>7. \A e \in Dispatchers : ClockOk(e)'
  BY <1>1, <1>3, ClockSame DEF ServedInv
<1> QED
  BY <1>5, <1>6, <1>7 DEF ServedInv

\* Where the dispatcher does nothing but look.
LEMMA ServedLook ==
  ASSUME IInv, ServedInv, NEW d \in Dispatchers,
         ProcSq(d) \/ ReadHack(d) \/ ProcCq(d)
  PROVE  ServedInv'
<1> DEFINE x == disp[d]
           s == disp'[d]
<1>1. /\ x.pc \in {"sq", "io", "cq"}
      /\ UNCHANGED <<host, sqMem, completed, inQue, outQue, pq, now, work>>
  BY DEF ProcSq, ReadHack, ProcCq, At, hostVars, ringIn, ringOut
<1>2. TypeOK
  BY DEF IInv
<1>3. x \in Thread /\ DOf(x.q) = d
  BY ThreadNow DEF ThreadOk
<1>4. \A e \in Dispatchers : e # d => disp'[e] = disp[e]
  BY <1>2 DEF ProcSq, ReadHack, ProcCq, TypeOK
<1>5. \A p \in Queues : /\ dev'[p].tag = dev[p].tag /\ dev'[p].req = dev[p].req
                        /\ dev'[p].oldSq = dev[p].oldSq
  <2>1. CASE ProcSq(d) \/ ReadHack(d)
    BY <2>1 DEF ProcSq, ReadHack
  <2>2. CASE ProcCq(d)
    <3>1. PICK q, n, o : /\ q = x.q /\ o = cqDb[q]
                         /\ n = dev[q].inFlight - Distance(dev[q].oldCq, cqDb[q])
      OBVIOUS
    <3>2. dev' = [dev EXCEPT ![q] = [dev[q] EXCEPT !.inFlight = n, !.oldCq = o]]
      BY <2>2, <3>1 DEF ProcCq
    <3>3. dev \in [Queues -> Device]
      BY <1>2 DEF TypeOK
    <3> QED
      BY <3>2, <3>3 DEF Device
  <2> QED
    BY <2>1, <2>2
<1>6. s.tick = x.tick /\ s.pc # "fill" /\ \A p \in Queues : CursorOf(s, dev[p], p) = CursorOf(x, dev[p], p)
  <2>1. CASE ProcSq(d)
    <3>1. PICK q : q = x.q
      OBVIOUS
    <3>2. /\ x.pc = "sq"
          /\ s = IF q \notin Queues THEN [x EXCEPT !.pc = "deq", !.q = d + 1]
                 ELSE IF sqDb[q] # dev[q].oldSq
                 THEN [x EXCEPT !.pc = "io", !.entry = dev[q].oldSq,
                                !.todo = Distance(dev[q].oldSq, sqDb[q])]
                 ELSE NextQueue(d, "sq", "cq")
      BY <1>2, <2>1, <3>1 DEF ProcSq, At, TypeOK
    <3>3. CASE q \notin Queues
      <4>1. s = [x EXCEPT !.pc = "deq", !.q = d + 1]
        BY <3>2, <3>3
      <4> HIDE DEF x, s
      <4>2. s.pc = "deq" /\ s.tick = x.tick
        BY <1>3, <4>1 DEF Thread
      <4> QED
        BY <3>2, <4>2 DEF CursorOf, Batch
    <3>4. CASE q \in Queues /\ sqDb[q] # dev[q].oldSq
      <4>1. PICK o, n : o = dev[q].oldSq /\ n = Distance(dev[q].oldSq, sqDb[q])
        OBVIOUS
      <4>2. s = [x EXCEPT !.pc = "io", !.entry = o, !.todo = n]
        BY <3>2, <3>4, <4>1
      <4> HIDE DEF x, s
      <4>3. s.pc = "io" /\ s.tick = x.tick /\ s.entry = o /\ s.q = q
        BY <1>3, <3>1, <4>2 DEF Thread
      <4> QED
        BY <3>2, <4>1, <4>3 DEF CursorOf, Batch
    <3>5. CASE q \in Queues /\ sqDb[q] = dev[q].oldSq
      <4>1. s = NextQueue(d, "sq", "cq")
        BY <3>2, <3>5
      <4>2. s.tick = x.tick /\ s.pc \in {"sq", "cq"}
        BY <1>3, <4>1, ThreadNext DEF Pcs
      <4> HIDE DEF s
      <4> QED
        BY <3>2, <4>2 DEF CursorOf, Batch
    <3> QED
      BY <3>3, <3>4, <3>5
  <2>2. CASE ReadHack(d)
    <3>1. s = [x EXCEPT !.pc = "hack", !.hack = hackLeft] /\ x.pc = "io"
      BY <1>2, <2>2 DEF ReadHack, At, TypeOK
    <3> HIDE DEF x, s
    <3>2. s.tick = x.tick /\ s.pc = "hack" /\ s.q = x.q /\ s.entry = x.entry
      BY <1>3, <3>1 DEF Thread
    <3> QED
      BY <3>1, <3>2 DEF CursorOf, Batch
  <2>3. CASE ProcCq(d)
    <3>1. s = NextQueue(d, "cq", "deq") /\ x.pc = "cq"
      BY <1>2, <2>3 DEF ProcCq, At, TypeOK
    <3>2. s.tick = x.tick /\ s.pc \in {"cq", "deq"}
      BY <1>3, <3>1, ThreadNext DEF Pcs
    <3> HIDE DEF s
    <3> QED
      BY <3>1, <3>2 DEF CursorOf, Batch
  <2> QED
    BY <2>1, <2>2, <2>3
<1>7. ASSUME NEW p \in Queues PROVE Cursor(p)' = Cursor(p)
  <2>1. CASE DOf(p) = d
    <3>1. CursorOf(s, dev'[p], p) = CursorOf(s, dev[p], p)
      BY <1>5 DEF CursorOf
    <3> HIDE DEF s
    <3>2. CursorOf(s, dev'[p], p) = CursorOf(x, dev[p], p)
      BY <1>6, <3>1
    <3> QED
      BY <2>1, <3>2 DEF Cursor, s
  <2>2. CASE DOf(p) # d
    <3>1. disp'[DOf(p)] = disp[DOf(p)]
      BY <1>4, <2>2, QueueNumbers
    <3>2. CursorOf(disp[DOf(p)], dev'[p], p) = CursorOf(disp[DOf(p)], dev[p], p)
      BY <1>5 DEF CursorOf
    <3> QED
      BY <3>1, <3>2 DEF Cursor
  <2> QED
    BY <2>1, <2>2
<1>8. ClockOk(d)'
  BY <1>1, <1>6 DEF ServedInv, ClockOk
<1>9. \A p \in Queues : dev'[p].tag = dev[p].tag /\ dev'[p].req = dev[p].req
  BY <1>5
<1>10. x.pc # "split"
  BY <1>1
<1> QED
  BY <1>1, <1>4, <1>7, <1>8, <1>9, <1>10, ServedQuiet

\* A dispatcher does something to one of its queues.
LEMMA ServedOne ==
  ASSUME IInv, ServedInv, NEW d \in Dispatchers, NEW q \in Queues, DOf(q) = d,
         UNCHANGED <<host, sqMem, now>>,
         \A p \in Queues : p # q => dev'[p] = dev[p] /\ work'[p] = work[p],
         \A e \in Dispatchers : e # d => disp'[e] = disp[e] /\ completed'[e] = completed[e],
         Batch(disp[d]) => disp[d].q = q, Batch(disp'[d]) => disp'[d].q = q,
         \A p \in Queues : \A c \in Cids : ServedOk(p, c)',
         Fresh(sqMem[q], work'[q], CursorOf(disp'[d], dev'[q], q), host[q].sqTail),
         ClockOk(d)'
  PROVE  ServedInv'
<1>1. ASSUME NEW p \in Queues
      PROVE  Fresh(sqMem[p], work[p], Cursor(p), host[p].sqTail)'
  <2>1. CASE p = q
    BY <2>1 DEF Cursor
  <2>2. CASE p # q
    <3>1. Cursor(p)' = Cursor(p)
      <4>1. CASE DOf(p) = d
        <5>1. CursorOf(disp'[d], dev'[p], p) = dev[p].oldSq
          BY <2>2 DEF CursorOf
        <5>2. CursorOf(disp[d], dev[p], p) = dev[p].oldSq
          BY <2>2 DEF CursorOf
        <5> QED
          BY <4>1, <5>1, <5>2 DEF Cursor
      <4>2. CASE DOf(p) # d
        BY <2>2, <4>2, QueueNumbers DEF Cursor
      <4> QED
        BY <4>1, <4>2
    <3>2. Fresh(sqMem[p], work[p], Cursor(p), host[p].sqTail)
      BY DEF ServedInv
    <3> QED
      BY <2>2, <3>1, <3>2
  <2> QED
    BY <2>1, <2>2
<1>2. ASSUME NEW e \in Dispatchers PROVE ClockOk(e)'
  <2>1. CASE e = d
    BY <2>1
  <2>2. CASE e # d
    <3>1. now' \in Time /\ now' >= now
      BY DEF IInv, TypeOK, Time
    <3>2. \A p \in Queues : \A r \in ReqIds : On(completed[e], <<p, r>>) =>
            dev'[p].req[r].end = dev[p].req[r].end
      <4>1. CompletedOk(e)
        BY ThreadNow
      <4>2. ASSUME NEW p \in Queues, NEW r \in ReqIds, On(completed[e], <<p, r>>)
            PROVE  p # q
        BY <2>2, <4>1, <4>2 DEF CompletedOk
      <4> QED
        BY <4>2
    <3>3. ClockOk(e) /\ disp'[e] = disp[e] /\ completed'[e] = completed[e]
      BY <2>2 DEF ServedInv
    <3> QED
      BY <3>1, <3>2, <3>3, ClockSame
  <2> QED
    BY <2>1, <2>2
<1> QED
  BY <1>1, <1>2 DEF ServedInv

\* The next entry is taken: the others still have their blocks to be served.
LEMMA FreshNext ==
  ASSUME NEW a \in Entries, NEW b \in Entries, a # b, NEW sqm, NEW wk, NEW new,
         Fresh(sqm, wk, a, b), Distinct(sqm, a, b),
         \A k \in Cids : k # sqm[a].cid => new[k] = wk[k]
  PROVE  Fresh(sqm, new, Succ(a, QSize), b)
<1>1. ASSUME NEW e \in Entries, Inside(Succ(a, QSize), b, e)
      PROVE  /\ new[sqm[e].cid].left \subseteq sqm[e].slba .. sqm[e].slba + sqm[e].nlb - 1
             /\ new[sqm[e].cid].due = 0
  <2>1. Inside(a, b, e) /\ Inside(a, b, a) /\ e # a
    BY <1>1, InsidePopped
  <2>2. sqm[e].cid \in Cids /\ sqm[e].cid # sqm[a].cid
    BY <2>1 DEF Distinct
  <2>3. new[sqm[e].cid] = wk[sqm[e].cid]
    BY <2>2
  <2> QED
    BY <2>1, <2>3 DEF Fresh
<1> QED
  BY <1>1 DEF Fresh

\* One of the first commands is completed without being served.
LEMMA ServedHack ==
  ASSUME IInv, ServedInv, NEW d \in Dispatchers, HackIo(d)
  PROVE  ServedInv'
<1>1. PICK q, e : q = disp[d].q /\ e = disp[d].entry
  OBVIOUS
<1>2. PICK c : c = sqMem[q][e].cid
  OBVIOUS
<1>3. PICK u, w, n : /\ u = Posted(dev[q]) /\ w = Dispatched(d, u)
                     /\ n = [AfterEntry(d) EXCEPT !.hack = 0]
  OBVIOUS
<1>4. /\ disp[d].pc = "hack" /\ dev' = [dev EXCEPT ![q] = w]
      /\ disp' = [disp EXCEPT ![d] = n]
      /\ work' = [work EXCEPT ![q][c] = [left |-> {}, due |-> now]]
      /\ UNCHANGED <<host, sqMem, now, completed, inQue, outQue, pq>>
  BY <1>1, <1>2, <1>3 DEF HackIo, At, hostVars, ringIn, ringOut
<1>5. /\ q \in Queues /\ DOf(q) = d /\ e \in Entries /\ Cursor(q) = e /\ c \in Cids
      /\ In(sqMem[q], e, host[q].sqTail, c) /\ e # host[q].sqTail
  <2>1. disp[d].pc \in {"io", "hack"}
    BY <1>4
  <2> QED
    BY <1>1, <1>2, <2>1, EntryThere
<1>6. /\ dev[q] \in Device /\ Placed(host[q], sqMem[q], cqMem[q], dev[q], e)
      /\ disp[d] \in Thread /\ host[q].sqTail \in Entries
  BY <1>5, QueueNow, ThreadNow, RecordFacts DEF QueueOk
<1>7. dev[q].tag[c] = 0 /\ Distinct(sqMem[q], e, host[q].sqTail)
  <2>1. dev[q].tag[c] = 0
    BY <1>5, <1>6, InUse
  <2> QED
    BY <1>6, <2>1 DEF Placed
<1>8. w.tag = dev[q].tag /\ w.req = dev[q].req
  <2>1. u \in Device /\ u.tag = dev[q].tag /\ u.req = dev[q].req
    <3>1. u \in Device
      BY <1>3, <1>6, DeviceTypes
    <3> QED
      BY <1>3, <1>6, <3>1 DEF Posted, Device
  <2> QED
    BY <1>3, <2>1, DispatchedFields
<1>9. /\ dev'[q] = w /\ \A p \in Queues : p # q => dev'[p] = dev[p]
      /\ disp'[d] = n /\ \A a \in Dispatchers : a # d => disp'[a] = disp[a]
      /\ \A p \in Queues : p # q => work'[p] = work[p]
      /\ \A k \in Cids : k # c => work'[q][k] = work[q][k]
  BY <1>4, <1>5 DEF IInv, TypeOK
<1>10. /\ CursorOf(n, dev'[q], q) = Succ(e, QSize) /\ (Batch(n) => n.q = q)
       /\ n.pc \in {"sq", "cq", "io"} /\ n.tick = disp[d].tick
  <2>1. PICK m : m = AfterEntry(d)
    OBVIOUS
  <2>2. m \in Thread /\ m.pc \in {"sq", "cq", "io"} /\ m.tick = disp[d].tick
    BY <1>6, <2>1, ThreadEntry
  <2>3. n.pc = m.pc /\ n.tick = m.tick
    BY <1>3, <2>1, <2>2 DEF Thread
  <2>4. dev'[q].oldSq = IF disp[d].todo = 1 THEN Succ(disp[d].entry, QSize) ELSE dev[q].oldSq
    <3>1. u \in Device /\ u.oldSq = dev[q].oldSq
      <4>1. u \in Device
        BY <1>3, <1>6, DeviceTypes
      <4> QED
        BY <1>3, <1>6, <4>1 DEF Posted, Device
    <3> QED
      BY <1>3, <1>9, <3>1, DispatchedFields
  <2>5. disp[d].pc \in {"hack", "split"} /\ UNCHANGED host /\ n = disp'[d]
    BY <1>4, <1>9
  <2>6. (Batch(n) => n.q = q) /\ CursorOf(n, dev'[q], q) = Succ(disp[d].entry, QSize)
    BY <1>1, <1>3, <2>4, <2>5, EntryDone
  <2> QED
    BY <1>1, <2>2, <2>3, <2>6
<1>11. ASSUME NEW p \in Queues, NEW k \in Cids PROVE ServedOk(p, k)'
  <2>1. dev'[p].tag[k] # 0 =>
          /\ dev'[p].tag[k] = dev[p].tag[k] /\ work'[p][k] = work[p][k]
          /\ dev'[p].req[dev[p].tag[k]] = dev[p].req[dev[p].tag[k]]
    <3>1. CASE p # q
      BY <1>9, <3>1
    <3>2. CASE p = q
      BY <1>7, <1>8, <1>9, <3>2
    <3> QED
      BY <3>1, <3>2
  <2>2. disp[DOf(p)].pc = "split" /\ disp[DOf(p)].q = p => disp'[DOf(p)] = disp[DOf(p)]
    BY <1>4, <1>9, QueueNumbers
  <2>3. UNCHANGED <<inQue, outQue, pq>>
    BY <1>4
  <2> QED
    BY <2>1, <2>2, <2>3, ServedSame
<1>12. Fresh(sqMem[q], work'[q], Succ(e, QSize), host[q].sqTail)
  <2>1. Fresh(sqMem[q], work[q], e, host[q].sqTail)
    BY <1>5 DEF ServedInv
  <2> QED
    BY <1>2, <1>5, <1>6, <1>7, <1>9, <2>1, FreshNext
<1>13. ClockOk(d)'
  <2>1. disp[d].tick <= now
    BY DEF ServedInv, ClockOk
  <2> QED
    BY <1>4, <1>9, <1>10, <2>1 DEF ClockOk
<1>14. Batch(disp[d]) => disp[d].q = q
  BY <1>1
<1>15. /\ UNCHANGED <<host, sqMem, now>>
       /\ \A a \in Dispatchers : a # d => disp'[a] = disp[a] /\ completed'[a] = completed[a]
  BY <1>4, <1>9
<1> QED
  BY <1>5, <1>9, <1>10, <1>11, <1>12, <1>13, <1>14, <1>15, ServedOne

\* A command gets its request: its blocks are the dispatcher's to send.
LEMMA ServedStart ==
  ASSUME IInv, ServedInv, NEW d \in Dispatchers, StartIo(d)
  PROVE  ServedInv'
<1>1. PICK q, e : q = disp[d].q /\ e = disp[d].entry
  OBVIOUS
<1>2. PICK cmd, r, y : /\ cmd = sqMem[q][e] /\ r = Head(dev[q].free)
                       /\ y = [dev[q].req[r] EXCEPT !.flight = TRUE, !.cid = cmd.cid,
                                                    !.start = now, !.end = now]
  OBVIOUS
<1>3. PICK c, a, n : c = cmd.cid /\ a = cmd.slba /\ n = cmd.nlb
  OBVIOUS
<1>4. /\ disp[d].pc = "io"
      /\ UNCHANGED <<host, sqMem, now, completed, inQue, outQue, pq, work>>
      /\ dev' = [dev EXCEPT ![q].free = Tail(@), ![q].tag[c] = r, ![q].req[r] = y]
      /\ disp' = [disp EXCEPT ![d].pc = "split", ![d].slpa = a, ![d].nlb = n,
                              ![d].req = r, ![d].f = FirstFTL(a)]
  BY <1>1, <1>2, <1>3 DEF StartIo, At, hostVars, ringIn, ringOut
<1>5. /\ q \in Queues /\ DOf(q) = d /\ e \in Entries /\ Cursor(q) = e /\ c \in Cids
      /\ In(sqMem[q], e, host[q].sqTail, c) /\ e # host[q].sqTail
  <2>1. disp[d].pc \in {"io", "hack"}
    BY <1>4
  <2> QED
    BY <1>1, <1>2, <1>3, <2>1, EntryThere
<1>6. /\ dev[q] \in Device /\ Placed(host[q], sqMem[q], cqMem[q], dev[q], e)
      /\ Requested(dev[q]) /\ disp[d] \in Thread /\ host[q].sqTail \in Entries
  BY <1>5, QueueNow, ThreadNow, RecordFacts DEF QueueOk
<1>7. Distinct(sqMem[q], e, host[q].sqTail)
  BY <1>6 DEF Placed
<1>8. /\ r \in 1 .. QSize /\ ~ dev[q].req[r].flight
      /\ dev[q].req \in [ReqIds -> Request] /\ r \in ReqIds
      /\ dev[q].tag \in [Cids -> ReqIds]
  <2>1. dev[q].free # <<>> /\ dev[q].free \in Seq(ReqIds)
    BY <1>6, RequestLeft, RecordFacts
  <2>2. r \in ReqIds /\ On(dev[q].free, r)
    BY <1>2, <1>6, <2>1, TailOnce
  <2>3. r # 0
    BY <1>6, <2>2 DEF Requested
  <2>4. r \in 1 .. QSize
    BY <2>2, <2>3, IoSizes DEF ReqIds
  <2> QED
    BY <1>6, <2>2, <2>4, RecordFacts DEF Requested
<1>9. y.end = now /\ now \in Time
  BY <1>2, <1>8 DEF Request, IInv, TypeOK
<1>10. /\ dev'[q].oldSq = dev[q].oldSq
       /\ dev'[q].tag = [dev[q].tag EXCEPT ![c] = r]
       /\ dev'[q].req = [dev[q].req EXCEPT ![r] = y]
       /\ \A p \in Queues : p # q => dev'[p] = dev[p]
  <2>1. dev \in [Queues -> Device]
    BY DEF IInv, TypeOK
  <2> QED
    BY <1>4, <1>5, <1>6, <2>1 DEF Device
<1>11. /\ disp'[d].pc = "split" /\ disp'[d].q = q /\ disp'[d].entry = e
       /\ disp'[d].req = r /\ disp'[d].slpa = a /\ disp'[d].nlb = n
       /\ disp'[d].tick = disp[d].tick
       /\ \A b \in Dispatchers : b # d => disp'[b] = disp[b]
  <2>1. disp \in [Dispatchers -> Thread]
    BY DEF IInv, TypeOK
  <2> QED
    BY <1>1, <1>4, <1>5, <2>1 DEF Thread
<1>12. Fresh(sqMem[q], work[q], e, host[q].sqTail)
  BY <1>5 DEF ServedInv
<1>13. ASSUME NEW p \in Queues, NEW k \in Cids, ~ (p = q /\ k = c) PROVE ServedOk(p, k)'
  <2>1. dev'[p].tag[k] # 0 =>
          /\ dev'[p].tag[k] = dev[p].tag[k] /\ work'[p][k] = work[p][k]
          /\ dev'[p].req[dev[p].tag[k]] = dev[p].req[dev[p].tag[k]]
    <3>1. CASE p # q
      BY <1>4, <1>10, <3>1
    <3>2. CASE p = q
      <4>1. dev'[q].tag[k] = dev[q].tag[k] /\ dev[q].tag[k] \in ReqIds
        BY <1>8, <1>10, <1>13, <3>2
      <4>2. dev[q].tag[k] # 0 => dev[q].req[dev[q].tag[k]].flight
        BY <1>6 DEF Requested
      <4>3. dev[q].tag[k] # 0 => dev[q].tag[k] # r
        BY <1>8, <4>2
      <4>4. PICK j : j = dev[q].tag[k]
        OBVIOUS
      <4>5. j \in ReqIds /\ j # r => dev'[q].req[j] = dev[q].req[j]
        BY <1>8, <1>10
      <4>6. work'[q][k] = work[q][k]
        BY <1>4
      <4> QED
        BY <3>2, <4>1, <4>3, <4>4, <4>5, <4>6
    <3> QED
      BY <3>1, <3>2
  <2>2. disp[DOf(p)].pc = "split" /\ disp[DOf(p)].q = p => disp'[DOf(p)] = disp[DOf(p)]
    BY <1>4, <1>11, QueueNumbers
  <2>3. UNCHANGED <<inQue, outQue, pq>>
    BY <1>4
  <2> QED
    BY <2>1, <2>2, <2>3, ServedSame
<1>14. ServedOk(q, c)'
  <2>1. Inside(e, host[q].sqTail, e)
    BY <1>5, <1>6, InsidePopped
  <2>2. work[q][c].left \subseteq a .. a + n - 1 /\ work[q][c].due = 0
    BY <1>2, <1>3, <1>5, <1>12, <2>1 DEF Fresh
  <2>3. dev'[q].tag[c] = r /\ dev'[q].req[r] = y
    BY <1>5, <1>8, <1>10
  <2>4. \A b \in work[q][c].left : Unsent(disp'[d], dev'[q], q, c, b)
    BY <1>11, <2>2, <2>3 DEF Unsent
  <2>5. work[q][c].due <= y.end
    BY <1>9, <2>2 DEF Time
  <2> QED
    BY <1>4, <1>5, <2>3, <2>4, <2>5 DEF ServedOk, Awaited, Lasts
<1>15. Fresh(sqMem[q], work'[q], CursorOf(disp'[d], dev'[q], q), host[q].sqTail)
  <2>1. CursorOf(disp'[d], dev'[q], q) = Succ(e, QSize)
    BY <1>11 DEF CursorOf, Batch
  <2>2. Fresh(sqMem[q], work[q], Succ(e, QSize), host[q].sqTail)
    BY <1>5, <1>6, <1>7, <1>12, FreshNext
  <2> QED
    BY <1>4, <2>1, <2>2
<1>16. ClockOk(d)'
  <2>1. disp[d].tick <= now
    BY DEF ServedInv, ClockOk
  <2> QED
    BY <1>4, <1>11, <2>1 DEF ClockOk
<1>17. Batch(disp[d]) => disp[d].q = q
  BY <1>1
<1>18. /\ UNCHANGED <<host, sqMem, now>>
       /\ \A b \in Dispatchers : b # d => disp'[b] = disp[b] /\ completed'[b] = completed[b]
       /\ \A p \in Queues : p # q => dev'[p] = dev[p] /\ work'[p] = work[p]
  BY <1>4, <1>10, <1>11
<1>19. \A p \in Queues : \A k \in Cids : ServedOk(p, k)'
  BY <1>13, <1>14
<1> QED
  BY <1>5, <1>11, <1>15, <1>16, <1>17, <1>18, <1>19, ServedOne

\* A request is completed and given back.
LEMMA ServedFill ==
  ASSUME IInv, ServedInv, NEW d \in Dispatchers, FillCq(d)
  PROVE  ServedInv'
<1>1. PICK h : h = Head(completed[d])
  OBVIOUS
<1>2. PICK q, r : q = h[1] /\ r = h[2]
  OBVIOUS
<1>3. PICK c : c = dev[q].req[r].cid
  OBVIOUS
<1>4. PICK u, w, n : /\ u = Posted(dev[q]) /\ w = Freed(u, r, c)
                     /\ n = AfterAnswers(d, Tail(completed[d]), disp[d].tick)
  OBVIOUS
<1>5. /\ disp[d].pc = "fill" /\ dev' = [dev EXCEPT ![q] = w]
      /\ disp' = [disp EXCEPT ![d] = n]
      /\ completed' = [completed EXCEPT ![d] = Tail(@)]
      /\ UNCHANGED <<host, sqMem, now, inQue, outQue, pq, work>>
  BY <1>1, <1>2, <1>3, <1>4 DEF FillCq, At, hostVars, ringIn, ringOut
<1>6. /\ completed[d] \in Seq(Queues \X ReqIds) /\ completed[d] # <<>> /\ CompletedOk(d)
      /\ disp[d] \in Thread /\ disp[d].tick \in Time
  BY <1>5, ThreadNow, ThreadFields DEF ThreadOk
<1>7. /\ h \in Queues \X ReqIds /\ On(completed[d], h) /\ h = <<q, r>>
      /\ \A f : On(Tail(completed[d]), f) => On(completed[d], f) /\ f # h
      /\ Tail(completed[d]) \in Seq(Queues \X ReqIds)
  BY <1>1, <1>2, <1>6, TailOnce DEF CompletedOk
<1>8. /\ q \in Queues /\ DOf(q) = d /\ r \in 1 .. QSize /\ r \in ReqIds /\ dev[q].req[r].flight
  <2>1. q \in Queues /\ r \in ReqIds /\ r # 0 /\ DOf(q) = d /\ dev[q].req[r].flight
    BY <1>2, <1>6, <1>7 DEF CompletedOk
  <2> QED
    BY <2>1, IoSizes DEF ReqIds
<1>9. /\ dev[q] \in Device /\ Requested(dev[q]) /\ Cursor(q) = dev[q].oldSq
  <2>1. Cursor(q) = dev[q].oldSq
    BY <1>5, <1>8 DEF Cursor, CursorOf, Batch
  <2> QED
    BY <1>8, <2>1, QueueNow DEF QueueOk
<1>10. c \in Cids /\ dev[q].tag[c] = r
  BY <1>3, <1>8, <1>9, IoSizes DEF Requested
<1>11. /\ w.oldSq = dev[q].oldSq /\ w.tag = [dev[q].tag EXCEPT ![c] = 0]
       /\ w.req = [dev[q].req EXCEPT ![r].flight = FALSE]
  <2>1. /\ u \in Device /\ u.oldSq = dev[q].oldSq /\ u.tag = dev[q].tag
        /\ u.req = dev[q].req
    <3>1. u \in Device
      BY <1>4, <1>9, DeviceTypes
    <3> QED
      BY <1>4, <1>9, <3>1 DEF Posted, Device
  <2> QED
    BY <1>4, <2>1 DEF Freed, Device
<1>12. /\ dev'[q] = w /\ \A p \in Queues : p # q => dev'[p] = dev[p]
       /\ disp'[d] = n /\ completed'[d] = Tail(completed[d])
       /\ \A a \in Dispatchers : a # d => disp'[a] = disp[a] /\ completed'[a] = completed[a]
  BY <1>5, <1>8 DEF IInv, TypeOK
<1>13. /\ n.pc \in {"fill", "deq", "irq"} /\ n.tick \in {0, disp[d].tick}
       /\ n.pc = "fill" => n.tick = disp[d].tick /\ IsDue(Tail(completed[d]), disp[d].tick)
  BY <1>4, <1>6, ThreadAnswers
<1>14. dev[q].req \in [ReqIds -> Request] /\ dev[q].tag \in [Cids -> ReqIds]
  BY <1>9, RecordFacts
<1>15. /\ \A j \in ReqIds : j # r => w.req[j] = dev[q].req[j]
       /\ \A j \in ReqIds : w.req[j].end = dev[q].req[j].end
  BY <1>8, <1>11, <1>14 DEF Request
<1>16. ASSUME NEW p \in Queues, NEW k \in Cids PROVE ServedOk(p, k)'
  <2>1. dev'[p].tag[k] # 0 =>
          /\ dev'[p].tag[k] = dev[p].tag[k] /\ work'[p][k] = work[p][k]
          /\ dev'[p].req[dev[p].tag[k]] = dev[p].req[dev[p].tag[k]]
    <3>1. CASE p # q
      BY <1>5, <1>12, <3>1
    <3>2. CASE p = q /\ k # c
      <4>1. dev'[q].tag[k] = dev[q].tag[k] /\ dev[q].tag[k] \in ReqIds
        BY <1>11, <1>12, <1>14, <3>2
      <4>2. dev[q].tag[k] # 0 => dev[q].tag[k] # r
        BY <1>3, <1>9, <3>2 DEF Requested
      <4> QED
        BY <1>5, <1>12, <1>15, <3>2, <4>1, <4>2
    <3>3. CASE p = q /\ k = c
      BY <1>10, <1>11, <1>12, <1>14, <3>3
    <3> QED
      BY <3>1, <3>2, <3>3
  <2>2. disp[DOf(p)].pc = "split" /\ disp[DOf(p)].q = p => disp'[DOf(p)] = disp[DOf(p)]
    BY <1>5, <1>12, QueueNumbers
  <2>3. UNCHANGED <<inQue, outQue, pq>>
    BY <1>5
  <2> QED
    BY <2>1, <2>2, <2>3, ServedSame
<1>17. Fresh(sqMem[q], work'[q], CursorOf(disp'[d], dev'[q], q), host[q].sqTail)
  <2>1. CursorOf(disp'[d], dev'[q], q) = dev[q].oldSq
    BY <1>11, <1>12, <1>13 DEF CursorOf, Batch
  <2> QED
    BY <1>5, <1>8, <1>9, <2>1 DEF ServedInv
<1>18. ClockOk(d)'
  <2>1. disp[d].tick <= now /\ now \in Nat
    BY DEF ServedInv, ClockOk, IInv, TypeOK, Time
  <2>2. n.tick <= now
    BY <1>13, <2>1
  <2>3. ASSUME n.pc = "fill" PROVE IsDue(completed[d], n.tick)'
    <3>1. PICK list, t : list = Tail(completed[d]) /\ t = disp[d].tick
      OBVIOUS
    <3>2. IsDue(list, t) /\ completed'[d] = list /\ n.tick = t /\ disp'[d] = n
      BY <1>12, <1>13, <2>3, <3>1
    <3>3. PICK g : g = Head(list)
      OBVIOUS
    <3>4. list # <<>> /\ t >= EndOf(g)
      BY <3>2, <3>3 DEF IsDue
    <3>5. g \in Queues \X ReqIds
      BY <1>7, <3>1, <3>3, <3>4, TailOnce
    <3>6. g[1] \in Queues /\ g[2] \in ReqIds
      BY <3>5
    <3>7. dev'[g[1]].req[g[2]].end = dev[g[1]].req[g[2]].end
      BY <1>12, <1>15, <3>6
    <3> QED
      BY <3>2, <3>3, <3>4, <3>7 DEF IsDue, EndOf
  <2> QED
    BY <1>5, <1>12, <2>2, <2>3 DEF ClockOk
<1>19. ~ Batch(disp[d]) /\ ~ Batch(disp'[d])
  BY <1>5, <1>12, <1>13 DEF Batch
<1>20. /\ UNCHANGED <<host, sqMem, now>>
       /\ \A p \in Queues : p # q => dev'[p] = dev[p] /\ work'[p] = work[p]
  BY <1>5, <1>12
<1> QED
  BY <1>8, <1>12, <1>16, <1>17, <1>18, <1>19, <1>20, ServedOne

\* The dispatcher finds no answer and reads the clock, or raises interrupts.
LEMMA ServedAround ==
  ASSUME IInv, ServedInv, NEW d \in Dispatchers,
         \/ RaiseIrq(d)
         \/ Dequeue(d) /\ outQue[d][disp[d].f][outHead[d][disp[d].f]] = Empty
  PROVE  ServedInv'
<1>1. disp[d] \in Thread /\ now \in Time /\ disp[d].tick <= now
  BY ThreadNow DEF ServedInv, ClockOk, IInv, TypeOK
<1>2. CASE RaiseIrq(d)
  <2>1. /\ disp[d].pc = "irq"
        /\ UNCHANGED <<host, sqMem, completed, inQue, outQue, pq, now, work>>
    BY <1>2 DEF RaiseIrq, At, hostVars, ringIn, ringOut
  <2>2. \A p \in Queues : /\ dev'[p].tag = dev[p].tag /\ dev'[p].req = dev[p].req
                          /\ dev'[p].oldSq = dev[p].oldSq
    BY <1>2 DEF RaiseIrq, IInv, TypeOK, Device
  <2>3. /\ disp'[d].pc = "sq" /\ disp'[d].tick = disp[d].tick
        /\ \A e \in Dispatchers : e # d => disp'[e] = disp[e]
    BY <1>2 DEF RaiseIrq, IInv, TypeOK, Thread
  <2>4. ASSUME NEW p \in Queues PROVE Cursor(p)' = Cursor(p)
    <3>1. PICK e : e = DOf(p)
      OBVIOUS
    <3>2. e \in Dispatchers
      BY <3>1, QueueNumbers
    <3>3. disp'[e] = disp[e] \/ (~ Batch(disp'[e]) /\ ~ Batch(disp[e]))
      BY <2>1, <2>3, <3>2 DEF Batch
    <3>4. CursorOf(disp'[e], dev'[p], p) = CursorOf(disp[e], dev[p], p)
      BY <2>2, <3>3 DEF CursorOf
    <3> QED
      BY <3>1, <3>4 DEF Cursor
  <2>5. ClockOk(d)'
    BY <1>1, <2>1, <2>3 DEF ClockOk
  <2> QED
    BY <2>1, <2>2, <2>3, <2>4, <2>5, ServedQuiet
<1>3. CASE Dequeue(d) /\ outQue[d][disp[d].f][outHead[d][disp[d].f]] = Empty
  <2>1. PICK n : n = AfterAnswers(d, completed[d], now)
    OBVIOUS
  <2>2. /\ disp[d].pc = "deq" /\ disp' = [disp EXCEPT ![d] = n]
        /\ UNCHANGED <<host, sqMem, dev, completed, inQue, outQue, pq, now, work>>
    BY <1>3, <2>1 DEF Dequeue, At, hostVars, ringIn
  <2>3. /\ disp'[d] = n /\ \A e \in Dispatchers : e # d => disp'[e] = disp[e]
    BY <2>2 DEF IInv, TypeOK
  <2>4. /\ n.pc \in {"fill", "deq", "irq"} /\ n.tick \in {0, now}
        /\ n.pc = "fill" => n.tick = now /\ IsDue(completed[d], now)
    BY <1>1, <2>1, ThreadAnswers
  <2>5. \A p \in Queues : Cursor(p)' = Cursor(p)
    BY <2>2, <2>3, <2>4 DEF Cursor, CursorOf, Batch
  <2>6. n.tick <= now
    BY <1>1, <2>4 DEF Time
  <2>7. n.pc = "fill" => IsDue(completed[d], n.tick)'
    BY <2>2, <2>3, <2>4 DEF IsDue, EndOf
  <2>8. ClockOk(d)'
    BY <2>2, <2>3, <2>6, <2>7 DEF ClockOk
  <2> QED
    BY <2>2, <2>3, <2>5, <2>8, ServedQuiet
<1> QED
  BY <1>2, <1>3

\* A block in another slot than the one that changes stays in its ring.
LEMMA SentStays ==
  ASSUME NEW ring, NEW new, NEW d, NEW f, NEW i, NEW p,
         Stored(ring, new, InSize, d, f, i, p), NEW q, NEW c,
         ~ Matches(ring[d][f][i], q, c), NEW b, Sent(ring, q, c, b)
  PROVE  Sent(new, q, c, b)
<1>1. PICK e \in Dispatchers, g \in FTLs, j \in 0 .. InSize - 1 :
        /\ Matches(ring[e][g][j], q, c)
        /\ b \in ring[e][g][j].slpa .. ring[e][g][j].slpa + ring[e][g][j].nlb - 1
  BY DEF Sent
<1>2. ~ (e = d /\ g = f /\ j = i)
  BY <1>1
<1>3. new[e][g][j] = ring[e][g][j]
  BY <1>2 DEF Stored
<1> QED
  BY <1>1, <1>3 DEF Sent
\* So does an answer.
LEMMA EndsStays ==
  ASSUME NEW n, NEW ring, NEW new, NEW d, NEW f, NEW i, NEW p,
         Stored(ring, new, n, d, f, i, p), NEW q, NEW c,
         ~ Matches(ring[d][f][i], q, c), NEW t, Ends(ring, n, q, c, t)
  PROVE  Ends(new, n, q, c, t)
<1>1. PICK e \in Dispatchers, g \in FTLs, j \in 0 .. n - 1 :
        Matches(ring[e][g][j], q, c) /\ t <= ring[e][g][j].nsecs
  BY DEF Ends
<1>2. ~ (e = d /\ g = f /\ j = i)
  BY <1>1
<1>3. new[e][g][j] = ring[e][g][j]
  BY <1>2 DEF Stored
<1> QED
  BY <1>1, <1>3 DEF Ends

\* A piece is sent to an FTL thread.
LEMMA ServedEnqueue ==
  ASSUME IInv, ServedInv, NEW d \in Dispatchers, EnqueuePiece(d)
  PROVE  ServedInv'
<1>1. PICK x : x = disp[d]
  OBVIOUS
<1>2. PICK q, f, r, e : q = x.q /\ f = x.f /\ r = x.req /\ e = x.entry
  OBVIOUS
<1>3. PICK n, i, y : /\ n = IF x.nlb <= SegUnits(f) THEN x.nlb ELSE SegUnits(f)
                     /\ i = inTail[d][f]
                     /\ y = [dev[q].req EXCEPT ![r].left = @ + 1]
  OBVIOUS
<1>4. PICK p, sent : /\ p = [q |-> q, cid |-> dev[q].req[r].cid, slpa |-> x.slpa,
                             nlb |-> n, nsecs |-> dev[q].req[r].start]
                     /\ sent = [dev[q] EXCEPT !.req[r].left = @ + 1]
  OBVIOUS
<1>5. /\ x.pc = "split"
      /\ inQue' = [inQue EXCEPT ![d][f][i] = p]
      /\ \/ /\ n = x.nlb /\ dev' = [dev EXCEPT ![q] = Dispatched(d, sent)]
            /\ disp' = [disp EXCEPT ![d] = AfterEntry(d)]
         \/ /\ n # x.nlb /\ dev' = [dev EXCEPT ![q] = sent]
            /\ disp' = [disp EXCEPT ![d].slpa = @ + n, ![d].nlb = @ - n, ![d].f = Succ(@, NrFTL)]
      /\ UNCHANGED <<host, sqMem, now, completed, outQue, pq, work>>
  BY <1>1, <1>2, <1>3, <1>4 DEF EnqueuePiece, At, hostVars, ringOut
<1>6. /\ x \in Thread /\ DOf(q) = d /\ q \in Queues /\ e \in Entries /\ f \in FTLs
      /\ r \in ReqIds /\ r # 0 /\ r \in 1 .. QSize /\ x.nlb \in Nat \ {0} /\ x.slpa \in Nat
      /\ dev[q].req[r].flight /\ Cursor(q) = Succ(e, QSize) /\ i \in 0 .. InSize - 1
  <2>1. /\ x \in Thread /\ DOf(q) = d /\ q \in Queues /\ e \in Entries /\ f \in FTLs
        /\ r \in ReqIds /\ r # 0 /\ x.nlb \in Nat \ {0} /\ x.slpa \in Nat
        /\ dev[q].req[r].flight
    BY <1>1, <1>2, <1>5, ThreadNow, ThreadFields DEF ThreadOk, Batch
  <2>2. Cursor(q) = Succ(e, QSize)
    BY <1>1, <1>2, <1>5, <2>1 DEF Cursor, CursorOf, Batch
  <2>3. i \in 0 .. InSize - 1
    BY <1>3, <2>1, ThreadNow
  <2>4. r \in 1 .. QSize
    BY <2>1, IoSizes DEF ReqIds
  <2> QED
    BY <2>1, <2>2, <2>3, <2>4
<1>7. /\ dev[q] \in Device /\ Requested(dev[q]) /\ dev[q].req \in [ReqIds -> Request]
      /\ dev[q].tag \in [Cids -> ReqIds]
      /\ p.q = q /\ p.cid \in Cids /\ dev[q].tag[p.cid] = r /\ p.cid = dev[q].req[r].cid
      /\ p.slpa = x.slpa /\ p.nlb = n
  <2>1. dev[q] \in Device /\ Requested(dev[q])
    BY <1>6, QueueNow DEF QueueOk
  <2>2. p.q = q /\ p.cid = dev[q].req[r].cid /\ p.slpa = x.slpa /\ p.nlb = n
    BY <1>4
  <2> QED
    BY <1>6, <2>1, <2>2, RecordFacts DEF Requested
<1>8. n \in Nat \ {0} /\ n <= x.nlb
  <2>1. PICK u : u = SegUnits(f)
    OBVIOUS
  <2>2. u \in Nat \ {0}
    BY <2>1, IoSizes DEF SegUnits
  <2>3. n = IF x.nlb <= u THEN x.nlb ELSE u
    BY <1>3, <2>1
  <2> QED
    BY <1>6, <2>2, <2>3
<1>9. /\ sent = [dev[q] EXCEPT !.req = y] /\ sent \in Device
      /\ sent.tag = dev[q].tag /\ sent.oldSq = dev[q].oldSq /\ sent.req = y
      /\ y[r].left = dev[q].req[r].left + 1 /\ \A j \in ReqIds : j # r => y[j] = dev[q].req[j]
      /\ \A j \in ReqIds : y[j].end = dev[q].req[j].end
  <2>1. sent = [dev[q] EXCEPT !.req = y]
    BY <1>3, <1>4, <1>7 DEF Device
  <2>2. /\ y \in [ReqIds -> Request]
        /\ y[r].left = dev[q].req[r].left + 1 /\ \A j \in ReqIds : j # r => y[j] = dev[q].req[j]
        /\ \A j \in ReqIds : y[j].end = dev[q].req[j].end
    <3>1. PICK z : z = dev[q].req[r]
      OBVIOUS
    <3>2. z \in Request /\ y = [dev[q].req EXCEPT ![r] = [z EXCEPT !.left = @ + 1]]
      BY <1>3, <1>6, <1>7, <3>1
    <3>3. PICK zz : zz = [z EXCEPT !.left = @ + 1]
      OBVIOUS
    <3>4. zz \in Request /\ zz.left = z.left + 1 /\ zz.end = z.end
      BY <3>2, <3>3 DEF Request
    <3>5. y = [dev[q].req EXCEPT ![r] = zz]
      BY <3>2, <3>3
    <3> QED
      BY <1>6, <1>7, <3>1, <3>4, <3>5
  <2>3. sent \in Device /\ sent.tag = dev[q].tag /\ sent.oldSq = dev[q].oldSq /\ sent.req = y
    BY <1>7, <2>1, <2>2 DEF Device
  <2> QED
    BY <2>1, <2>2, <2>3
<1>10. PICK w, s : w = dev'[q] /\ s = disp'[d]
  OBVIOUS
<1>11. /\ \A a \in Queues : a # q => dev'[a] = dev[a]
       /\ \A a \in Dispatchers : a # d => disp'[a] = disp[a]
       /\ n = x.nlb => w = Dispatched(d, sent) /\ s = AfterEntry(d)
       /\ n # x.nlb => /\ w = sent
                       /\ s = [x EXCEPT !.slpa = @ + n, !.nlb = @ - n, !.f = Succ(@, NrFTL)]
  <2>1. dev \in [Queues -> Device] /\ disp \in [Dispatchers -> Thread]
    BY DEF IInv, TypeOK
  <2>2. /\ \A a \in Queues : a # q => dev'[a] = dev[a]
        /\ \A a \in Dispatchers : a # d => disp'[a] = disp[a]
    BY <1>5, <2>1
  <2>3. ASSUME n = x.nlb PROVE w = Dispatched(d, sent) /\ s = AfterEntry(d)
    BY <1>5, <1>6, <1>10, <2>1, <2>3
  <2>4. ASSUME n # x.nlb
        PROVE  /\ w = sent
               /\ s = [x EXCEPT !.slpa = @ + n, !.nlb = @ - n, !.f = Succ(@, NrFTL)]
    <3>1. /\ dev' = [dev EXCEPT ![q] = sent]
          /\ disp' = [disp EXCEPT ![d].slpa = @ + n, ![d].nlb = @ - n, ![d].f = Succ(@, NrFTL)]
      BY <1>5, <2>4
    <3>2. w = sent
      BY <1>6, <1>10, <2>1, <3>1
    <3>3. s = [x EXCEPT !.slpa = @ + n, !.nlb = @ - n, !.f = Succ(@, NrFTL)]
      BY <1>1, <1>6, <1>10, <2>1, <3>1 DEF Thread
    <3> QED
      BY <3>2, <3>3
  <2> QED
    BY <2>2, <2>3, <2>4
<1>12. /\ w.tag = dev[q].tag /\ w.req = y
       /\ n = x.nlb => w.oldSq = IF x.todo = 1 THEN Succ(e, QSize) ELSE dev[q].oldSq
  <2>1. CASE n = x.nlb
    <3>1. w = Dispatched(d, sent) /\ sent \in Device
      BY <1>9, <1>11, <2>1
    <3>2. /\ w.tag = sent.tag /\ w.req = sent.req
          /\ w.oldSq = IF disp[d].todo = 1 THEN Succ(disp[d].entry, QSize) ELSE sent.oldSq
      BY <3>1, DispatchedFields
    <3> QED
      BY <1>1, <1>2, <1>9, <3>2
  <2>2. CASE n # x.nlb
    BY <1>9, <1>11, <2>2
  <2> QED
    BY <2>1, <2>2
<1>13. /\ s.tick = x.tick /\ s.pc # "fill" /\ (Batch(s) => s.q = q)
       /\ CursorOf(s, w, q) = Succ(e, QSize)
       /\ n # x.nlb => s.pc = "split" /\ s.q = q /\ s.req = r
                       /\ s.slpa = x.slpa + n /\ s.nlb = x.nlb - n
  <2>1. CASE n = x.nlb
    <3>1. s = AfterEntry(d)
      BY <1>11, <2>1
    <3>2. s.pc \in {"sq", "cq", "io"} /\ s.tick = x.tick
      BY <1>1, <1>6, <3>1, ThreadEntry
    <3>3. /\ disp[d].pc \in {"hack", "split"} /\ UNCHANGED host
          /\ dev'[q].oldSq = IF disp[d].todo = 1 THEN Succ(disp[d].entry, QSize)
                             ELSE dev[q].oldSq
      BY <1>1, <1>2, <1>5, <1>10, <1>12, <2>1
    <3>4. (Batch(s) => s.q = q) /\ CursorOf(s, dev'[q], q) = Succ(disp[d].entry, QSize)
      BY <1>1, <1>2, <1>10, <3>1, <3>3, EntryDone
    <3> QED
      BY <1>1, <1>2, <1>10, <2>1, <3>2, <3>4
  <2>2. CASE n # x.nlb
    <3>1. s = [x EXCEPT !.slpa = @ + n, !.nlb = @ - n, !.f = Succ(@, NrFTL)]
      BY <1>11, <2>2
    <3>2. /\ s.tick = x.tick /\ s.pc = "split" /\ s.q = q /\ s.req = r /\ s.entry = e
          /\ s.slpa = x.slpa + n /\ s.nlb = x.nlb - n
      BY <1>2, <1>5, <1>6, <3>1 DEF Thread
    <3> QED
      BY <3>2 DEF CursorOf, Batch
  <2> QED
    BY <2>1, <2>2
<1>14. Stored(inQue, inQue', InSize, d, f, i, p)
  <2>1. inQue \in [Dispatchers -> [FTLs -> [0 .. InSize - 1 -> Piece \cup {Empty}]]]
    BY DEF IInv, TypeOK
  <2>2. inQue' = [inQue EXCEPT ![d][f][i] = p]
    BY <1>5
  <2>3. f \in FTLs /\ i \in 0 .. InSize - 1
    BY <1>6
  <2> QED
    BY <2>1, <2>2, <2>3 DEF Stored
<1>15. ASSUME NEW a \in Queues, NEW c \in Cids
       PROVE  /\ dev'[a].tag[c] = dev[a].tag[c]
              /\ \A j \in ReqIds : dev'[a].req[j].end = dev[a].req[j].end
              /\ LeftOf(dev'[a], c) = LeftOf(dev[a], c) + One(Matches(p, a, c))
  <2>1. LeftOf(dev[a], c) \in Int
    BY LeftType, QueueNow
  <2>2. CASE a # q
    <3>1. ~ Matches(p, a, c) /\ dev'[a] = dev[a]
      BY <1>7, <1>11, <2>2 DEF Matches
    <3> QED
      BY <2>1, <3>1 DEF One
  <2>3. CASE a = q
    <3>1. dev'[a] = w /\ w.tag = dev[q].tag /\ w.req = y
      BY <1>10, <1>12, <2>3
    <3>2. /\ dev'[a].tag[c] = dev[a].tag[c]
          /\ \A j \in ReqIds : dev'[a].req[j].end = dev[a].req[j].end
      BY <1>9, <2>3, <3>1
    <3>3. CASE c = p.cid
      <4>1. Matches(p, a, c) /\ dev[q].tag[c] = r
        BY <1>7, <2>3, <3>3 DEF Matches
      <4>2. LeftOf(dev[q], c) = dev[q].req[r].left /\ LeftOf(w, c) = y[r].left
        BY <1>6, <3>1, <4>1 DEF LeftOf
      <4> QED
        BY <1>9, <2>3, <3>1, <3>2, <4>1, <4>2 DEF One
    <3>4. CASE c # p.cid
      <4>1. ~ Matches(p, a, c)
        BY <3>4 DEF Matches
      <4>2. dev[q].tag[c] # r /\ dev[q].tag[c] \in ReqIds
        BY <1>6, <1>7, <3>4 DEF Requested
      <4>3. LeftOf(w, c) = LeftOf(dev[q], c)
        BY <1>9, <3>1, <4>2 DEF LeftOf
      <4> QED
        BY <2>1, <2>3, <3>1, <3>2, <4>1, <4>3 DEF One
    <3> QED
      BY <3>3, <3>4
  <2> QED
    BY <2>2, <2>3
<1>16. ASSUME NEW a \in Queues, NEW c \in Cids, Whole(a, c)'
       PROVE  Whole(a, c) /\ ~ Matches(inQue[d][f][i], a, c)
  <2>1. /\ Count(inQue, InSize, a, c) \in Nat /\ Count(inQue', InSize, a, c) \in Nat
        /\ Count(inQue', InSize, a, c) = Count(inQue, InSize, a, c)
             - One(Matches(inQue[d][f][i], a, c)) + One(Matches(p, a, c))
    BY <1>6, <1>14, RingChange, IoSizes
  <2>2. /\ Pieces(a, c)' = Count(inQue', InSize, a, c) + Count(outQue, OutSize, a, c)
                             + Count(Answers(pq), 1, a, c)
        /\ Pieces(a, c) = Count(inQue, InSize, a, c) + Count(outQue, OutSize, a, c)
                             + Count(Answers(pq), 1, a, c)
    BY <1>5 DEF Pieces
  <2>3. Count(outQue, OutSize, a, c) \in Nat /\ Count(Answers(pq), 1, a, c) \in Nat
    BY PiecesType
  <2>4. Pieces(a, c) <= LeftOf(dev[a], c) /\ LeftOf(dev[a], c) \in Int
    BY LeftType, QueueNow DEF IInv, PiecesOk
  <2>5. /\ LeftOf(dev'[a], c) = Pieces(a, c)' /\ dev'[a].tag[c] # 0
        /\ LeftOf(dev'[a], c) = LeftOf(dev[a], c) + One(Matches(p, a, c))
    BY <1>15, <1>16 DEF Whole
  <2>6. One(Matches(p, a, c)) \in {0, 1} /\ One(Matches(inQue[d][f][i], a, c)) \in {0, 1}
    BY DEF One
  <2>7. One(Matches(inQue[d][f][i], a, c)) = 0 /\ LeftOf(dev[a], c) = Pieces(a, c)
    BY <2>1, <2>2, <2>3, <2>4, <2>5, <2>6
  <2> QED
    BY <1>15, <2>5, <2>7 DEF Whole, One
<1>17. ASSUME NEW a \in Queues, NEW c \in Cids, NEW b, b \in Nat,
              Unsent(disp[DOf(a)], dev[a], a, c, b)
       PROVE  Unsent(disp'[DOf(a)], dev'[a], a, c, b) \/ Sent(inQue', a, c, b)
  <2>1. CASE DOf(a) # d
    <3>1. disp'[DOf(a)] = disp[DOf(a)] /\ dev'[a].tag[c] = dev[a].tag[c]
      BY <1>11, <1>15, <2>1, QueueNumbers
    <3> QED
      BY <1>17, <3>1 DEF Unsent
  <2>2. CASE DOf(a) = d
    <3>1. a = q /\ r = dev[q].tag[c] /\ b \in x.slpa .. x.slpa + x.nlb - 1
      BY <1>1, <1>2, <1>17, <2>2 DEF Unsent
    <3>2. CASE b < x.slpa + n
      <4>1. c = p.cid
        BY <1>6, <1>7, <3>1 DEF Requested
      <4>2. Matches(p, q, c) /\ b \in p.slpa .. p.slpa + p.nlb - 1
        <5>1. b \in x.slpa .. x.slpa + n - 1
          BY <1>6, <1>8, <1>17, <3>1, <3>2
        <5> QED
          BY <1>7, <4>1, <5>1 DEF Matches
      <4>3. inQue'[d][f][i] = p
        BY <1>14 DEF Stored
      <4> QED
        BY <1>6, <3>1, <4>2, <4>3 DEF Sent
    <3>3. CASE b >= x.slpa + n
      <4>1. n # x.nlb
        BY <1>6, <1>8, <3>1, <3>3
      <4>2. b \in (x.slpa + n) .. (x.slpa + n) + (x.nlb - n) - 1
        BY <1>6, <1>8, <3>1, <3>3
      <4>3. dev'[a].tag[c] = r /\ disp'[DOf(a)] = s
        BY <1>10, <1>15, <2>2, <3>1
      <4> QED
        BY <1>13, <3>1, <4>1, <4>2, <4>3 DEF Unsent
    <3> QED
      BY <1>6, <1>8, <1>17, <3>2, <3>3
  <2> QED
    BY <2>1, <2>2
<1>18. ASSUME NEW a \in Queues, NEW c \in Cids PROVE ServedOk(a, c)'
  <2>1. SUFFICES ASSUME Whole(a, c)'
                 PROVE  Awaited(work[a][c], disp[DOf(a)], dev[a], inQue, outQue, Answers(pq), a, c)'
    BY DEF ServedOk
  <2>2. Whole(a, c) /\ ~ Matches(inQue[d][f][i], a, c)
    BY <1>16, <2>1
  <2>3. Awaited(work[a][c], disp[DOf(a)], dev[a], inQue, outQue, Answers(pq), a, c)
    BY <2>2 DEF ServedInv, ServedOk
  <2>4. PICK o : o = Answers(pq)
    OBVIOUS
  <2>5. Answers(pq') = o /\ work' = work /\ outQue' = outQue
    BY <1>5, <2>4
  <2>6. Lasts(dev'[a], outQue, o, a, c, work[a][c].due)
    <3>1. Lasts(dev[a], outQue, o, a, c, work[a][c].due)
      BY <2>3, <2>4 DEF Awaited
    <3>2. dev[a].tag[c] \in ReqIds
      BY QueueNow, RecordFacts
    <3>3. /\ dev'[a].tag[c] = dev[a].tag[c]
          /\ dev'[a].req[dev[a].tag[c]].end = dev[a].req[dev[a].tag[c]].end
      BY <1>15, <3>2
    <3> QED
      BY <3>1, <3>3 DEF Lasts
  <2>7. ASSUME NEW b \in work[a][c].left
        PROVE  Unsent(disp'[DOf(a)], dev'[a], a, c, b) \/ Sent(inQue', a, c, b)
    <3>1. b \in Nat
      BY DEF IInv, TypeOK
    <3>2. Unsent(disp[DOf(a)], dev[a], a, c, b) \/ Sent(inQue, a, c, b)
      BY <2>3 DEF Awaited
    <3>3. CASE Unsent(disp[DOf(a)], dev[a], a, c, b)
      BY <1>17, <3>1, <3>3
    <3>4. CASE Sent(inQue, a, c, b)
      BY <1>14, <2>2, <3>4, SentStays
    <3> QED
      BY <3>2, <3>3, <3>4
  <2> QED
    BY <2>5, <2>6, <2>7 DEF Awaited
<1>19. Fresh(sqMem[q], work'[q], CursorOf(disp'[d], dev'[q], q), host[q].sqTail)
  <2>1. Fresh(sqMem[q], work[q], Succ(e, QSize), host[q].sqTail)
    BY <1>6 DEF ServedInv
  <2> QED
    BY <1>5, <1>10, <1>13, <2>1
<1>20. ClockOk(d)'
  <2>1. x.tick <= now
    BY <1>1 DEF ServedInv, ClockOk
  <2> QED
    BY <1>5, <1>10, <1>13, <2>1 DEF ClockOk
<1>21. (Batch(disp[d]) => disp[d].q = q) /\ (Batch(disp'[d]) => disp'[d].q = q)
  BY <1>1, <1>2, <1>10, <1>13
<1>22. /\ UNCHANGED <<host, sqMem, now>>
       /\ \A b \in Dispatchers : b # d => disp'[b] = disp[b] /\ completed'[b] = completed[b]
       /\ \A a \in Queues : a # q => dev'[a] = dev[a] /\ work'[a] = work[a]
  BY <1>5, <1>11
<1> QED
  BY <1>6, <1>18, <1>19, <1>20, <1>21, <1>22, ServedOne

\* The dispatcher takes an answer.
LEMMA ServedAnswer ==
  ASSUME IInv, ServedInv, NEW d \in Dispatchers, Dequeue(d),
         outQue[d][disp[d].f][outHead[d][disp[d].f]] # Empty
  PROVE  ServedInv'
<1>1. PICK f : f = disp[d].f
  OBVIOUS
<1>2. PICK i : i = outHead[d][f]
  OBVIOUS
<1>3. PICK ans : ans = outQue[d][f][i]
  OBVIOUS
<1>4. PICK q, c : q = ans.q /\ c = ans.cid
  OBVIOUS
<1>5. PICK r : r = dev[q].tag[c]
  OBVIOUS
<1>6. PICK z, rq : z = dev[q].req[r] /\ rq = Answered(z, ans)
  OBVIOUS
<1>7. /\ disp[d].pc = "deq" /\ ans # Empty
      /\ dev' = [dev EXCEPT ![q].req[r] = rq]
      /\ completed' = IF rq.left # 0 THEN completed
                      ELSE [completed EXCEPT ![d] = PushCompleted(@, <<q, r>>, rq.end)]
      /\ outQue' = [outQue EXCEPT ![d][f][i] = Empty]
      /\ UNCHANGED <<host, sqMem, disp, inQue, pq, now, work>>
  BY <1>1, <1>2, <1>3, <1>4, <1>5, <1>6 DEF Dequeue, At, hostVars, ringIn
<1>8. /\ ~ Batch(disp[d]) /\ f \in FTLs /\ i \in 0 .. OutSize - 1 /\ ans \in Answer
  <2>1. ~ Batch(disp[d]) /\ f \in FTLs
    BY <1>1, <1>7, ThreadNow, ThreadFields DEF Batch
  <2>2. i \in 0 .. OutSize - 1
    BY <1>2, <2>1, ThreadNow
  <2>3. ans \in Answer \cup {Empty}
    BY <1>3, <2>1, <2>2, ThreadNow
  <2> QED
    BY <1>7, <2>1, <2>2, <2>3
<1>9. q \in Queues /\ c \in Cids /\ ans.nsecs \in Time
  BY <1>4, <1>8 DEF Answer
<1>10. /\ DOf(q) = d /\ Matches(outQue[d][f][i], q, c)
  <2>1. DOf(ans.q) = d
    BY <1>3, <1>7, <1>8 DEF IInv, Routed, RoutedTo
  <2> QED
    BY <1>3, <1>4, <2>1 DEF Matches
<1>11. /\ dev[q] \in Device /\ Requested(dev[q]) /\ dev[q].req \in [ReqIds -> Request]
       /\ dev[q].tag \in [Cids -> ReqIds] /\ r \in ReqIds /\ z \in Request
       /\ Cursor(q) = dev[q].oldSq
  <2>1. dev[q] \in Device /\ Requested(dev[q])
    BY <1>9, QueueNow DEF QueueOk
  <2>2. Cursor(q) = dev[q].oldSq
    BY <1>8, <1>10 DEF Cursor, CursorOf
  <2>3. dev[q].req \in [ReqIds -> Request] /\ dev[q].tag \in [Cids -> ReqIds]
    BY <2>1, RecordFacts
  <2>4. r \in ReqIds
    BY <1>5, <1>9, <2>3
  <2> QED
    BY <1>6, <2>1, <2>2, <2>3, <2>4
<1>12. r # 0
  <2>1. Count(outQue, OutSize, q, c) >= 1
    BY <1>8, <1>10, CountedHeld, IoSizes
  <2>2. Pieces(q, c) >= 1
    BY <2>1, PiecesType DEF Pieces
  <2>3. Pieces(q, c) <= LeftOf(dev[q], c) /\ LeftOf(dev[q], c) \in Int
    BY <1>9, <1>11, LeftType DEF IInv, PiecesOk
  <2>4. LeftOf(dev[q], c) >= 1
    BY <2>2, <2>3, PiecesType
  <2> QED
    BY <1>5, <2>4 DEF LeftOf
<1>13. /\ rq.left = z.left - 1 /\ rq.end = MaxOf(z.end, ans.nsecs)
       /\ rq.end \in Time /\ z.end <= rq.end /\ ans.nsecs <= rq.end
  <2>1. rq.left = z.left - 1 /\ rq.end = MaxOf(z.end, ans.nsecs)
    <3>1. PICK k : k = IF z.left = 1 THEN ans.cid ELSE z.cid
      OBVIOUS
    <3>2. rq = [z EXCEPT !.left = @ - 1, !.end = MaxOf(@, ans.nsecs), !.cid = k]
      BY <1>6, <1>11, <3>1 DEF Answered, Request
    <3> QED
      BY <1>11, <3>2 DEF Request
  <2>2. z.end \in Time
    BY <1>11 DEF Request
  <2> QED
    BY <1>9, <2>1, <2>2, IoSizes DEF MaxOf, Time
<1>14. /\ dev'[q].tag = dev[q].tag /\ dev'[q].oldSq = dev[q].oldSq
       /\ dev'[q].req[r] = rq
       /\ \A j \in ReqIds : j # r => dev'[q].req[j] = dev[q].req[j]
       /\ \A p \in Queues : p # q => dev'[p] = dev[p]
  <2>1. dev \in [Queues -> Device]
    BY DEF IInv, TypeOK
  <2>2. \A p \in Queues : p # q => dev'[p] = dev[p]
    BY <1>7, <2>1
  <2>3. dev'[q] = [dev[q] EXCEPT !.req[r] = rq]
    BY <1>7, <1>9, <2>1
  <2> QED
    BY <1>11, <2>2, <2>3 DEF Device
<1>15. \A e \in Dispatchers : e # d => disp'[e] = disp[e] /\ completed'[e] = completed[e]
  BY <1>7 DEF IInv, TypeOK
<1>16. Stored(outQue, outQue', OutSize, d, f, i, Empty)
  <2>1. outQue \in [Dispatchers -> [FTLs -> [0 .. OutSize - 1 -> Answer \cup {Empty}]]]
    BY DEF IInv, TypeOK
  <2>2. outQue' = [outQue EXCEPT ![d][f][i] = Empty]
    BY <1>7
  <2>3. f \in FTLs /\ i \in 0 .. OutSize - 1
    BY <1>8
  <2> QED
    BY <2>1, <2>2, <2>3 DEF Stored
<1>17. ASSUME NEW k \in Cids, k # c PROVE dev[q].tag[k] # 0 => dev[q].tag[k] # r
  BY <1>5, <1>9, <1>11, <1>12, <1>17 DEF Requested
<1>18. ASSUME NEW a \in Queues, NEW k \in Cids
       PROVE  /\ dev'[a].tag[k] = dev[a].tag[k]
              /\ LeftOf(dev'[a], k) = LeftOf(dev[a], k) - One(Matches(ans, a, k))
  <2>1. LeftOf(dev[a], k) \in Int
    BY LeftType, QueueNow
  <2>2. CASE a # q
    <3>1. ~ Matches(ans, a, k) /\ dev'[a] = dev[a]
      BY <1>4, <1>14, <2>2 DEF Matches
    <3> QED
      BY <2>1, <3>1 DEF One
  <2>3. CASE a = q /\ k = c
    <3>1. Matches(ans, a, k)
      BY <1>4, <2>3 DEF Matches
    <3>2. LeftOf(dev[a], k) = z.left /\ LeftOf(dev'[a], k) = rq.left
      BY <1>5, <1>6, <1>12, <1>14, <2>3 DEF LeftOf
    <3> QED
      BY <1>13, <1>14, <2>3, <3>1, <3>2 DEF One
  <2>4. CASE a = q /\ k # c
    <3>1. ~ Matches(ans, a, k)
      BY <1>4, <2>4 DEF Matches
    <3>2. dev[q].tag[k] \in ReqIds /\ (dev[q].tag[k] # 0 => dev[q].tag[k] # r)
      BY <1>11, <1>17, <2>4
    <3>3. LeftOf(dev'[a], k) = LeftOf(dev[a], k)
      BY <1>14, <2>4, <3>2 DEF LeftOf
    <3> QED
      BY <1>14, <2>1, <2>4, <3>1, <3>3 DEF One
  <2> QED
    BY <2>2, <2>3, <2>4
<1>19. ASSUME NEW a \in Queues, NEW k \in Cids, Whole(a, k)' PROVE Whole(a, k)
  <2>1. /\ Count(outQue, OutSize, a, k) \in Nat /\ Count(outQue', OutSize, a, k) \in Nat
        /\ Count(outQue', OutSize, a, k) = Count(outQue, OutSize, a, k)
             - One(Matches(ans, a, k)) + One(Matches(Empty, a, k))
    BY <1>3, <1>8, <1>16, RingChange, IoSizes
  <2>2. /\ Pieces(a, k)' = Count(inQue, InSize, a, k) + Count(outQue', OutSize, a, k)
                             + Count(Answers(pq), 1, a, k)
        /\ Pieces(a, k) = Count(inQue, InSize, a, k) + Count(outQue, OutSize, a, k)
                             + Count(Answers(pq), 1, a, k)
    BY <1>7 DEF Pieces
  <2>3. Count(inQue, InSize, a, k) \in Nat /\ Count(Answers(pq), 1, a, k) \in Nat
    BY PiecesType
  <2>4. LeftOf(dev[a], k) \in Int
    BY LeftType, QueueNow
  <2>5. /\ LeftOf(dev'[a], k) = Pieces(a, k)' /\ dev'[a].tag[k] # 0
        /\ LeftOf(dev'[a], k) = LeftOf(dev[a], k) - One(Matches(ans, a, k))
    BY <1>18, <1>19 DEF Whole
  <2>6. One(Matches(Empty, a, k)) = 0 /\ One(Matches(ans, a, k)) \in {0, 1}
    BY QueueNumbers DEF Matches, Empty, One
  <2>7. LeftOf(dev[a], k) = Pieces(a, k)
    BY <2>1, <2>2, <2>3, <2>4, <2>5, <2>6
  <2> QED
    BY <1>18, <2>5, <2>7 DEF Whole
<1>20. ASSUME NEW a \in Queues, NEW k \in Cids PROVE ServedOk(a, k)'
  <2>1. SUFFICES ASSUME Whole(a, k)'
                 PROVE  Awaited(work[a][k], disp[DOf(a)], dev[a], inQue, outQue, Answers(pq), a, k)'
    BY DEF ServedOk
  <2>2. Whole(a, k)
    BY <1>19, <2>1
  <2>3. Awaited(work[a][k], disp[DOf(a)], dev[a], inQue, outQue, Answers(pq), a, k)
    BY <2>2 DEF ServedInv, ServedOk
  <2>4. PICK o, t : o = Answers(pq) /\ t = work[a][k].due
    OBVIOUS
  <2>5. Answers(pq') = o /\ work' = work /\ inQue' = inQue /\ disp' = disp
    BY <1>7, <2>4
  <2>6. t \in Time /\ dev[a].tag[k] # 0 /\ dev[a].tag[k] \in ReqIds
    <3>1. work[a][k].due \in Time
      BY DEF IInv, TypeOK
    <3>2. dev[a].tag[k] \in ReqIds
      BY QueueNow, RecordFacts
    <3> QED
      BY <2>2, <2>4, <3>1, <3>2 DEF Whole
  <2>7. Lasts(dev[a], outQue, o, a, k, t)
    BY <2>3, <2>4 DEF Awaited
  <2>8. Lasts(dev'[a], outQue', o, a, k, t)
    <3>1. CASE a = q /\ k = c
      <4>1. dev'[a].req[dev'[a].tag[k]].end = rq.end
        BY <1>5, <1>14, <3>1
      <4>2. CASE t <= dev[a].req[dev[a].tag[k]].end
        <5>1. t <= z.end
          BY <1>5, <1>6, <3>1, <4>2
        <5>2. z.end \in Time
          BY <1>11 DEF Request
        <5>3. t <= rq.end
          BY <1>13, <2>6, <5>1, <5>2, IoSizes DEF Time
        <5> QED
          BY <4>1, <5>3 DEF Lasts
      <4>3. CASE Ends(outQue, OutSize, a, k, t)
        <5>1. PICK e \in Dispatchers, g \in FTLs, j \in 0 .. OutSize - 1 :
                Matches(outQue[e][g][j], a, k) /\ t <= outQue[e][g][j].nsecs
          BY <4>3 DEF Ends
        <5>2. CASE e = d /\ g = f /\ j = i
          <6>1. t <= ans.nsecs
            BY <1>3, <5>1, <5>2
          <6>2. t <= rq.end
            BY <1>9, <1>13, <2>6, <6>1, IoSizes DEF Time
          <6> QED
            BY <4>1, <6>2 DEF Lasts
        <5>3. CASE ~ (e = d /\ g = f /\ j = i)
          <6>1. outQue'[e][g][j] = outQue[e][g][j]
            BY <1>16, <5>3 DEF Stored
          <6>2. Ends(outQue', OutSize, a, k, t)
            BY <5>1, <6>1 DEF Ends
          <6> QED
            BY <6>2 DEF Lasts
        <5> QED
          BY <5>2, <5>3
      <4>4. CASE Ends(o, 1, a, k, t)
        BY <4>4 DEF Lasts
      <4> QED
        BY <2>7, <4>2, <4>3, <4>4 DEF Lasts
    <3>2. CASE ~ (a = q /\ k = c)
      <4>1. ~ Matches(outQue[d][f][i], a, k)
        BY <1>3, <1>4, <3>2 DEF Matches
      <4>2. dev'[a].req[dev'[a].tag[k]] = dev[a].req[dev[a].tag[k]]
        BY <1>14, <1>17, <2>6, <3>2
      <4>3. Ends(outQue, OutSize, a, k, t) => Ends(outQue', OutSize, a, k, t)
        BY <1>16, <4>1, EndsStays
      <4> QED
        BY <2>7, <4>2, <4>3 DEF Lasts
    <3> QED
      BY <3>1, <3>2
  <2>9. ASSUME NEW b \in work[a][k].left
        PROVE  Unsent(disp[DOf(a)], dev'[a], a, k, b) \/ Sent(inQue, a, k, b)
    <3>1. Unsent(disp[DOf(a)], dev[a], a, k, b) \/ Sent(inQue, a, k, b)
      BY <2>3 DEF Awaited
    <3> QED
      BY <1>18, <3>1 DEF Unsent
  <2> QED
    BY <2>4, <2>5, <2>8, <2>9 DEF Awaited
<1>21. Fresh(sqMem[q], work'[q], CursorOf(disp'[d], dev'[q], q), host[q].sqTail)
  <2>1. CursorOf(disp'[d], dev'[q], q) = Cursor(q)
    BY <1>7, <1>8, <1>11, <1>14 DEF CursorOf
  <2> QED
    BY <1>7, <1>9, <2>1 DEF ServedInv
<1>22. ClockOk(d)'
  <2>1. disp[d].tick <= now
    BY DEF ServedInv, ClockOk
  <2> QED
    BY <1>7, <2>1 DEF ClockOk
<1>23. ~ Batch(disp'[d])
  BY <1>7, <1>8
<1>24. /\ UNCHANGED <<host, sqMem, now>>
       /\ \A a \in Queues : a # q => dev'[a] = dev[a] /\ work'[a] = work[a]
  BY <1>7, <1>14
<1> QED
  BY <1>8, <1>9, <1>10, <1>15, <1>20, <1>21, <1>22, <1>23, <1>24, ServedOne

\* An FTL thread takes a piece and owes the answer to it.
LEMMA ServedTake ==
  ASSUME IInv, ServedInv, NEW f \in FTLs, CheckReq(f)
  PROVE  ServedInv'
<1>1. UNCHANGED <<host, sqMem, dev, disp, completed, outQue, now>>
  BY DEF CheckReq, hostVars, ringOut
<1>2. \A q \in Queues : Cursor(q)' = Cursor(q)
  BY <1>1 DEF Cursor
<1>3. \A e \in Dispatchers : ClockOk(e)'
  BY <1>1 DEF ServedInv, ClockOk, IsDue, EndOf
<1>4. CASE inQue[ftl[f].d][f][inHead[ftl[f].d][f]] = Empty
  <2>1. UNCHANGED <<inQue, pq, work>>
    BY <1>4 DEF CheckReq
  <2>2. \A q \in Queues : \A c \in Cids : ServedOk(q, c)'
    BY <1>1, <2>1, ServedSame
  <2>3. \A q \in Queues : Fresh(sqMem[q], work[q], Cursor(q), host[q].sqTail)'
    BY <1>1, <1>2, <2>1 DEF ServedInv
  <2> QED
    BY <1>3, <2>2, <2>3 DEF ServedInv
<1>5. CASE inQue[ftl[f].d][f][inHead[ftl[f].d][f]] # Empty
  <2>1. PICK d, i, p, a : p = inQue[d][f][i] /\ Takes(f, d, i, p, a)
    BY <1>5, PieceTaken
  <2>2. PICK u, z : u = p.q /\ z = p.cid
    OBVIOUS
  <2>3. PICK l, t : l = work[u][z].left \ (p.slpa .. p.slpa + p.nlb - 1)
                    /\ t = MaxOf(work[u][z].due, a.nsecs)
    OBVIOUS
  <2>4. /\ d \in Dispatchers /\ i \in 0 .. InSize - 1 /\ p \in Piece
        /\ a \in Answer /\ a.q = u /\ a.cid = z
        /\ work' = [work EXCEPT ![u][z] = [left |-> l, due |-> t]]
        /\ Stored(inQue, inQue', InSize, d, f, i, Empty)
        /\ Answers(pq)[d][f][0] = Empty /\ Stored(Answers(pq), Answers(pq'), 1, d, f, 0, a)
        /\ \A q \in Queues : \A c \in Cids : Pieces(q, c)' = Pieces(q, c)
    <3>1. work' = [work EXCEPT ![u][z] =
                     [left |-> @.left \ (p.slpa .. p.slpa + p.nlb - 1),
                      due |-> MaxOf(@.due, a.nsecs)]]
      BY <2>1, <2>2 DEF Takes
    <3>2. u \in Queues /\ z \in Cids
      BY <2>1, <2>2 DEF Takes, Piece
    <3>3. work \in [Queues -> [Cids -> [left : SUBSET Nat, due : Time]]]
      BY DEF IInv, TypeOK
    <3>4. work' = [work EXCEPT ![u][z] = [left |-> l, due |-> t]]
      BY <2>3, <3>1, <3>2, <3>3
    <3> QED
      BY <2>1, <2>2, <3>4 DEF Takes
  <2>5. u \in Queues /\ z \in Cids /\ Matches(inQue[d][f][i], u, z) /\ a.nsecs \in Time
    BY <2>1, <2>2, <2>4 DEF Piece, Answer, Matches
  <2>6. /\ work'[u][z].left = l /\ work'[u][z].due = t
        /\ \A q \in Queues : \A c \in Cids : ~ (q = u /\ c = z) => work'[q][c] = work[q][c]
    BY <2>4, <2>5 DEF IInv, TypeOK
  <2>7. PICK r1, r2 : r1 = Answers(pq) /\ r2 = Answers(pq')
    OBVIOUS
  <2>8. r1[d][f][0] = Empty /\ Stored(r1, r2, 1, d, f, 0, a)
    BY <2>4, <2>7
  <2>9. ASSUME NEW q \in Queues, NEW c \in Cids PROVE ServedOk(q, c)'
    <3>1. SUFFICES ASSUME Whole(q, c)'
                   PROVE  Awaited(work[q][c], disp[DOf(q)], dev[q], inQue, outQue, Answers(pq), q, c)'
      BY DEF ServedOk
    <3>2. Whole(q, c)
      <4>1. Pieces(q, c)' = Pieces(q, c)
        BY <2>4
      <4> QED
        BY <1>1, <3>1, <4>1 DEF Whole
    <3>3. Awaited(work[q][c], disp[DOf(q)], dev[q], inQue, outQue, r1, q, c)
      BY <2>7, <3>2 DEF ServedInv, ServedOk
    <3>4. ~ Matches(r1[d][f][0], q, c)
      BY <2>8, QueueNumbers DEF Matches, Empty
    <3>5. CASE q = u /\ c = z
      <4>1. ASSUME NEW b \in l
            PROVE  Unsent(disp[DOf(q)], dev[q], q, c, b) \/ Sent(inQue', q, c, b)
        <5>1. b \in work[q][c].left /\ b \notin p.slpa .. p.slpa + p.nlb - 1
          BY <2>3, <3>5
        <5>2. Unsent(disp[DOf(q)], dev[q], q, c, b) \/ Sent(inQue, q, c, b)
          BY <3>3, <5>1 DEF Awaited
        <5>3. ASSUME Sent(inQue, q, c, b) PROVE Sent(inQue', q, c, b)
          <6>1. PICK e \in Dispatchers, g \in FTLs, j \in 0 .. InSize - 1 :
                  /\ Matches(inQue[e][g][j], q, c)
                  /\ b \in inQue[e][g][j].slpa .. inQue[e][g][j].slpa + inQue[e][g][j].nlb - 1
            BY <5>3 DEF Sent
          <6>2. ~ (e = d /\ g = f /\ j = i)
            BY <2>1, <5>1, <6>1
          <6>3. inQue'[e][g][j] = inQue[e][g][j]
            BY <2>4, <6>2 DEF Stored
          <6> QED
            BY <6>1, <6>3 DEF Sent
        <5> QED
          BY <5>2, <5>3
      <4>2. PICK s : s = work[q][c].due
        OBVIOUS
      <4>3. s \in Time /\ t = MaxOf(s, a.nsecs)
        BY <2>3, <3>5, <4>2 DEF IInv, TypeOK
      <4>4. Lasts(dev[q], outQue, r1, q, c, s)
        BY <3>3, <4>2 DEF Awaited
      <4>5. Lasts(dev[q], outQue, r2, q, c, t)
        <5>1. CASE t = s
          <6>1. Ends(r1, 1, q, c, s) => Ends(r2, 1, q, c, s)
            BY <2>8, <3>4, EndsStays
          <6> QED
            BY <4>4, <5>1, <6>1 DEF Lasts
        <5>2. CASE t = a.nsecs
          <6>1. r2[d][f][0] = a /\ 0 \in 0 .. 1 - 1 /\ a.nsecs <= a.nsecs
            BY <2>5, <2>8, IoSizes DEF Stored, Time
          <6>2. Matches(a, q, c)
            BY <2>4, <3>5 DEF Matches
          <6>3. Ends(r2, 1, q, c, t)
            BY <2>4, <5>2, <6>1, <6>2 DEF Ends
          <6> QED
            BY <6>3 DEF Lasts
        <5> QED
          BY <4>3, <5>1, <5>2 DEF MaxOf
      <4>6. work'[q][c].left = l /\ work'[q][c].due = t
        BY <2>6, <3>5
      <4> QED
        BY <1>1, <2>7, <4>1, <4>5, <4>6 DEF Awaited
    <3>6. CASE ~ (q = u /\ c = z)
      <4>1. work'[q][c] = work[q][c]
        BY <2>6, <3>6
      <4>2. ~ Matches(inQue[d][f][i], q, c)
        BY <2>1, <2>2, <3>6 DEF Matches
      <4>3. \A b : Sent(inQue, q, c, b) => Sent(inQue', q, c, b)
        BY <2>4, <4>2, SentStays
      <4>4. Ends(r1, 1, q, c, work[q][c].due) => Ends(r2, 1, q, c, work[q][c].due)
        BY <2>8, <3>4, EndsStays
      <4>5. Lasts(dev[q], outQue, r2, q, c, work[q][c].due)
        BY <3>3, <4>4 DEF Awaited, Lasts
      <4>6. \A b \in work[q][c].left :
              Unsent(disp[DOf(q)], dev[q], q, c, b) \/ Sent(inQue', q, c, b)
        BY <3>3, <4>3 DEF Awaited
      <4> QED
        BY <1>1, <2>7, <4>1, <4>5, <4>6 DEF Awaited
    <3> QED
      BY <3>5, <3>6
  <2>10. ASSUME NEW q \in Queues
         PROVE  Fresh(sqMem[q], work[q], Cursor(q), host[q].sqTail)'
    <3>1. Fresh(sqMem[q], work[q], Cursor(q), host[q].sqTail)
      BY DEF ServedInv
    <3>2. ASSUME NEW e \in Entries, Inside(Cursor(q), host[q].sqTail, e)
          PROVE  work'[q][sqMem[q][e].cid] = work[q][sqMem[q][e].cid]
      <4>1. PICK c : c = sqMem[q][e].cid
        OBVIOUS
      <4>2. Placed(host[q], sqMem[q], cqMem[q], dev[q], Cursor(q))
        BY QueueNow DEF QueueOk
      <4>3. c \in Cids /\ In(sqMem[q], Cursor(q), host[q].sqTail, c)
        BY <3>2, <4>1, <4>2 DEF Placed, Distinct, In
      <4>4. dev[q].tag[c] = 0
        BY <4>2, <4>3, InUse
      <4>5. Pieces(q, c) <= 0
        BY <4>3, <4>4 DEF IInv, PiecesOk, LeftOf
      <4>6. ~ (q = u /\ c = z)
        <5>1. SUFFICES ASSUME q = u /\ c = z PROVE FALSE
          OBVIOUS
        <5>2. Count(inQue, InSize, q, c) >= 1
          BY <2>4, <2>5, <5>1, CountedHeld, IoSizes
        <5> QED
          BY <4>5, <5>2, PiecesType DEF Pieces
      <4> QED
        BY <2>6, <4>1, <4>3, <4>6
    <3>3. Fresh(sqMem[q], work'[q], Cursor(q), host[q].sqTail)
      BY <3>1, <3>2 DEF Fresh
    <3> QED
      BY <1>1, <1>2, <3>3
  <2> QED
    BY <1>3, <2>9, <2>10 DEF ServedInv
<1> QED
  BY <1>4, <1>5

\* An FTL thread sends an answer.
LEMMA ServedSend ==
  ASSUME IInv, ServedInv, NEW f \in FTLs, CheckResp(f)
  PROVE  ServedInv'
<1>1. UNCHANGED <<host, sqMem, dev, disp, completed, inQue, now, work>>
  BY DEF CheckResp, hostVars, ringIn
<1>2. \A q \in Queues : Cursor(q)' = Cursor(q)
  BY <1>1 DEF Cursor
<1>3. \A e \in Dispatchers : ClockOk(e)'
  BY <1>1 DEF ServedInv, ClockOk, IsDue, EndOf
<1>4. PICK d, i, a : Sends(f, d, i, a)
  BY AnswerSent
<1>5. PICK r1, r2 : r1 = Answers(pq) /\ r2 = Answers(pq')
  OBVIOUS
<1>6. /\ d \in Dispatchers /\ i \in 0 .. OutSize - 1
      /\ outQue[d][f][i] = Empty /\ Stored(outQue, outQue', OutSize, d, f, i, a)
      /\ r1[d][f][0] = a /\ Stored(r1, r2, 1, d, f, 0, Empty)
      /\ \A q \in Queues : \A c \in Cids : Pieces(q, c)' = Pieces(q, c)
  BY <1>4, <1>5 DEF Sends
<1>7. ASSUME NEW q \in Queues, NEW c \in Cids PROVE ServedOk(q, c)'
  <2>1. SUFFICES ASSUME Whole(q, c)'
                 PROVE  Awaited(work[q][c], disp[DOf(q)], dev[q], inQue, outQue, Answers(pq), q, c)'
    BY DEF ServedOk
  <2>2. Whole(q, c)
    <3>1. Pieces(q, c)' = Pieces(q, c)
      BY <1>6
    <3> QED
      BY <1>1, <2>1, <3>1 DEF Whole
  <2>3. Awaited(work[q][c], disp[DOf(q)], dev[q], inQue, outQue, r1, q, c)
    BY <1>5, <2>2 DEF ServedInv, ServedOk
  <2>4. PICK t : t = work[q][c].due
    OBVIOUS
  <2>5. Lasts(dev[q], outQue, r1, q, c, t)
    BY <2>3, <2>4 DEF Awaited
  <2>6. ~ Matches(outQue[d][f][i], q, c)
    BY <1>6, QueueNumbers DEF Matches, Empty
  <2>7. Ends(outQue, OutSize, q, c, t) => Ends(outQue', OutSize, q, c, t)
    BY <1>6, <2>6, EndsStays
  <2>8. ASSUME Ends(r1, 1, q, c, t)
        PROVE  Ends(outQue', OutSize, q, c, t) \/ Ends(r2, 1, q, c, t)
    <3>1. PICK e \in Dispatchers, g \in FTLs, j \in 0 .. 1 - 1 :
            Matches(r1[e][g][j], q, c) /\ t <= r1[e][g][j].nsecs
      BY <2>8 DEF Ends
    <3>2. CASE e = d /\ g = f /\ j = 0
      <4>1. outQue'[d][f][i] = a /\ Matches(a, q, c) /\ t <= a.nsecs
        BY <1>6, <3>1, <3>2 DEF Stored
      <4> QED
        BY <1>6, <4>1 DEF Ends
    <3>3. CASE ~ (e = d /\ g = f /\ j = 0)
      <4>1. r2[e][g][j] = r1[e][g][j]
        BY <1>6, <3>3 DEF Stored
      <4> QED
        BY <3>1, <4>1 DEF Ends
    <3> QED
      BY <3>2, <3>3
  <2>9. Lasts(dev[q], outQue', r2, q, c, t)
    BY <2>5, <2>7, <2>8 DEF Lasts
  <2> QED
    BY <1>1, <1>5, <2>3, <2>4, <2>9 DEF Awaited
<1>8. \A q \in Queues : Fresh(sqMem[q], work[q], Cursor(q), host[q].sqTail)'
  BY <1>1, <1>2 DEF ServedInv
<1> QED
  BY <1>3, <1>7, <1>8 DEF ServedInv

\* Every step keeps what the property rests on.
LEMMA NextServed == IInv /\ ServedInv /\ [Next]_vars => ServedInv'
<1> SUFFICES ASSUME IInv, ServedInv, [Next]_vars PROVE ServedInv'
  OBVIOUS
<1>1. ASSUME NEW q \in Queues, Host(q) PROVE ServedInv'
  BY <1>1, ServedSubmit, ServedReap, ServedIdle DEF Host
<1>2. ASSUME NEW d \in Dispatchers, Dispatcher(d) PROVE ServedInv'
  BY <1>2, ServedLook, ServedHack, ServedStart, ServedEnqueue, ServedAround, ServedAnswer,
     ServedFill DEF Dispatcher
<1>3. ASSUME NEW f \in FTLs, FTL(f) PROVE ServedInv'
  BY <1>3, ServedTake, ServedSend DEF FTL
<1>4. CASE Tick \/ UNCHANGED vars
  BY <1>4, ServedIdle
<1> QED
  BY <1>1, <1>2, <1>3, <1>4 DEF Next

\* A completion for command c of queue q is written, and nothing else.
LEMMA OnePosted ==
  ASSUME IInv, NEW q \in Queues, NEW c, Post(q, c), NEW w, w = work'[q][c],
         w.left = {} /\ w.due <= now
  PROVE  \A p \in Queues : \A e \in Entries : cqMem'[p][e] # cqMem[p][e] =>
           work'[p][cqMem'[p][e].cid].left = {} /\ work'[p][cqMem'[p][e].cid].due <= now
<1>1. PICK i, y : i = dev[q].head /\ y = [cid |-> c, phase |-> dev[q].phase]
  OBVIOUS
<1>2. cqMem' = [cqMem EXCEPT ![q][i] = y] /\ y.cid = c
  BY <1>1 DEF Post
<1>3. cqMem \in [Queues -> [Entries -> [cid : Cids \cup {0}, phase : {0, 1}]]]
  BY DEF IInv, TypeOK
<1>4. ASSUME NEW p \in Queues, NEW e \in Entries, cqMem'[p][e] # cqMem[p][e]
      PROVE  p = q /\ cqMem'[p][e] = y
  BY <1>2, <1>3, <1>4
<1> QED
  BY <1>2, <1>4

\* The request at the head of the completed list has been served in full.
LEMMA DueIsServed ==
  ASSUME IInv, ServedInv, NEW d \in Dispatchers, disp[d].pc = "fill",
         NEW q, NEW r, q = Head(completed[d])[1], r = Head(completed[d])[2]
  PROVE  /\ q \in Queues /\ dev[q].req[r].cid \in Cids
         /\ work[q][dev[q].req[r].cid].left = {}
         /\ work[q][dev[q].req[r].cid].due <= now
<1>1. PICK h : h = Head(completed[d])
  OBVIOUS
<1>2. /\ completed[d] \in Seq(Queues \X ReqIds) /\ completed[d] # <<>> /\ CompletedOk(d)
      /\ disp[d].tick \in Time /\ ClockOk(d)
  BY ThreadNow, ThreadFields DEF ThreadOk, ServedInv
<1>3. h \in Queues \X ReqIds /\ On(completed[d], h) /\ h[1] = q /\ h[2] = r
  BY <1>1, <1>2, TailOnce DEF CompletedOk
<1>4. /\ q \in Queues /\ r \in ReqIds /\ r # 0 /\ DOf(q) = d
      /\ dev[q].req[r].flight /\ dev[q].req[r].left = 0
  BY <1>2, <1>3 DEF CompletedOk
<1>5. PICK c : c = dev[q].req[r].cid
  OBVIOUS
<1>6. c \in Cids /\ dev[q].tag[c] = r
  <2>1. r \in 1 .. QSize
    BY <1>4, IoSizes DEF ReqIds
  <2>2. Requested(dev[q])
    BY <1>4, QueueNow DEF QueueOk
  <2> QED
    BY <1>4, <1>5, <2>1, <2>2 DEF Requested
<1>7. LeftOf(dev[q], c) = 0 /\ Pieces(q, c) = 0
  <2>1. LeftOf(dev[q], c) = 0
    BY <1>4, <1>6 DEF LeftOf
  <2>2. Pieces(q, c) <= LeftOf(dev[q], c)
    BY <1>4, <1>6 DEF IInv, PiecesOk
  <2> QED
    BY <2>1, <2>2, PiecesType
<1>8. PICK a, w : a = Answers(pq) /\ w = work[q][c]
  OBVIOUS
<1>9. Awaited(w, disp[d], dev[q], inQue, outQue, a, q, c)
  <2>1. Whole(q, c) /\ ServedOk(q, c)
    BY <1>4, <1>6, <1>7 DEF Whole, ServedInv
  <2> QED
    BY <1>4, <1>8, <2>1 DEF ServedOk
<1>10. /\ Count(inQue, InSize, q, c) = 0 /\ Count(outQue, OutSize, q, c) = 0
       /\ Count(a, 1, q, c) = 0
  BY <1>7, <1>8, PiecesType DEF Pieces
<1>11. w.left = {}
  <2>1. SUFFICES ASSUME NEW b \in w.left PROVE FALSE
    OBVIOUS
  <2>2. Unsent(disp[d], dev[q], q, c, b) \/ Sent(inQue, q, c, b)
    BY <1>9 DEF Awaited
  <2>3. PICK e \in Dispatchers, f \in FTLs, i \in 0 .. InSize - 1 :
          Matches(inQue[e][f][i], q, c)
    BY <2>2 DEF Unsent, Sent
  <2>4. Count(inQue, InSize, q, c) >= 1
    BY <2>3, CountedHeld, IoSizes
  <2> QED
    BY <1>10, <2>4
<1>12. w.due <= dev[q].req[r].end
  <2>1. Lasts(dev[q], outQue, a, q, c, w.due)
    BY <1>9 DEF Awaited
  <2>2. ASSUME NEW n \in Nat, NEW ring, Ends(ring, n, q, c, w.due)
        PROVE  Count(ring, n, q, c) >= 1
    <3>1. PICK e \in Dispatchers, f \in FTLs, i \in 0 .. n - 1 : Matches(ring[e][f][i], q, c)
      BY <2>2 DEF Ends
    <3> QED
      BY <3>1, CountedHeld
  <2>3. ~ Ends(outQue, OutSize, q, c, w.due) /\ ~ Ends(a, 1, q, c, w.due)
    BY <1>10, <2>2, IoSizes
  <2> QED
    BY <1>6, <2>1, <2>3 DEF Lasts
<1>13. disp[d].tick >= dev[q].req[r].end /\ disp[d].tick <= now
  BY <1>1, <1>2, <1>3 DEF ClockOk, IsDue, EndOf
<1>14. /\ dev[q].req[r].end \in Nat /\ disp[d].tick \in Nat /\ now \in Nat /\ w.due \in Nat
  <2>1. dev[q].req[r].end \in Time
    BY <1>4, QueueNow, RecordFacts
  <2>2. w.due \in Time /\ now \in Time
    BY <1>4, <1>6, <1>8 DEF IInv, TypeOK
  <2> QED
    BY <1>2, <2>1, <2>2, IoSizes DEF Time
<1>15. w.due <= now
  BY <1>12, <1>13, <1>14
<1> QED
  BY <1>4, <1>5, <1>6, <1>8, <1>11, <1>15

\* A step that writes a completion.
PostsServed ==
  \A q \in Queues : \A e \in Entries : cqMem'[q][e] # cqMem[q][e] =>
    work'[q][cqMem'[q][e].cid].left = {} /\ work'[q][cqMem'[q][e].cid].due <= now
\* Every step writes completions of served commands only.
LEMMA NextPostsServed == IInv /\ ServedInv /\ [Next]_vars => PostsServed
<1> SUFFICES ASSUME IInv, ServedInv, [Next]_vars PROVE PostsServed
  OBVIOUS
<1>1. ASSUME NEW d \in Dispatchers, HackIo(d) PROVE PostsServed
  <2>1. PICK q, e, c : q = disp[d].q /\ e = disp[d].entry /\ c = sqMem[q][e].cid
    OBVIOUS
  <2>2. /\ disp[d].pc = "hack" /\ Post(q, c)
        /\ work' = [work EXCEPT ![q][c] = [left |-> {}, due |-> now]]
    BY <1>1, <2>1 DEF HackIo, At
  <2>3. q \in Queues /\ c \in Cids
    <3>1. disp[d].pc \in {"io", "hack"}
      BY <2>2
    <3> QED
      BY <2>1, <3>1, EntryThere
  <2>4. PICK w : w = work'[q][c]
    OBVIOUS
  <2>5. w.left = {} /\ w.due = now
    BY <2>2, <2>3, <2>4 DEF IInv, TypeOK
  <2>6. now <= now
    BY IoSizes DEF IInv, TypeOK, Time
  <2> QED
    BY <2>2, <2>3, <2>4, <2>5, <2>6, OnePosted DEF PostsServed
<1>2. ASSUME NEW d \in Dispatchers, FillCq(d) PROVE PostsServed
  <2>1. PICK q, r, c : /\ q = Head(completed[d])[1] /\ r = Head(completed[d])[2]
                       /\ c = dev[q].req[r].cid
    OBVIOUS
  <2>2. disp[d].pc = "fill" /\ Post(q, c) /\ work' = work
    BY <1>2, <2>1 DEF FillCq, At
  <2>3. q \in Queues /\ work[q][c].left = {} /\ work[q][c].due <= now
    BY <2>1, <2>2, DueIsServed
  <2>4. PICK w : w = work'[q][c]
    OBVIOUS
  <2>5. w.left = {} /\ w.due <= now
    BY <2>2, <2>3, <2>4
  <2> QED
    BY <2>2, <2>3, <2>4, <2>5, OnePosted DEF PostsServed
<1>3. CASE UNCHANGED cqMem
  BY <1>3 DEF PostsServed
<1>4. CASE \E q \in Queues : Host(q)
  BY <1>3, <1>4 DEF Host, Submit, Reap, RingCq
<1>5. ASSUME NEW d \in Dispatchers, Dispatcher(d) PROVE PostsServed
  BY <1>1, <1>2, <1>3, <1>5 DEF Dispatcher, ProcSq, ReadHack, StartIo, EnqueuePiece, ProcCq,
     Dequeue, RaiseIrq
<1>6. CASE \E f \in FTLs : FTL(f)
  BY <1>3, <1>6 DEF FTL, CheckReq, CheckResp
<1>7. CASE Tick \/ UNCHANGED vars
  BY <1>3, <1>7 DEF Tick, vars
<1> QED
  BY <1>4, <1>5, <1>6, <1>7 DEF Next

\* However the pieces of a command are spread over the FTL threads, and in
\* whatever order their answers come back, its completion is posted only after
\* every block has been served and the latest of the services has ended, as long
\* as no ring is overrun: a slot that is overwritten while the FTL thread still
\* reads it is more than one step of CheckReq.
THEOREM ServedFirst == Spec /\ []NoOverrun => ServedBeforePosted
<1>1. Init => ServedInv
  <2> SUFFICES ASSUME Init PROVE ServedInv
    OBVIOUS
  <2>1. /\ \A q \in Queues : /\ dev[q].oldSq = 0 /\ host[q].sqTail = 0
                             /\ \A c \in Cids : dev[q].tag[c] = 0
        /\ \A d \in Dispatchers : disp[d].pc = "sq" /\ disp[d].tick = 0
        /\ now = 0
    BY DEF Init
  <2>2. 0 \in Entries /\ 0 <= 0
    BY IoSizes DEF Entries
  <2>3. ASSUME NEW q \in Queues PROVE Fresh(sqMem[q], work[q], Cursor(q), host[q].sqTail)
    <3>1. Cursor(q) = 0
      BY <2>1, QueueNumbers DEF Cursor, CursorOf, Batch
    <3>2. \A e \in Entries : ~ Inside(0, 0, e)
      BY <2>2, DistanceFacts
    <3> QED
      BY <2>1, <3>1, <3>2 DEF Fresh
  <2>4. ASSUME NEW q \in Queues, NEW c \in Cids PROVE ServedOk(q, c)
    BY <2>1 DEF ServedOk, Whole
  <2>5. ASSUME NEW d \in Dispatchers PROVE ClockOk(d)
    BY <2>1, <2>2 DEF ClockOk
  <2> QED
    BY <2>3, <2>4, <2>5 DEF ServedInv
<1>2. PostsServed => \A q \in Queues : \A e \in Entries : cqMem'[q][e] # cqMem[q][e] =>
                 LET w == work'[q][cqMem'[q][e].cid] IN w.left = {} /\ w.due <= now
  BY DEF PostsServed
<1> QED
  BY <1>1, <1>2, NextPostsServed, NextServed, Invariance, PTL DEF Spec, ServedBeforePosted

-----------------------------------------------------------------------------
(* The pieces of a command are accounted for.                              *)

\* A step that leaves the rings, the tags and the requests alone.
LEMMA ExactQuiet ==
  ASSUME Exact, UNCHANGED <<inQue, outQue, pq>>,
         \A p \in Queues : dev'[p].tag = dev[p].tag /\ dev'[p].req = dev[p].req
  PROVE  Exact'
<1> SUFFICES ASSUME NEW p \in Queues, NEW c \in Cids PROVE Pieces(p, c)' = LeftOf(dev'[p], c)
  BY DEF Exact
<1>1. Pieces(p, c)' = Pieces(p, c)
  BY DEF Pieces
<1>2. LeftOf(dev'[p], c) = LeftOf(dev[p], c)
  BY DEF LeftOf
<1> QED
  BY <1>1, <1>2 DEF Exact

\* As long as no slot that is still full is overwritten, every step keeps the
\* count of a request equal to the number of its pieces on the way.
LEMMA NextExact == IInv /\ NoOverrun /\ Exact /\ [Next]_vars => Exact'
<1> SUFFICES ASSUME IInv, NoOverrun, Exact, [Next]_vars PROVE Exact'
  OBVIOUS
<1>1. CASE UNCHANGED <<dev, inQue, outQue, pq>>
  BY <1>1, ExactQuiet
<1>2. ASSUME NEW q \in Queues, Host(q) PROVE Exact'
  BY <1>1, <1>2 DEF Host, Submit, Reap, RingCq, ringIn, ringOut
<1>3. ASSUME NEW d \in Dispatchers, ProcCq(d) PROVE Exact'
  <2>1. PICK q : q = disp[d].q
    OBVIOUS
  <2>2. PICK m : m = dev[q].inFlight - Distance(dev[q].oldCq, cqDb[q])
    OBVIOUS
  <2>3. /\ dev' = [dev EXCEPT ![q].inFlight = m, ![q].oldCq = cqDb[q]]
        /\ UNCHANGED <<inQue, outQue, pq>>
    BY <1>3, <2>1, <2>2 DEF ProcCq, ringIn, ringOut
  <2>4. \A p \in Queues : dev'[p].tag = dev[p].tag /\ dev'[p].req = dev[p].req
    <3>1. dev \in [Queues -> Device]
      BY DEF IInv, TypeOK
    <3> QED
      BY <2>3, <3>1 DEF Device
  <2> QED
    BY <2>3, <2>4, ExactQuiet
<1>4. ASSUME NEW d \in Dispatchers, RaiseIrq(d) PROVE Exact'
  <2>1. PICK mine : mine = {q \in Queues : (q - 1) % NrDispatcher = d /\ dev[q].ready}
    OBVIOUS
  <2>2. /\ dev' = [q \in Queues |-> IF q \in mine THEN [dev[q] EXCEPT !.ready = FALSE]
                                                  ELSE dev[q]]
        /\ UNCHANGED <<inQue, outQue, pq>>
    BY <1>4, <2>1 DEF RaiseIrq, ringIn, ringOut
  <2>3. \A p \in Queues : dev'[p].tag = dev[p].tag /\ dev'[p].req = dev[p].req
    <3>1. dev \in [Queues -> Device]
      BY DEF IInv, TypeOK
    <3> QED
      BY <2>2, <3>1 DEF Device
  <2> QED
    BY <2>2, <2>3, ExactQuiet
<1>5. ASSUME NEW d \in Dispatchers, Dequeue(d) PROVE Exact'
  <2>1. CASE outQue[d][disp[d].f][outHead[d][disp[d].f]] = Empty
    BY <1>1, <1>5, <2>1 DEF Dequeue, ringIn
  <2>2. CASE outQue[d][disp[d].f][outHead[d][disp[d].f]] # Empty
    BY <1>5, <2>2, AnswerKeeps
  <2> QED
    BY <2>1, <2>2
<1>6. ASSUME NEW d \in Dispatchers, ProcSq(d) \/ ReadHack(d) PROVE Exact'
  BY <1>1, <1>6 DEF ProcSq, ReadHack, ringIn, ringOut
<1>7. ASSUME NEW d \in Dispatchers, Dispatcher(d) PROVE Exact'
  BY <1>3, <1>4, <1>5, <1>6, <1>7, HackIoKeeps, StartIoKeeps, EnqueuePieceKeeps,
     FillCqKeeps DEF Dispatcher
<1>8. ASSUME NEW f \in FTLs, FTL(f) PROVE Exact'
  BY <1>8, CheckReqKeeps, CheckRespKeeps DEF FTL
<1>9. CASE Tick \/ UNCHANGED vars
  BY <1>1, <1>9 DEF Tick, vars, ringIn, ringOut
<1> QED
  BY <1>2, <1>7, <1>8, <1>9 DEF Next

\* The pieces of a command that the invariant counts are those of PiecesOf.
LEMMA PiecesCounted ==
  ASSUME IInv, NEW q \in Queues, NEW c \in Cids
  PROVE  PiecesOf(q, c) = Pieces(q, c)
<1> DEFINE owed == UNION {{<<d, f, i>> : i \in DOMAIN pq[f][d]} : d \in Dispatchers, f \in FTLs}
           A == {x \in owed : pq[x[2]][x[1]][x[3]].q = q /\ pq[x[2]][x[1]][x[3]].cid = c}
           B == Cells(Answers(pq), 1, q, c)
           In1 == {x \in Dispatchers \X FTLs \X (0 .. InSize - 1) :
                     inQue[x[1]][x[2]][x[3]].q = q /\ inQue[x[1]][x[2]][x[3]].cid = c}
           Out1 == {x \in Dispatchers \X FTLs \X (0 .. OutSize - 1) :
                      outQue[x[1]][x[2]][x[3]].q = q /\ outQue[x[1]][x[2]][x[3]].cid = c}
<1>1. In1 = Cells(inQue, InSize, q, c) /\ Out1 = Cells(outQue, OutSize, q, c)
  BY DEF Cells, Matches
<1>2. \A f \in FTLs : \A d \in Dispatchers : pq[f][d] \in Seq(Answer) /\ Len(pq[f][d]) <= 1
  BY DEF IInv, TypeOK, FtlOk
<1>3. \A f \in FTLs : \A d \in Dispatchers :
        /\ \A i \in DOMAIN pq[f][d] : i = 1
        /\ pq[f][d] # <<>> => 1 \in DOMAIN pq[f][d] /\ Head(pq[f][d]) = pq[f][d][1]
        /\ 1 \in DOMAIN pq[f][d] => pq[f][d] # <<>>
  BY <1>2
<1>4. ASSUME NEW d \in Dispatchers, NEW f \in FTLs
      PROVE  <<d, f, 0>> \in B <=>
               pq[f][d] # <<>> /\ pq[f][d][1].q = q /\ pq[f][d][1].cid = c
  <2>1. Answers(pq)[d][f][0] = IF pq[f][d] = <<>> THEN Empty ELSE Head(pq[f][d])
    BY DEF Answers
  <2>2. <<d, f, 0>> \in B <=> Matches(Answers(pq)[d][f][0], q, c)
    BY DEF Cells
  <2>3. ~ Matches(Empty, q, c)
    BY QueueNumbers DEF Matches, Empty
  <2> QED
    BY <1>3, <2>1, <2>2, <2>3 DEF Matches
<1>5. ASSUME NEW d \in Dispatchers, NEW f \in FTLs, NEW i
      PROVE  <<d, f, i>> \in A <=>
               i = 1 /\ pq[f][d] # <<>> /\ pq[f][d][1].q = q /\ pq[f][d][1].cid = c
  <2>1. <<d, f, i>> \in owed <=> i \in DOMAIN pq[f][d]
    <3>1. ASSUME <<d, f, i>> \in owed PROVE i \in DOMAIN pq[f][d]
      <4>1. PICK d2 \in Dispatchers, f2 \in FTLs : \E i2 \in DOMAIN pq[f2][d2] :
              <<d, f, i>> = <<d2, f2, i2>>
        BY <3>1
      <4> QED
        BY <4>1
    <3>2. ASSUME i \in DOMAIN pq[f][d] PROVE <<d, f, i>> \in owed
      <4>1. PICK t : t = {<<d, f, j>> : j \in DOMAIN pq[f][d]}
        OBVIOUS
      <4>2. <<d, f, i>> \in t
        BY <3>2, <4>1
      <4> DEFINE u == {{<<d2, f2, j>> : j \in DOMAIN pq[f2][d2]} :
                         d2 \in Dispatchers, f2 \in FTLs}
      <4>3. t \in u
        BY <4>1
      <4>4. owed = UNION u
        OBVIOUS
      <4> HIDE DEF owed, u
      <4> QED
        BY <4>2, <4>3, <4>4
    <3> QED
      BY <3>1, <3>2
  <2> HIDE DEF owed
  <2>2. <<d, f, i>> \in A <=>
          <<d, f, i>> \in owed /\ pq[f][d][i].q = q /\ pq[f][d][i].cid = c
    OBVIOUS
  <2> QED
    BY <1>3, <2>1, <2>2
<1>6. A \subseteq Dispatchers \X FTLs \X {1}
  <2>1. ASSUME NEW x \in owed PROVE x \in Dispatchers \X FTLs \X {1}
    <3>1. PICK d \in Dispatchers, f \in FTLs : \E i \in DOMAIN pq[f][d] : x = <<d, f, i>>
      OBVIOUS
    <3> QED
      BY <1>3, <3>1
  <2> HIDE DEF owed
  <2> QED
    BY <2>1
<1>7. B \subseteq Dispatchers \X FTLs \X {0}
  <2>1. 0 .. 1 - 1 = {0}
    OBVIOUS
  <2> QED
    BY <2>1 DEF Cells
<1> HIDE DEF A, B, owed
<1>8. IsFiniteSet(B)
  <2>1. B \subseteq Slots3(1)
    BY DEF B, Cells, Slots3
  <2> QED
    BY <2>1, SlotsFinite, FS_Subset
<1> DEFINE g == [x \in B |-> <<x[1], x[2], 1>>]
<1>9. g \in Bijection(B, A)
  <2>1. ASSUME NEW x \in B PROVE g[x] \in A
    <3>1. PICK d \in Dispatchers, f \in FTLs : x = <<d, f, 0>>
      BY <1>7
    <3>2. <<d, f, 1>> \in A
      BY <1>4, <1>5, <3>1
    <3> QED
      BY <3>1, <3>2
  <2>2. ASSUME NEW x \in B, NEW y \in B, g[x] = g[y] PROVE x = y
    <3>1. PICK d \in Dispatchers, f \in FTLs : x = <<d, f, 0>>
      BY <1>7
    <3>2. PICK d2 \in Dispatchers, f2 \in FTLs : y = <<d2, f2, 0>>
      BY <1>7
    <3> QED
      BY <2>2, <3>1, <3>2
  <2>3. ASSUME NEW y \in A PROVE \E x \in B : g[x] = y
    <3>1. PICK d \in Dispatchers, f \in FTLs : y = <<d, f, 1>>
      BY <1>6
    <3>2. <<d, f, 0>> \in B
      BY <1>4, <1>5, <3>1
    <3>3. g[<<d, f, 0>>] = y
      BY <3>1, <3>2
    <3> QED
      BY <3>2, <3>3
  <2> QED
    BY <2>1, <2>2, <2>3 DEF Bijection, Injection, Surjection, IsInjective
<1> HIDE DEF g
<1>10. Cardinality(A) = Cardinality(B)
  BY <1>8, <1>9, FS_Bijection DEF ExistsBijection
<1>11. PiecesOf(q, c) = Cardinality(In1) + Cardinality(Out1) + Cardinality(A)
  BY DEF PiecesOf, A, owed
<1> HIDE DEF In1, Out1
<1> QED
  BY <1>1, <1>10, <1>11 DEF Pieces, Count, B

\* remaining_req, of a request in flight, is the number of its pieces that are
\* in a ring or with an FTL thread, as long as no ring is overrun: the
\* assertion of __enqueue_io_req_to_ftl, which is what the run io_overrun
\* refutes, is all that it takes.
THEOREM PiecesCountedExactly == Spec /\ []NoOverrun => []PiecesAccounted
<1>1. Init => Exact
  <2> SUFFICES ASSUME Init, NEW q \in Queues, NEW c \in Cids
               PROVE  Pieces(q, c) = LeftOf(dev[q], c)
    BY DEF Exact
  <2>1. IInv
    BY InitIInv
  <2>2. Pieces(q, c) <= LeftOf(dev[q], c) /\ Pieces(q, c) \in Nat
    BY <2>1, PiecesType DEF IInv, PiecesOk
  <2>3. dev[q].tag[c] = 0
    BY DEF Init
  <2>4. LeftOf(dev[q], c) = 0
    BY <2>3 DEF LeftOf
  <2> QED
    BY <2>2, <2>4
<1>2. IInv /\ Exact => PiecesAccounted
  <2> SUFFICES ASSUME IInv, Exact, NEW q \in Queues, NEW r \in 1 .. QSize, dev[q].req[r].flight
               PROVE  dev[q].req[r].left = PiecesOf(q, dev[q].req[r].cid)
    BY DEF PiecesAccounted, IInv
  <2>1. PICK c : c = dev[q].req[r].cid
    OBVIOUS
  <2>2. Requested(dev[q])
    BY QueueNow DEF QueueOk
  <2>3. c \in Cids /\ dev[q].tag[c] = r /\ r # 0
    BY <2>1, <2>2 DEF Requested
  <2>4. LeftOf(dev[q], c) = dev[q].req[r].left
    BY <2>3 DEF LeftOf
  <2>5. Pieces(q, c) = LeftOf(dev[q], c)
    BY <2>3 DEF Exact
  <2> QED
    BY <2>1, <2>3, <2>4, <2>5, PiecesCounted
<1> QED
  BY <1>1, <1>2, NextExact, Invariance, PTL DEF Spec

-----------------------------------------------------------------------------
(* Blocks go to the FTL thread that holds them.                            *)

\* The segments of both FTL threads repeat after a period.  A command is split
\* along them if it starts where a segment does, or lies in one segment.
Period == Units * (1 + Ratio)
Place(a) == a % Period
Fits(a, n) ==
  \/ NrFTL = 1
  \/ Place(a) \in {0, Units}
  \/ Place(a) + n <= IF Place(a) < Units THEN Units ELSE Period

\* Pieces, and a dispatcher that splits a command, are where they belong.
Belongs(p, f) == p # Empty => \A b \in p.slpa .. p.slpa + p.nlb - 1 : Owner(b) = f
Heads(s) == s.pc = "split" => s.f = FirstFTL(s.slpa) /\ Fits(s.slpa, s.nlb)
RouteInv ==
  /\ \A q \in Queues : \A e \in Entries : Fits(sqMem[q][e].slba, sqMem[q][e].nlb)
  /\ \A d \in Dispatchers : Heads(disp[d])
  /\ \A d \in Dispatchers : \A f \in FTLs : \A i \in 0 .. InSize - 1 : Belongs(inQue[d][f][i], f)

\* Whose block stands at place o of a period: the first Units are FTL thread 0's.
LEMMA OwnerAt ==
  ASSUME NEW k \in Nat, NEW o \in 0 .. Period - 1, NEW b, b = Period * k + o
  PROVE  /\ b \in Nat /\ Place(b) = o
         /\ Owner(b) = IF NrFTL = 2 /\ o >= Units THEN 1 ELSE 0
         /\ FirstFTL(b) = Owner(b)
<1>1. PICK n : n = 1 + Ratio
  OBVIOUS
<1>2. n \in Nat \ {0} /\ Units \in Nat \ {0} /\ NrFTL \in {1, 2}
  BY <1>1, IoSizes, IoPathAssumption
<1>3. PICK P : P = Units * n
  OBVIOUS
<1>4. P = Period /\ P \in Nat \ {0}
  <2>1. \A x, y \in Nat \ {0} : x * y \in Nat \ {0}
    OBVIOUS
  <2> QED
    BY <1>1, <1>2, <1>3, <2>1 DEF Period
<1>5. o \in Nat /\ o < P
  BY <1>4
<1>6. PICK u, w : u = o \div Units /\ w = o % Units
  OBVIOUS
<1>7. u \in Nat /\ w \in 0 .. Units - 1 /\ o = Units * u + w
  BY <1>2, <1>5, <1>6, Quotient
<1>8. u < n
  <2> SUFFICES ASSUME ~ (u < n) PROVE FALSE
    OBVIOUS
  <2>1. PICK m \in Nat : u = n + m
    <3>1. u - n \in Nat /\ u = n + (u - n)
      BY <1>2, <1>7
    <3> QED
      BY <3>1
  <2>2. Units * u = Units * n + Units * m /\ Units * m \in Nat
    BY <1>2, <2>1
  <2> QED
    BY <1>3, <1>4, <1>5, <1>7, <2>2
<1>9. u = 0 <=> o < Units
  <2>1. u >= 1 => Units * u >= Units
    BY <1>2, <1>7
  <2>2. u = 0 => Units * u = 0
    BY <1>2
  <2> QED
    BY <1>2, <1>7, <2>1, <2>2
<1>10. P * k \in Nat /\ P * k = Units * (n * k)
  <2>1. \A x, y, z \in Nat : (x * y) * z = x * (y * z) /\ (x * y) * z \in Nat
    OBVIOUS
  <2> QED
    BY <1>2, <1>3, <2>1
<1>11. b \in Nat /\ b % P = o
  <2>1. b = P * k + o /\ b \in Nat /\ o \in 0 .. P - 1
    BY <1>4, <1>5, <1>10
  <2> QED
    BY <1>4, <2>1, OneQuotient
<1>12. PICK nk : nk = n * k
  OBVIOUS
<1>13. nk \in Nat
  BY <1>2, <1>12
<1>14. b = Units * (nk + u) + w
  <2>1. Units * (nk + u) = Units * nk + Units * u
    BY <1>2, <1>7, <1>13
  <2>2. b = Units * nk + o
    BY <1>4, <1>10, <1>12
  <2>3. Units * nk \in Nat /\ Units * u \in Nat
    BY <1>2, <1>7, <1>13
  <2> QED
    BY <1>7, <2>1, <2>2, <2>3
<1>15. b \div Units = nk + u
  <2>1. nk + u \in Nat
    BY <1>7, <1>13
  <2> QED
    BY <1>2, <1>7, <1>11, <1>14, <2>1, OneQuotient
<1>16. (nk + u) % n = u
  <2>1. nk + u \in Nat /\ u \in 0 .. n - 1 /\ nk + u = n * k + u
    BY <1>2, <1>7, <1>8, <1>12, <1>13
  <2> QED
    BY <1>2, <2>1, OneQuotient
<1>17. (b \div Units) % (1 + Ratio) = u
  BY <1>1, <1>15, <1>16
<1>18. Owner(b) = IF NrFTL = 2 /\ o >= Units THEN 1 ELSE 0
  BY <1>2, <1>5, <1>7, <1>9, <1>17 DEF Owner
<1>19. FirstFTL(b) = Owner(b)
  BY <1>2, <1>7, <1>17 DEF FirstFTL, Owner
<1> QED
  BY <1>4, <1>11, <1>18, <1>19 DEF Place

\* The next piece of a command that is split along the segments goes to the
\* owner of its blocks, and so will the rest.
LEMMA PieceFits ==
  ASSUME NEW a \in Nat, NEW n \in Nat \ {0}, Fits(a, n), NEW f, f = FirstFTL(a),
         NEW m, m = IF n <= SegUnits(f) THEN n ELSE SegUnits(f)
  PROVE  /\ \A b \in a .. a + m - 1 : Owner(b) = f
         /\ m # n => FirstFTL(a + m) = Succ(f, NrFTL) /\ Fits(a + m, n - m)
<1>1. PICK P, ru : P = Period /\ ru = Ratio * Units
  OBVIOUS
<1>2. /\ Units \in Nat \ {0} /\ ru \in Nat \ {0} /\ P = Units + ru /\ P \in Nat \ {0}
      /\ NrFTL \in {1, 2}
  <2>1. \A x, y \in Nat \ {0} : x * y \in Nat \ {0} /\ x * (1 + y) = x + y * x
    OBVIOUS
  <2> QED
    BY <1>1, <2>1, IoSizes, IoPathAssumption DEF Period
<1>3. PICK k, o : k = a \div P /\ o = a % P
  OBVIOUS
<1>4. k \in Nat /\ o \in 0 .. P - 1 /\ a = P * k + o
  BY <1>2, <1>3, Quotient
<1>5. PICK z : z = P * k
  OBVIOUS
<1>6. z \in Nat /\ P * (k + 1) = z + P
  BY <1>2, <1>4, <1>5
<1>7. /\ \A x \in 0 .. P - 1 : /\ Owner(z + x) = IF NrFTL = 2 /\ x >= Units THEN 1 ELSE 0
                               /\ FirstFTL(z + x) = Owner(z + x) /\ Place(z + x) = x
      /\ FirstFTL(z + P) = 0 /\ Place(z + P) = 0
  <2>1. ASSUME NEW x \in 0 .. P - 1
        PROVE  /\ Owner(z + x) = IF NrFTL = 2 /\ x >= Units THEN 1 ELSE 0
               /\ FirstFTL(z + x) = Owner(z + x) /\ Place(z + x) = x
    BY <1>1, <1>4, <1>5, OwnerAt
  <2>2. PICK zp, k2 : zp = z + P /\ k2 = k + 1
    OBVIOUS
  <2>3. zp = Period * k2 + 0 /\ k2 \in Nat /\ 0 \in 0 .. Period - 1
    BY <1>1, <1>2, <1>4, <1>6, <2>2
  <2>4. /\ Place(zp) = 0 /\ FirstFTL(zp) = Owner(zp)
        /\ Owner(zp) = IF NrFTL = 2 /\ 0 >= Units THEN 1 ELSE 0
    BY <2>3, OwnerAt
  <2> QED
    BY <1>2, <2>1, <2>2, <2>4
<1>8. f = IF NrFTL = 2 /\ o >= Units THEN 1 ELSE 0
  BY <1>4, <1>5, <1>7
<1>9. SegUnits(f) = IF f = 0 THEN Units ELSE ru
  BY <1>1 DEF SegUnits
<1>10. m \in Nat \ {0} /\ m <= n
  BY <1>2, <1>9
<1>11. CASE NrFTL = 1
  <2>1. \A b \in Nat : Owner(b) = 0 /\ FirstFTL(b) = 0
    BY <1>11 DEF Owner, FirstFTL
  <2>2. Succ(f, NrFTL) = 0 /\ f = 0
    BY <1>8, <1>11 DEF Succ
  <2>3. a + m \in Nat /\ \A b \in a .. a + m - 1 : b \in Nat
    BY <1>10
  <2> QED
    BY <1>11, <2>1, <2>2, <2>3 DEF Fits
<1>12. CASE NrFTL = 2
  <2>1. o \in {0, Units} \/ o + n <= IF o < Units THEN Units ELSE P
    BY <1>1, <1>3, <1>12 DEF Fits, Place
  <2>2. /\ o < Units => o + m <= Units
        /\ o >= Units => o + m <= P
    BY <1>2, <1>4, <1>8, <1>9, <1>10, <1>12, <2>1
  <2>3. ASSUME NEW b \in a .. a + m - 1 PROVE Owner(b) = f
    <3>1. b - z \in 0 .. P - 1 /\ b = z + (b - z) /\ (b - z >= Units <=> o >= Units)
      BY <1>2, <1>4, <1>5, <1>6, <1>10, <2>2
    <3>2. Owner(z + (b - z)) = IF NrFTL = 2 /\ b - z >= Units THEN 1 ELSE 0
      BY <1>7, <3>1
    <3>3. Owner(b) = IF NrFTL = 2 /\ b - z >= Units THEN 1 ELSE 0
      BY <3>1, <3>2
    <3> QED
      BY <1>8, <1>12, <3>1, <3>3
  <2>4. ASSUME m # n PROVE FirstFTL(a + m) = Succ(f, NrFTL) /\ Fits(a + m, n - m)
    <3>1. m = SegUnits(f) /\ m < n
      BY <1>10, <2>4
    <3>2. CASE o < Units
      <4>1. o = 0 /\ m = Units /\ f = 0
        BY <1>2, <1>4, <1>8, <1>9, <1>10, <2>1, <3>1, <3>2
      <4>2. a + m = z + Units /\ Units \in 0 .. P - 1 /\ Units >= Units
        BY <1>2, <1>4, <1>5, <1>6, <4>1
      <4>3. FirstFTL(a + m) = 1 /\ Place(a + m) = Units
        BY <1>7, <1>12, <4>2
      <4> QED
        BY <1>12, <4>1, <4>3 DEF Succ, Fits
    <3>3. CASE o >= Units
      <4>1. o = Units /\ m = ru /\ f = 1
        BY <1>2, <1>4, <1>8, <1>9, <1>10, <1>12, <2>1, <3>1, <3>3
      <4>2. a + m = z + P
        BY <1>2, <1>4, <1>5, <1>6, <4>1
      <4>3. FirstFTL(a + m) = 0 /\ Place(a + m) = 0
        BY <1>7, <4>2
      <4> QED
        BY <1>12, <4>1, <4>3 DEF Succ, Fits
    <3> QED
      BY <1>2, <1>4, <3>2, <3>3
  <2> QED
    BY <2>3, <2>4
<1> QED
  BY <1>2, <1>11, <1>12

\* Every command the host sends is split along the segments.
RequestsFit == \A rq \in Requests : Fits(rq[1], rq[2])

\* A step that writes no command and no piece, and after which only those split
\* a command that did before.
LEMMA RouteQuiet ==
  ASSUME RouteInv, UNCHANGED sqMem,
         \A d \in Dispatchers : disp'[d].pc = "split" => disp'[d] = disp[d],
         \A d \in Dispatchers : \A f \in FTLs : \A i \in 0 .. InSize - 1 :
           inQue'[d][f][i] \in {inQue[d][f][i], Empty}
  PROVE  RouteInv'
<1>1. ASSUME NEW d \in Dispatchers PROVE Heads(disp[d])'
  BY DEF RouteInv, Heads
<1>2. ASSUME NEW d \in Dispatchers, NEW f \in FTLs, NEW i \in 0 .. InSize - 1
      PROVE  Belongs(inQue[d][f][i], f)'
  <2>1. inQue'[d][f][i] = inQue[d][f][i] \/ inQue'[d][f][i] = Empty
    OBVIOUS
  <2>2. Belongs(inQue[d][f][i], f)
    BY DEF RouteInv
  <2> QED
    BY <2>1, <2>2 DEF Belongs
<1> QED
  BY <1>1, <1>2 DEF RouteInv

\* The host writes a command.
LEMMA RouteSubmit ==
  ASSUME IInv, RouteInv, RequestsFit, NEW q \in Queues, Submit(q)
  PROVE  RouteInv'
<1>1. PICK t : t = host[q].sqTail
  OBVIOUS
<1>2. PICK rq \in Requests, c \in Cids :
        sqMem' = [sqMem EXCEPT ![q][t] = [cid |-> c, slba |-> rq[1], nlb |-> rq[2]]]
  BY <1>1 DEF Submit
<1>3. UNCHANGED <<disp, inQue>>
  BY DEF Submit, ringIn
<1>4. sqMem \in [Queues -> [Entries -> [cid : Cids \cup {0}, slba : Nat, nlb : Nat]]]
  BY DEF IInv, TypeOK
<1>5. ASSUME NEW p \in Queues, NEW e \in Entries
      PROVE  Fits(sqMem'[p][e].slba, sqMem'[p][e].nlb)
  <2>1. CASE p = q /\ e = t
    <3>1. sqMem'[p][e] = [cid |-> c, slba |-> rq[1], nlb |-> rq[2]]
      BY <1>2, <1>4, <2>1
    <3> QED
      BY <3>1 DEF RequestsFit
  <2>2. CASE ~ (p = q /\ e = t)
    <3>1. sqMem'[p][e] = sqMem[p][e]
      BY <1>2, <1>4, <2>2
    <3> QED
      BY <3>1 DEF RouteInv
  <2> QED
    BY <2>1, <2>2
<1>6. \A d \in Dispatchers : Heads(disp[d])'
  BY <1>3 DEF RouteInv, Heads
<1>7. \A d \in Dispatchers : \A f \in FTLs : \A i \in 0 .. InSize - 1 :
        Belongs(inQue[d][f][i], f)'
  BY <1>3 DEF RouteInv, Belongs
<1> QED
  BY <1>5, <1>6, <1>7 DEF RouteInv

\* A dispatcher starts to split a command.
LEMMA RouteStart ==
  ASSUME IInv, RouteInv, NEW d \in Dispatchers, StartIo(d)
  PROVE  RouteInv'
<1>1. PICK q, e : q = disp[d].q /\ e = disp[d].entry
  OBVIOUS
<1>2. PICK r, a, n : r = Head(dev[q].free) /\ a = sqMem[q][e].slba /\ n = sqMem[q][e].nlb
  OBVIOUS
<1>3. /\ disp[d].pc = "io" /\ UNCHANGED <<sqMem, inQue>>
      /\ disp' = [disp EXCEPT ![d].pc = "split", ![d].slpa = a, ![d].nlb = n,
                              ![d].req = r, ![d].f = FirstFTL(a)]
  BY <1>1, <1>2 DEF StartIo, At, hostVars, ringIn
<1>4. q \in Queues /\ e \in Entries
  <2>1. disp[d].pc \in {"io", "hack"}
    BY <1>3
  <2> QED
    BY <1>1, <2>1, EntryThere
<1>5. /\ disp'[d].f = FirstFTL(a) /\ disp'[d].slpa = a /\ disp'[d].nlb = n
      /\ \A b \in Dispatchers : b # d => disp'[b] = disp[b]
  <2>1. disp \in [Dispatchers -> Thread]
    BY DEF IInv, TypeOK
  <2> QED
    BY <1>3, <2>1 DEF Thread
<1>6. Fits(a, n)
  BY <1>2, <1>4 DEF RouteInv
<1>7. ASSUME NEW b \in Dispatchers PROVE Heads(disp[b])'
  BY <1>5, <1>6 DEF RouteInv, Heads
<1> QED
  BY <1>3, <1>7 DEF RouteInv, Belongs

\* A dispatcher sends a piece.
LEMMA RouteEnqueue ==
  ASSUME IInv, RouteInv, NEW d \in Dispatchers, EnqueuePiece(d)
  PROVE  RouteInv'
<1>1. PICK x, f, i : x = disp[d] /\ f = x.f /\ i = inTail[d][f]
  OBVIOUS
<1>2. PICK n : n = IF x.nlb <= SegUnits(f) THEN x.nlb ELSE SegUnits(f)
  OBVIOUS
<1>3. PICK p : p = [q |-> x.q, cid |-> dev[x.q].req[x.req].cid, slpa |-> x.slpa,
                    nlb |-> n, nsecs |-> dev[x.q].req[x.req].start]
  OBVIOUS
<1>4. /\ x.pc = "split" /\ UNCHANGED sqMem
      /\ inQue' = [inQue EXCEPT ![d][f][i] = p]
      /\ \/ n = x.nlb /\ disp' = [disp EXCEPT ![d] = AfterEntry(d)]
         \/ /\ n # x.nlb
            /\ disp' = [disp EXCEPT ![d].slpa = @ + n, ![d].nlb = @ - n, ![d].f = Succ(@, NrFTL)]
  BY <1>1, <1>2, <1>3 DEF EnqueuePiece, At, hostVars
<1>5. /\ x \in Thread /\ f \in FTLs /\ x.nlb \in Nat \ {0} /\ x.slpa \in Nat
      /\ i \in 0 .. InSize - 1
  <2>1. x \in Thread /\ f \in FTLs /\ x.nlb \in Nat \ {0} /\ x.slpa \in Nat
    BY <1>1, <1>4, ThreadNow, ThreadFields DEF ThreadOk
  <2> QED
    BY <1>1, <2>1, ThreadNow
<1>6. f = FirstFTL(x.slpa) /\ Fits(x.slpa, x.nlb)
  BY <1>1, <1>4 DEF RouteInv, Heads
<1>7. /\ \A b \in x.slpa .. x.slpa + n - 1 : Owner(b) = f
      /\ n # x.nlb => FirstFTL(x.slpa + n) = Succ(f, NrFTL) /\ Fits(x.slpa + n, x.nlb - n)
  BY <1>2, <1>5, <1>6, PieceFits
<1>8. Belongs(p, f)
  <2>1. p.slpa = x.slpa /\ p.nlb = n
    BY <1>3
  <2> QED
    BY <1>7, <2>1 DEF Belongs
<1>9. ASSUME NEW a \in Dispatchers, NEW g \in FTLs, NEW j \in 0 .. InSize - 1
      PROVE  Belongs(inQue[a][g][j], g)'
  <2>1. inQue \in [Dispatchers -> [FTLs -> [0 .. InSize - 1 -> Piece \cup {Empty}]]]
    BY DEF IInv, TypeOK
  <2>0. inQue' = [inQue EXCEPT ![d][f][i] = p] /\ f \in FTLs /\ i \in 0 .. InSize - 1
    BY <1>4, <1>5
  <2>2. CASE a = d /\ g = f /\ j = i
    <3>1. inQue'[d][f][i] = p
      BY <2>0, <2>1
    <3>2. inQue'[a][g][j] = p
      BY <2>2, <3>1
    <3> QED
      BY <1>8, <2>2, <3>2 DEF Belongs
  <2>3. CASE ~ (a = d /\ g = f /\ j = i)
    <3>1. inQue'[a][g][j] = inQue[a][g][j]
      BY <2>0, <2>1, <2>3
    <3>2. Belongs(inQue[a][g][j], g)
      BY DEF RouteInv
    <3> QED
      BY <3>1, <3>2 DEF Belongs
  <2> QED
    BY <2>2, <2>3
<1>10. disp \in [Dispatchers -> Thread]
  BY DEF IInv, TypeOK
<1>11. Heads(disp[d])'
  <2>1. CASE n = x.nlb
    <3>1. PICK s : s = AfterEntry(d)
      OBVIOUS
    <3>2. s.pc \in {"sq", "cq", "io"}
      BY <1>1, <1>5, <3>1, ThreadEntry
    <3>3. disp'[d] = s
      BY <1>4, <1>10, <2>1, <3>1
    <3> QED
      BY <3>2, <3>3 DEF Heads
  <2>2. CASE n # x.nlb
    <3>1. disp'[d].slpa = x.slpa + n /\ disp'[d].nlb = x.nlb - n /\ disp'[d].f = Succ(f, NrFTL)
      BY <1>1, <1>4, <1>10, <2>2 DEF Thread
    <3> QED
      BY <1>7, <2>2, <3>1 DEF Heads
  <2> QED
    BY <2>1, <2>2
<1>12. ASSUME NEW b \in Dispatchers PROVE Heads(disp[b])'
  <2>1. b # d => disp'[b] = disp[b]
    BY <1>4, <1>10
  <2> QED
    BY <1>11, <2>1 DEF RouteInv, Heads
<1> QED
  BY <1>4, <1>9, <1>12 DEF RouteInv

\* A dispatcher does anything else.
LEMMA RouteOther ==
  ASSUME IInv, RouteInv, NEW d \in Dispatchers,
         ProcSq(d) \/ ReadHack(d) \/ HackIo(d) \/ ProcCq(d) \/ Dequeue(d) \/ FillCq(d) \/ RaiseIrq(d)
  PROVE  RouteInv'
<1>1. disp \in [Dispatchers -> Thread] /\ disp[d] \in Thread /\ disp[d].tick \in Time /\ now \in Time
  <2>1. disp \in [Dispatchers -> Thread] /\ now \in Time
    BY DEF IInv, TypeOK
  <2> QED
    BY <2>1, ThreadFields
<1>2. UNCHANGED <<sqMem, inQue>>
  BY DEF ProcSq, ReadHack, HackIo, ProcCq, Dequeue, FillCq, RaiseIrq, hostVars, ringIn
<1>3. PICK m1, m2, m3 : /\ m1 = NextQueue(d, "sq", "cq") /\ m2 = NextQueue(d, "cq", "deq")
                        /\ m3 = AfterEntry(d)
  OBVIOUS
<1>4. m1.pc # "split" /\ m2.pc # "split" /\ m3.pc # "split" /\ m3 \in Thread
  <2>1. {"sq", "cq", "deq"} \subseteq Pcs
    BY DEF Pcs
  <2>2. m1.pc \in {"sq", "cq"}
    BY <1>1, <1>3, <2>1, ThreadNext
  <2>3. m2.pc \in {"cq", "deq"}
    BY <1>1, <1>3, <2>1, ThreadNext
  <2>4. m3.pc \in {"sq", "cq", "io"} /\ m3 \in Thread
    BY <1>1, <1>3, ThreadEntry
  <2> QED
    BY <2>2, <2>3, <2>4
<1>5. \A list : \A t \in Time : AfterAnswers(d, list, t).pc # "split"
  <2> SUFFICES ASSUME NEW list, NEW t \in Time PROVE AfterAnswers(d, list, t).pc # "split"
    OBVIOUS
  <2>1. PICK s : s = AfterAnswers(d, list, t)
    OBVIOUS
  <2>2. s.pc \in {"fill", "deq", "irq"}
    BY <1>1, <2>1, ThreadAnswers
  <2> QED
    BY <2>1, <2>2
<1>6. \A b \in Dispatchers : disp'[b].pc = "split" => disp'[b] = disp[b]
  <2>1. CASE ProcSq(d)
    <3>1. PICK k : k = Distance(dev[disp[d].q].oldSq, sqDb[disp[d].q])
      OBVIOUS
    <3>2. PICK o : o = dev[disp[d].q].oldSq
      OBVIOUS
    <3>3. PICK s : /\ disp' = [disp EXCEPT ![d] = s]
                   /\ \/ s = [disp[d] EXCEPT !.pc = "deq", !.q = d + 1]
                      \/ s = [disp[d] EXCEPT !.pc = "io", !.entry = o, !.todo = k]
                      \/ s = m1
      BY <1>3, <2>1, <3>1, <3>2 DEF ProcSq
    <3>4. s.pc # "split"
      BY <1>1, <1>4, <3>3 DEF Thread
    <3> QED
      BY <1>1, <3>3, <3>4
  <2>2. CASE ReadHack(d)
    BY <1>1, <2>2 DEF ReadHack, Thread
  <2>3. CASE HackIo(d)
    <3>1. disp' = [disp EXCEPT ![d] = [m3 EXCEPT !.hack = 0]]
      BY <1>3, <2>3 DEF HackIo
    <3>2. PICK s : s = [m3 EXCEPT !.hack = 0]
      OBVIOUS
    <3>3. s.pc # "split"
      BY <1>4, <3>2 DEF Thread
    <3> QED
      BY <1>1, <3>1, <3>2, <3>3
  <2>4. CASE ProcCq(d)
    <3>1. disp' = [disp EXCEPT ![d] = m2]
      BY <1>3, <2>4 DEF ProcCq
    <3> QED
      BY <1>1, <1>4, <3>1
  <2>5. CASE Dequeue(d)
    <3>1. PICK s : s = AfterAnswers(d, completed[d], now)
      OBVIOUS
    <3>2. disp' = disp \/ disp' = [disp EXCEPT ![d] = s]
      BY <2>5, <3>1 DEF Dequeue
    <3>3. s.pc # "split"
      BY <1>1, <1>5, <3>1
    <3> QED
      BY <1>1, <3>2, <3>3
  <2>6. CASE FillCq(d)
    <3>1. PICK s : s = AfterAnswers(d, Tail(completed[d]), disp[d].tick)
      OBVIOUS
    <3>2. disp' = [disp EXCEPT ![d] = s]
      BY <2>6, <3>1 DEF FillCq
    <3>3. s.pc # "split"
      BY <1>1, <1>5, <3>1
    <3> QED
      BY <1>1, <3>2, <3>3
  <2>7. CASE RaiseIrq(d)
    BY <1>1, <2>7 DEF RaiseIrq, Thread
  <2> QED
    BY <2>1, <2>2, <2>3, <2>4, <2>5, <2>6, <2>7
<1>7. \A b \in Dispatchers : \A f \in FTLs : \A i \in 0 .. InSize - 1 :
        inQue'[b][f][i] \in {inQue[b][f][i], Empty}
  BY <1>2
<1> QED
  BY <1>2, <1>6, <1>7, RouteQuiet

\* Every step keeps the pieces where they belong.
LEMMA NextRoute == IInv /\ RouteInv /\ RequestsFit /\ [Next]_vars => RouteInv'
<1> SUFFICES ASSUME IInv, RouteInv, RequestsFit, [Next]_vars PROVE RouteInv'
  OBVIOUS
<1>1. CASE UNCHANGED <<sqMem, disp, inQue>>
  <2>1. \A d \in Dispatchers : \A f \in FTLs : \A i \in 0 .. InSize - 1 :
          inQue'[d][f][i] \in {inQue[d][f][i], Empty}
    BY <1>1
  <2> QED
    BY <1>1, <2>1, RouteQuiet
<1>2. ASSUME NEW q \in Queues, Host(q) PROVE RouteInv'
  BY <1>1, <1>2, RouteSubmit DEF Host, Reap, RingCq, ringIn
<1>3. ASSUME NEW d \in Dispatchers, Dispatcher(d) PROVE RouteInv'
  BY <1>3, RouteStart, RouteEnqueue, RouteOther DEF Dispatcher
<1>4. ASSUME NEW f \in FTLs, FTL(f) PROVE RouteInv'
  <2>1. UNCHANGED <<sqMem, disp>>
    BY <1>4 DEF FTL, CheckReq, CheckResp, hostVars
  <2>2. \A b \in Dispatchers : \A g \in FTLs : \A j \in 0 .. InSize - 1 :
          inQue'[b][g][j] \in {inQue[b][g][j], Empty}
    <3>1. PICK d, i : d = ftl[f].d /\ i = inHead[d][f]
      OBVIOUS
    <3>2. inQue' = inQue \/ inQue' = [inQue EXCEPT ![d][f][i] = Empty]
      BY <1>4, <3>1 DEF FTL, CheckReq, CheckResp, ringIn
    <3>3. inQue \in [Dispatchers -> [FTLs -> [0 .. InSize - 1 -> Piece \cup {Empty}]]]
      BY DEF IInv, TypeOK
    <3>4. CASE inQue' = [inQue EXCEPT ![d][f][i] = Empty]
      BY <3>3, <3>4
    <3> QED
      BY <3>2, <3>4
  <2> QED
    BY <2>1, <2>2, RouteQuiet
<1>5. CASE Tick \/ UNCHANGED vars
  BY <1>1, <1>5 DEF Tick, vars, hostVars, ringIn
<1> QED
  BY <1>2, <1>3, <1>4, <1>5 DEF Next

\* Every block of a piece belongs to the FTL thread that the piece is sent to,
\* if every command starts where a segment does or lies in one.  The run
\* io_straddle shows a command that does not, and whose blocks go astray.
THEOREM BlocksGoHome == ASSUME RequestsFit PROVE Spec => []RoutedToOwner
<1>1. Init => RouteInv
  <2> SUFFICES ASSUME Init PROVE RouteInv
    OBVIOUS
  <2>1. Fits(0, 0)
    <3>1. \A P \in Nat \ {0} : 0 % P = 0
      OBVIOUS
    <3>2. Period \in Nat \ {0}
      <4>1. \A x, y \in Nat \ {0} : x * y \in Nat \ {0} /\ 1 + y \in Nat \ {0}
        OBVIOUS
      <4> QED
        BY <4>1, IoSizes DEF Period
    <3> QED
      BY <3>1, <3>2 DEF Fits, Place
  <2>2. /\ \A q \in Queues : \A e \in Entries : sqMem[q][e].slba = 0 /\ sqMem[q][e].nlb = 0
        /\ \A d \in Dispatchers : disp[d].pc = "sq"
        /\ \A d \in Dispatchers : \A f \in FTLs : \A i \in 0 .. InSize - 1 :
             inQue[d][f][i] = Empty
    BY DEF Init
  <2> QED
    BY <2>1, <2>2 DEF RouteInv, Heads, Belongs
<1>2. IInv /\ RouteInv => RoutedToOwner
  <2> SUFFICES ASSUME IInv, RouteInv, NEW d \in Dispatchers, NEW f \in FTLs,
                      NEW i \in DOMAIN inQue[d][f], NEW p, p = inQue[d][f][i], p # Empty,
                      NEW b \in p.slpa .. p.slpa + p.nlb - 1
               PROVE  Owner(b) = f
    BY DEF RoutedToOwner
  <2>1. DOMAIN inQue[d][f] = 0 .. InSize - 1
    BY DEF IInv, TypeOK
  <2> QED
    BY <2>1 DEF RouteInv, Belongs
<1>3. IInv /\ RouteInv /\ [Next]_vars => RouteInv'
  BY NextRoute
<1> QED
  BY <1>1, <1>2, <1>3, Invariance, PTL DEF Spec
=============================================================================
