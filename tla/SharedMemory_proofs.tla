------------------------- MODULE SharedMemory_proofs -------------------------
(***************************************************************************)
(* Theorems about what two threads, or the device and the host, share      *)
(* without a lock: FlagRing, for every ring size, message set and window;  *)
(* Controller, for every set of queue depths, places, identifiers and      *)
(* number of starts; and WorkQueue, for every number of entries and clock. *)
(***************************************************************************)
EXTENDS FlagRing, Controller, WorkQueue, ListFacts
-----------------------------------------------------------------------------
(* FlagRing: the inductive invariant.                                       *)


\* How many slots hold a message the consumer has not given back, and the
\* slot k places after the head.
Unread == Len(sent) - Len(got)
Place(h, k) == IF h + k < Size THEN h + k ELSE h + k - Size

\* The full slots are the Unread ones from the head on, they hold the
\* messages sent and not yet taken in the order they were sent, and the
\* tail is the slot after them.
RingInv ==
  /\ Len(got) <= Len(sent)
  /\ Unread <= Size
  /\ tail = Place(head, Unread)
  /\ \A k \in 0 .. Size - 1 :
        IF k < Unread
        THEN flag[Place(head, k)] /\ slot[Place(head, k)] = sent[Len(got) + k + 1]
        ELSE ~ flag[Place(head, k)]

\* What each thread knows between two of its steps.
ThreadInv ==
  /\ ppc # "idle" => Unread < Size
  /\ ppc = "publish" => slot[tail] = pval
  /\ cpc # "idle" => 0 < Unread
  /\ cpc = "clear" => cval = sent[Len(got) + 1]

RingIInv == RingTypeOK /\ RingInv /\ ThreadInv

\* The indices, the flags, the histories and the fields keep their types.
THEOREM RingTypeCorrect == RingSpec => []RingTypeOK
<1> USE SizeAssumption DEF RingSlots
<1>1. RingInit => RingTypeOK
  BY DEF RingInit, RingTypeOK
<1>2. RingTypeOK /\ [RingNext]_ringVars => RingTypeOK'
  <2> SUFFICES ASSUME RingTypeOK, [RingNext]_ringVars PROVE RingTypeOK'
    OBVIOUS
  <2>1. ASSUME NEW v \in Values, Check(v) PROVE RingTypeOK'
    BY <2>1 DEF RingTypeOK, Check, consumerVars
  <2>2. CASE BeginWrite
    BY <2>2 DEF RingTypeOK, BeginWrite, consumerVars
  <2>3. CASE EndWrite
    BY <2>3 DEF RingTypeOK, EndWrite, consumerVars
  <2>4. CASE Publish
    BY <2>4 DEF RingTypeOK, Publish, consumerVars, Succ
  <2>5. CASE Poll
    BY <2>5 DEF RingTypeOK, Poll, producerVars
  <2>6. CASE Read
    BY <2>6 DEF RingTypeOK, Read, producerVars
  <2>7. CASE Clear
    BY <2>7 DEF RingTypeOK, Clear, producerVars, Succ
  <2>8. CASE UNCHANGED ringVars
    BY <2>8 DEF RingTypeOK, ringVars, producerVars, consumerVars
  <2> QED
    BY <2>1, <2>2, <2>3, <2>4, <2>5, <2>6, <2>7, <2>8
    DEF RingNext, Producer, Consumer
<1> QED
  BY <1>1, <1>2, PTL DEF RingSpec

\* The inductive invariant holds of the empty ring both threads start with.
LEMMA RingStarts == RingInit => RingIInv
  BY SizeAssumption DEF RingInit, RingIInv, RingTypeOK, RingInv, ThreadInv, Unread, Place, RingSlots

\* The slots from the head on, k of them being told apart by their distance.
LEMMA PlaceRange ==
  ASSUME head \in RingSlots
  PROVE  /\ \A k \in 0 .. Size - 1 : Place(head, k) \in RingSlots
         /\ Place(head, 0) = head /\ Place(head, Size) = head
         /\ \A j, k \in 0 .. Size - 1 : Place(head, j) = Place(head, k) => j = k
         /\ \A i \in RingSlots : \E k \in 0 .. Size - 1 : i = Place(head, k)
         /\ \A k \in 0 .. Size - 1 : Succ(Place(head, k)) = Place(head, k + 1)
<1> USE SizeAssumption DEF RingSlots, Place, Succ
<1>1. /\ \A k \in 0 .. Size - 1 : Place(head, k) \in RingSlots
      /\ Place(head, 0) = head /\ Place(head, Size) = head
      /\ \A j, k \in 0 .. Size - 1 : Place(head, j) = Place(head, k) => j = k
      /\ \A k \in 0 .. Size - 1 : Succ(Place(head, k)) = Place(head, k + 1)
  OBVIOUS
<1>2. ASSUME NEW i \in RingSlots
      PROVE  \E k \in 0 .. Size - 1 : i = Place(head, k)
  <2>1. CASE i >= head
    <3>1. i - head \in 0 .. Size - 1 /\ i = Place(head, i - head)
      BY <2>1
    <3> QED
      BY <3>1
  <2>2. CASE i < head
    <3>1. i + Size - head \in 0 .. Size - 1 /\ i = Place(head, i + Size - head)
      BY <2>2
    <3> QED
      BY <3>1
  <2> QED
    BY <2>1, <2>2
<1> QED
  BY <1>1, <1>2

\* The producer begins to fill an empty slot: it has seen the flag clear, or
\* its clients' window leaves one.
LEMMA CheckFindsRoom ==
  ASSUME RingIInv, NEW v \in Values, Check(v)
  PROVE  Unread < Size
<1>1. Unread \in 0 .. Size /\ head \in RingSlots /\ tail = Place(head, Unread)
  BY SizeAssumption DEF RingIInv, RingTypeOK, RingInv, Unread
<1>2. CASE waits
  <2>1. ~ flag[tail]
    BY <1>2 DEF Check
  <2>2. SUFFICES ASSUME Unread = Size PROVE FALSE
    BY <1>1, SizeAssumption
  <2>3. tail = Place(head, 0)
    BY <1>1, <2>2, PlaceRange
  <2>4. 0 \in 0 .. Size - 1 /\ 0 < Unread
    BY <2>2, SizeAssumption
  <2> QED
    BY <2>1, <2>3, <2>4 DEF RingIInv, RingInv
<1>3. CASE ~ waits
  BY <1>3, <1>1, FlowControl, WindowAssumption, SizeAssumption DEF Check, Unread
<1> QED
  BY <1>2, <1>3

\* No access to the ring by either thread breaks the inductive invariant.
LEMMA RingKeeps == RingIInv /\ RingTypeOK' /\ [RingNext]_ringVars => RingIInv'
<1> SUFFICES ASSUME RingIInv, RingTypeOK', [RingNext]_ringVars
             PROVE  RingInv' /\ ThreadInv'
  BY DEF RingIInv
<1> USE SizeAssumption
<1>0. /\ head \in RingSlots /\ tail \in RingSlots
      /\ Len(sent) \in Nat /\ Len(got) \in Nat
      /\ Unread \in 0 .. Size
  BY DEF RingIInv, RingTypeOK, RingInv, Unread
<1>1. ASSUME NEW v \in Values, Check(v)
      PROVE  RingInv' /\ ThreadInv'
  <2>1. Unread < Size
    BY <1>1, CheckFindsRoom
  <2> QED
    BY <1>1, <2>1
    DEF Check, consumerVars, RingIInv, RingInv, ThreadInv, Unread, Place
<1>2. CASE BeginWrite
  <2>1. \A k \in 0 .. Size - 1 : k < Unread => Place(head, k) # tail
    BY <1>0, <1>2, PlaceRange DEF BeginWrite, RingIInv, RingInv, ThreadInv
  <2>2. \A k \in 0 .. Size - 1 : Place(head, k) \in RingSlots
    BY <1>0, PlaceRange
  <2>3. \A k \in 0 .. Size - 1 : k < Unread => slot'[Place(head, k)] = slot[Place(head, k)]
    BY <1>2, <2>1, <2>2 DEF BeginWrite, RingIInv, RingTypeOK
  <2> QED
    BY <1>2, <2>3
    DEF BeginWrite, consumerVars, RingIInv, RingInv, ThreadInv, Unread, Place
<1>3. CASE EndWrite
  <2>1. \A k \in 0 .. Size - 1 : k < Unread => Place(head, k) # tail
    BY <1>0, <1>3, PlaceRange DEF EndWrite, RingIInv, RingInv, ThreadInv
  <2>2. \A k \in 0 .. Size - 1 : Place(head, k) \in RingSlots
    BY <1>0, PlaceRange
  <2>3. \A k \in 0 .. Size - 1 : k < Unread => slot'[Place(head, k)] = slot[Place(head, k)]
    BY <1>3, <2>1, <2>2 DEF EndWrite, RingIInv, RingTypeOK
  <2>4. slot'[tail] = pval
    BY <1>0, <1>3 DEF EndWrite, RingIInv, RingTypeOK
  <2> QED
    BY <1>3, <2>3, <2>4
    DEF EndWrite, consumerVars, RingIInv, RingInv, ThreadInv, Unread, Place
<1>4. CASE Publish
  <2>1. /\ Unread < Size /\ tail = Place(head, Unread) /\ slot[tail] = pval
        /\ pval \in Values /\ sent \in Seq(Values)
    BY <1>4 DEF Publish, RingIInv, RingTypeOK, RingInv, ThreadInv
  <2>2. /\ Len(sent') = Len(sent) + 1
        /\ sent'[Len(sent) + 1] = pval
        /\ \A n \in 1 .. Len(sent) : sent'[n] = sent[n]
    BY <1>4, <2>1 DEF Publish
  <2>3. Unread' = Unread + 1
    BY <1>0, <1>4, <2>2 DEF Publish, Unread
  <2>4. head' = head
    BY <1>4 DEF Publish, consumerVars
  <2>5. tail' = Place(head, Unread + 1)
    BY <1>0, <1>4, <2>1, PlaceRange DEF Publish
  <2>6. ASSUME NEW k \in 0 .. Size - 1
        PROVE  IF k < Unread + 1
               THEN flag'[Place(head, k)] /\ slot'[Place(head, k)] = sent'[Len(got') + k + 1]
               ELSE ~ flag'[Place(head, k)]
    <3>1. Place(head, k) \in RingSlots /\ (k # Unread => Place(head, k) # tail)
      BY <1>0, <2>1, PlaceRange
    <3>2. /\ flag'[Place(head, k)] = IF Place(head, k) = tail THEN TRUE ELSE flag[Place(head, k)]
          /\ slot' = slot /\ got' = got
      BY <1>4, <3>1 DEF Publish, consumerVars, RingIInv, RingTypeOK
    <3>3. CASE k = Unread
      BY <3>2, <3>3, <2>1, <2>2, <1>0 DEF Unread
    <3>4. CASE k < Unread
      <4>1. Len(got) + k + 1 \in 1 .. Len(sent) /\ k < Unread + 1
        BY <3>4, <1>0 DEF Unread
      <4>2. /\ flag[Place(head, k)]
            /\ slot[Place(head, k)] = sent[Len(got) + k + 1]
        BY <3>4, <1>0 DEF RingIInv, RingInv
      <4>3. flag'[Place(head, k)]
        BY <3>2, <4>2
      <4>4. slot'[Place(head, k)] = sent'[Len(got') + k + 1]
        BY <3>2, <4>1, <4>2, <2>2
      <4> QED
        BY <4>1, <4>3, <4>4
    <3>5. CASE k > Unread
      BY <3>1, <3>2, <3>5, <1>0 DEF RingIInv, RingInv
    <3> QED
      BY <3>3, <3>4, <3>5, <1>0
  <2>7. RingInv'
    <3>1. Len(got') <= Len(sent') /\ Unread' <= Size
      BY <1>0, <1>4, <2>1, <2>2, <2>3 DEF RingInv, RingIInv, Publish
    <3>2. tail' = Place(head', Unread')
      BY <2>3, <2>4, <2>5
    <3> QED
      BY <3>1, <3>2, <2>3, <2>4, <2>6 DEF RingInv
  <2>8. ThreadInv'
    <3>1. /\ ppc' = "idle" /\ cpc' = cpc /\ cval' = cval /\ got' = got
      BY <1>4 DEF Publish, consumerVars
    <3>2. cpc = "clear" => Len(got) + 1 \in 1 .. Len(sent)
      BY <1>0 DEF RingIInv, ThreadInv, Unread
    <3> QED
      BY <3>1, <3>2, <2>2, <2>3, <1>0 DEF RingIInv, ThreadInv
  <2> QED
    BY <2>7, <2>8
<1>5. CASE Poll
  <2>1. 0 < Unread
    BY <1>0, <1>5, PlaceRange DEF Poll, RingIInv, RingInv
  <2> QED
    BY <1>5, <2>1
    DEF Poll, producerVars, RingIInv, RingInv, ThreadInv, Unread, Place
<1>6. CASE Read
  <2>1. 0 < Unread /\ Place(head, 0) = head
    BY <1>0, <1>6, PlaceRange DEF Read, RingIInv, ThreadInv
  <2>2. slot[head] = sent[Len(got) + 1]
    BY <1>0, <2>1 DEF RingIInv, RingInv
  <2> QED
    BY <1>6, <2>1, <2>2
    DEF Read, producerVars, RingIInv, RingInv, ThreadInv, Unread, Place
<1>7. CASE Clear
  <2>1. /\ 0 < Unread /\ cval = sent[Len(got) + 1]
        /\ cpc' = "idle" /\ ppc' = ppc /\ pval' = pval /\ sent' = sent
        /\ slot' = slot /\ tail' = tail
    BY <1>7 DEF Clear, producerVars, RingIInv, ThreadInv
  <2>2. Len(got') = Len(got) + 1
    BY <1>7 DEF Clear, RingIInv, RingTypeOK
  <2>3. Unread' = Unread - 1
    BY <1>0, <2>1, <2>2 DEF Unread
  <2>4. head' = Place(head, 1)
    BY <1>0, <1>7, PlaceRange DEF Clear, Succ, Place
  <2>5. \A k \in 0 .. Size - 1 : Place(head', k) = Place(head, k + 1)
    BY <1>0, <2>4 DEF Place, RingSlots
  <2>6. tail' = Place(head', Unread')
    <3>1. Unread' \in 0 .. Size - 1
      BY <1>0, <2>1, <2>3
    <3> QED
      BY <1>0, <3>1, <2>1, <2>3, <2>5 DEF RingIInv, RingInv
  <2>7. ASSUME NEW k \in 0 .. Size - 1
        PROVE  IF k < Unread - 1
               THEN flag'[Place(head, k + 1)] /\ slot[Place(head, k + 1)] = sent[Len(got) + 1 + k + 1]
               ELSE ~ flag'[Place(head, k + 1)]
    <3>1. CASE k = Size - 1
      <4>1. Place(head, k + 1) = head
        BY <3>1, <1>0, PlaceRange
      <4>2. ~ flag'[head]
        BY <1>0, <1>7 DEF Clear, RingIInv, RingTypeOK
      <4> QED
        BY <4>1, <4>2, <3>1, <1>0
    <3>2. CASE k + 1 \in 0 .. Size - 1
      <4>1. Place(head, k + 1) \in RingSlots /\ Place(head, k + 1) # head
        BY <3>2, <1>0, PlaceRange
      <4>2. flag'[Place(head, k + 1)] = flag[Place(head, k + 1)]
        BY <4>1, <1>7 DEF Clear, RingIInv, RingTypeOK
      <4> QED
        BY <4>2, <3>2, <1>0 DEF RingIInv, RingInv
    <3> QED
      BY <3>1, <3>2
  <2>8. RingInv'
    <3>1. Len(got') <= Len(sent') /\ Unread' <= Size
      BY <1>0, <2>1, <2>2, <2>3 DEF RingInv, RingIInv, Unread
    <3>2. \A k \in 0 .. Size - 1 : Len(got') + k + 1 = Len(got) + 1 + k + 1
      BY <2>2, <1>0
    <3> QED
      BY <3>1, <3>2, <2>1, <2>3, <2>5, <2>6, <2>7 DEF RingInv
  <2>9. ThreadInv'
    BY <1>0, <2>1, <2>3 DEF RingIInv, ThreadInv
  <2> QED
    BY <2>8, <2>9
<1>8. CASE UNCHANGED ringVars
  BY <1>8 DEF ringVars, producerVars, consumerVars, RingIInv, RingInv, ThreadInv, Unread, Place
<1> QED
  BY <1>1, <1>2, <1>3, <1>4, <1>5, <1>6, <1>7, <1>8 DEF RingNext, Producer, Consumer

\* The inductive invariant holds of every behaviour of the ring.
THEOREM RingInvariant == RingSpec => []RingIInv
<1>1. RingIInv /\ RingTypeOK' /\ [RingNext]_ringVars => RingIInv'
  BY RingKeeps
<1> QED
  BY <1>1, RingStarts, RingTypeCorrect, PTL DEF RingSpec

\* The assertion of __enqueue_io_req_to_ftl never fails: the entry a
\* producer fills has always been given back by its consumer.
THEOREM NeverOverrun == RingSpec => []NoOverrun
<1>1. RingIInv => NoOverrun
  <2> SUFFICES ASSUME RingIInv, ppc # "idle" PROVE ~ flag[tail]
    BY DEF NoOverrun
  <2>1. /\ Unread \in 0 .. Size - 1 /\ tail = Place(head, Unread)
    BY SizeAssumption DEF RingIInv, RingTypeOK, RingInv, ThreadInv, Unread
  <2> QED
    BY <2>1 DEF RingIInv, RingInv
<1> QED
  BY <1>1, RingInvariant, PTL

\* The fields of an entry are never written while the consumer reads them.
THEOREM NeverRaces == RingSpec => []NoDataRace
<1>1. RingIInv => NoDataRace
  <2> SUFFICES ASSUME RingIInv, ppc \in {"begin", "end"}, cpc # "idle", tail = head
               PROVE  FALSE
    BY DEF NoDataRace
  <2>1. /\ Unread \in 1 .. Size - 1 /\ head \in RingSlots
        /\ tail = Place(head, Unread)
    BY SizeAssumption DEF RingIInv, RingTypeOK, RingInv, ThreadInv, Unread
  <2>2. tail = Place(head, 0) /\ 0 \in 0 .. Size - 1
    BY <2>1, PlaceRange, SizeAssumption, tail = head
  <2> QED
    BY <2>1, <2>2, PlaceRange
<1> QED
  BY <1>1, RingInvariant, PTL

\* The ring implements the bounded channel: no message is lost, duplicated,
\* reordered or torn on its way between a dispatcher and an FTL thread.
THEOREM RingRefinesChannel == RingSpec => ImplementsChannel
<1>1. RingInit => Chan!Init
  BY DEF RingInit, Chan!Init
<1>2. RingIInv /\ [RingNext]_ringVars => [Chan!Next]_<<sent, got>>
  <2> SUFFICES ASSUME RingIInv, [RingNext]_ringVars
               PROVE  Chan!Next \/ UNCHANGED <<sent, got>>
    OBVIOUS
  <2>0. Len(sent) \in Nat /\ Len(got) \in Nat
    BY DEF RingIInv, RingTypeOK
  <2>1. CASE Publish
    <3>1. Len(sent) < Len(got) + Size
      BY <2>0, <2>1, SizeAssumption DEF Publish, RingIInv, ThreadInv, Unread
    <3>2. pval \in Values
      BY <2>1 DEF Publish, RingIInv, RingTypeOK
    <3>3. Chan!Send(pval)
      BY <2>1, <3>1 DEF Publish, Chan!Send
    <3> QED
      BY <3>2, <3>3 DEF Chan!Next
  <2>2. CASE Clear
    <3>1. Len(got) < Len(sent) /\ cval = sent[Len(got) + 1]
      BY <2>0, <2>2 DEF Clear, RingIInv, ThreadInv, Unread
    <3> QED
      BY <2>2, <3>1 DEF Clear, Chan!Receive, Chan!Next
  <2>3. CASE ~ Publish /\ ~ Clear
    BY <2>3 DEF RingNext, Producer, Consumer, Check, BeginWrite, EndWrite,
                Poll, Read, ringVars
  <2> QED
    BY <2>1, <2>2, <2>3
<1> QED
  BY <1>1, <1>2, RingInvariant, PTL DEF RingSpec, ImplementsChannel, Chan!Spec
-----------------------------------------------------------------------------
(* Controller: the inductive invariant.                                     *)

\* Steps of the driver in which it does not use the controller.
DriverSteps == {"off", "asq", "acq", "cc", "enabling", "up", "shutting down", "disabling"}
Starting == {"asq", "acq", "cc", "enabling"}

Request == [cid : Cids, op : Ops]
Places  == Bases \cup {None}
Sizes   == Depths \cup {0}
Bits    == {0, 1}

Driver == [step : DriverSteps, place : Places, starts : 0 .. MaxStarts, tail : Slots, head : Slots,
           phase : Bits, out : SUBSET Request, queue : {"none", "cq", "both"},
           ios : SUBSET IoCids, stale : BOOLEAN]
Registers == [aqa : Sizes, asq : Places, acq : Places, en : Bits, shn : Bits]
Status == [rdy : Bits, shst : {0, 2}]
AdminQueue == [built : BOOLEAN, sq : Places, cq : Places, sqRoom : Sizes, cqRoom : Sizes,
               sqDepth : Sizes, cqDepth : Sizes, head : Slots, phase : Bits, db : Slots,
               oldDb : Slots]
Command == [cid : Cids \cup {None}, op : Ops]
Entry   == [cid : Cids \cup {None}, phase : Bits]
Memory  == [sq : [Bases -> [Slots -> Command]], cq : [Bases -> [Slots -> Entry]]]
Flight  == [queue : 1 .. MaxQueues, cid : IoCids]
Faults  == {"no", "null pointer", "wrong command"}
Pair    == [polled : BOOLEAN, sq : 0 .. MaxQueues, cq : BOOLEAN, made : 0 .. MaxQueues,
            tags : SUBSET IoCids, rung : SUBSET IoCids, flight : SUBSET Flight, bad : Faults]

Types ==
  /\ host \in Driver /\ bar \in Registers /\ old \in Registers /\ csts \in Status
  /\ aq \in AdminQueue /\ mem \in Memory /\ io \in Pair /\ posted \in Seq(Cids)
  /\ turn \in {"bars", "doorbells"}

\* The slot k places after i in a ring of D.
Ahead(i, k, D) == IF i + k < D THEN i + k ELSE i + k - D

\* The commands between o and the doorbell, and the kth of them.
Pending(a, o) == IF a.db < o THEN a.db - o + a.sqDepth ELSE a.db - o
AskedAt(a, m, o, k) == m.sq[a.sq][Ahead(o, k, a.sqDepth)]

\* The registers the dispatcher has acted on are those of the admin queue, ...
Followed ==
  /\ aq.sqDepth = old.aqa /\ aq.cqDepth = old.aqa /\ aq.sq = old.asq /\ aq.cq = old.acq
  /\ old.aqa # 0 => aq.built
  /\ csts.rdy = old.en
  /\ old.asq = bar.asq /\ (host.step = "asq" => host.place = bar.asq) => bar.aqa <= aq.sqRoom
  /\ old.acq = bar.acq /\ (host.step \in {"asq", "acq"} => host.place = bar.acq)
       => bar.aqa <= aq.cqRoom
\* ... and trail those the host has written.
Trailing ==
  LET st == host.step IN
  /\ st # "off" => bar.aqa # 0
  /\ st \in Starting => host.place \in Bases
  /\ st \in {"off", "up"} => old = bar
  /\ st \in {"off", "asq"} => bar.asq = bar.acq
  /\ st \in {"asq", "acq"} => old.acq = bar.acq
  /\ st = "asq" => old.asq = bar.asq
  /\ st = "acq" => bar.asq = host.place
  /\ st \in {"cc", "enabling"} => bar.asq = host.place /\ bar.acq = host.place
  /\ st \in {"up", "shutting down", "disabling"} =>
       /\ old.aqa = bar.aqa /\ old.asq = bar.asq /\ old.acq = bar.acq
       /\ bar.asq = bar.acq /\ bar.asq \in Bases
  /\ bar.shn = IF st = "shutting down" THEN 1 ELSE 0
  /\ bar.en = IF st \in {"enabling", "up", "shutting down"} THEN 1 ELSE 0
  /\ st \in {"off", "asq", "acq", "cc"} => old.en = 0
  /\ st \notin {"shutting down", "disabling"} => old.shn = 0
  /\ st = "enabling" /\ old.en = 1 => old = bar
  /\ st = "shutting down" => old.en = 1
  /\ st = "disabling" /\ old.en = 0 => old.shn = 0
\* A new depth or new places clear the indices, and they stay clear until the
\* host is up; the phase only a new depth sets.
Cleared ==
  host.step \in Starting =>
    /\ host.stale => old.aqa = bar.aqa
    /\ old.aqa = bar.aqa =>
         /\ aq.db = aq.oldDb /\ aq.phase = (IF host.stale THEN 0 ELSE 1)
         /\ old.asq = bar.asq /\ (host.step = "asq" => host.place = bar.asq) => aq.db = 0
         /\ old.acq = bar.acq /\ (host.step \in {"asq", "acq"} => host.place = bar.acq)
              => aq.head = 0

Inside(a, o) ==
  /\ a.sqDepth = 0 => a.db = 0 /\ o = 0 /\ a.head = 0
  /\ a.sqDepth # 0 => {a.db, o, a.head} \subseteq 0 .. a.sqDepth - 1
  /\ a.db # o => a.sq \in Bases

\* Commands not processed: at most one is about the I/O queue pair.
AsksOk(a, m, i, o, P, k) ==
  LET c == AskedAt(a, m, o, k) IN
  /\ c \in Request
  /\ c.op = "create_sq" => i.made < MaxQueues
  /\ c.op \in QueueOps => \A x \in 0 .. P - 1 : x # k => AskedAt(a, m, o, x).op \notin QueueOps
Asks(a, m, i, o) == \A k \in 0 .. Pending(a, o) - 1 : AsksOk(a, m, i, o, Pending(a, o), k)

\* A host that is not up has nothing outstanding.
Resting == host.step # "up" => host.out = {} /\ host.queue = "none" /\ host.ios = {}

Numbered(i) == i.sq \in {0, i.made} /\ \A f \in i.flight : f.queue <= i.made

\* Of a host that is up.
Distinct(h, a, m, p, o) ==
  /\ \A c, e \in h.out : c.cid = e.cid => c = e
  /\ \A k \in 0 .. Pending(a, o) - 1 : AskedAt(a, m, o, k) \in h.out
  /\ \A k, x \in 0 .. Pending(a, o) - 1 :
       AskedAt(a, m, o, k).cid = AskedAt(a, m, o, x).cid => k = x
  /\ \A j \in 1 .. Len(p) : \E c \in h.out : c.cid = p[j]
  /\ \A j, x \in 1 .. Len(p) : p[j] = p[x] => j = x
  /\ \A j \in 1 .. Len(p) : \A k \in 0 .. Pending(a, o) - 1 : p[j] # AskedAt(a, m, o, k).cid
Counted(h, a, p, o) ==
  /\ IsFiniteSet(h.out)
  /\ Len(p) + Pending(a, o) <= Cardinality(h.out) /\ Cardinality(h.out) <= a.sqDepth - 1
PhaseAt(h, j, D) == IF h.head + j >= D THEN 1 - h.phase ELSE h.phase
Shown(h, a, m, p) ==
  LET at(j) == m.cq[a.cq][Ahead(h.head, j, a.sqDepth)] IN
  /\ \A j \in 0 .. a.sqDepth - 1 :
       IF j < Len(p) THEN at(j).cid = p[j + 1] /\ at(j).phase = PhaseAt(h, j, a.sqDepth)
       ELSE at(j).phase # PhaseAt(h, j, a.sqDepth)
  /\ a.head = Ahead(h.head, Len(p), a.sqDepth)
  /\ a.phase = PhaseAt(h, Len(p), a.sqDepth)
Hidden(h, a, m, p) ==
  /\ h.head = 0 /\ h.phase = 1 /\ a.phase = 0 /\ a.head = Len(p)
  /\ \A j \in 0 .. a.sqDepth - 1 : m.cq[a.cq][j].phase = 0
Written(h, a, m, p) == IF h.stale THEN Hidden(h, a, m, p) ELSE Shown(h, a, m, p)
InRing(h, a) == h.tail = a.db /\ h.head < a.sqDepth /\ a.cq \in Bases

\* The queue pair is there, if the host knows it or not yet.
Made(h, p) ==
  \/ h.queue = "both"
  \/ h.queue = "cq" /\ \E c \in h.out : c.op = "create_sq" /\ \E j \in 1 .. Len(p) : p[j] = c.cid
Current(h, i, p) ==
  i.bad = "no" /\ Made(h, p) =>
    /\ i.rung \subseteq h.ios
    /\ \A f \in i.flight : f.queue = i.sq => f.cid \in h.ios /\ f.cid \notin i.rung
OneQueueOp(h) ==
  /\ \A c, e \in h.out : c.op \in QueueOps /\ e.op \in QueueOps => c = e
  /\ \A c \in h.out : c.op \in QueueOps => Leads(h.queue, c.op) # "no"

\* What holds between two commands of the admin queue; o is the next.
Going(h, a, m, i, p, o) ==
  /\ Inside(a, o) /\ Asks(a, m, i, o) /\ Numbered(i)
  /\ h.step = "up" =>
       /\ InRing(h, a) /\ Counted(h, a, p, o) /\ Distinct(h, a, m, p, o) /\ Written(h, a, m, p)
       /\ OneQueueOp(h) /\ Current(h, i, p)

ControllerInv ==
  /\ Types /\ Followed /\ Trailing /\ Cleared /\ Resting
  /\ Going(host, aq, mem, io, posted, aq.oldDb)
-----------------------------------------------------------------------------
(* Rings. *)

\* The slots are those of the deepest queue.
LEMMA DeepestSlots ==
  /\ Depths \subseteq Nat \ {0, 1}
  /\ 0 \in Slots
  /\ \A D \in Depths : 0 .. D - 1 \subseteq Slots
  /\ Slots \subseteq Nat
<1>1. PICK N \in Nat : Depths \subseteq 2 .. N
  <2>1. PICK n : n = 4096
    OBVIOUS
  <2>2. n \in Nat
    BY <2>1
  <2>3. Depths \subseteq 2 .. n
    BY <2>1, DepthsAssumption
  <2> QED
    BY <2>2, <2>3
<1>2. PICK S : S = {n \in Nat : \E D \in Depths : D = N - n}
  OBVIOUS
<1>3. S \subseteq Nat /\ \A D \in Depths : N - D \in S
  <2>1. ASSUME NEW D \in Depths PROVE N - D \in Nat /\ D = N - (N - D)
    BY <1>1
  <2> QED
    BY <1>2, <2>1
<1>4. PICK D1 : D1 \in Depths
  BY DepthsAssumption
<1>5. PICK m \in S : \A n \in S : m <= n
  <2>1. S # {}
    BY <1>3, <1>4
  <2> QED
    BY <1>3, <2>1, LeastNumber
<1>6. PICK d \in Depths : \A x \in Depths : x <= d
  <2>1. PICK d \in Depths : d = N - m
    BY <1>2, <1>5
  <2>2. ASSUME NEW x \in Depths PROVE x <= d
    <3>1. N - x \in S /\ m <= N - x /\ m \in Nat
      BY <1>3, <1>5
    <3>2. x \in Nat
      BY <1>1
    <3> QED
      BY <2>1, <3>1, <3>2
  <2> QED
    BY <2>2
<1>7. PICK M : M = CHOOSE e \in Depths : \A x \in Depths : x <= e
  OBVIOUS
<1>8. M \in Depths /\ \A x \in Depths : x <= M
  <2> QED
    BY <1>6, <1>7
<1>9. Slots = 0 .. M - 1
  BY <1>7 DEF Slots
<1>10. Depths \subseteq Nat \ {0, 1}
  BY <1>1
<1>11. ASSUME NEW D \in Depths PROVE 0 .. D - 1 \subseteq Slots
  <2>1. D \in Nat /\ M \in Nat /\ D <= M
    BY <1>8, <1>10
  <2> QED
    BY <1>9, <2>1
<1>12. M \in Nat \ {0}
  BY <1>8, <1>10
<1> QED
  BY <1>9, <1>10, <1>11, <1>12

\* A place in a ring, by remainder or by comparison.
LEMMA RingPlace ==
  ASSUME NEW D \in Nat \ {0}, NEW i \in 0 .. D - 1, NEW k \in 0 .. D
  PROVE  /\ (i + k) % D = Ahead(i, k, D)
         /\ Ahead(i, k, D) \in 0 .. D - 1
<1>1. CASE i + k < D
  <2>1. i + k = D * 0 + (i + k) /\ i + k \in 0 .. D - 1 /\ i + k \in Nat
    BY <1>1
  <2>2. (i + k) % D = i + k
    BY <2>1, OneQuotient
  <2> QED
    BY <1>1, <2>1, <2>2 DEF Ahead
<1>2. CASE ~ (i + k < D)
  <2>1. i + k = D * 1 + (i + k - D) /\ i + k - D \in 0 .. D - 1 /\ i + k \in Nat
    BY <1>2
  <2>2. (i + k) % D = i + k - D
    BY <2>1, OneQuotient
  <2> QED
    BY <1>2, <2>1, <2>2 DEF Ahead
<1> QED
  BY <1>1, <1>2

\* How many commands are pending, and those after the first.
LEMMA PendingRange ==
  ASSUME NEW a \in AdminQueue, NEW o, Inside(a, o)
  PROVE  /\ Pending(a, o) = 0 <=> a.db = o
         /\ a.sqDepth = 0 => Pending(a, o) = 0
         /\ a.sqDepth # 0 => /\ o \in 0 .. a.sqDepth - 1 /\ a.db \in 0 .. a.sqDepth - 1
                             /\ a.head \in 0 .. a.sqDepth - 1
                             /\ Pending(a, o) \in 0 .. a.sqDepth - 1
                             /\ Ahead(o, Pending(a, o), a.sqDepth) = a.db
         /\ a.sqDepth \in Nat /\ Pending(a, o) \in Nat /\ o \in Nat
<1>1. a.sqDepth \in Nat /\ a.db \in Nat
  BY DeepestSlots DEF AdminQueue, Sizes
<1>2. CASE a.sqDepth = 0
  BY <1>2 DEF Inside, Pending
<1>3. CASE a.sqDepth # 0
  <2>1. a.sqDepth \in Nat \ {0} /\ o \in 0 .. a.sqDepth - 1 /\ a.db \in 0 .. a.sqDepth - 1
        /\ a.head \in 0 .. a.sqDepth - 1
    BY <1>1, <1>3 DEF Inside
  <2>2. Pending(a, o) \in 0 .. a.sqDepth - 1 /\ (Pending(a, o) = 0 <=> a.db = o)
    BY <2>1 DEF Pending
  <2>3. Ahead(o, Pending(a, o), a.sqDepth) = a.db
    BY <2>1 DEF Pending, Ahead
  <2> QED
    BY <1>3, <2>1, <2>2, <2>3
<1> QED
  BY <1>2, <1>3

\* The next command is one place on, and one fewer is pending.
LEMMA PendingNext ==
  ASSUME NEW a \in AdminQueue, NEW o, Inside(a, o), a.db # o, NEW n, n = Ahead(o, 1, a.sqDepth)
  PROVE  /\ Inside(a, n)
         /\ Pending(a, n) = Pending(a, o) - 1
         /\ \A k \in 0 .. Pending(a, n) - 1 :
              k + 1 \in 0 .. Pending(a, o) - 1
              /\ \A m : AskedAt(a, m, n, k) = AskedAt(a, m, o, k + 1)
<1>1. /\ a.sqDepth \in Nat \ {0} /\ o \in 0 .. a.sqDepth - 1 /\ a.db \in 0 .. a.sqDepth - 1
      /\ a.head \in 0 .. a.sqDepth - 1 /\ a.sq \in Bases
  BY PendingRange DEF Inside
<1>2. n = (IF o + 1 < a.sqDepth THEN o + 1 ELSE 0) /\ n \in 0 .. a.sqDepth - 1
  BY <1>1 DEF Ahead
<1>3. Inside(a, n)
  BY <1>1, <1>2 DEF Inside
<1>4. Pending(a, n) = Pending(a, o) - 1 /\ Pending(a, n) \in Nat
  BY <1>1, <1>2 DEF Pending
<1>5. ASSUME NEW k \in 0 .. Pending(a, n) - 1
      PROVE  /\ k + 1 \in 0 .. Pending(a, o) - 1
             /\ Ahead(n, k, a.sqDepth) = Ahead(o, k + 1, a.sqDepth)
  <2>1. k + 1 \in 0 .. Pending(a, o) - 1
    BY <1>4
  <2>2. Pending(a, n) < a.sqDepth
    BY <1>3, <1>1, PendingRange
  <2>3. PICK D, P : D = a.sqDepth /\ P = Pending(a, n)
    OBVIOUS
  <2>4. D \in Nat \ {0} /\ o \in 0 .. D - 1 /\ P \in Nat /\ P < D /\ k \in 0 .. P - 1
    BY <1>1, <1>4, <2>2, <2>3
  <2>5. n = (IF o + 1 < D THEN o + 1 ELSE 0)
    BY <1>2, <2>3
  <2>6. Ahead(n, k, D) = Ahead(o, k + 1, D)
    BY <2>4, <2>5 DEF Ahead
  <2> QED
    BY <2>1, <2>3, <2>6
<1> QED
  BY <1>3, <1>4, <1>5 DEF AskedAt
-----------------------------------------------------------------------------
(* One admin command.                                                       *)

\* The admin queue, host memory and the completions after a completion.
Advanced(a) ==
  LET wraps == a.head + 1 = a.cqDepth
  IN [a EXCEPT !.head = IF wraps THEN 0 ELSE @ + 1, !.phase = IF wraps THEN 1 - @ ELSE @]
Noted(m, a, c) == [m EXCEPT !.cq[a.cq][a.head] = [cid |-> c, phase |-> a.phase]]

\* What a command does to the I/O queue pair.
PairAfter(i, op) ==
  CASE op = "create_cq" -> [i EXCEPT !.cq = TRUE]
    [] op = "create_sq" -> [i EXCEPT !.sq = i.made + 1, !.made = @ + 1, !.tags = {}, !.rung = {}]
    [] op = "delete_sq" -> [i EXCEPT !.sq = 0]
    [] op = "delete_cq" -> [i EXCEPT !.cq = FALSE]
    [] op = "set_features" -> [i EXCEPT !.polled = TRUE]
    [] OTHER -> i

Devices == [aq : AdminQueue, mem : Memory, io : Pair, posted : Seq(Cids)]

Device(a, m, i, p) == [aq |-> a, mem |-> m, io |-> i, posted |-> p]

\* A completion is noted in the queue, and the queue moves on by an entry.
LEMMA PostDoes ==
  ASSUME NEW a, NEW m, NEW i, NEW p, NEW c, NEW d, d = Device(a, m, i, p)
  PROVE  Post(d, c) = Device(Advanced(a), Noted(m, a, c), i, Append(p, c))
<1>1. d.aq = a /\ d.mem = m /\ d.posted = p
  BY DEF Device
<1>2. Post(d, c) = [[[d EXCEPT !.mem = Noted(m, a, c)] EXCEPT !.aq = Advanced(a)]
                      EXCEPT !.posted = Append(p, c)]
  BY <1>1 DEF Post, Advanced, Noted
<1> QED
  BY <1>2 DEF Device

\* What a command does, its completion and the pair apart.
LEMMA ReqDoes ==
  ASSUME NEW a, NEW m, NEW i \in Pair, NEW p, NEW c \in Request, NEW d, d = Device(a, m, i, p)
  PROVE  ProcAdminReq(d, c) =
           IF c.op = "abort" THEN d
           ELSE Device(Advanced(a), Noted(m, a, c.cid), PairAfter(i, c.op), Append(p, c.cid))
<1>1. c.op \in {"create_cq", "create_sq", "delete_sq", "delete_cq", "identify", "set_features",
                "abort"}
  BY DEF Request, Ops, QueueOps
<1>2. PICK pa : pa = PairAfter(i, c.op)
  OBVIOUS
<1>3. PICK e : e = Device(a, m, pa, p)
  OBVIOUS
<1>4. Post(e, c.cid) = Device(Advanced(a), Noted(m, a, c.cid), pa, Append(p, c.cid))
  BY <1>3, PostDoes
<1>5. CASE c.op = "abort"
  BY <1>5 DEF ProcAdminReq
<1>6. CASE c.op = "create_cq"
  <2>2. PICK b : b = TRUE
    OBVIOUS
  <2>3. CreateCq(d) = [d EXCEPT !.io.cq = b]
    BY <2>2 DEF CreateCq
  <2>4. pa = [i EXCEPT !.cq = b]
    BY <1>2, <1>6, <2>2 DEF PairAfter
  <2>1. CreateCq(d) = e
    BY <1>3, <2>3, <2>4 DEF Device
  <2> QED
    BY <1>2, <1>4, <1>6, <2>1 DEF ProcAdminReq
<1>7. CASE c.op = "create_sq"
  <2>1. d.io = i /\ d.io.made = i.made
    BY DEF Device
  <2>2. pa = [i EXCEPT !.sq = i.made + 1, !.made = i.made + 1, !.tags = {}, !.rung = {}]
    BY <1>2, <1>7 DEF PairAfter, Pair
  <2>3. CreateSq(d) = [d EXCEPT !.io = pa]
    BY <2>1, <2>2 DEF CreateSq, Pair
  <2>4. CreateSq(d) = e
    BY <1>3, <2>3 DEF Device
  <2> QED
    BY <1>2, <1>4, <1>7, <2>4 DEF ProcAdminReq
<1>8. CASE c.op = "delete_sq"
  <2>1. DeleteSq(d) = e
    BY <1>2, <1>3, <1>8 DEF DeleteSq, PairAfter, Device, Pair
  <2> QED
    BY <1>2, <1>4, <1>8, <2>1 DEF ProcAdminReq
<1>9. CASE c.op = "delete_cq"
  <2>2. PICK b : b = FALSE
    OBVIOUS
  <2>3. DeleteCq(d) = [d EXCEPT !.io.cq = b]
    BY <2>2 DEF DeleteCq
  <2>4. pa = [i EXCEPT !.cq = b]
    BY <1>2, <1>9, <2>2 DEF PairAfter
  <2>1. DeleteCq(d) = e
    BY <1>3, <2>3, <2>4 DEF Device
  <2> QED
    BY <1>2, <1>4, <1>9, <2>1 DEF ProcAdminReq
<1>10. CASE c.op = "identify"
  <2>1. d = e
    BY <1>2, <1>3, <1>10 DEF PairAfter
  <2> QED
    BY <1>2, <1>4, <1>10, <2>1 DEF ProcAdminReq, Identify
<1>11. CASE c.op = "set_features"
  <2>2. PICK b : b = TRUE
    OBVIOUS
  <2>3. [d EXCEPT !.io.polled = TRUE] = [d EXCEPT !.io.polled = b]
    BY <2>2
  <2>4. pa = [i EXCEPT !.polled = b]
    BY <1>2, <1>11, <2>2 DEF PairAfter
  <2>1. [d EXCEPT !.io.polled = TRUE] = e
    BY <1>3, <2>3, <2>4 DEF Device
  <2> QED
    BY <1>2, <1>4, <1>11, <2>1 DEF ProcAdminReq, SetFeatures
<1> QED
  BY <1>1, <1>5, <1>6, <1>7, <1>8, <1>9, <1>10, <1>11

\* The pair after a command.
LEMMA PairDoes ==
  ASSUME NEW i \in Pair, NEW op \in Ops, Numbered(i), op = "create_sq" => i.made < MaxQueues,
         NEW r, r = PairAfter(i, op)
  PROVE  /\ r \in Pair /\ Numbered(r) /\ r.bad = i.bad /\ r.flight = i.flight
         /\ IF op = "create_sq" THEN r.made = i.made + 1 /\ r.sq = i.made + 1 /\ r.rung = {}
            ELSE r.made = i.made /\ r.sq \in {0, i.sq} /\ r.rung = i.rung
<1>0. MaxQueues \in Nat /\ i.made \in 0 .. MaxQueues
  BY BoundsAssumption DEF Pair
<1>1. CASE op = "create_sq"
  <2>1. r = [i EXCEPT !.sq = i.made + 1, !.made = i.made + 1, !.tags = {}, !.rung = {}]
    BY <1>1 DEF PairAfter, Pair
  <2>2. i.made + 1 \in 0 .. MaxQueues
    BY <1>0, <1>1
  <2>3. /\ r.bad = i.bad /\ r.flight = i.flight /\ r.made = i.made + 1 /\ r.sq = i.made + 1
        /\ r.rung = {} /\ r \in Pair
    BY <2>1, <2>2 DEF Pair
  <2>4. \A f \in i.flight : f.queue <= i.made => f.queue <= i.made + 1
    BY <1>0 DEF Pair, Flight
  <2> QED
    BY <1>1, <2>3, <2>4 DEF Numbered
<1>2. CASE op # "create_sq"
  <2>1. \/ r = i \/ \E b \in BOOLEAN : r = [i EXCEPT !.cq = b] \/ r = [i EXCEPT !.polled = b]
        \/ r = [i EXCEPT !.sq = 0]
    BY <1>2 DEF PairAfter, Ops, QueueOps
  <2>2. /\ r.bad = i.bad /\ r.flight = i.flight /\ r.made = i.made /\ r.sq \in {0, i.sq}
        /\ r.rung = i.rung /\ r \in Pair
    <3>1. CASE r = i
      BY <3>1
    <3>2. CASE r = [i EXCEPT !.sq = 0]
      BY <1>0, <3>2 DEF Pair
    <3>3. ASSUME NEW b \in BOOLEAN, r = [i EXCEPT !.cq = b] \/ r = [i EXCEPT !.polled = b]
          PROVE  /\ r.bad = i.bad /\ r.flight = i.flight /\ r.made = i.made /\ r.sq \in {0, i.sq}
                 /\ r.rung = i.rung /\ r \in Pair
      BY <3>3 DEF Pair
    <3> QED
      BY <2>1, <3>1, <3>2, <3>3
  <2> QED
    BY <1>2, <2>2 DEF Numbered
<1> QED
  BY <1>1, <1>2

\* The admin queue after a completion: only head and phase have changed.
SameRing(a, b) ==
  /\ b.built = a.built /\ b.sq = a.sq /\ b.cq = a.cq /\ b.sqRoom = a.sqRoom
  /\ b.cqRoom = a.cqRoom /\ b.sqDepth = a.sqDepth /\ b.cqDepth = a.cqDepth
  /\ b.db = a.db /\ b.oldDb = a.oldDb

\* The queue of completions moves on within its depth.
LEMMA AdvancedRing ==
  ASSUME NEW a \in AdminQueue, a.cqDepth = a.sqDepth, a.sqDepth # 0, a.head \in 0 .. a.sqDepth - 1,
         NEW b, b = Advanced(a)
  PROVE  /\ b \in AdminQueue /\ SameRing(a, b)
         /\ b.head = (IF a.head + 1 = a.sqDepth THEN 0 ELSE a.head + 1)
         /\ b.phase = (IF a.head + 1 = a.sqDepth THEN 1 - a.phase ELSE a.phase)
         /\ b.head \in 0 .. a.sqDepth - 1
<1>1. a.sqDepth \in Depths /\ a.sqDepth \in Nat \ {0} /\ 0 .. a.sqDepth - 1 \subseteq Slots
  BY DeepestSlots DEF AdminQueue, Sizes
<1>2. PICK x, y : /\ x = (IF a.head + 1 = a.sqDepth THEN 0 ELSE a.head + 1)
                  /\ y = (IF a.head + 1 = a.sqDepth THEN 1 - a.phase ELSE a.phase)
  OBVIOUS
<1>3. b = [a EXCEPT !.head = x, !.phase = y]
  BY <1>2 DEF Advanced, AdminQueue
<1>4. x \in 0 .. a.sqDepth - 1 /\ y \in Bits
  BY <1>1, <1>2 DEF AdminQueue, Bits
<1>5. x \in Slots
  BY <1>1, <1>4
<1>6. b \in AdminQueue /\ SameRing(a, b) /\ b.head = x /\ b.phase = y
  BY <1>3, <1>4, <1>5 DEF AdminQueue, SameRing
<1> QED
  BY <1>2, <1>4, <1>6

\* What is pending does not depend on head and phase.
LEMMA SamePending ==
  ASSUME NEW a, NEW b, NEW m, NEW w, SameRing(a, b), w.sq = m.sq
  PROVE  \A o : Pending(b, o) = Pending(a, o) /\ \A k : AskedAt(b, w, o, k) = AskedAt(a, m, o, k)
  BY DEF SameRing, Pending, AskedAt

\* The first of the pending commands is taken.
Taken(a, m, i, p, o, c, a2, m2, i2, p2) ==
  /\ a.db # o /\ c = AskedAt(a, m, o, 0)
  /\ IF c.op = "abort" THEN a2 = a /\ m2 = m /\ i2 = i /\ p2 = p
     ELSE a2 = Advanced(a) /\ m2 = Noted(m, a, c.cid) /\ i2 = PairAfter(i, c.op)
          /\ p2 = Append(p, c.cid)
Typed(a, m, i, p) ==
  a \in AdminQueue /\ m \in Memory /\ i \in Pair /\ p \in Seq(Cids) /\ a.cqDepth = a.sqDepth

NotedAt(m, a, c, w) ==
  /\ a.cq \in Bases => /\ w.cq[a.cq][a.head].cid = c /\ w.cq[a.cq][a.head].phase = a.phase
                       /\ \A s \in Slots : s # a.head => w.cq[a.cq][s] = m.cq[a.cq][s]

\* A completion changes one entry of the queue of completions.
LEMMA NotedMemory ==
  ASSUME NEW m \in Memory, NEW a \in AdminQueue, NEW c \in Cids, NEW w, w = Noted(m, a, c)
  PROVE  w \in Memory /\ w.sq = m.sq /\ NotedAt(m, a, c, w)
<1>1. PICK e : e = [cid |-> c, phase |-> a.phase]
  OBVIOUS
<1>2. e \in Entry /\ a.head \in Slots
  BY <1>1 DEF Entry, AdminQueue
<1>3. PICK q : q = [m.cq EXCEPT ![a.cq][a.head] = e]
  OBVIOUS
<1>4. w = [m EXCEPT !.cq = q]
  BY <1>1, <1>3 DEF Noted, Memory
<1>5. m.cq \in [Bases -> [Slots -> Entry]]
  BY DEF Memory
<1>6. q \in [Bases -> [Slots -> Entry]]
  <2>1. ASSUME NEW b \in Bases PROVE q[b] \in [Slots -> Entry]
    <3>1. CASE b = a.cq
      BY <1>2, <1>3, <1>5, <3>1
    <3>2. CASE b # a.cq
      BY <1>3, <1>5, <3>2
    <3> QED
      BY <3>1, <3>2
  <2>2. q = [b \in Bases |-> q[b]]
    BY <1>3, <1>5
  <2> QED
    BY <2>1, <2>2
<1>7. w \in Memory /\ w.sq = m.sq /\ w.cq = q
  BY <1>4, <1>6 DEF Memory
<1>8. a.cq \in Bases => q[a.cq][a.head] = e
  BY <1>2, <1>3, <1>5
<1>9. ASSUME a.cq \in Bases, NEW s \in Slots, s # a.head PROVE q[a.cq][s] = m.cq[a.cq][s]
  BY <1>3, <1>5, <1>9
<1>10. e.cid = c /\ e.phase = a.phase
  BY <1>1
<1> QED
  BY <1>7, <1>8, <1>9, <1>10 DEF NotedAt

\* The window of pending commands shrinks by its first.
LEMMA TakenDoes ==
  ASSUME NEW a, NEW m, NEW i, NEW p, NEW o, NEW c, NEW a2, NEW m2, NEW i2, NEW p2,
         Typed(a, m, i, p), Inside(a, o), Asks(a, m, i, o), Numbered(i),
         Taken(a, m, i, p, o, c, a2, m2, i2, p2), NEW n, n = Ahead(o, 1, a.sqDepth)
  PROVE  /\ Typed(a2, m2, i2, p2) /\ SameRing(a, a2) /\ m2.sq = m.sq /\ c \in Request
         /\ Inside(a2, n) /\ Numbered(i2)
         /\ Pending(a2, n) = Pending(a, o) - 1 /\ Pending(a2, n) \in Nat /\ Pending(a, o) \in Nat \ {0}
         /\ \A k \in 0 .. Pending(a2, n) - 1 :
              /\ k + 1 \in 0 .. Pending(a, o) - 1
              /\ AskedAt(a2, m2, n, k) = AskedAt(a, m, o, k + 1)
<1>1. /\ a \in AdminQueue /\ m \in Memory /\ i \in Pair /\ p \in Seq(Cids)
      /\ a.cqDepth = a.sqDepth /\ a.db # o /\ c = AskedAt(a, m, o, 0)
  BY DEF Typed, Taken
<1>2. /\ a.sqDepth # 0 /\ a.sqDepth \in Nat /\ a.head \in 0 .. a.sqDepth - 1
      /\ Pending(a, o) \in Nat \ {0}
  BY <1>1, PendingRange
<1>3. 0 \in 0 .. Pending(a, o) - 1
  BY <1>2
<1>4. c \in Request /\ (c.op = "create_sq" => i.made < MaxQueues)
  BY <1>1, <1>3 DEF Asks, AsksOk
<1>5. c.op \in Ops /\ c.cid \in Cids
  BY <1>4 DEF Request
<1>6. /\ a2 \in AdminQueue /\ SameRing(a, a2) /\ a2.cqDepth = a2.sqDepth
      /\ a2.head \in 0 .. a.sqDepth - 1
  <2>1. CASE c.op = "abort"
    BY <1>1, <1>2, <2>1 DEF Taken, SameRing
  <2>2. CASE c.op # "abort"
    <3>1. a2 = Advanced(a)
      BY <2>2 DEF Taken
    <3>2. a2 \in AdminQueue /\ SameRing(a, a2) /\ a2.head \in 0 .. a.sqDepth - 1
      BY <1>1, <1>2, <3>1, AdvancedRing
    <3> QED
      BY <1>1, <3>2 DEF SameRing
  <2> QED
    BY <2>1, <2>2
<1>7. m2 \in Memory /\ m2.sq = m.sq
  <2>1. CASE c.op = "abort"
    BY <1>1, <2>1 DEF Taken
  <2>2. CASE c.op # "abort"
    <3>1. m2 = Noted(m, a, c.cid)
      BY <2>2 DEF Taken
    <3> QED
      BY <1>1, <1>5, <3>1, NotedMemory
  <2> QED
    BY <2>1, <2>2
<1>8. i2 \in Pair /\ Numbered(i2)
  <2>1. CASE c.op = "abort"
    BY <1>1, <2>1 DEF Taken
  <2>2. CASE c.op # "abort"
    <3>1. i2 = PairAfter(i, c.op)
      BY <2>2 DEF Taken
    <3> QED
      BY <1>1, <1>4, <1>5, <3>1, PairDoes
  <2> QED
    BY <2>1, <2>2
<1>9. p2 \in Seq(Cids)
  <2>1. CASE c.op = "abort"
    BY <1>1, <2>1 DEF Taken
  <2>2. CASE c.op # "abort"
    <3>1. p2 = Append(p, c.cid)
      BY <2>2 DEF Taken
    <3> QED
      BY <1>1, <1>5, <3>1, AppendProperties
  <2> QED
    BY <2>1, <2>2
<1>10. /\ Inside(a, n) /\ Pending(a, n) = Pending(a, o) - 1
       /\ \A k \in 0 .. Pending(a, n) - 1 :
            k + 1 \in 0 .. Pending(a, o) - 1
            /\ \A w : AskedAt(a, w, n, k) = AskedAt(a, w, o, k + 1)
  BY <1>1, PendingNext
<1>11. Inside(a2, n)
  BY <1>2, <1>6, <1>10 DEF Inside, SameRing
<1>12. /\ Pending(a2, n) = Pending(a, n)
       /\ \A k : AskedAt(a2, m2, n, k) = AskedAt(a, m, n, k)
  BY <1>6, <1>7, SamePending
<1>13. Pending(a, o) - 1 \in Nat
  BY <1>2
<1>14. Typed(a2, m2, i2, p2)
  BY <1>6, <1>7, <1>8, <1>9 DEF Typed
<1> QED
  BY <1>2, <1>4, <1>6, <1>7, <1>8, <1>10, <1>11, <1>12, <1>13, <1>14

\* The commands after it are as they were.
LEMMA AsksOn ==
  ASSUME NEW a, NEW m, NEW i, NEW p, NEW o, NEW c, NEW a2, NEW m2, NEW i2, NEW p2,
         Typed(a, m, i, p), Inside(a, o), Asks(a, m, i, o), Numbered(i),
         Taken(a, m, i, p, o, c, a2, m2, i2, p2), NEW n, n = Ahead(o, 1, a.sqDepth)
  PROVE  Asks(a2, m2, i2, n)
<1>1. /\ Pending(a2, n) = Pending(a, o) - 1 /\ Pending(a2, n) \in Nat /\ c \in Request
      /\ Pending(a, o) \in Nat \ {0}
      /\ \A k \in 0 .. Pending(a2, n) - 1 :
           /\ k + 1 \in 0 .. Pending(a, o) - 1
           /\ AskedAt(a2, m2, n, k) = AskedAt(a, m, o, k + 1)
  BY TakenDoes
<1>2. PICK P : P = Pending(a, o)
  OBVIOUS
<1>3. c = AskedAt(a, m, o, 0) /\ 0 \in 0 .. P - 1 /\ P \in Nat
  BY <1>1, <1>2 DEF Taken
<1>4. ASSUME NEW k \in 0 .. P - 2
      PROVE  AsksOk(a2, m2, i2, n, P - 1, k)
  <2>1. PICK e : e = AskedAt(a2, m2, n, k)
    OBVIOUS
  <2>2. k \in 0 .. Pending(a2, n) - 1 /\ k + 1 \in 0 .. P - 1 /\ k + 1 # 0
    BY <1>1, <1>2, <1>3
  <2>3. e = AskedAt(a, m, o, k + 1)
    BY <1>1, <2>1, <2>2
  <2>4. /\ e \in Request /\ (e.op = "create_sq" => i.made < MaxQueues)
        /\ e.op \in QueueOps => \A x \in 0 .. P - 1 : x # k + 1 => AskedAt(a, m, o, x).op \notin QueueOps
    BY <1>2, <2>2, <2>3 DEF Asks, AsksOk
  <2>5. ASSUME e.op \in QueueOps, NEW x \in 0 .. P - 2, x # k
        PROVE  AskedAt(a2, m2, n, x).op \notin QueueOps
    <3>1. x \in 0 .. Pending(a2, n) - 1 /\ x + 1 \in 0 .. P - 1 /\ x + 1 # k + 1
      BY <1>1, <1>2, <1>3, <2>5
    <3>2. AskedAt(a2, m2, n, x) = AskedAt(a, m, o, x + 1)
      BY <1>1, <3>1
    <3> QED
      BY <2>4, <2>5, <3>1, <3>2
  <2>6. ASSUME e.op = "create_sq" PROVE i2.made < MaxQueues
    <3>1. e.op \in QueueOps
      BY <2>6 DEF QueueOps
    <3>2. c.op \notin QueueOps
      BY <1>3, <2>2, <2>4, <3>1
    <3>3. c.op # "create_sq"
      BY <3>2 DEF QueueOps
    <3>4. i2.made = i.made
      <4>1. CASE c.op = "abort"
        BY <4>1 DEF Taken
      <4>2. CASE c.op # "abort"
        <5>1. i2 = PairAfter(i, c.op) /\ i \in Pair /\ c.op \in Ops
          BY <1>1, <4>2 DEF Taken, Typed, Request
        <5> QED
          BY <3>3, <5>1, PairDoes
      <4> QED
        BY <4>1, <4>2
    <3> QED
      BY <2>4, <2>6, <3>4
  <2>7. (P - 1) - 1 = P - 2
    BY <1>3
  <2> QED
    BY <2>1, <2>4, <2>5, <2>6, <2>7 DEF AsksOk
<1>5. Pending(a2, n) = P - 1 /\ (P - 1) - 1 = P - 2
  BY <1>1, <1>2, <1>3
<1>6. ASSUME NEW k \in 0 .. Pending(a2, n) - 1 PROVE AsksOk(a2, m2, i2, n, Pending(a2, n), k)
  <2>1. k \in 0 .. P - 2
    BY <1>5
  <2> QED
    BY <1>4, <1>5, <2>1
<1> QED
  BY <1>6 DEF Asks

\* The completions, and of a host that is up what it can tell of them.
Listed(p, c, p2) ==
  /\ Len(p) \in Nat /\ Len(p2) \in Nat /\ Len(p2) <= Len(p) + 1 /\ Len(p) <= Len(p2)
  /\ \A j \in 1 .. Len(p) : j \in 1 .. Len(p2) /\ p2[j] = p[j]
  /\ \A j \in 1 .. Len(p2) :
       j \in 1 .. Len(p) \/ (j = Len(p) + 1 /\ c.op # "abort" /\ p2[j] = c.cid)
  /\ c.op # "abort" => Len(p2) = Len(p) + 1

\* At most one completion is posted.
LEMMA TakenList ==
  ASSUME NEW a, NEW m, NEW i, NEW p \in Seq(Cids), NEW o, NEW c, NEW a2, NEW m2, NEW i2, NEW p2,
         c.cid \in Cids, Taken(a, m, i, p, o, c, a2, m2, i2, p2)
  PROVE  Listed(p, c, p2)
<1>1. Len(p) \in Nat
  BY LenProperties
<1>2. CASE c.op = "abort"
  BY <1>1, <1>2 DEF Taken, Listed
<1>3. CASE c.op # "abort"
  <2>1. p2 = Append(p, c.cid)
    BY <1>3 DEF Taken
  <2>2. /\ Len(p2) = Len(p) + 1 /\ p2[Len(p) + 1] = c.cid
        /\ \A j \in 1 .. Len(p) : p2[j] = p[j]
    BY <2>1, AppendProperties
  <2> QED
    BY <1>1, <1>3, <2>2 DEF Listed
<1> QED
  BY <1>2, <1>3

\* No more completions and commands are about than are outstanding.
LEMMA CountedOn ==
  ASSUME NEW h, NEW a, NEW m, NEW i, NEW p, NEW o, NEW c, NEW a2, NEW m2, NEW i2, NEW p2,
         Typed(a, m, i, p), Inside(a, o), Asks(a, m, i, o), Numbered(i),
         Taken(a, m, i, p, o, c, a2, m2, i2, p2), NEW n, n = Ahead(o, 1, a.sqDepth),
         Counted(h, a, p, o)
  PROVE  Counted(h, a2, p2, n)
<1>1. /\ SameRing(a, a2) /\ c \in Request /\ Pending(a2, n) = Pending(a, o) - 1
      /\ Pending(a, o) \in Nat \ {0}
  BY TakenDoes
<1>2. p \in Seq(Cids) /\ c.cid \in Cids
  BY <1>1 DEF Typed, Request
<1>3. Len(p) \in Nat /\ Len(p2) \in Nat /\ Len(p2) <= Len(p) + 1
  <2>1. Listed(p, c, p2)
    BY <1>2, TakenList
  <2> QED
    BY <2>1 DEF Listed
<1>4. a2.sqDepth = a.sqDepth
  BY <1>1 DEF SameRing
<1>5. IsFiniteSet(h.out) /\ Cardinality(h.out) \in Nat
  BY FS_CardinalityType DEF Counted
<1> QED
  BY <1>1, <1>3, <1>4, <1>5 DEF Counted

\* Commands and completions keep telling the outstanding ones apart.
LEMMA DistinctOn ==
  ASSUME NEW h, NEW a, NEW m, NEW i, NEW p, NEW o, NEW c, NEW a2, NEW m2, NEW i2, NEW p2,
         Typed(a, m, i, p), Inside(a, o), Asks(a, m, i, o), Numbered(i),
         Taken(a, m, i, p, o, c, a2, m2, i2, p2), NEW n, n = Ahead(o, 1, a.sqDepth),
         Distinct(h, a, m, p, o)
  PROVE  Distinct(h, a2, m2, p2, n) /\ c \in h.out
<1>1. /\ Pending(a2, n) = Pending(a, o) - 1 /\ Pending(a2, n) \in Nat /\ c \in Request
      /\ Pending(a, o) \in Nat \ {0}
      /\ \A k \in 0 .. Pending(a2, n) - 1 :
           /\ k + 1 \in 0 .. Pending(a, o) - 1
           /\ AskedAt(a2, m2, n, k) = AskedAt(a, m, o, k + 1)
  BY TakenDoes
<1>2. p \in Seq(Cids) /\ c.cid \in Cids
  BY <1>1 DEF Typed, Request
<1>3. /\ Len(p) \in Nat /\ Len(p2) \in Nat
      /\ \A j \in 1 .. Len(p) : j \in 1 .. Len(p2) /\ p2[j] = p[j]
      /\ \A j \in 1 .. Len(p2) :
           j \in 1 .. Len(p) \/ (j = Len(p) + 1 /\ c.op # "abort" /\ p2[j] = c.cid)
  <2>1. Listed(p, c, p2)
    BY <1>2, TakenList
  <2> QED
    BY <2>1 DEF Listed
<1>4. c = AskedAt(a, m, o, 0) /\ 0 \in 0 .. Pending(a, o) - 1
  BY <1>1 DEF Taken
<1>5. c \in h.out
  BY <1>4 DEF Distinct
<1>6. ASSUME NEW k \in 0 .. Pending(a2, n) - 1
      PROVE  /\ AskedAt(a2, m2, n, k) \in h.out
             /\ AskedAt(a2, m2, n, k).cid # c.cid
             /\ \A j \in 1 .. Len(p) : p[j] # AskedAt(a2, m2, n, k).cid
  <2>1. k + 1 \in 0 .. Pending(a, o) - 1 /\ AskedAt(a2, m2, n, k) = AskedAt(a, m, o, k + 1) /\ k + 1 # 0
    BY <1>1
  <2> QED
    BY <1>4, <2>1 DEF Distinct
<1>7. ASSUME NEW k \in 0 .. Pending(a2, n) - 1, NEW x \in 0 .. Pending(a2, n) - 1,
             AskedAt(a2, m2, n, k).cid = AskedAt(a2, m2, n, x).cid
      PROVE  k = x
  <2>1. /\ k + 1 \in 0 .. Pending(a, o) - 1 /\ AskedAt(a2, m2, n, k) = AskedAt(a, m, o, k + 1)
        /\ x + 1 \in 0 .. Pending(a, o) - 1 /\ AskedAt(a2, m2, n, x) = AskedAt(a, m, o, x + 1)
    BY <1>1
  <2>2. k + 1 = x + 1
    BY <1>7, <2>1 DEF Distinct
  <2> QED
    BY <1>1, <2>2
<1>8. \A j \in 1 .. Len(p) : p[j] # c.cid /\ \E e \in h.out : e.cid = p[j]
  BY <1>4 DEF Distinct
<1>9. \A j \in 1 .. Len(p2) : \E e \in h.out : e.cid = p2[j]
  BY <1>3, <1>5, <1>8
<1>10. ASSUME NEW j \in 1 .. Len(p2), NEW x \in 1 .. Len(p2), p2[j] = p2[x] PROVE j = x
  <2>1. CASE j \in 1 .. Len(p) /\ x \in 1 .. Len(p)
    BY <1>3, <1>10, <2>1 DEF Distinct
  <2>2. CASE ~ (j \in 1 .. Len(p) /\ x \in 1 .. Len(p))
    BY <1>3, <1>8, <1>10, <2>2
  <2> QED
    BY <2>1, <2>2
<1>11. ASSUME NEW j \in 1 .. Len(p2), NEW k \in 0 .. Pending(a2, n) - 1
       PROVE  p2[j] # AskedAt(a2, m2, n, k).cid
  <2>1. PICK y : y = AskedAt(a2, m2, n, k).cid
    OBVIOUS
  <2>2. y # c.cid /\ \A x \in 1 .. Len(p) : p[x] # y
    BY <1>6, <2>1
  <2> QED
    BY <1>3, <2>1, <2>2
<1>12. \A d, e \in h.out : d.cid = e.cid => d = e
  BY DEF Distinct
<1> QED
  BY <1>5, <1>6, <1>7, <1>9, <1>10, <1>11, <1>12 DEF Distinct

\* Places in a ring and the phases of the passes through it.
LEMMA RingStep ==
  ASSUME NEW D \in Nat \ {0}, NEW x \in 0 .. D - 1, NEW L \in 0 .. D - 1
  PROVE  /\ L + 1 <= D - 1 => Ahead(x, L + 1, D) = IF Ahead(x, L, D) + 1 = D THEN 0
                                                 ELSE Ahead(x, L, D) + 1
         /\ \A j \in 0 .. D - 1 : j # L => Ahead(x, j, D) # Ahead(x, L, D)
         /\ \A j \in 0 .. D - 1 : Ahead(x, j, D) \in 0 .. D - 1
         /\ Ahead(x, L, D) + 1 = D <=> x + L + 1 = D \/ (x + L + 1 = D + D)
  BY DEF Ahead

\* The completions are in the queue from the head of the driver on.
LEMMA ShownOn ==
  ASSUME NEW h \in Driver, NEW a, NEW m, NEW i, NEW p, NEW o, NEW c, NEW a2, NEW m2, NEW i2, NEW p2,
         Typed(a, m, i, p), Inside(a, o), Asks(a, m, i, o), Numbered(i),
         Taken(a, m, i, p, o, c, a2, m2, i2, p2), InRing(h, a), Counted(h, a, p, o),
         Shown(h, a, m, p)
  PROVE  Shown(h, a2, m2, p2)
<1>1. /\ SameRing(a, a2) /\ c \in Request /\ Pending(a, o) \in Nat \ {0}
  <2>1. PICK n : n = Ahead(o, 1, a.sqDepth)
    OBVIOUS
  <2> QED
    BY <2>1, TakenDoes
<1>2. p \in Seq(Cids) /\ c.cid \in Cids /\ a \in AdminQueue /\ m \in Memory /\ a.cqDepth = a.sqDepth
  BY <1>1 DEF Typed, Request
<1>3. /\ Len(p) \in Nat /\ Len(p2) \in Nat
      /\ \A j \in 1 .. Len(p) : p2[j] = p[j]
      /\ c.op # "abort" => Len(p2) = Len(p) + 1 /\ p2[Len(p) + 1] = c.cid
  <2>1. /\ Len(p) \in Nat /\ Len(p2) \in Nat
        /\ \A j \in 1 .. Len(p) : p2[j] = p[j]
        /\ \A j \in 1 .. Len(p2) :
             j \in 1 .. Len(p) \/ (j = Len(p) + 1 /\ c.op # "abort" /\ p2[j] = c.cid)
        /\ c.op # "abort" => Len(p2) = Len(p) + 1
    <3>1. Listed(p, c, p2)
      BY <1>2, TakenList
    <3> QED
      BY <3>1 DEF Listed
  <2> QED
    BY <2>1
<1>4. CASE c.op = "abort"
  BY <1>4 DEF Taken
<1>5. CASE c.op # "abort"
  <2>1. PICK D, x, L : D = a.sqDepth /\ x = h.head /\ L = Len(p)
    OBVIOUS
  <2>2. D \in Nat \ {0} /\ x \in 0 .. D - 1 /\ L \in 0 .. D - 1 /\ L + 1 <= D - 1
    <3>1. a.sqDepth \in Nat /\ h.head \in Nat
      BY <1>2, DeepestSlots DEF AdminQueue, Sizes, Driver
    <3>2. IsFiniteSet(h.out) /\ Cardinality(h.out) \in Nat
      BY FS_CardinalityType DEF Counted
    <3> QED
      BY <1>1, <1>3, <2>1, <3>1, <3>2 DEF Counted, InRing
  <2>3. /\ a2 = Advanced(a) /\ m2 = Noted(m, a, c.cid)
    BY <1>5 DEF Taken
  <2>4. a.head = Ahead(x, L, D) /\ a.phase = PhaseAt(h, L, D) /\ a.cq \in Bases
    BY <2>1 DEF Shown, InRing
  <2>5. /\ a2.head = (IF a.head + 1 = D THEN 0 ELSE a.head + 1)
        /\ a2.phase = (IF a.head + 1 = D THEN 1 - a.phase ELSE a.phase)
    <3>1. a.sqDepth # 0 /\ a.head \in 0 .. a.sqDepth - 1
      BY <2>1, <2>2, <2>4 DEF Ahead
    <3> QED
      BY <1>2, <2>1, <2>3, <3>1, AdvancedRing
  <2>6. NotedAt(m, a, c.cid, m2)
    BY <1>2, <2>3, NotedMemory
  <2>7. a2.cq = a.cq /\ a2.sqDepth = D
    BY <1>1, <2>1 DEF SameRing
  <2>8. a2.head = Ahead(x, L + 1, D)
    BY <2>2, <2>4, <2>5, RingStep
  <2>9. a2.phase = PhaseAt(h, L + 1, D)
    <3>1. h.phase \in {0, 1} /\ h.head = x
      BY <2>1 DEF Driver, Bits
    <3>2. x + L >= D => (Ahead(x, L, D) + 1 # D /\ x + L + 1 >= D)
      BY <2>2 DEF Ahead
    <3>3. x + L < D => (Ahead(x, L, D) + 1 = D <=> x + L + 1 >= D)
      BY <2>2 DEF Ahead
    <3>4. CASE x + L >= D
      BY <2>2, <2>4, <2>5, <3>1, <3>2, <3>4 DEF PhaseAt
    <3>5. CASE x + L < D
      BY <2>2, <2>4, <2>5, <3>1, <3>3, <3>5 DEF PhaseAt
    <3> QED
      BY <2>2, <3>4, <3>5
  <2>10. 0 .. D - 1 \subseteq Slots
    BY <1>2, <2>1, <2>2, DeepestSlots DEF AdminQueue, Sizes
  <2>11. ASSUME NEW j \in 0 .. D - 1
         PROVE  IF j < L + 1
                THEN /\ m2.cq[a.cq][Ahead(x, j, D)].cid = p2[j + 1]
                     /\ m2.cq[a.cq][Ahead(x, j, D)].phase = PhaseAt(h, j, D)
                ELSE m2.cq[a.cq][Ahead(x, j, D)].phase # PhaseAt(h, j, D)
    <3>1. CASE j = L
      BY <1>3, <1>5, <2>1, <2>4, <2>6, <3>1 DEF NotedAt
    <3>2. CASE j # L
      <4>1. Ahead(x, j, D) # a.head /\ Ahead(x, j, D) \in 0 .. D - 1
        <5>1. Ahead(x, j, D) # Ahead(x, L, D) /\ Ahead(x, j, D) \in 0 .. D - 1
          BY <2>2, <3>2 DEF Ahead
        <5> QED
          BY <2>4, <5>1
      <4>2. m2.cq[a.cq][Ahead(x, j, D)] = m.cq[a.cq][Ahead(x, j, D)]
        BY <2>4, <2>6, <2>10, <4>1 DEF NotedAt
      <4>3. IF j < L
            THEN /\ m.cq[a.cq][Ahead(x, j, D)].cid = p[j + 1]
                 /\ m.cq[a.cq][Ahead(x, j, D)].phase = PhaseAt(h, j, D)
            ELSE m.cq[a.cq][Ahead(x, j, D)].phase # PhaseAt(h, j, D)
        BY <2>1 DEF Shown
      <4>4. j < L => p2[j + 1] = p[j + 1]
        <5>1. j < L => j + 1 \in 1 .. L
          BY <2>2
        <5> QED
          BY <1>3, <2>1, <5>1
      <4>5. j < L <=> j < L + 1
        BY <2>2, <3>2
      <4> QED
        BY <4>2, <4>3, <4>4, <4>5
    <3> QED
      BY <3>1, <3>2
  <2>12. Len(p2) = L + 1
    BY <1>3, <1>5, <2>1
  <2> QED
    BY <2>1, <2>7, <2>8, <2>9, <2>11, <2>12 DEF Shown
<1> QED
  BY <1>4, <1>5

\* With the phase of an earlier start, none is seen, and the queue never wraps.
LEMMA HiddenOn ==
  ASSUME NEW h \in Driver, NEW a, NEW m, NEW i, NEW p, NEW o, NEW c, NEW a2, NEW m2, NEW i2, NEW p2,
         Typed(a, m, i, p), Inside(a, o), Asks(a, m, i, o), Numbered(i),
         Taken(a, m, i, p, o, c, a2, m2, i2, p2), InRing(h, a), Counted(h, a, p, o),
         Hidden(h, a, m, p)
  PROVE  Hidden(h, a2, m2, p2)
<1>1. /\ SameRing(a, a2) /\ c \in Request /\ Pending(a, o) \in Nat \ {0}
  <2>1. PICK n : n = Ahead(o, 1, a.sqDepth)
    OBVIOUS
  <2> QED
    BY <2>1, TakenDoes
<1>2. p \in Seq(Cids) /\ c.cid \in Cids /\ a \in AdminQueue /\ m \in Memory /\ a.cqDepth = a.sqDepth
  BY <1>1 DEF Typed, Request
<1>3. CASE c.op = "abort"
  BY <1>3 DEF Taken
<1>4. CASE c.op # "abort"
  <2>1. PICK D, L : D = a.sqDepth /\ L = Len(p)
    OBVIOUS
  <2>2. Len(p2) = L + 1
    <3>1. Listed(p, c, p2)
      BY <1>2, TakenList
    <3> QED
      BY <1>4, <2>1, <3>1 DEF Listed
  <2>3. D \in Nat \ {0} /\ L \in 0 .. D - 1 /\ L + 1 <= D - 1
    <3>1. a.sqDepth \in Nat /\ Len(p) \in Nat
      <4>1. a.sqDepth \in Nat
        BY <1>2, DeepestSlots DEF AdminQueue, Sizes
      <4>2. Len(p) \in Nat
        BY <1>2
      <4> QED
        BY <4>1, <4>2
    <3>2. IsFiniteSet(h.out) /\ Cardinality(h.out) \in Nat
      BY FS_CardinalityType DEF Counted
    <3> QED
      BY <1>1, <2>1, <3>1, <3>2 DEF Counted
  <2>4. a2 = Advanced(a) /\ m2 = Noted(m, a, c.cid)
    BY <1>4 DEF Taken
  <2>5. a.head = L /\ a.phase = 0 /\ a.cq \in Bases
    BY <2>1 DEF Hidden, InRing
  <2>6. a2.head = L + 1 /\ a2.phase = 0
    <3>1. a.sqDepth # 0 /\ a.head \in 0 .. a.sqDepth - 1 /\ a.head + 1 # a.sqDepth
      BY <2>1, <2>3, <2>5
    <3> QED
      BY <1>2, <2>4, <2>5, <3>1, AdvancedRing
  <2>7. NotedAt(m, a, c.cid, m2)
    BY <1>2, <2>4, NotedMemory
  <2>8. a2.cq = a.cq /\ a2.sqDepth = D
    BY <1>1, <2>1 DEF SameRing
  <2>9. 0 .. D - 1 \subseteq Slots
    BY <1>2, <2>1, <2>3, DeepestSlots DEF AdminQueue, Sizes
  <2>10. ASSUME NEW j \in 0 .. D - 1 PROVE m2.cq[a.cq][j].phase = 0
    <3>1. CASE j = a.head
      BY <2>5, <2>7, <3>1 DEF NotedAt
    <3>2. CASE j # a.head
      <4>1. m2.cq[a.cq][j] = m.cq[a.cq][j]
        BY <2>5, <2>7, <2>9, <3>2 DEF NotedAt
      <4> QED
        BY <2>1, <4>1 DEF Hidden
    <3> QED
      BY <3>1, <3>2
  <2> QED
    BY <2>2, <2>6, <2>8, <2>10 DEF Hidden
<1> QED
  BY <1>3, <1>4

\* The queue pair as the host knows it.
LEMMA CurrentOn ==
  ASSUME NEW h, NEW a, NEW m, NEW i, NEW p, NEW o, NEW c, NEW a2, NEW m2, NEW i2, NEW p2,
         Typed(a, m, i, p), Inside(a, o), Asks(a, m, i, o), Numbered(i),
         Taken(a, m, i, p, o, c, a2, m2, i2, p2), Distinct(h, a, m, p, o), OneQueueOp(h),
         Current(h, i, p)
  PROVE  Current(h, i2, p2)
<1>1. c \in Request /\ c \in h.out
  <2>1. PICK n : n = Ahead(o, 1, a.sqDepth)
    OBVIOUS
  <2> QED
    BY <2>1, TakenDoes, DistinctOn
<1>2. p \in Seq(Cids) /\ c.cid \in Cids /\ i \in Pair /\ c.op \in Ops
  BY <1>1 DEF Typed, Request
<1>3. CASE c.op = "abort"
  BY <1>3 DEF Taken
<1>4. CASE c.op = "create_sq"
  <2>1. i2 = PairAfter(i, c.op)
    BY <1>4 DEF Taken
  <2>2. i.made < MaxQueues
    <3>1. 0 \in 0 .. Pending(a, o) - 1 /\ c = AskedAt(a, m, o, 0)
      <4>1. PICK n : n = Ahead(o, 1, a.sqDepth)
        OBVIOUS
      <4>2. Pending(a, o) \in Nat \ {0}
        BY <4>1, TakenDoes
      <4> QED
        BY <4>2 DEF Taken
    <3> QED
      BY <1>4, <3>1 DEF Asks, AsksOk
  <2>3. i2.flight = i.flight /\ i2.sq = i.made + 1 /\ i2.rung = {}
    BY <1>2, <1>4, <2>1, <2>2, PairDoes
  <2>4. i.made \in Nat /\ \A f \in i.flight : f.queue <= i.made /\ f.queue \in Nat
    BY <1>2, BoundsAssumption DEF Numbered, Pair, Flight
  <2>5. \A f \in i2.flight : f.queue # i2.sq
    BY <2>3, <2>4
  <2> QED
    BY <2>3, <2>5 DEF Current
<1>5. CASE c.op \notin {"abort", "create_sq"}
  <2>1. i2 = PairAfter(i, c.op)
    BY <1>5 DEF Taken
  <2>2. i2.flight = i.flight /\ i2.sq \in {0, i.sq} /\ i2.rung = i.rung /\ i2.bad = i.bad
    BY <1>2, <1>5, <2>1, PairDoes
  <2>3. \A f \in i.flight : f.queue # 0
    BY <1>2 DEF Pair, Flight
  <2>4. Made(h, p2) => Made(h, p)
    <3>1. /\ Len(p) \in Nat
          /\ \A j \in 1 .. Len(p2) :
               j \in 1 .. Len(p) \/ (j = Len(p) + 1 /\ c.op # "abort" /\ p2[j] = c.cid)
          /\ \A j \in 1 .. Len(p) : p2[j] = p[j]
      <4>1. Listed(p, c, p2)
        BY <1>2, TakenList
      <4> QED
        BY <4>1 DEF Listed
    <3>2. ASSUME NEW e \in h.out, e.op = "create_sq", NEW j \in 1 .. Len(p2), p2[j] = e.cid
          PROVE  \E x \in 1 .. Len(p) : p[x] = e.cid
      <4>1. e # c
        BY <1>5, <3>2
      <4>2. e.cid # c.cid
        BY <1>1, <4>1 DEF Distinct
      <4> QED
        BY <3>1, <3>2, <4>2
    <3> QED
      BY <3>2 DEF Made
  <2> QED
    BY <2>2, <2>3, <2>4 DEF Current
<1> QED
  BY <1>3, <1>4, <1>5

\* Between two commands everything that holds holds again.
LEMMA GoingOn ==
  ASSUME NEW h \in Driver, NEW a, NEW m, NEW i, NEW p, NEW o, NEW c, NEW a2, NEW m2, NEW i2, NEW p2,
         Typed(a, m, i, p), Going(h, a, m, i, p, o),
         Taken(a, m, i, p, o, c, a2, m2, i2, p2), NEW n, n = Ahead(o, 1, a.sqDepth)
  PROVE  Typed(a2, m2, i2, p2) /\ SameRing(a, a2) /\ m2.sq = m.sq /\ Going(h, a2, m2, i2, p2, n)
<1>1. Inside(a, o) /\ Asks(a, m, i, o) /\ Numbered(i)
  BY DEF Going
<1>2. /\ Typed(a2, m2, i2, p2) /\ SameRing(a, a2) /\ m2.sq = m.sq /\ Inside(a2, n) /\ Numbered(i2)
  BY <1>1, TakenDoes
<1>3. Asks(a2, m2, i2, n)
  BY <1>1, AsksOn
<1>4. ASSUME h.step = "up"
      PROVE  /\ InRing(h, a2) /\ Counted(h, a2, p2, n) /\ Distinct(h, a2, m2, p2, n)
             /\ Written(h, a2, m2, p2) /\ OneQueueOp(h) /\ Current(h, i2, p2)
  <2>1. /\ InRing(h, a) /\ Counted(h, a, p, o) /\ Distinct(h, a, m, p, o) /\ Written(h, a, m, p)
        /\ OneQueueOp(h) /\ Current(h, i, p)
    BY <1>4 DEF Going
  <2>2. InRing(h, a2)
    BY <1>2, <2>1 DEF InRing, SameRing
  <2>3. Counted(h, a2, p2, n)
    BY <1>1, <2>1, CountedOn
  <2>4. Distinct(h, a2, m2, p2, n)
    BY <1>1, <2>1, DistinctOn
  <2>5. Written(h, a2, m2, p2)
    BY <1>1, <2>1, ShownOn, HiddenOn DEF Written
  <2>6. Current(h, i2, p2)
    BY <1>1, <2>1, CurrentOn
  <2> QED
    BY <2>1, <2>2, <2>3, <2>4, <2>5, <2>6
<1> QED
  BY <1>2, <1>3, <1>4 DEF Going

-----------------------------------------------------------------------------
(* All pending commands: what nvmev_proc_admin_sq does.                     *)

\* What is true between two commands does not depend on the old doorbell, the
\* pages of the queues or how the queue was made.
SameUse(a, b) ==
  b.sq = a.sq /\ b.cq = a.cq /\ b.sqDepth = a.sqDepth /\ b.db = a.db /\ b.head = a.head
  /\ b.phase = a.phase

\* Only the use of the admin queue matters.
LEMMA GoingSame ==
  ASSUME NEW h, NEW a, NEW m, NEW i, NEW p, NEW o, NEW b, Going(h, a, m, i, p, o), SameUse(a, b)
  PROVE  Going(h, b, m, i, p, o)
<1>1. Pending(b, o) = Pending(a, o) /\ \A k : AskedAt(b, m, o, k) = AskedAt(a, m, o, k)
  BY DEF SameUse, Pending, AskedAt
<1>2. Inside(b, o) /\ Numbered(i)
  BY DEF Going, Inside, SameUse
<1>3. Asks(b, m, i, o)
  <2>1. Asks(a, m, i, o)
    BY DEF Going
  <2>2. ASSUME NEW k \in 0 .. Pending(b, o) - 1 PROVE AsksOk(b, m, i, o, Pending(b, o), k)
    <3>1. k \in 0 .. Pending(a, o) - 1 /\ Pending(b, o) = Pending(a, o)
      BY <1>1
    <3>2. AsksOk(a, m, i, o, Pending(a, o), k)
      BY <2>1, <3>1 DEF Asks
    <3> QED
      BY <1>1, <3>1, <3>2 DEF AsksOk
  <2> QED
    BY <2>2 DEF Asks
<1>4. ASSUME h.step = "up"
      PROVE  /\ InRing(h, b) /\ Counted(h, b, p, o) /\ Distinct(h, b, m, p, o) /\ Written(h, b, m, p)
             /\ OneQueueOp(h) /\ Current(h, i, p)
  <2>1. /\ InRing(h, a) /\ Counted(h, a, p, o) /\ Distinct(h, a, m, p, o) /\ Written(h, a, m, p)
        /\ OneQueueOp(h) /\ Current(h, i, p)
    BY <1>4 DEF Going
  <2>2. InRing(h, b)
    BY <2>1 DEF InRing, SameUse
  <2>3. Counted(h, b, p, o)
    BY <1>1, <2>1 DEF Counted, SameUse
  <2>4. Distinct(h, b, m, p, o)
    BY <1>1, <2>1 DEF Distinct
  <2>5. Written(h, b, m, p)
    BY <2>1 DEF Written, Shown, Hidden, SameUse
  <2> QED
    BY <2>1, <2>2, <2>3, <2>4, <2>5
<1> QED
  BY <1>2, <1>3, <1>4 DEF Going

\* After the first n commands.
Good(d, n) ==
  /\ Typed(d.aq, d.mem, d.io, d.posted) /\ SameRing(aq, d.aq) /\ d.mem.sq = mem.sq
  /\ Going(host, d.aq, d.mem, d.io, d.posted, Ahead(aq.oldDb, n, aq.sqDepth))

\* One iteration of the loop of nvmev_proc_admin_sq.
LEMMA OneMore ==
  ASSUME host \in Driver, aq \in AdminQueue, Inside(aq, aq.oldDb),
         NEW d \in Devices, NEW n \in 0 .. Pending(aq, aq.oldDb) - 1, Good(d, n),
         NEW c, c = AskedAt(aq, mem, aq.oldDb, n), NEW r, r = ProcAdminReq(d, c)
  PROVE  r \in Devices /\ Good(r, n + 1)
<1>1. PICK a, m, i, p : a = d.aq /\ m = d.mem /\ i = d.io /\ p = d.posted
  OBVIOUS
<1>2. d = Device(a, m, i, p)
  BY <1>1 DEF Devices, Device
<1>3. PICK o, D, x, N : /\ x = aq.oldDb /\ D = aq.sqDepth /\ o = Ahead(x, n, D)
                        /\ N = Pending(aq, x)
  OBVIOUS
<1>4. /\ Typed(a, m, i, p) /\ SameRing(aq, a) /\ m.sq = mem.sq /\ Going(host, a, m, i, p, o)
  BY <1>1, <1>3 DEF Good
<1>5. /\ D \in Nat \ {0} /\ N \in 0 .. D - 1 /\ x \in 0 .. D - 1 /\ n \in 0 .. N - 1
      /\ aq.db \in 0 .. D - 1 /\ aq.db = Ahead(x, N, D)
  BY <1>3, PendingRange
<1>6. a.sqDepth = D /\ a.db = aq.db /\ a.sq = aq.sq
  BY <1>3, <1>4 DEF SameRing
<1>7. o \in 0 .. D - 1 /\ Ahead(o, 0, D) = o /\ o # aq.db /\ Ahead(o, 1, D) = Ahead(x, n + 1, D)
  BY <1>3, <1>5 DEF Ahead
<1>8. c = AskedAt(a, m, o, 0)
  BY <1>3, <1>4, <1>6, <1>7 DEF AskedAt
<1>9. c \in Request
  <2>1. Asks(a, m, i, o) /\ Inside(a, o) /\ a \in AdminQueue
    BY <1>4 DEF Going, Typed
  <2>2. 0 \in 0 .. Pending(a, o) - 1
    <3>1. Pending(a, o) \in Nat /\ Pending(a, o) # 0
      BY <1>6, <1>7, <2>1, PendingRange
    <3> QED
      BY <3>1
  <2> QED
    BY <1>8, <2>1, <2>2 DEF Asks, AsksOk
<1>10. r = IF c.op = "abort" THEN d
           ELSE Device(Advanced(a), Noted(m, a, c.cid), PairAfter(i, c.op), Append(p, c.cid))
  BY <1>2, <1>4, <1>9, ReqDoes DEF Typed
<1>11. PICK a2, m2, i2, p2 : a2 = r.aq /\ m2 = r.mem /\ i2 = r.io /\ p2 = r.posted
  OBVIOUS
<1>12. r = Device(a2, m2, i2, p2)
  BY <1>2, <1>10, <1>11 DEF Device
<1>13. Taken(a, m, i, p, o, c, a2, m2, i2, p2)
  BY <1>2, <1>6, <1>7, <1>8, <1>10, <1>11 DEF Taken, Device
<1>14. PICK y : y = Ahead(o, 1, a.sqDepth)
  OBVIOUS
<1>15. Typed(a2, m2, i2, p2) /\ SameRing(a, a2) /\ m2.sq = m.sq /\ Going(host, a2, m2, i2, p2, y)
  BY <1>4, <1>13, <1>14, GoingOn
<1>16. r \in Devices
  BY <1>12, <1>15 DEF Devices, Device, Typed
<1>17. SameRing(aq, a2) /\ m2.sq = mem.sq
  BY <1>4, <1>15 DEF SameRing
<1> QED
  BY <1>3, <1>6, <1>7, <1>11, <1>14, <1>15, <1>16, <1>17 DEF Good

\* ProcAdminSq, its number of commands apart.
Processed(d, newDb, oldDb, num) ==
  LET after[n \in 0 .. num] ==
        IF n = 0 THEN d
        ELSE ProcAdminReq(after[n - 1], mem.sq[d.aq.sq][(oldDb + n - 1) % d.aq.sqDepth])
  IN [after[num] EXCEPT !.aq.oldDb = newDb]

\* The loop ends at the doorbell.
LEMMA AllProcessed ==
  ASSUME host \in Driver, Typed(aq, mem, io, posted), Going(host, aq, mem, io, posted, aq.oldDb),
         NEW d, d = Device(aq, mem, io, posted), NEW r, r = ProcAdminSq(d, aq.db, aq.oldDb)
  PROVE  /\ Typed(r.aq, r.mem, r.io, r.posted) /\ r.aq.oldDb = aq.db /\ r.mem.sq = mem.sq
         /\ \E a : SameRing(aq, a) /\ r.aq = [a EXCEPT !.oldDb = aq.db]
         /\ Going(host, r.aq, r.mem, r.io, r.posted, aq.db)
<1>1. PICK x, D, N : x = aq.oldDb /\ D = aq.sqDepth /\ N = Pending(aq, x)
  OBVIOUS
<1>2. aq \in AdminQueue /\ Inside(aq, x)
  BY <1>1 DEF Typed, Going
<1>3. /\ D \in Nat /\ N \in Nat /\ x \in Nat
      /\ D # 0 => x \in 0 .. D - 1 /\ N \in 0 .. D - 1 /\ Ahead(x, N, D) = aq.db
      /\ D = 0 => N = 0 /\ aq.db = 0 /\ x = 0
  BY <1>1, <1>2, PendingRange DEF Inside
<1>4. d \in Devices /\ d.aq = aq /\ d.mem = mem /\ d.io = io /\ d.posted = posted
  BY DEF Device, Devices, Typed
<1>5. Ahead(x, 0, D) = x /\ Ahead(x, N, D) = aq.db
  <2>1. CASE D = 0
    BY <1>3, <2>1 DEF Ahead
  <2>2. CASE D # 0
    BY <1>3, <2>2 DEF Ahead
  <2> QED
    BY <2>1, <2>2
<1>6. Good(d, 0)
  BY <1>1, <1>4, <1>5 DEF Good, SameRing
<1>7. PICK E : E = [n \in 0 .. N - 1 |-> AskedAt(aq, mem, x, n)]
  OBVIOUS
<1>8. ASSUME NEW e \in Devices, NEW n \in 0 .. N - 1, Good(e, n)
      PROVE  ProcAdminReq(e, E[n]) \in Devices /\ Good(ProcAdminReq(e, E[n]), n + 1)
  <2>1. PICK c, g : c = E[n] /\ g = ProcAdminReq(e, c)
    OBVIOUS
  <2>2. c = AskedAt(aq, mem, aq.oldDb, n) /\ n \in 0 .. Pending(aq, aq.oldDb) - 1
        /\ Inside(aq, aq.oldDb)
    BY <1>1, <1>2, <1>7, <2>1
  <2> QED
    BY <1>2, <1>8, <2>1, <2>2, OneMore
<1>9. PICK F : F = [y \in Devices \X (0 .. N - 1) |->
                      IF Good(y[1], y[2]) THEN ProcAdminReq(y[1], E[y[2]]) ELSE y[1]]
  OBVIOUS
<1>10. F \in Steps(Devices, N)
  BY <1>8, <1>9 DEF Steps
<1>11. PICK f : Iterates(f, Devices, d, N, F)
  BY <1>3, <1>4, <1>10, Iterated
<1>12. PICK T : T = {n \in 0 .. N : f[n] \in Devices /\ Good(f[n], n)}
  OBVIOUS
<1>13. \A n \in 0 .. N : n \in T
  <2>1. 0 \in T
    BY <1>3, <1>4, <1>6, <1>11, <1>12 DEF Iterates
  <2>2. ASSUME NEW n \in 0 .. N - 1, n \in T PROVE n + 1 \in T
    <3>1. n + 1 \in 1 .. N /\ n + 1 \in 0 .. N /\ (n + 1) - 1 = n
      BY <1>3
    <3>2. f[n] \in Devices /\ Good(f[n], n)
      BY <1>12, <2>2
    <3>3. f[n + 1] = F[<<f[n], n>>]
      BY <1>11, <3>1 DEF Iterates
    <3>4. f[n + 1] = ProcAdminReq(f[n], E[n])
      BY <1>9, <3>2, <3>3
    <3> QED
      BY <1>8, <1>12, <3>1, <3>2, <3>4
  <2> QED
    BY <1>3, <2>1, <2>2, UpTo
<1>14. f = [n \in 0 .. N |-> IF n = 0 THEN d ELSE ProcAdminReq(f[n - 1], E[n - 1])]
  <2>1. ASSUME NEW n \in 0 .. N
        PROVE  f[n] = IF n = 0 THEN d ELSE ProcAdminReq(f[n - 1], E[n - 1])
    <3>1. CASE n = 0
      BY <1>11, <3>1 DEF Iterates
    <3>2. CASE n # 0
      <4>1. n \in 1 .. N /\ n - 1 \in 0 .. N /\ n - 1 \in 0 .. N - 1
        BY <1>3, <3>2
      <4>2. f[n - 1] \in Devices /\ Good(f[n - 1], n - 1)
        BY <1>12, <1>13, <4>1
      <4>3. f[n] = F[<<f[n - 1], n - 1>>]
        BY <1>11, <4>1 DEF Iterates
      <4> QED
        BY <1>9, <3>2, <4>1, <4>2, <4>3
    <3> QED
      BY <3>1, <3>2
  <2>2. f \in [0 .. N -> Devices]
    BY <1>11 DEF Iterates
  <2> QED
    BY <2>1, <2>2
<1>15. ASSUME NEW n \in 0 .. N, n # 0
       PROVE  E[n - 1] = mem.sq[aq.sq][(x + n - 1) % D]
  <2>1. D # 0 /\ D \in Nat \ {0} /\ n - 1 \in 0 .. N - 1 /\ n - 1 \in 0 .. D /\ x \in 0 .. D - 1
    BY <1>3, <1>15
  <2>2. (x + (n - 1)) % D = Ahead(x, n - 1, D)
    BY <2>1, RingPlace
  <2>3. x + n - 1 = x + (n - 1)
    BY <1>3
  <2> QED
    BY <1>1, <1>7, <2>1, <2>2, <2>3 DEF AskedAt
<1>16. PICK u : u = CHOOSE v : v = [n \in 0 .. N |-> IF n = 0 THEN d
                             ELSE ProcAdminReq(v[n - 1], mem.sq[d.aq.sq][(x + n - 1) % d.aq.sqDepth])]
  OBVIOUS
<1>17. u = [n \in 0 .. N |-> IF n = 0 THEN d
              ELSE ProcAdminReq(u[n - 1], mem.sq[aq.sq][(x + n - 1) % D])]
  <2>1. f = [n \in 0 .. N |-> IF n = 0 THEN d
               ELSE ProcAdminReq(f[n - 1], mem.sq[aq.sq][(x + n - 1) % D])]
    BY <1>14, <1>15
  <2>2. d.aq.sq = aq.sq /\ d.aq.sqDepth = D
    BY <1>1, <1>4
  <2>3. f = [n \in 0 .. N |-> IF n = 0 THEN d
               ELSE ProcAdminReq(f[n - 1], mem.sq[d.aq.sq][(x + n - 1) % d.aq.sqDepth])]
    BY <2>1, <2>2
  <2>4. u = [n \in 0 .. N |-> IF n = 0 THEN d
               ELSE ProcAdminReq(u[n - 1], mem.sq[d.aq.sq][(x + n - 1) % d.aq.sqDepth])]
    BY <1>16, <2>3
  <2> QED
    BY <2>2, <2>4
<1>18. PICK U : U = {n \in 0 .. N : u[n] \in Devices /\ Good(u[n], n)}
  OBVIOUS
<1>19. \A n \in 0 .. N : n \in U
  <2>1. 0 \in U
    BY <1>3, <1>4, <1>6, <1>17, <1>18
  <2>2. ASSUME NEW n \in 0 .. N - 1, n \in U PROVE n + 1 \in U
    <3>1. n + 1 \in 0 .. N /\ n + 1 # 0 /\ (n + 1) - 1 = n /\ n \in 0 .. N
      BY <1>3
    <3>2. u[n] \in Devices /\ Good(u[n], n)
      BY <1>18, <2>2
    <3>3. u[n + 1] = ProcAdminReq(u[(n + 1) - 1], mem.sq[aq.sq][(x + (n + 1) - 1) % D])
      BY <1>17, <3>1
    <3>4. u[n + 1] = ProcAdminReq(u[n], E[n])
      BY <1>15, <3>1, <3>3
    <3> QED
      BY <1>8, <1>18, <3>1, <3>2, <3>4
  <2> QED
    BY <1>3, <2>1, <2>2, UpTo
<1>20. u[N] \in Devices /\ Good(u[N], N)
  <2>1. N \in 0 .. N
    BY <1>3
  <2> QED
    BY <1>18, <1>19, <2>1
<1>21. r = [u[N] EXCEPT !.aq.oldDb = aq.db]
  <2>1. N = IF aq.db < x THEN aq.db - x + d.aq.sqDepth ELSE aq.db - x
    BY <1>1, <1>4 DEF Pending
  <2>2. ProcAdminSq(d, aq.db, x) =
          Processed(d, aq.db, x, IF aq.db < x THEN aq.db - x + d.aq.sqDepth ELSE aq.db - x)
    BY DEF ProcAdminSq, Processed
  <2>3. ProcAdminSq(d, aq.db, x) = Processed(d, aq.db, x, N)
    BY <2>1, <2>2
  <2>4. Processed(d, aq.db, x, N) = [u[N] EXCEPT !.aq.oldDb = aq.db]
    BY <1>16 DEF Processed
  <2> QED
    BY <1>1, <2>3, <2>4
<1>22. PICK a, m, i, p : a = u[N].aq /\ m = u[N].mem /\ i = u[N].io /\ p = u[N].posted
  OBVIOUS
<1>23. /\ Typed(a, m, i, p) /\ SameRing(aq, a) /\ m.sq = mem.sq /\ Going(host, a, m, i, p, aq.db)
  BY <1>1, <1>5, <1>20, <1>22 DEF Good
<1>24. PICK b : b = [a EXCEPT !.oldDb = aq.db]
  OBVIOUS
<1>25. r.aq = b /\ r.mem = m /\ r.io = i /\ r.posted = p
  BY <1>20, <1>21, <1>22, <1>24 DEF Devices
<1>26. b \in AdminQueue /\ SameUse(a, b) /\ b.oldDb = aq.db /\ b.cqDepth = b.sqDepth
  BY <1>2, <1>23, <1>24 DEF AdminQueue, SameUse, Typed
<1>27. Going(host, b, m, i, p, aq.db)
  BY <1>23, <1>26, GoingSame
<1> QED
  BY <1>23, <1>24, <1>25, <1>26, <1>27 DEF Typed

-----------------------------------------------------------------------------
(* The dispatcher and the registers.                                        *)

\* A host that is not up asks nothing of the completions.
LEMMA GoingRest ==
  ASSUME NEW h, NEW a, NEW m, NEW i, NEW p, NEW o, Going(h, a, m, i, p, o),
         NEW h2, NEW q, h2.step # "up"
  PROVE  Going(h2, a, m, i, q, o)
  BY DEF Going

\* An empty queue, while the host is not up.
LEMMA GoingEmpty ==
  ASSUME NEW h, NEW a \in AdminQueue, NEW m, NEW i, NEW p, h.step # "up", Numbered(i),
         a.db = 0, a.head = 0 \/ a.head < a.sqDepth
  PROVE  Going(h, a, m, i, p, 0)
<1>1. a.sqDepth \in Nat /\ a.head \in Nat
  <2>1. a.sqDepth \in Depths \cup {0} /\ a.head \in Slots
    BY DEF AdminQueue, Sizes
  <2> QED
    BY <2>1, DeepestSlots
<1>2. Inside(a, 0)
  BY <1>1 DEF Inside
<1>3. Pending(a, 0) = 0
  BY DEF Pending
<1>4. Asks(a, m, i, 0)
  BY <1>3 DEF Asks
<1> QED
  BY <1>2, <1>4 DEF Going

\* What is known of the numbers and of the registers in each step.
LEMMA Now ==
  ASSUME ControllerInv
  PROVE  /\ host \in Driver /\ Typed(aq, mem, io, posted) /\ Going(host, aq, mem, io, posted, aq.oldDb)
         /\ Numbered(io) /\ Inside(aq, aq.oldDb)
         /\ bar.aqa \in Nat /\ old.aqa \in Nat /\ aq.sqDepth = old.aqa
         /\ old.aqa # bar.aqa \/ old.asq # bar.asq \/ old.acq # bar.acq =>
              host.step \in Starting /\ old.en = 0
<1>1. /\ host \in Driver /\ Types /\ Followed /\ Trailing /\ Going(host, aq, mem, io, posted, aq.oldDb)
  BY DEF ControllerInv, Types
<1>2. Typed(aq, mem, io, posted)
  BY <1>1 DEF Types, Followed, Typed
<1>3. Numbered(io) /\ Inside(aq, aq.oldDb)
  BY <1>1 DEF Going
<1>4. bar.aqa \in Nat /\ old.aqa \in Nat /\ aq.sqDepth = old.aqa
  BY <1>1, DeepestSlots DEF Types, Followed, Registers, Sizes
<1>5. old.aqa # bar.aqa \/ old.asq # bar.asq \/ old.acq # bar.acq =>
        host.step \in Starting /\ old.en = 0
  <2> SUFFICES ASSUME old.aqa # bar.aqa \/ old.asq # bar.asq \/ old.acq # bar.acq
               PROVE  host.step \in Starting /\ old.en = 0
    OBVIOUS
  <2>1. host.step \notin {"off", "up", "shutting down", "disabling"}
    BY <1>1 DEF Trailing
  <2>2. host.step \in Starting
    BY <1>1, <2>1 DEF Driver, DriverSteps, Starting
  <2>3. old.en \in Bits
    BY <1>1 DEF Types, Registers
  <2>4. old # bar
    OBVIOUS
  <2> QED
    BY <1>1, <2>2, <2>3, <2>4 DEF Trailing, Starting, Bits
<1> QED
  BY <1>1, <1>2, <1>3, <1>4, <1>5

\* A new depth.
LEMMA AqaKeeps ==
  ASSUME ControllerInv, NewAqa, old.aqa # bar.aqa, UNCHANGED <<host, bar, mem, io, posted>>,
         turn' \in {"bars", "doorbells"}
  PROVE  ControllerInv'
<1>1. /\ Types /\ Followed /\ Trailing /\ Cleared /\ Resting
  BY DEF ControllerInv
<1>2. /\ old' = [old EXCEPT !.aqa = bar.aqa] /\ csts' = csts
      /\ aq' = [aq EXCEPT !.built = TRUE, !.head = 0, !.phase = 1, !.sqDepth = bar.aqa,
                          !.cqDepth = bar.aqa, !.db = 0, !.oldDb = 0]
  BY DEF NewAqa
<1>3. /\ aq \in AdminQueue /\ old \in Registers /\ bar \in Registers
  BY <1>1 DEF Types
<1>4. host.step \in Starting /\ old.en = 0
  BY Now
<1>5. /\ old'.aqa = bar.aqa /\ old'.asq = old.asq /\ old'.acq = old.acq /\ old'.en = old.en
      /\ old'.shn = old.shn /\ old' \in Registers
  BY <1>2, <1>3 DEF Registers
<1>6. PICK t : t = TRUE
  OBVIOUS
<1>7. aq' = [aq EXCEPT !.built = t, !.head = 0, !.phase = 1, !.sqDepth = bar.aqa,
                       !.cqDepth = bar.aqa, !.db = 0, !.oldDb = 0]
  BY <1>2, <1>6
<1>8. /\ aq'.built = t /\ aq'.head = 0 /\ aq'.phase = 1 /\ aq'.sqDepth = bar.aqa
      /\ aq'.cqDepth = bar.aqa /\ aq'.db = 0 /\ aq'.oldDb = 0 /\ aq'.sq = aq.sq /\ aq'.cq = aq.cq
      /\ aq'.sqRoom = aq.sqRoom /\ aq'.cqRoom = aq.cqRoom
  BY <1>3, <1>7 DEF AdminQueue
<1>9. aq' \in AdminQueue
  <2>1. t \in BOOLEAN /\ 0 \in Slots /\ 1 \in Bits /\ bar.aqa \in Sizes
    BY <1>3, <1>6, DeepestSlots DEF Bits, Registers
  <2> QED
    BY <1>3, <1>7, <2>1 DEF AdminQueue
<1>10. Types'
  BY <1>1, <1>2, <1>5, <1>9 DEF Types
<1>11. Followed'
  BY <1>1, <1>2, <1>5, <1>6, <1>8 DEF Followed
<1>12. Trailing'
  BY <1>1, <1>4, <1>5 DEF Trailing, Starting
<1>13. Cleared' /\ Resting'
  BY <1>1, <1>8 DEF Cleared, Resting
<1>14. Going(host, aq, mem, io, posted, aq.oldDb)'
  <2>1. PICK b : b = aq'
    OBVIOUS
  <2>2. Going(host, b, mem, io, posted, 0)
    <3>1. Numbered(io) /\ host.step # "up" /\ b.db = 0 /\ b.head = 0 /\ b \in AdminQueue
      BY <1>4, <1>8, <1>9, <2>1, Now DEF Starting
    <3> QED
      BY <3>1, GoingEmpty
  <2> QED
    BY <1>8, <2>1, <2>2
<1> QED
  BY <1>10, <1>11, <1>12, <1>13, <1>14 DEF ControllerInv

\* New places of the queues.
LEMMA AsqKeeps ==
  ASSUME ControllerInv, NewAsq, old.aqa = bar.aqa, old.asq # bar.asq,
         UNCHANGED <<host, bar, mem, io, posted>>, turn' \in {"bars", "doorbells"}
  PROVE  ControllerInv'
<1>1. /\ Types /\ Followed /\ Trailing /\ Cleared /\ Resting
  BY DEF ControllerInv
<1>2. host.step \in Starting /\ old.en = 0
  BY Now
<1>3. bar.aqa # 0 /\ aq.built
  BY <1>1, <1>2 DEF Trailing, Starting, Followed
<1>4. /\ old' = [old EXCEPT !.asq = bar.asq] /\ csts' = csts
      /\ aq' = [aq EXCEPT !.sq = bar.asq, !.sqDepth = bar.aqa, !.sqRoom = bar.aqa,
                          !.db = 0, !.oldDb = 0]
  BY <1>3 DEF NewAsq
<1>5. /\ aq \in AdminQueue /\ old \in Registers /\ bar \in Registers
  BY <1>1 DEF Types
<1>6. /\ old'.aqa = old.aqa /\ old'.asq = bar.asq /\ old'.acq = old.acq /\ old'.en = old.en
      /\ old'.shn = old.shn /\ old' \in Registers
  BY <1>4, <1>5 DEF Registers
<1>7. /\ aq'.built = aq.built /\ aq'.head = aq.head /\ aq'.phase = aq.phase
      /\ aq'.sqDepth = bar.aqa /\ aq'.cqDepth = aq.cqDepth /\ aq'.db = 0 /\ aq'.oldDb = 0
      /\ aq'.sq = bar.asq /\ aq'.cq = aq.cq /\ aq'.sqRoom = bar.aqa /\ aq'.cqRoom = aq.cqRoom
  BY <1>4, <1>5 DEF AdminQueue
<1>8. aq' \in AdminQueue
  <2>1. 0 \in Slots /\ bar.aqa \in Sizes /\ bar.asq \in Places
    BY <1>5, DeepestSlots DEF Registers
  <2> QED
    BY <1>4, <1>5, <2>1 DEF AdminQueue
<1>9. Types'
  BY <1>1, <1>4, <1>6, <1>8 DEF Types
<1>10. Followed'
  <2>1. bar.aqa <= bar.aqa
    BY Now
  <2>2. /\ aq'.sqDepth = old'.aqa /\ aq'.cqDepth = old'.aqa /\ aq'.sq = old'.asq /\ aq'.cq = old'.acq
        /\ aq'.built /\ csts'.rdy = old'.en
    BY <1>1, <1>3, <1>4, <1>6, <1>7 DEF Followed
  <2>3. old'.acq = bar'.acq /\ (host'.step \in {"asq", "acq"} => host'.place = bar'.acq)
          => bar'.aqa <= aq'.cqRoom
    BY <1>1, <1>6, <1>7 DEF Followed
  <2>4. bar'.aqa <= aq'.sqRoom
    BY <1>7, <2>1
  <2> QED
    BY <2>2, <2>3, <2>4 DEF Followed
<1>11. Trailing'
  BY <1>1, <1>2, <1>6 DEF Trailing, Starting
<1>12. Cleared' /\ Resting'
  BY <1>1, <1>6, <1>7 DEF Cleared, Resting
<1>13. Going(host, aq, mem, io, posted, aq.oldDb)'
  <2>1. PICK b : b = aq'
    OBVIOUS
  <2>2. Going(host, b, mem, io, posted, 0)
    <3>1. aq.head = 0 \/ aq.head < aq.sqDepth
      <4>1. Inside(aq, aq.oldDb)
        BY Now
      <4> QED
        BY <4>1, <1>5, PendingRange DEF Inside
    <3>2. /\ Numbered(io) /\ host.step # "up" /\ b.db = 0 /\ b \in AdminQueue
          /\ b.head = aq.head /\ b.sqDepth = aq.sqDepth
      BY <1>1, <1>2, <1>7, <1>8, <2>1, Now DEF Starting
    <3> QED
      BY <3>1, <3>2, GoingEmpty
  <2> QED
    BY <1>7, <2>1, <2>2
<1> QED
  BY <1>9, <1>10, <1>11, <1>12, <1>13 DEF ControllerInv

\* A new place of the completions.
LEMMA AcqKeeps ==
  ASSUME ControllerInv, NewAcq, old.aqa = bar.aqa, old.asq = bar.asq, old.acq # bar.acq,
         UNCHANGED <<host, bar, mem, io, posted>>, turn' \in {"bars", "doorbells"}
  PROVE  ControllerInv'
<1>1. /\ Types /\ Followed /\ Trailing /\ Cleared /\ Resting
  BY DEF ControllerInv
<1>2. host.step \in Starting /\ old.en = 0
  BY Now
<1>3. bar.aqa # 0 /\ aq.built
  BY <1>1, <1>2 DEF Trailing, Starting, Followed
<1>4. /\ old' = [old EXCEPT !.acq = bar.acq] /\ csts' = csts
      /\ aq' = [aq EXCEPT !.cq = bar.acq, !.cqDepth = bar.aqa, !.cqRoom = bar.aqa, !.head = 0]
  BY <1>3 DEF NewAcq
<1>5. /\ aq \in AdminQueue /\ old \in Registers /\ bar \in Registers
  BY <1>1 DEF Types
<1>6. /\ old'.aqa = old.aqa /\ old'.asq = old.asq /\ old'.acq = bar.acq /\ old'.en = old.en
      /\ old'.shn = old.shn /\ old' \in Registers
  BY <1>4, <1>5 DEF Registers
<1>7. /\ aq'.built = aq.built /\ aq'.head = 0 /\ aq'.phase = aq.phase
      /\ aq'.sqDepth = aq.sqDepth /\ aq'.cqDepth = bar.aqa /\ aq'.db = aq.db
      /\ aq'.oldDb = aq.oldDb /\ aq'.sq = aq.sq /\ aq'.cq = bar.acq /\ aq'.sqRoom = aq.sqRoom
      /\ aq'.cqRoom = bar.aqa
  BY <1>4, <1>5 DEF AdminQueue
<1>8. aq' \in AdminQueue
  <2>1. 0 \in Slots /\ bar.aqa \in Sizes /\ bar.acq \in Places
    BY <1>5, DeepestSlots DEF Registers
  <2> QED
    BY <1>4, <1>5, <2>1 DEF AdminQueue
<1>9. Types'
  BY <1>1, <1>4, <1>6, <1>8 DEF Types
<1>10. Followed'
  <2>1. bar.aqa <= bar.aqa
    BY Now
  <2>2. /\ aq'.sqDepth = old'.aqa /\ aq'.cqDepth = old'.aqa /\ aq'.sq = old'.asq /\ aq'.cq = old'.acq
        /\ aq'.built /\ csts'.rdy = old'.en
    BY <1>1, <1>3, <1>4, <1>6, <1>7 DEF Followed
  <2>3. old'.asq = bar'.asq /\ (host'.step = "asq" => host'.place = bar'.asq)
          => bar'.aqa <= aq'.sqRoom
    BY <1>1, <1>6, <1>7 DEF Followed
  <2>4. bar'.aqa <= aq'.cqRoom
    BY <1>7, <2>1
  <2> QED
    BY <2>2, <2>3, <2>4 DEF Followed
<1>11. Trailing'
  BY <1>1, <1>2, <1>6 DEF Trailing, Starting
<1>12. Cleared' /\ Resting'
  BY <1>1, <1>6, <1>7 DEF Cleared, Resting
<1>13. Going(host, aq, mem, io, posted, aq.oldDb)'
  <2>1. PICK b : b = aq'
    OBVIOUS
  <2>2. aq.db = 0 /\ aq.oldDb = 0
    <3>1. host.step # "asq"
      BY <1>1 DEF Trailing
    <3> QED
      BY <1>1, <1>2, <3>1 DEF Cleared
  <2>3. Going(host, b, mem, io, posted, 0)
    <3>1. /\ Numbered(io) /\ host.step # "up" /\ b.db = 0 /\ b \in AdminQueue /\ b.head = 0
      BY <1>1, <1>2, <1>7, <1>8, <2>1, <2>2, Now DEF Starting
    <3> QED
      BY <3>1, GoingEmpty
  <2> QED
    BY <1>7, <2>1, <2>2, <2>3
<1> QED
  BY <1>9, <1>10, <1>11, <1>12, <1>13 DEF ControllerInv

\* The controller is enabled, shut down or disabled.
LEMMA CcKeeps ==
  ASSUME ControllerInv, NewCc, old.aqa = bar.aqa, old.asq = bar.asq, old.acq = bar.acq,
         old.en # bar.en \/ old.shn # bar.shn,
         UNCHANGED <<host, bar, mem, io, posted>>, turn' \in {"bars", "doorbells"}
  PROVE  ControllerInv'
<1>1. /\ Types /\ Followed /\ Trailing /\ Cleared /\ Resting
  BY DEF ControllerInv
<1>2. /\ aq \in AdminQueue /\ old \in Registers /\ bar \in Registers /\ csts \in Status
      /\ host \in Driver
  BY <1>1 DEF Types
<1>3. host.step \in {"enabling", "shutting down", "disabling"}
  <2>1. old # bar
    OBVIOUS
  <2>2. host.step \notin {"off", "up"}
    BY <1>1, <2>1 DEF Trailing
  <2>3. host.step \notin {"asq", "acq", "cc"}
    BY <1>1 DEF Trailing
  <2> QED
    BY <1>2, <2>2, <2>3 DEF Driver, DriverSteps
<1>4. bar.aqa # 0 /\ aq.built
  BY <1>1, <1>3 DEF Trailing, Followed
<1>5. /\ old' = [old EXCEPT !.en = bar.en, !.shn = bar.shn]
      /\ csts' = [rdy  |-> IF bar.en = 0 THEN 0 ELSE 1,
                  shst |-> IF bar.shn = 1 THEN 2 ELSE csts.shst]
      /\ aq' = IF bar.shn = 1 THEN [aq EXCEPT !.db = 0, !.oldDb = 0, !.head = 0] ELSE aq
  BY <1>4 DEF NewCc
<1>6. old' = bar
  BY <1>2, <1>5 DEF Registers
<1>7. /\ aq'.built = aq.built /\ aq'.phase = aq.phase /\ aq'.sqDepth = aq.sqDepth
      /\ aq'.cqDepth = aq.cqDepth /\ aq'.sq = aq.sq /\ aq'.cq = aq.cq /\ aq'.sqRoom = aq.sqRoom
      /\ aq'.cqRoom = aq.cqRoom /\ aq' \in AdminQueue
  BY <1>2, <1>5, DeepestSlots DEF AdminQueue
<1>8. csts' \in Status /\ csts'.rdy = bar.en
  BY <1>2, <1>5 DEF Status, Registers, Bits
<1>9. Types'
  BY <1>1, <1>6, <1>7, <1>8 DEF Types
<1>10. Followed'
  BY <1>1, <1>4, <1>6, <1>7, <1>8 DEF Followed
<1>11. Trailing'
  BY <1>1, <1>3, <1>6 DEF Trailing
<1>12. Cleared' /\ Resting'
  <2>1. CASE host.step = "enabling"
    <3>1. bar.shn # 1
      BY <1>1, <2>1 DEF Trailing
    <3>2. aq' = aq
      BY <1>5, <3>1
    <3> QED
      BY <1>1, <1>6, <3>2 DEF Cleared, Resting
  <2>2. CASE host.step # "enabling"
    BY <1>1, <1>3, <2>2 DEF Cleared, Resting, Starting
  <2> QED
    BY <2>1, <2>2
<1>13. Going(host, aq, mem, io, posted, aq.oldDb)'
  <2>1. PICK b : b = aq'
    OBVIOUS
  <2>2. CASE bar.shn # 1
    <3>1. aq' = aq
      BY <1>5, <2>2
    <3>2. Going(host, aq, mem, io, posted, aq.oldDb)
      BY Now
    <3> QED
      BY <3>1, <3>2
  <2>3. CASE bar.shn = 1
    <3>1. b.db = 0 /\ b.oldDb = 0 /\ b.head = 0 /\ b \in AdminQueue
      BY <1>2, <1>5, <1>7, <2>1, <2>3 DEF AdminQueue
    <3>2. Numbered(io) /\ host.step # "up"
      BY <1>3, Now
    <3>3. Going(host, b, mem, io, posted, 0)
      BY <3>1, <3>2, GoingEmpty
    <3> QED
      BY <2>1, <3>1, <3>3
  <2> QED
    BY <2>2, <2>3
<1> QED
  BY <1>9, <1>10, <1>11, <1>12, <1>13 DEF ControllerInv

\* Nothing happens but the turn of the dispatcher.
LEMMA IdleKeeps ==
  ASSUME ControllerInv, UNCHANGED <<host, bar, old, csts, aq, mem, io, posted>>,
         turn' \in {"bars", "doorbells"}
  PROVE  ControllerInv'
<1>1. Types' /\ Followed' /\ Trailing' /\ Cleared' /\ Resting'
  <2>1. Types /\ Followed /\ Trailing /\ Cleared /\ Resting
    BY DEF ControllerInv
  <2>2. Types'
    BY <2>1 DEF Types
  <2>3. Followed'
    BY <2>1 DEF Followed
  <2>4. Trailing'
    BY <2>1 DEF Trailing
  <2>5. Cleared' /\ Resting'
    BY <2>1 DEF Cleared, Resting
  <2> QED
    BY <2>2, <2>3, <2>4, <2>5
<1>2. Going(host, aq, mem, io, posted, aq.oldDb)'
  <2>1. Going(host, aq, mem, io, posted, aq.oldDb)
    BY Now
  <2> QED
    BY <2>1
<1> QED
  BY <1>1, <1>2 DEF ControllerInv

\* A pass of nvmev_proc_bars.
LEMMA BarsKeep ==
  ASSUME ControllerInv, ProcBars
  PROVE  ControllerInv'
<1>1. UNCHANGED <<host, bar, mem, io, posted>> /\ turn' \in {"bars", "doorbells"} /\ RegisterChange
  BY DEF ProcBars
<1>2. CASE old.aqa # bar.aqa
  BY <1>1, <1>2, AqaKeeps DEF RegisterChange
<1>3. CASE old.aqa = bar.aqa /\ old.asq # bar.asq
  BY <1>1, <1>3, AsqKeeps DEF RegisterChange
<1>4. CASE old.aqa = bar.aqa /\ old.asq = bar.asq /\ old.acq # bar.acq
  BY <1>1, <1>4, AcqKeeps DEF RegisterChange
<1>5. CASE /\ old.aqa = bar.aqa /\ old.asq = bar.asq /\ old.acq = bar.acq
           /\ old.en # bar.en \/ old.shn # bar.shn
  BY <1>1, <1>5, CcKeeps DEF RegisterChange
<1>6. CASE UNCHANGED <<old, aq, csts>>
  BY <1>1, <1>6, IdleKeeps
<1> QED
  BY <1>1, <1>2, <1>3, <1>4, <1>5, <1>6 DEF RegisterChange

\* The doorbell: every command up to it is processed.
LEMMA DoorbellKeeps ==
  ASSUME ControllerInv, ProcAdminDb
  PROVE  ControllerInv'
<1>1. UNCHANGED <<host, bar, old, csts>> /\ turn' \in {"bars", "doorbells"}
  BY DEF ProcAdminDb
<1>2. CASE aq.db = aq.oldDb
  <2>1. UNCHANGED <<aq, mem, io, posted>>
    BY <1>2 DEF ProcAdminDb
  <2> QED
    BY <1>1, <2>1, IdleKeeps
<1>3. CASE aq.db # aq.oldDb
  <2>1. PICK d : d = Device(aq, mem, io, posted)
    OBVIOUS
  <2>2. PICK r : r = ProcAdminSq(d, aq.db, aq.oldDb)
    OBVIOUS
  <2>3. aq' = r.aq /\ mem' = r.mem /\ io' = r.io /\ posted' = r.posted
    BY <1>3, <2>1, <2>2 DEF ProcAdminDb, Device
  <2>4. /\ Types /\ Followed /\ Trailing /\ Cleared /\ Resting
        /\ host \in Driver /\ Typed(aq, mem, io, posted)
        /\ Going(host, aq, mem, io, posted, aq.oldDb)
    BY Now DEF ControllerInv
  <2>5. /\ Typed(r.aq, r.mem, r.io, r.posted) /\ r.aq.oldDb = aq.db
        /\ \E a : SameRing(aq, a) /\ r.aq = [a EXCEPT !.oldDb = aq.db]
        /\ Going(host, r.aq, r.mem, r.io, r.posted, aq.db)
    BY <2>1, <2>2, <2>4, AllProcessed
  <2>6. PICK a : SameRing(aq, a) /\ r.aq = [a EXCEPT !.oldDb = aq.db]
    BY <2>5
  <2>7. /\ aq'.built = aq.built /\ aq'.sq = aq.sq /\ aq'.cq = aq.cq /\ aq'.sqRoom = aq.sqRoom
        /\ aq'.cqRoom = aq.cqRoom /\ aq'.sqDepth = aq.sqDepth /\ aq'.cqDepth = aq.cqDepth
    BY <2>3, <2>6 DEF SameRing
  <2>8. Types'
    BY <1>1, <2>3, <2>4, <2>5 DEF Types, Typed
  <2>9. Followed'
    BY <1>1, <2>4, <2>7 DEF Followed
  <2>10. Trailing'
    BY <1>1, <2>4 DEF Trailing
  <2>11. Cleared' /\ Resting'
    BY <1>1, <1>3, <2>4 DEF Cleared, Resting
  <2>12. Going(host, aq, mem, io, posted, aq.oldDb)'
    BY <1>1, <2>3, <2>5
  <2> QED
    BY <2>8, <2>9, <2>10, <2>11, <2>12 DEF ControllerInv
<1> QED
  BY <1>2, <1>3
-----------------------------------------------------------------------------
(* The I/O queue pair.                                                      *)

\* Only what the driver has on its I/O queues may differ.
SameDriver(h, g) ==
  /\ g.step = h.step /\ g.place = h.place /\ g.tail = h.tail /\ g.head = h.head
  /\ g.phase = h.phase /\ g.out = h.out /\ g.queue = h.queue /\ g.stale = h.stale

\* A change of the I/O queue pair is none of the admin queue.
LEMMA GoingPair ==
  ASSUME NEW h, NEW a, NEW m, NEW i, NEW p, NEW o, Going(h, a, m, i, p, o),
         NEW g, NEW r, SameDriver(h, g), r.made = i.made, Numbered(r),
         h.step = "up" => Current(g, r, p)
  PROVE  Going(g, a, m, r, p, o)
<1>1. Inside(a, o) /\ Asks(a, m, i, o) /\ g.step = h.step
  BY DEF Going, SameDriver
<1>2. Asks(a, m, r, o)
  BY <1>1 DEF Asks, AsksOk
<1>3. ASSUME h.step = "up"
      PROVE  /\ InRing(g, a) /\ Counted(g, a, p, o) /\ Distinct(g, a, m, p, o)
             /\ Written(g, a, m, p) /\ OneQueueOp(g)
  <2>1. /\ InRing(h, a) /\ Counted(h, a, p, o) /\ Distinct(h, a, m, p, o)
        /\ Written(h, a, m, p) /\ OneQueueOp(h)
    BY <1>3 DEF Going
  <2>2. InRing(g, a)
    BY <2>1 DEF InRing, SameDriver
  <2>3. Counted(g, a, p, o)
    BY <2>1 DEF Counted, SameDriver
  <2>4. Distinct(g, a, m, p, o)
    BY <2>1 DEF Distinct, SameDriver
  <2>5. Written(g, a, m, p)
    <3>1. \A j : PhaseAt(g, j, a.sqDepth) = PhaseAt(h, j, a.sqDepth)
      BY DEF PhaseAt, SameDriver
    <3>2. g.head = h.head /\ g.phase = h.phase /\ g.stale = h.stale
      BY DEF SameDriver
    <3> QED
      BY <2>1, <3>1, <3>2 DEF Written, Shown, Hidden
  <2>6. OneQueueOp(g)
    BY <2>1 DEF OneQueueOp, SameDriver
  <2> QED
    BY <2>2, <2>3, <2>4, <2>5, <2>6
<1> QED
  BY <1>1, <1>2, <1>3 DEF Going

\* A step that changes the I/O queue pair, and what the driver has on it.
LEMMA PairKeeps ==
  ASSUME ControllerInv, UNCHANGED <<bar, old, csts, aq, mem, posted, turn>>,
         host' \in Driver, io' \in Pair, SameDriver(host, host'), io'.made = io.made,
         Numbered(io'), host.ios = {} => host'.ios = {} \/ host.step = "up",
         host.step = "up" => Current(host', io', posted)
  PROVE  ControllerInv'
<1>1. Types /\ Followed /\ Trailing /\ Cleared /\ Resting
  BY DEF ControllerInv
<1>2. Types'
  BY <1>1 DEF Types
<1>3. host'.step = host.step /\ host'.place = host.place /\ host'.out = host.out
      /\ host'.queue = host.queue /\ host'.stale = host.stale
  BY DEF SameDriver
<1>4. Followed'
  BY <1>1, <1>3 DEF Followed
<1>5. Trailing'
  BY <1>1, <1>3 DEF Trailing
<1>6. Cleared' /\ Resting'
  BY <1>1, <1>3 DEF Cleared, Resting
<1>7. Going(host, aq, mem, io, posted, aq.oldDb)'
  <2>1. Going(host, aq, mem, io, posted, aq.oldDb)
    BY Now
  <2>2. PICK g, r : g = host' /\ r = io'
    OBVIOUS
  <2>3. Going(g, aq, mem, r, posted, aq.oldDb)
    BY <2>1, <2>2, GoingPair
  <2> QED
    BY <2>2, <2>3
<1> QED
  BY <1>2, <1>4, <1>5, <1>6, <1>7 DEF ControllerInv

\* What is known of the pair when the host is up.
LEMMA PairNow ==
  ASSUME ControllerInv
  PROVE  /\ host \in Driver /\ io \in Pair /\ Numbered(io) /\ Resting
         /\ host.step = "up" => Current(host, io, posted) /\ OneQueueOp(host)
  BY Now DEF ControllerInv, Going, Typed

\* The dispatcher fetches what was rung.
LEMMA FetchKeeps ==
  ASSUME ControllerInv, NEW cid \in IoCids, Fetch(cid)
  PROVE  ControllerInv'
<1>1. PICK f : f = [queue |-> io.sq, cid |-> cid]
  OBVIOUS
<1>2. PICK r : r = [io EXCEPT !.rung = @ \ {cid}, !.tags = @ \cup {cid}, !.flight = @ \cup {f}]
  OBVIOUS
<1>3. /\ io.sq # 0 /\ cid \in io.rung /\ io' = r
      /\ UNCHANGED <<host, bar, old, csts, aq, mem, posted, turn>>
  BY <1>1, <1>2 DEF Fetch
<1>4. host \in Driver /\ io \in Pair /\ Numbered(io)
  BY PairNow
<1>5. /\ r.polled = io.polled /\ r.sq = io.sq /\ r.cq = io.cq /\ r.made = io.made
      /\ r.tags = io.tags \cup {cid} /\ r.rung = io.rung \ {cid}
      /\ r.flight = io.flight \cup {f} /\ r.bad = io.bad
  BY <1>2, <1>4 DEF Pair
<1>6. f.queue = io.sq /\ f.cid = cid /\ io.sq = io.made /\ f \in Flight
  <2>1. io.sq \in 1 .. MaxQueues
    BY <1>3, <1>4, BoundsAssumption DEF Pair
  <2> QED
    BY <1>1, <1>3, <1>4, <2>1 DEF Numbered, Flight
<1>7. r \in Pair
  <2>1. io.tags \cup {cid} \in SUBSET IoCids /\ io.rung \ {cid} \in SUBSET IoCids
        /\ io.flight \cup {f} \in SUBSET Flight
    BY <1>4, <1>6 DEF Pair
  <2>2. r = [io EXCEPT !.rung = io.rung \ {cid}, !.tags = io.tags \cup {cid},
                       !.flight = io.flight \cup {f}]
    BY <1>2, <1>4 DEF Pair
  <2> QED
    BY <1>4, <2>1, <2>2 DEF Pair
<1>8. Numbered(r)
  <2>1. io.made <= io.made
    BY <1>4, BoundsAssumption DEF Pair
  <2> QED
    BY <1>4, <1>5, <1>6, <2>1 DEF Numbered
<1>9. host.step = "up" => Current(host, r, posted)
  <2> SUFFICES ASSUME host.step = "up", r.bad = "no", Made(host, posted)
               PROVE  /\ r.rung \subseteq host.ios
                      /\ \A x \in r.flight : x.queue = r.sq => x.cid \in host.ios /\ x.cid \notin r.rung
    BY DEF Current
  <2>1. /\ io.rung \subseteq host.ios
        /\ \A x \in io.flight : x.queue = io.sq => x.cid \in host.ios /\ x.cid \notin io.rung
    BY <1>5, PairNow DEF Current
  <2> QED
    BY <1>3, <1>5, <1>6, <2>1
<1>10. SameDriver(host, host') /\ host'.ios = host.ios
  BY <1>3 DEF SameDriver
<1> QED
  BY <1>3, <1>4, <1>5, <1>7, <1>8, <1>9, <1>10, PairKeeps

\* A command comes back: of the queue that is there, or nothing is claimed.
LEMMA CompleteKeeps ==
  ASSUME ControllerInv, io.bad = "no", NEW f \in io.flight, Complete(f)
  PROVE  ControllerInv'
<1>1. PICK F : F = io.flight \ {f}
  OBVIOUS
<1>2. PICK T, b : /\ io' = [io EXCEPT !.flight = F, !.tags = T, !.bad = b]
                  /\ T \in {io.tags, io.tags \ {f.cid}} /\ b \in Faults
                  /\ b = "no" => \/ host' = host
                                 \/ f.queue = io.sq /\ host' = [host EXCEPT !.ios = @ \ {f.cid}]
  <2>1. io \in Pair
    BY PairNow
  <2>2. PICK hit : hit <=> f.cid \in io.tags
    OBVIOUS
  <2>3. CASE io.sq = 0 \/ (hit /\ ~ io.cq)
    <3>1. io' = [[io EXCEPT !.flight = F] EXCEPT !.bad = "null pointer"]
      BY <1>1, <2>2, <2>3 DEF Complete
    <3>2. io' = [io EXCEPT !.flight = F, !.tags = io.tags, !.bad = "null pointer"]
      BY <2>1, <3>1 DEF Pair
    <3>3. PICK c : c = "null pointer"
      OBVIOUS
    <3>4. c \in Faults /\ c # "no"
      BY <3>3 DEF Faults
    <3>5. PICK T : T = io.tags
      OBVIOUS
    <3>6. io' = [io EXCEPT !.flight = F, !.tags = T, !.bad = c]
      BY <3>2, <3>3, <3>5
    <3>7. T \in {io.tags, io.tags \ {f.cid}} /\ ~ (c = "no")
      BY <3>4, <3>5
    <3> QED
      BY <3>4, <3>6, <3>7
  <2>4. CASE io.sq # 0 /\ hit /\ io.cq
    <3>1. PICK b : b = IF f.queue = io.sq THEN io.bad ELSE "wrong command"
      OBVIOUS
    <3>2. io' = [[io EXCEPT !.flight = F] EXCEPT !.tags = @ \ {f.cid}, !.bad = b]
      BY <1>1, <2>1, <2>2, <2>4, <3>1 DEF Complete, Pair
    <3>3. io' = [io EXCEPT !.flight = F, !.tags = io.tags \ {f.cid}, !.bad = b]
      BY <2>1, <3>2 DEF Pair
    <3>4. host' = [host EXCEPT !.ios = @ \ {f.cid}]
      BY <2>2, <2>4 DEF Complete
    <3>5. b \in Faults /\ (b = "no" => f.queue = io.sq)
      BY <3>1 DEF Faults
    <3> QED
      BY <3>3, <3>4, <3>5
  <2>5. CASE io.sq # 0 /\ ~ hit
    <3>1. io' = [io EXCEPT !.flight = F] /\ host' = host
      BY <1>1, <2>2, <2>5 DEF Complete
    <3>2. io' = [io EXCEPT !.flight = F, !.tags = io.tags, !.bad = "no"]
      BY <2>1, <3>1 DEF Pair
    <3> QED
      BY <3>1, <3>2 DEF Faults
  <2>6. hit \/ ~ hit
    OBVIOUS
  <2> QED
    BY <2>3, <2>4, <2>5
<1>3. /\ UNCHANGED <<bar, old, csts, aq, mem, posted, turn>>
      /\ \E I \in {host.ios, host.ios \ {f.cid}} : host' = [host EXCEPT !.ios = I]
  <2>1. /\ UNCHANGED <<bar, old, csts, aq, mem, posted, turn>>
        /\ host' = IF io.sq # 0 /\ f.cid \in io.tags THEN [host EXCEPT !.ios = @ \ {f.cid}] ELSE host
    BY DEF Complete
  <2> QED
    BY <2>1, PairNow DEF Driver
<1>4. PICK I \in {host.ios, host.ios \ {f.cid}} : host' = [host EXCEPT !.ios = I]
  BY <1>3
<1>5. host \in Driver /\ io \in Pair /\ Numbered(io)
  BY PairNow
<1>6. /\ io'.polled = io.polled /\ io'.sq = io.sq /\ io'.cq = io.cq /\ io'.made = io.made
      /\ io'.tags = T /\ io'.rung = io.rung /\ io'.flight = F /\ io'.bad = b
  BY <1>2, <1>5 DEF Pair
<1>7. io' \in Pair
  <2>1. T \in SUBSET IoCids /\ F \in SUBSET Flight
    BY <1>1, <1>2, <1>5 DEF Pair
  <2> QED
    BY <1>2, <1>5, <2>1 DEF Pair
<1>8. host' \in Driver /\ SameDriver(host, host') /\ host'.ios = I
  BY <1>4, <1>5 DEF Driver, SameDriver
<1>9. Numbered(io')
  BY <1>1, <1>5, <1>6 DEF Numbered
<1>10. host.step = "up" => Current(host', io', posted)
  <2> SUFFICES ASSUME host.step = "up", io'.bad = "no", Made(host', posted)
               PROVE  /\ io'.rung \subseteq host'.ios
                      /\ \A x \in io'.flight :
                           x.queue = io'.sq => x.cid \in host'.ios /\ x.cid \notin io'.rung
    BY DEF Current
  <2>1. Made(host, posted)
    BY <1>8 DEF Made, SameDriver
  <2>2. /\ io.rung \subseteq host.ios
        /\ \A x \in io.flight : x.queue = io.sq => x.cid \in host.ios /\ x.cid \notin io.rung
    BY <2>1, PairNow DEF Current
  <2>3. CASE host' = host
    BY <1>1, <1>6, <2>2, <2>3
  <2>4. CASE f.queue = io.sq /\ host' = [host EXCEPT !.ios = @ \ {f.cid}]
    <3>1. host'.ios = host.ios \ {f.cid}
      BY <1>5, <2>4 DEF Driver
    <3>2. f.cid \notin io.rung
      BY <2>2, <2>4
    <3>3. ASSUME NEW x \in F, x.queue = io.sq PROVE x.cid # f.cid
      <4>1. x \in Flight /\ f \in Flight /\ x # f
        BY <1>1, <1>5 DEF Pair
      <4> QED
        BY <2>4, <3>3, <4>1 DEF Flight
    <3> QED
      BY <1>1, <1>6, <2>2, <3>1, <3>2, <3>3
  <2> QED
    BY <1>2, <1>6, <2>3, <2>4
<1>11. host.ios = {} => host'.ios = {} \/ host.step = "up"
  BY <1>4, <1>8
<1> QED
  BY <1>3, <1>6, <1>7, <1>8, <1>9, <1>10, <1>11, PairKeeps

\* The driver rings for a command.
LEMMA SubmitIoKeeps ==
  ASSUME ControllerInv, NEW cid \in IoCids, SubmitIo(cid)
  PROVE  ControllerInv'
<1>1. /\ host.step = "up" /\ host.queue = "both" /\ cid \notin host.ios
      /\ host' = [host EXCEPT !.ios = @ \cup {cid}] /\ io' = [io EXCEPT !.rung = @ \cup {cid}]
      /\ UNCHANGED <<bar, old, csts, aq, mem, posted, turn>>
  BY DEF SubmitIo
<1>2. host \in Driver /\ io \in Pair /\ Numbered(io)
  BY PairNow
<1>3. /\ io'.sq = io.sq /\ io'.made = io.made /\ io'.rung = io.rung \cup {cid}
      /\ io'.flight = io.flight /\ io'.bad = io.bad /\ io' \in Pair
  BY <1>1, <1>2 DEF Pair
<1>4. host'.ios = host.ios \cup {cid} /\ SameDriver(host, host') /\ host' \in Driver
  BY <1>1, <1>2 DEF Driver, SameDriver
<1>5. Numbered(io')
  BY <1>2, <1>3 DEF Numbered
<1>6. Current(host', io', posted)
  <2> SUFFICES ASSUME io'.bad = "no"
               PROVE  /\ io'.rung \subseteq host'.ios
                      /\ \A x \in io'.flight :
                           x.queue = io'.sq => x.cid \in host'.ios /\ x.cid \notin io'.rung
    BY DEF Current
  <2>1. /\ io.rung \subseteq host.ios
        /\ \A x \in io.flight : x.queue = io.sq => x.cid \in host.ios /\ x.cid \notin io.rung
    BY <1>1, <1>3, PairNow DEF Current, Made
  <2> QED
    BY <1>1, <1>3, <1>4, <2>1
<1> QED
  BY <1>1, <1>3, <1>4, <1>5, <1>6, PairKeeps
-----------------------------------------------------------------------------
(* The driver brings the controller up and down.                            *)

\* The driver and the registers change, and the host is not up afterwards.
LEMMA DownKeeps ==
  ASSUME ControllerInv, UNCHANGED <<old, csts, aq, mem, io, posted, turn>>,
         host' \in Driver, bar' \in Registers, host'.step # "up", Followed', Trailing', Cleared',
         Resting'
  PROVE  ControllerInv'
<1>1. Types'
  BY DEF ControllerInv, Types
<1>2. Going(host, aq, mem, io, posted, aq.oldDb)'
  <2>1. Going(host, aq, mem, io, posted, aq.oldDb)
    BY Now
  <2>2. PICK g : g = host'
    OBVIOUS
  <2>3. Going(g, aq, mem, io, posted, aq.oldDb)
    BY <2>1, <2>2, GoingRest
  <2> QED
    BY <2>2, <2>3
<1> QED
  BY <1>1, <1>2 DEF ControllerInv

\* What is known of the driver and of the registers.
LEMMA DriverNow ==
  ASSUME ControllerInv
  PROVE  /\ Followed /\ Trailing /\ Cleared /\ Resting /\ host \in Driver
         /\ bar \in Registers /\ old \in Registers /\ csts \in Status /\ aq \in AdminQueue
         /\ bar.aqa \in Nat /\ old.aqa \in Nat /\ aq.sqRoom \in Nat /\ aq.cqRoom \in Nat
<1>1. /\ Followed /\ Trailing /\ Cleared /\ Resting /\ host \in Driver
      /\ bar \in Registers /\ old \in Registers /\ csts \in Status /\ aq \in AdminQueue
  BY DEF ControllerInv, Types
<1>2. Sizes \subseteq Nat
  BY DeepestSlots DEF Sizes
<1> QED
  BY <1>1, <1>2 DEF Registers, AdminQueue

\* The driver writes a depth.
LEMMA ProgramKeeps ==
  ASSUME ControllerInv, NEW x \in Depths, NEW y \in Bases, Program(x, y)
  PROVE  ControllerInv'
<1>1. /\ host.step = "off" /\ host.starts < MaxStarts /\ Restarts(x, y)
      /\ bar' = [bar EXCEPT !.aqa = x]
      /\ host' = [host EXCEPT !.step = "asq", !.place = y, !.starts = @ + 1,
                              !.stale = (x = bar.aqa /\ aq.phase = 0)]
      /\ UNCHANGED <<old, csts, aq, mem, io, posted, turn>>
  BY DEF Program
<1>2. /\ Followed /\ Trailing /\ Cleared /\ Resting /\ host \in Driver
      /\ bar \in Registers /\ bar.aqa \in Nat /\ aq.sqRoom \in Nat /\ aq.cqRoom \in Nat
      /\ aq.phase \in Bits
  BY DriverNow DEF AdminQueue
<1>3. /\ bar'.aqa = x /\ bar'.asq = bar.asq /\ bar'.acq = bar.acq /\ bar'.en = bar.en
      /\ bar'.shn = bar.shn /\ bar' \in Registers
  BY <1>1, <1>2 DEF Registers, Sizes
<1>4. /\ host'.step = "asq" /\ host'.place = y /\ host'.out = host.out
      /\ host'.queue = host.queue /\ host'.ios = host.ios /\ host' \in Driver
      /\ host'.stale <=> x = bar.aqa /\ aq.phase = 0
  <2>1. PICK n : n = host.starts + 1
    OBVIOUS
  <2>2. n \in 0 .. MaxStarts
    BY <1>1, <1>2, <2>1, BoundsAssumption DEF Driver
  <2>3. PICK u \in BOOLEAN : u = (x = bar.aqa /\ aq.phase = 0)
    OBVIOUS
  <2>4. host' = [host EXCEPT !.step = "asq", !.place = y, !.starts = n, !.stale = u]
    BY <1>1, <1>2, <2>1, <2>3 DEF Driver
  <2>5. /\ host'.step = "asq" /\ host'.place = y /\ host'.out = host.out
        /\ host'.queue = host.queue /\ host'.ios = host.ios /\ host'.stale = u
        /\ host' \in Driver
    BY <1>2, <2>2, <2>4 DEF Driver, DriverSteps, Places
  <2> QED
    BY <2>3, <2>5
<1>5. /\ x \in Nat \ {0} /\ (x > bar.aqa => y # bar.asq)
      /\ x = bar.aqa => (aq.db = aq.oldDb /\ (y # bar.asq \/ (aq.db = 0 /\ aq.head = 0)))
  BY <1>1, DeepestSlots DEF Restarts
<1>6. old = bar /\ bar.asq = bar.acq /\ old.en = 0 /\ old.shn = 0 /\ bar.shn = 0 /\ bar.en = 0
  BY <1>1, <1>2 DEF Trailing
<1>7. Followed'
  <2>1. bar.aqa <= aq.sqRoom /\ bar.aqa <= aq.cqRoom
    BY <1>1, <1>2, <1>6 DEF Followed
  <2>2. y = bar.asq => x <= aq.sqRoom /\ x <= aq.cqRoom
    BY <1>2, <1>5, <2>1
  <2> QED
    BY <1>1, <1>2, <1>3, <1>4, <1>6, <2>2 DEF Followed
<1>8. Trailing'
  BY <1>1, <1>3, <1>4, <1>5, <1>6 DEF Trailing, Starting
<1>9. Cleared'
  BY <1>1, <1>2, <1>3, <1>4, <1>5, <1>6 DEF Cleared, Bits
<1>10. Resting'
  BY <1>1, <1>2, <1>4 DEF Resting
<1> QED
  BY <1>1, <1>3, <1>4, <1>7, <1>8, <1>9, <1>10, DownKeeps

\* The driver writes the places, and enables the controller.
LEMMA RegisterKeeps ==
  ASSUME ControllerInv, WriteRegister
  PROVE  ControllerInv'
<1>1. UNCHANGED <<old, csts, aq, mem, io, posted, turn>>
  BY DEF WriteRegister
<1>2. /\ Followed /\ Trailing /\ Cleared /\ Resting /\ host \in Driver /\ bar \in Registers
  BY DriverNow
<1>3. CASE /\ host.step = "asq" /\ bar' = [bar EXCEPT !.asq = host.place]
           /\ host' = [host EXCEPT !.step = "acq"]
  <2>1. /\ bar'.aqa = bar.aqa /\ bar'.asq = host.place /\ bar'.acq = bar.acq /\ bar'.en = bar.en
        /\ bar'.shn = bar.shn /\ bar' \in Registers
    BY <1>2, <1>3 DEF Registers, Driver
  <2>2. /\ host'.step = "acq" /\ host'.place = host.place /\ host'.out = host.out
        /\ host'.queue = host.queue /\ host'.ios = host.ios /\ host' \in Driver
        /\ host'.stale = host.stale
    BY <1>2, <1>3 DEF Driver, DriverSteps
  <2>3. Followed'
    BY <1>1, <1>2, <1>3, <2>1, <2>2 DEF Followed, Trailing
  <2>4. Trailing'
    BY <1>1, <1>2, <1>3, <2>1, <2>2 DEF Trailing, Starting
  <2>5. Cleared' /\ Resting'
    BY <1>1, <1>2, <1>3, <2>1, <2>2 DEF Cleared, Resting, Starting, Trailing
  <2> QED
    BY <1>1, <2>1, <2>2, <2>3, <2>4, <2>5, DownKeeps
<1>4. CASE /\ host.step = "acq" /\ bar' = [bar EXCEPT !.acq = host.place]
           /\ host' = [host EXCEPT !.step = "cc"]
  <2>1. /\ bar'.aqa = bar.aqa /\ bar'.asq = bar.asq /\ bar'.acq = host.place /\ bar'.en = bar.en
        /\ bar'.shn = bar.shn /\ bar' \in Registers
    BY <1>2, <1>4 DEF Registers, Driver
  <2>2. /\ host'.step = "cc" /\ host'.place = host.place /\ host'.out = host.out
        /\ host'.queue = host.queue /\ host'.ios = host.ios /\ host' \in Driver
        /\ host'.stale = host.stale
    BY <1>2, <1>4 DEF Driver, DriverSteps
  <2>3. Followed'
    BY <1>1, <1>2, <1>4, <2>1, <2>2 DEF Followed, Trailing
  <2>4. Trailing'
    BY <1>1, <1>2, <1>4, <2>1, <2>2 DEF Trailing, Starting
  <2>5. Cleared' /\ Resting'
    BY <1>1, <1>2, <1>4, <2>1, <2>2 DEF Cleared, Resting, Starting, Trailing
  <2> QED
    BY <1>1, <2>1, <2>2, <2>3, <2>4, <2>5, DownKeeps
<1>5. CASE /\ host.step = "cc" /\ bar' = [bar EXCEPT !.en = 1]
           /\ host' = [host EXCEPT !.step = "enabling"]
  <2>1. /\ bar'.aqa = bar.aqa /\ bar'.asq = bar.asq /\ bar'.acq = bar.acq /\ bar'.en = 1
        /\ bar'.shn = bar.shn /\ bar' \in Registers
    BY <1>2, <1>5 DEF Registers, Bits
  <2>2. /\ host'.step = "enabling" /\ host'.place = host.place /\ host'.out = host.out
        /\ host'.queue = host.queue /\ host'.ios = host.ios /\ host' \in Driver
        /\ host'.stale = host.stale
    BY <1>2, <1>5 DEF Driver, DriverSteps
  <2>3. Followed'
    BY <1>1, <1>2, <1>5, <2>1, <2>2 DEF Followed, Trailing
  <2>4. Trailing'
    BY <1>1, <1>2, <1>5, <2>1, <2>2 DEF Trailing, Starting
  <2>5. Cleared' /\ Resting'
    BY <1>1, <1>2, <1>5, <2>1, <2>2 DEF Cleared, Resting, Starting, Trailing
  <2> QED
    BY <1>1, <2>1, <2>2, <2>3, <2>4, <2>5, DownKeeps
<1> QED
  BY <1>3, <1>4, <1>5 DEF WriteRegister

\* The driver shuts down, or resets at once.
LEMMA StopKeeps ==
  ASSUME ControllerInv, NEW shutdown \in BOOLEAN, Stop(shutdown)
  PROVE  ControllerInv'
<1>1. /\ host.step = "up" /\ UNCHANGED <<old, csts, aq, mem, io, posted, turn>>
      /\ bar' = IF shutdown THEN [bar EXCEPT !.shn = 1] ELSE [bar EXCEPT !.en = 0]
      /\ host' = [host EXCEPT !.step = IF shutdown THEN "shutting down" ELSE "disabling",
                              !.out = {}, !.ios = {}, !.queue = "none"]
  BY DEF Stop
<1>2. /\ Followed /\ Trailing /\ Cleared /\ Resting /\ host \in Driver /\ bar \in Registers
  BY DriverNow
<1>3. PICK st : st = IF shutdown THEN "shutting down" ELSE "disabling"
  OBVIOUS
<1>4. st \in {"shutting down", "disabling"} /\ st \in DriverSteps
  BY <1>3 DEF DriverSteps
<1>5. /\ host'.step = st /\ host'.place = host.place /\ host'.out = {} /\ host'.queue = "none"
      /\ host'.ios = {} /\ host' \in Driver
  <2>1. host' = [host EXCEPT !.step = st, !.out = {}, !.ios = {}, !.queue = "none"]
    BY <1>1, <1>3
  <2> QED
    BY <1>2, <1>4, <2>1 DEF Driver
<1>6. /\ bar'.aqa = bar.aqa /\ bar'.asq = bar.asq /\ bar'.acq = bar.acq
      /\ bar'.en = (IF st = "shutting down" THEN bar.en ELSE 0)
      /\ bar'.shn = (IF st = "shutting down" THEN 1 ELSE bar.shn) /\ bar' \in Registers
  <2>1. CASE shutdown
    BY <1>1, <1>2, <1>3, <2>1 DEF Registers, Bits
  <2>2. CASE ~ shutdown
    BY <1>1, <1>2, <1>3, <2>2 DEF Registers, Bits
  <2> QED
    BY <2>1, <2>2
<1>7. old = bar /\ bar.en = 1 /\ bar.shn = 0 /\ old.shn = 0 /\ old.en = 1
  BY <1>1, <1>2 DEF Trailing
<1>8. Followed'
  BY <1>1, <1>2, <1>4, <1>5, <1>6, <1>7 DEF Followed
<1>9. Trailing'
  BY <1>1, <1>2, <1>4, <1>5, <1>6, <1>7 DEF Trailing, Starting
<1>10. Cleared' /\ Resting'
  BY <1>4, <1>5 DEF Cleared, Resting, Starting
<1> QED
  BY <1>1, <1>4, <1>5, <1>6, <1>8, <1>9, <1>10, DownKeeps

\* The shutdown is done.
LEMMA DisableKeeps ==
  ASSUME ControllerInv, Disable
  PROVE  ControllerInv'
<1>1. /\ host.step = "shutting down" /\ UNCHANGED <<old, csts, aq, mem, io, posted, turn>>
      /\ bar' = [bar EXCEPT !.en = 0, !.shn = 0] /\ host' = [host EXCEPT !.step = "disabling"]
  BY DEF Disable
<1>2. /\ Followed /\ Trailing /\ Cleared /\ Resting /\ host \in Driver /\ bar \in Registers
  BY DriverNow
<1>3. /\ host'.step = "disabling" /\ host'.place = host.place /\ host'.out = host.out
      /\ host'.queue = host.queue /\ host'.ios = host.ios /\ host' \in Driver
  BY <1>1, <1>2 DEF Driver, DriverSteps
<1>4. /\ bar'.aqa = bar.aqa /\ bar'.asq = bar.asq /\ bar'.acq = bar.acq /\ bar'.en = 0
      /\ bar'.shn = 0 /\ bar' \in Registers
  BY <1>1, <1>2 DEF Registers, Bits
<1>5. Followed'
  BY <1>1, <1>2, <1>3, <1>4 DEF Followed
<1>6. Trailing'
  <2>1. /\ old.en = 1 /\ bar.aqa # 0 /\ old.aqa = bar.aqa /\ old.asq = bar.asq /\ old.acq = bar.acq
        /\ bar.asq = bar.acq /\ bar.asq \in Bases
    BY <1>1, <1>2 DEF Trailing
  <2>2. old' = old
    BY <1>1
  <2>3. host'.step \notin Starting /\ host'.step = "disabling"
    BY <1>3 DEF Starting
  <2> QED
    BY <1>4, <2>1, <2>2, <2>3 DEF Trailing
<1>7. Cleared' /\ Resting'
  BY <1>1, <1>2, <1>3 DEF Cleared, Resting, Starting
<1> QED
  BY <1>1, <1>3, <1>4, <1>5, <1>6, <1>7, DownKeeps

\* The controller is down.
LEMMA OffKeeps ==
  ASSUME ControllerInv, Off
  PROVE  ControllerInv'
<1>1. /\ host.step = "disabling" /\ csts.rdy = 0
      /\ UNCHANGED <<bar, old, csts, aq, mem, io, posted, turn>>
      /\ host' = [host EXCEPT !.step = "off"]
  BY DEF Off
<1>2. /\ Followed /\ Trailing /\ Cleared /\ Resting /\ host \in Driver /\ bar \in Registers
      /\ old \in Registers
  BY DriverNow
<1>3. /\ host'.step = "off" /\ host'.place = host.place /\ host'.out = host.out
      /\ host'.queue = host.queue /\ host'.ios = host.ios /\ host' \in Driver
  BY <1>1, <1>2 DEF Driver, DriverSteps
<1>4. old = bar
  <2>1. old.en = 0
    BY <1>1, <1>2 DEF Followed
  <2>2. /\ old.aqa = bar.aqa /\ old.asq = bar.asq /\ old.acq = bar.acq /\ old.shn = 0
        /\ bar.shn = 0 /\ bar.en = 0
    BY <1>1, <1>2, <2>1 DEF Trailing
  <2> QED
    BY <1>2, <2>1, <2>2 DEF Registers
<1>5. Followed'
  BY <1>1, <1>2, <1>3, <1>4 DEF Followed
<1>6. Trailing'
  BY <1>1, <1>2, <1>3, <1>4 DEF Trailing, Starting
<1>7. Cleared' /\ Resting'
  BY <1>1, <1>2, <1>3 DEF Cleared, Resting, Starting
<1> QED
  BY <1>1, <1>2, <1>3, <1>5, <1>6, <1>7, DownKeeps

\* The controller is ready: an empty ring, and completions of the other phase.
LEMMA ReadyKeeps ==
  ASSUME ControllerInv, Ready
  PROVE  ControllerInv'
<1>1. PICK e : e = [cid |-> None, phase |-> 0]
  OBVIOUS
<1>2. PICK z : z = [s \in Slots |-> e]
  OBVIOUS
<1>3. /\ host.step = "enabling" /\ csts.rdy = 1
      /\ host' = [host EXCEPT !.step = "up", !.tail = 0, !.head = 0, !.phase = 1]
      /\ mem' = [mem EXCEPT !.cq[bar.acq] = z] /\ posted' = <<>>
      /\ UNCHANGED <<bar, old, csts, aq, io, turn>>
  BY <1>1, <1>2 DEF Ready
<1>4. /\ Types /\ Followed /\ Trailing /\ Cleared /\ Resting /\ host \in Driver
      /\ bar \in Registers /\ old \in Registers /\ aq \in AdminQueue /\ bar.aqa \in Nat
      /\ mem \in Memory
  BY DriverNow DEF ControllerInv, Types
<1>5. old.en = 1
  BY <1>3, <1>4 DEF Followed
<1>6. old = bar /\ bar.aqa # 0 /\ bar.acq \in Bases /\ bar.asq \in Bases /\ bar.asq = bar.acq
  BY <1>3, <1>4, <1>5 DEF Trailing, Starting
<1>7. /\ aq.db = 0 /\ aq.oldDb = 0 /\ aq.head = 0 /\ aq.phase = (IF host.stale THEN 0 ELSE 1)
      /\ aq.sqDepth = bar.aqa /\ aq.cq = bar.acq
  BY <1>3, <1>4, <1>6 DEF Cleared, Starting, Followed
<1>8. /\ host'.step = "up" /\ host'.place = host.place /\ host'.tail = 0 /\ host'.head = 0
      /\ host'.phase = 1 /\ host'.out = {} /\ host'.queue = "none" /\ host'.ios = {}
      /\ host' \in Driver /\ host'.stale = host.stale
  <2>1. 0 \in Slots
    BY DeepestSlots
  <2>2. host.out = {} /\ host.queue = "none" /\ host.ios = {}
    BY <1>3, <1>4 DEF Resting
  <2> QED
    BY <1>3, <1>4, <2>1, <2>2 DEF Driver, DriverSteps, Bits
<1>9. mem' \in Memory /\ mem'.cq[bar.acq] = z
  <2>1. PICK q : q = [mem.cq EXCEPT ![bar.acq] = z]
    OBVIOUS
  <2>2. mem' = [mem EXCEPT !.cq = q]
    BY <1>3, <1>4, <2>1 DEF Memory
  <2>3. mem.cq \in [Bases -> [Slots -> Entry]]
    BY <1>4 DEF Memory
  <2>4. e \in Entry
    BY <1>1 DEF Entry, Bits
  <2>5. z \in [Slots -> Entry]
    BY <1>2, <2>4
  <2>6. q \in [Bases -> [Slots -> Entry]] /\ q[bar.acq] = z
    BY <1>6, <2>1, <2>3, <2>5
  <2> QED
    BY <1>4, <2>2, <2>6 DEF Memory
<1>10. Types'
  <2>1. posted' \in Seq(Cids)
    BY <1>3
  <2> QED
    BY <1>3, <1>4, <1>8, <1>9, <2>1 DEF Types
<1>11. Followed'
  BY <1>3, <1>4, <1>6, <1>8 DEF Followed
<1>12. Trailing'
  <2>1. old.shn = 0 /\ bar.shn = 0 /\ bar.en = 1 /\ old' = old /\ bar' = bar
    BY <1>3, <1>4 DEF Trailing
  <2> QED
    BY <1>6, <1>8, <2>1 DEF Trailing, Starting
<1>13. Cleared' /\ Resting'
  BY <1>8 DEF Cleared, Resting, Starting
<1>14. PICK g, w, D : g = host' /\ w = mem' /\ D = aq.sqDepth
  OBVIOUS
<1>15. /\ D \in Nat \ {0} /\ g.step = "up" /\ g.tail = 0 /\ g.head = 0 /\ g.phase = 1 /\ g.out = {}
       /\ g.queue = "none"
  BY <1>4, <1>6, <1>7, <1>8, <1>14
<1>16. Inside(aq, 0) /\ Numbered(io) /\ Pending(aq, 0) = 0
  BY <1>7, Now DEF Pending
<1>17. Asks(aq, w, io, 0)
  BY <1>16 DEF Asks
<1>18. InRing(g, aq)
  BY <1>6, <1>7, <1>14, <1>15 DEF InRing
<1>19. Counted(g, aq, <<>>, 0)
  <2>1. IsFiniteSet({}) /\ Cardinality({}) = 0
    BY FS_EmptySet
  <2> QED
    BY <1>14, <1>15, <1>16, <2>1 DEF Counted
<1>20. Distinct(g, aq, w, <<>>, 0)
  BY <1>15, <1>16 DEF Distinct
<1>21. Written(g, aq, w, <<>>)
  <2>6. g.stale = host.stale
    BY <1>8, <1>14
  <2>1. \A j \in 0 .. D - 1 : PhaseAt(g, j, D) = 1
    BY <1>15 DEF PhaseAt
  <2>2. \A j \in 0 .. D - 1 : Ahead(g.head, j, D) \in Slots
    <3>1. \A j \in 0 .. D - 1 : Ahead(0, j, D) = j
      BY <1>15 DEF Ahead
    <3>2. D \in Depths
      BY <1>4, <1>14, <1>15 DEF AdminQueue, Sizes
    <3> QED
      BY <1>15, <3>1, <3>2, DeepestSlots
  <2>3. \A j \in 0 .. D - 1 : w.cq[aq.cq][Ahead(g.head, j, D)].phase = 0
    <3>1. w.cq[aq.cq] = z /\ e.phase = 0
      BY <1>1, <1>7, <1>9, <1>14
    <3> QED
      BY <1>2, <2>2, <3>1
  <2>4. Len(<<>>) = 0 /\ Ahead(g.head, 0, D) = 0 /\ PhaseAt(g, 0, D) = 1
    BY <1>15 DEF Ahead, PhaseAt
  <2>5. \A j \in 0 .. D - 1 : ~ (j < Len(<<>>)) /\ w.cq[aq.cq][Ahead(g.head, j, D)].phase # PhaseAt(g, j, D)
    BY <2>1, <2>3, <2>4
  <2>7. CASE host.stale
    <3>1. \A j \in 0 .. D - 1 : Ahead(g.head, j, D) = j
      BY <1>15 DEF Ahead
    <3>2. \A j \in 0 .. D - 1 : w.cq[aq.cq][j].phase = 0
      BY <2>3, <3>1
    <3>3. Hidden(g, aq, w, <<>>)
      BY <1>7, <1>14, <1>15, <2>4, <2>7, <3>2 DEF Hidden
    <3> QED
      BY <2>6, <2>7, <3>3 DEF Written
  <2>8. CASE ~ host.stale
    <3>1. Shown(g, aq, w, <<>>)
      BY <1>7, <1>14, <2>4, <2>5, <2>8 DEF Shown
    <3> QED
      BY <2>6, <2>8, <3>1 DEF Written
  <2> QED
    BY <2>7, <2>8
<1>22. OneQueueOp(g) /\ Current(g, io, <<>>)
  BY <1>15 DEF OneQueueOp, Current, Made
<1>23. Going(g, aq, w, io, <<>>, 0)
  BY <1>16, <1>17, <1>18, <1>19, <1>20, <1>21, <1>22 DEF Going
<1>24. Going(host, aq, mem, io, posted, aq.oldDb)'
  BY <1>3, <1>7, <1>14, <1>23
<1> QED
  BY <1>10, <1>11, <1>12, <1>13, <1>24 DEF ControllerInv

\* What is known of the rings when the host is up.
LEMMA UpNow ==
  ASSUME ControllerInv, host.step = "up"
  PROVE  /\ Types /\ Followed /\ Trailing /\ Cleared /\ Resting
         /\ host \in Driver /\ bar \in Registers /\ aq \in AdminQueue /\ mem \in Memory
         /\ io \in Pair /\ posted \in Seq(Cids)
         /\ aq.sqDepth = bar.aqa /\ bar.aqa \in Nat \ {0} /\ bar.aqa \in Depths
         /\ aq.cq = bar.acq /\ aq.sq = bar.asq /\ bar.asq \in Bases /\ old = bar
         /\ Inside(aq, aq.oldDb) /\ Asks(aq, mem, io, aq.oldDb) /\ Numbered(io)
         /\ InRing(host, aq) /\ Counted(host, aq, posted, aq.oldDb)
         /\ Distinct(host, aq, mem, posted, aq.oldDb) /\ Written(host, aq, mem, posted)
         /\ OneQueueOp(host) /\ Current(host, io, posted)
<1>1. /\ Types /\ Followed /\ Trailing /\ Cleared /\ Resting /\ host \in Driver
      /\ bar \in Registers /\ aq \in AdminQueue /\ bar.aqa \in Nat
      /\ mem \in Memory /\ io \in Pair /\ posted \in Seq(Cids)
  BY DriverNow DEF ControllerInv, Types
<1>2. old = bar /\ bar.aqa # 0 /\ bar.asq \in Bases
  BY <1>1 DEF Trailing
<1>3. aq.sqDepth = bar.aqa /\ aq.cq = bar.acq /\ aq.sq = bar.asq
  BY <1>1, <1>2 DEF Followed
<1>4. bar.aqa \in Depths
  BY <1>1, <1>2 DEF Registers, Sizes
<1>5. Going(host, aq, mem, io, posted, aq.oldDb)
  BY Now
<1> QED
  BY <1>1, <1>2, <1>3, <1>4, <1>5 DEF Going
-----------------------------------------------------------------------------
(* The driver takes a completion and submits a command.                     *)

\* What a command leads to, if it leads to something.
LEMMA LeadsTo ==
  ASSUME NEW q, NEW op, Leads(q, op) # "no"
  PROVE  /\ Leads(q, op) \in {"none", "cq", "both"}
         /\ Leads(q, op) = "both" => q = "cq" /\ op = "create_sq"
  BY DEF Leads

\* The driver's head moves on by a slot.
LEMMA HeadStep ==
  ASSUME NEW h \in Driver, NEW g, NEW D \in Nat \ {0}, h.head \in 0 .. D - 1,
         g.head = (IF h.head + 1 = D THEN 0 ELSE h.head + 1),
         g.phase = (IF h.head + 1 = D THEN 1 - h.phase ELSE h.phase)
  PROVE  /\ \A j \in 0 .. D - 2 : /\ Ahead(g.head, j, D) = Ahead(h.head, j + 1, D)
                                  /\ PhaseAt(g, j, D) = PhaseAt(h, j + 1, D)
         /\ Ahead(g.head, D - 1, D) = h.head /\ PhaseAt(g, D - 1, D) = 1 - h.phase
         /\ g.head \in 0 .. D - 1 /\ g.phase \in Bits
<1>1. h.head \in Nat /\ h.phase \in Bits
  BY DEF Driver
<1>2. CASE h.head + 1 = D
  <2>1. g.head = 0 /\ g.phase = 1 - h.phase
    BY <1>2
  <2>2. g.phase \in Bits
    BY <1>1, <2>1 DEF Bits
  <2>3. ASSUME NEW j \in 0 .. D - 2
        PROVE  /\ Ahead(g.head, j, D) = Ahead(h.head, j + 1, D)
               /\ PhaseAt(g, j, D) = PhaseAt(h, j + 1, D)
    BY <1>1, <1>2, <2>1 DEF Ahead, PhaseAt
  <2>4. Ahead(g.head, D - 1, D) = h.head /\ PhaseAt(g, D - 1, D) = 1 - h.phase
    BY <1>1, <1>2, <2>1 DEF Ahead, PhaseAt
  <2> QED
    BY <2>1, <2>2, <2>3, <2>4
<1>3. CASE h.head + 1 # D
  <2>1. g.head = h.head + 1 /\ g.phase = h.phase
    BY <1>3
  <2>2. g.phase \in Bits /\ g.head \in 0 .. D - 1
    BY <1>1, <1>3, <2>1
  <2>3. ASSUME NEW j \in 0 .. D - 2
        PROVE  /\ Ahead(g.head, j, D) = Ahead(h.head, j + 1, D)
               /\ PhaseAt(g, j, D) = PhaseAt(h, j + 1, D)
    <3>1. j \in Nat /\ g.head + j = h.head + (j + 1)
      BY <1>1, <2>1
    <3> QED
      BY <2>1, <3>1 DEF Ahead, PhaseAt
  <2>4. Ahead(g.head, D - 1, D) = h.head /\ PhaseAt(g, D - 1, D) = 1 - h.phase
    BY <1>1, <1>3, <2>1 DEF Ahead, PhaseAt
  <2> QED
    BY <2>2, <2>3, <2>4
<1> QED
  BY <1>2, <1>3

\* The driver takes the completion at its head.
LEMMA ReapKeeps ==
  ASSUME ControllerInv, Reap
  PROVE  ControllerInv'
<1>1. PICK D : D = bar.aqa
  OBVIOUS
<1>2. PICK e : e = mem.cq[bar.acq][host.head]
  OBVIOUS
<1>3. /\ host.step = "up" /\ e.phase = host.phase /\ posted' = Tail(posted)
      /\ UNCHANGED <<bar, old, csts, aq, mem, io, turn>>
  BY <1>2 DEF Reap
<1>4. PICK c \in host.out :
        /\ c.cid = e.cid
        /\ host' = [host EXCEPT !.out = @ \ {c},
                                !.head = IF host.head + 1 = D THEN 0 ELSE @ + 1,
                                !.phase = IF host.head + 1 = D THEN 1 - @ ELSE @,
                                !.queue = IF c.op \in QueueOps THEN Leads(@, c.op) ELSE @]
  BY <1>1, <1>2 DEF Reap
<1>5. /\ Types /\ Followed /\ Trailing /\ Cleared /\ Resting
      /\ host \in Driver /\ aq \in AdminQueue /\ mem \in Memory /\ io \in Pair
      /\ posted \in Seq(Cids) /\ aq.sqDepth = D /\ D \in Nat \ {0} /\ D \in Depths
      /\ aq.cq = bar.acq
  BY <1>1, <1>3, UpNow
<1>6. /\ Inside(aq, aq.oldDb) /\ Asks(aq, mem, io, aq.oldDb) /\ Numbered(io)
      /\ InRing(host, aq) /\ Counted(host, aq, posted, aq.oldDb)
      /\ Distinct(host, aq, mem, posted, aq.oldDb) /\ Written(host, aq, mem, posted)
      /\ OneQueueOp(host) /\ Current(host, io, posted)
  BY <1>3, UpNow
<1>7. PICK P, L : P = Pending(aq, aq.oldDb) /\ L = Len(posted)
  OBVIOUS
<1>8. L \in Nat /\ P \in Nat
  BY <1>5, <1>6, <1>7, PendingRange
<1>9. host.head \in 0 .. D - 1 /\ host.phase \in Bits
  <2>1. host.head \in Nat /\ host.head < D
    BY <1>5, <1>6, DeepestSlots DEF Driver, InRing
  <2> QED
    BY <1>5, <2>1 DEF Driver
<1>10. /\ IsFiniteSet(host.out) /\ L + P <= Cardinality(host.out)
       /\ Cardinality(host.out) <= D - 1 /\ Cardinality(host.out) \in Nat
  BY <1>5, <1>6, <1>7, FS_CardinalityType DEF Counted
<1>30. ~ host.stale /\ Shown(host, aq, mem, posted)
  <2>1. ASSUME Hidden(host, aq, mem, posted) PROVE FALSE
    <3>1. e.phase = 0 /\ host.phase = 1
      BY <1>2, <1>5, <1>9, <2>1 DEF Hidden
    <3>2. e.phase = host.phase
      BY <1>3
    <3>3. 0 = 1
      BY <3>1, <3>2
    <3> QED
      BY <3>3
  <2> QED
    BY <1>6, <2>1 DEF Written
<1>11. L # 0 /\ posted[1] = c.cid
  <2>1. 0 \in 0 .. D - 1 /\ Ahead(host.head, 0, D) = host.head /\ PhaseAt(host, 0, D) = host.phase
    BY <1>5, <1>9 DEF Ahead, PhaseAt
  <2>2. IF 0 < L THEN e.cid = posted[0 + 1] /\ e.phase = PhaseAt(host, 0, D)
        ELSE e.phase # PhaseAt(host, 0, D)
    BY <1>2, <1>5, <1>7, <1>30, <2>1 DEF Shown
  <2> QED
    BY <1>3, <1>4, <1>8, <2>1, <2>2
<1>12. PICK t : t = Tail(posted)
  OBVIOUS
<1>13. /\ t \in Seq(Cids) /\ Len(t) = L - 1 /\ L - 1 \in Nat
       /\ \A j \in 1 .. L - 1 : t[j] = posted[j + 1] /\ j \in Nat /\ j + 1 \in 1 .. L
  <2>1. posted # <<>>
    BY <1>7, <1>11
  <2>2. t \in Seq(Cids) /\ Len(t) = L - 1 /\ \A j \in 1 .. Len(t) : t[j] = posted[j + 1]
    BY <1>5, <1>7, <1>12, <2>1, HeadTailProperties
  <2> QED
    BY <1>8, <1>11, <2>2
<1>14. PICK G : G = host'
  OBVIOUS
<1>15. /\ G.step = "up" /\ G.place = host.place /\ G.tail = host.tail /\ G.out = host.out \ {c}
       /\ G.head = (IF host.head + 1 = D THEN 0 ELSE host.head + 1)
       /\ G.phase = (IF host.head + 1 = D THEN 1 - host.phase ELSE host.phase)
       /\ G.queue = (IF c.op \in QueueOps THEN Leads(host.queue, c.op) ELSE host.queue)
       /\ G.ios = host.ios /\ G.stale = host.stale
  BY <1>3, <1>4, <1>5, <1>14 DEF Driver
<1>16. /\ \A j \in 0 .. D - 2 : /\ Ahead(G.head, j, D) = Ahead(host.head, j + 1, D)
                                /\ PhaseAt(G, j, D) = PhaseAt(host, j + 1, D)
       /\ Ahead(G.head, D - 1, D) = host.head /\ PhaseAt(G, D - 1, D) = 1 - host.phase
       /\ G.head \in 0 .. D - 1 /\ G.phase \in Bits
  BY <1>5, <1>9, <1>15, HeadStep
<1>17. /\ c.op \in QueueOps => /\ Leads(host.queue, c.op) # "no"
                               /\ \A x \in host.out : x.op \in QueueOps => x = c
  BY <1>6 DEF OneQueueOp
<1>18. G \in Driver
  <2>1. G.queue \in {"none", "cq", "both"}
    BY <1>5, <1>15, <1>17, LeadsTo DEF Driver
  <2>2. G.head \in Slots
    BY <1>5, <1>16, DeepestSlots
  <2>3. PICK hd, ph, q, o : hd = G.head /\ ph = G.phase /\ q = G.queue /\ o = G.out
    OBVIOUS
  <2>4. G = [host EXCEPT !.out = o, !.head = hd, !.phase = ph, !.queue = q]
    BY <1>4, <1>5, <1>14, <1>15, <2>3 DEF Driver
  <2>5. o \in SUBSET Request
    BY <1>5, <1>15, <2>3 DEF Driver
  <2> QED
    BY <1>5, <1>16, <2>1, <2>2, <2>3, <2>4, <2>5 DEF Driver
<1>19. Types'
  BY <1>3, <1>5, <1>12, <1>13, <1>14, <1>18 DEF Types
<1>20. Followed' /\ Trailing'
  <2>1. host'.step = host.step /\ host'.place = host.place
    BY <1>3, <1>14, <1>15
  <2>2. Followed'
    BY <1>3, <1>5, <2>1 DEF Followed
  <2>3. Trailing'
    BY <1>3, <1>5, <2>1 DEF Trailing
  <2> QED
    BY <2>2, <2>3
<1>21. Cleared' /\ Resting'
  BY <1>14, <1>15 DEF Cleared, Resting, Starting
<1>22. InRing(G, aq)
  <2>1. G.head < D
    BY <1>5, <1>16
  <2> QED
    BY <1>5, <1>6, <1>15, <2>1 DEF InRing
<1>23. Counted(G, aq, t, aq.oldDb)
  <2>1. IsFiniteSet(G.out) /\ Cardinality(G.out) = Cardinality(host.out) - 1
    BY <1>10, <1>15, FS_RemoveElement
  <2>2. (L - 1) + P <= Cardinality(G.out) /\ Cardinality(G.out) <= D - 1
    BY <1>5, <1>8, <1>10, <2>1
  <2> QED
    BY <1>5, <1>7, <1>13, <2>1, <2>2 DEF Counted
<1>24. Distinct(G, aq, mem, t, aq.oldDb)
  <2>1. \A x, y \in host.out : x.cid = y.cid => x = y
    BY <1>6 DEF Distinct
  <2>2. \A k \in 0 .. P - 1 : AskedAt(aq, mem, aq.oldDb, k) \in host.out
    BY <1>6, <1>7 DEF Distinct
  <2>3. \A k, x \in 0 .. P - 1 :
          AskedAt(aq, mem, aq.oldDb, k).cid = AskedAt(aq, mem, aq.oldDb, x).cid => k = x
    BY <1>6, <1>7 DEF Distinct
  <2>4. \A j \in 1 .. L : \E x \in host.out : x.cid = posted[j]
    BY <1>6, <1>7 DEF Distinct
  <2>5. \A j, x \in 1 .. L : posted[j] = posted[x] => j = x
    BY <1>6, <1>7 DEF Distinct
  <2>6. \A j \in 1 .. L : \A k \in 0 .. P - 1 : posted[j] # AskedAt(aq, mem, aq.oldDb, k).cid
    BY <1>6, <1>7 DEF Distinct
  <2>7. 1 \in 1 .. L
    BY <1>8, <1>11
  <2>8. \A k \in 0 .. P - 1 : AskedAt(aq, mem, aq.oldDb, k) \in G.out
    BY <1>11, <1>15, <2>2, <2>6, <2>7
  <2>9. \A j \in 1 .. L - 1 : \E x \in G.out : x.cid = t[j]
    <3>1. ASSUME NEW j \in 1 .. L - 1 PROVE \E x \in G.out : x.cid = t[j]
      <4>1. t[j] = posted[j + 1] /\ j + 1 \in 1 .. L /\ j + 1 # 1
        BY <1>13
      <4>2. PICK x \in host.out : x.cid = posted[j + 1]
        BY <2>4, <4>1
      <4>3. x # c
        BY <1>11, <2>5, <2>7, <4>1, <4>2
      <4> QED
        BY <1>15, <4>1, <4>2, <4>3
    <3> QED
      BY <3>1
  <2>10. \A j, x \in 1 .. L - 1 : t[j] = t[x] => j = x
    <3>1. ASSUME NEW j \in 1 .. L - 1, NEW x \in 1 .. L - 1, t[j] = t[x] PROVE j = x
      <4>1. posted[j + 1] = posted[x + 1] /\ j + 1 \in 1 .. L /\ x + 1 \in 1 .. L
            /\ j \in Nat /\ x \in Nat
        BY <1>13, <3>1
      <4>2. j + 1 = x + 1
        BY <2>5, <4>1
      <4> QED
        BY <4>1, <4>2
    <3> QED
      BY <3>1
  <2>11. \A j \in 1 .. L - 1 : \A k \in 0 .. P - 1 : t[j] # AskedAt(aq, mem, aq.oldDb, k).cid
    BY <1>13, <2>6
  <2>12. \A x, y \in G.out : x.cid = y.cid => x = y
    BY <1>15, <2>1
  <2> QED
    BY <1>7, <1>13, <2>3, <2>8, <2>9, <2>10, <2>11, <2>12 DEF Distinct
<1>25. Written(G, aq, mem, t)
  <2>1. ASSUME NEW j \in 0 .. D - 1
        PROVE  IF j < L - 1
               THEN /\ mem.cq[aq.cq][Ahead(G.head, j, D)].cid = t[j + 1]
                    /\ mem.cq[aq.cq][Ahead(G.head, j, D)].phase = PhaseAt(G, j, D)
               ELSE mem.cq[aq.cq][Ahead(G.head, j, D)].phase # PhaseAt(G, j, D)
    <3>1. CASE j = D - 1
      <4>1. ~ (j < L - 1)
        BY <1>5, <1>8, <1>10, <3>1
      <4>2. mem.cq[aq.cq][host.head].phase # 1 - host.phase
        BY <1>2, <1>3, <1>5, <1>9 DEF Bits
      <4> QED
        BY <1>16, <3>1, <4>1, <4>2
    <3>2. CASE j # D - 1
      <4>1. /\ j \in 0 .. D - 2 /\ j + 1 \in 0 .. D - 1 /\ j \in Nat
            /\ (j < L - 1 <=> j + 1 < L) /\ (j < L - 1 => j + 1 \in 1 .. L - 1)
        BY <1>5, <1>8, <3>2
      <4>2. /\ Ahead(G.head, j, D) = Ahead(host.head, j + 1, D)
            /\ PhaseAt(G, j, D) = PhaseAt(host, j + 1, D)
        BY <1>16, <4>1
      <4>3. IF j + 1 < L
            THEN /\ mem.cq[aq.cq][Ahead(host.head, j + 1, D)].cid = posted[(j + 1) + 1]
                 /\ mem.cq[aq.cq][Ahead(host.head, j + 1, D)].phase = PhaseAt(host, j + 1, D)
            ELSE mem.cq[aq.cq][Ahead(host.head, j + 1, D)].phase # PhaseAt(host, j + 1, D)
        BY <1>5, <1>7, <1>30, <4>1 DEF Shown
      <4>4. j < L - 1 => t[j + 1] = posted[(j + 1) + 1]
        BY <1>13, <4>1
      <4> QED
        BY <4>1, <4>2, <4>3, <4>4
    <3> QED
      BY <3>1, <3>2
  <2>2. aq.head = Ahead(G.head, L - 1, D) /\ aq.phase = PhaseAt(G, L - 1, D)
    <3>1. L - 1 \in 0 .. D - 2 /\ (L - 1) + 1 = L
      BY <1>5, <1>8, <1>10, <1>13
    <3>2. aq.head = Ahead(host.head, L, D) /\ aq.phase = PhaseAt(host, L, D)
      BY <1>5, <1>7, <1>30 DEF Shown
    <3>3. /\ Ahead(G.head, L - 1, D) = Ahead(host.head, (L - 1) + 1, D)
          /\ PhaseAt(G, L - 1, D) = PhaseAt(host, (L - 1) + 1, D)
      BY <1>16, <3>1
    <3> QED
      BY <3>1, <3>2, <3>3
  <2>3. Shown(G, aq, mem, t)
    BY <1>5, <1>13, <2>1, <2>2 DEF Shown
  <2> QED
    BY <1>15, <1>30, <2>3 DEF Written
<1>26. OneQueueOp(G)
  <2>1. CASE c.op \in QueueOps
    <3>1. \A x \in G.out : x.op \notin QueueOps
      BY <1>15, <1>17, <2>1
    <3> QED
      BY <3>1 DEF OneQueueOp
  <2>2. CASE c.op \notin QueueOps
    BY <1>6, <1>15, <2>2 DEF OneQueueOp
  <2> QED
    BY <2>1, <2>2
<1>27. Current(G, io, t)
  <2>1. ASSUME Made(G, t) PROVE Made(host, posted)
    <3>1. 1 \in 1 .. L /\ 1 \in 1 .. Len(posted)
      BY <1>7, <1>8, <1>11
    <3>2. CASE G.queue = "both"
      <4>1. CASE c.op \in QueueOps
        <5>1. host.queue = "cq" /\ c.op = "create_sq"
          BY <1>15, <1>17, <3>2, <4>1, LeadsTo
        <5> QED
          BY <1>4, <1>11, <3>1, <5>1 DEF Made
      <4>2. CASE c.op \notin QueueOps
        BY <1>15, <3>2, <4>2 DEF Made
      <4> QED
        BY <4>1, <4>2
    <3>3. CASE /\ G.queue = "cq"
               /\ \E x \in G.out : x.op = "create_sq" /\ \E j \in 1 .. Len(t) : t[j] = x.cid
      <4>1. PICK x \in G.out : x.op = "create_sq" /\ \E j \in 1 .. Len(t) : t[j] = x.cid
        BY <3>3
      <4>2. PICK j \in 1 .. L - 1 : t[j] = x.cid
        BY <1>13, <4>1
      <4>3. x \in host.out /\ x # c /\ x.op \in QueueOps
        BY <1>15, <4>1 DEF QueueOps
      <4>4. c.op \notin QueueOps
        BY <1>17, <4>3
      <4>5. host.queue = "cq"
        BY <1>15, <3>3, <4>4
      <4>6. j + 1 \in 1 .. Len(posted) /\ posted[j + 1] = x.cid
        BY <1>7, <1>13, <4>2
      <4> QED
        BY <4>1, <4>3, <4>5, <4>6 DEF Made
    <3> QED
      BY <2>1, <3>2, <3>3 DEF Made
  <2> QED
    BY <1>6, <1>15, <2>1 DEF Current
<1>28. Going(G, aq, mem, io, t, aq.oldDb)
  BY <1>6, <1>22, <1>23, <1>24, <1>25, <1>26, <1>27 DEF Going
<1>29. Going(host, aq, mem, io, posted, aq.oldDb)'
  BY <1>3, <1>12, <1>14, <1>28
<1> QED
  BY <1>19, <1>20, <1>21, <1>29 DEF ControllerInv

\* The window of commands not processed grows at its end.
LEMMA PendingGrows ==
  ASSUME NEW a \in AdminQueue, NEW o, Inside(a, o), a.sqDepth # 0,
         NEW b, NEW n, n = Ahead(a.db, 1, a.sqDepth), b.db = n, b.sqDepth = a.sqDepth,
         Pending(a, o) # a.sqDepth - 1
  PROVE  /\ n \in 0 .. a.sqDepth - 1 /\ o \in 0 .. a.sqDepth - 1 /\ a.db \in 0 .. a.sqDepth - 1
         /\ Pending(b, o) = Pending(a, o) + 1
         /\ Pending(a, o) \in 0 .. a.sqDepth - 2
         /\ Ahead(o, Pending(a, o), a.sqDepth) = a.db
         /\ \A k \in 0 .. Pending(a, o) - 1 : Ahead(o, k, a.sqDepth) # a.db
<1>1. PICK D, P : D = a.sqDepth /\ P = Pending(a, o)
  OBVIOUS
<1>2. /\ D \in Nat \ {0} /\ o \in 0 .. D - 1 /\ a.db \in 0 .. D - 1 /\ P \in 0 .. D - 1
      /\ Ahead(o, P, D) = a.db
  BY <1>1, PendingRange
<1>3. P \in 0 .. D - 2
  BY <1>1, <1>2
<1>4. n \in 0 .. D - 1
  BY <1>1, <1>2 DEF Ahead
<1>5. Pending(b, o) = P + 1
  <2>1. P = IF a.db < o THEN a.db - o + D ELSE a.db - o
    BY <1>1 DEF Pending
  <2>2. Pending(b, o) = IF n < o THEN n - o + D ELSE n - o
    BY <1>1 DEF Pending
  <2>3. n = IF a.db + 1 < D THEN a.db + 1 ELSE a.db + 1 - D
    BY <1>1 DEF Ahead
  <2>4. CASE a.db + 1 < D
    BY <1>2, <1>3, <2>1, <2>2, <2>3, <2>4
  <2>5. CASE a.db + 1 = D
    <3>1. n = 0 /\ ~ (a.db < o)
      BY <1>2, <2>3, <2>5
    <3>2. P = a.db - o
      BY <2>1, <3>1
    <3>3. o # 0
      BY <1>2, <1>3, <2>5, <3>2
    <3> QED
      BY <1>2, <2>2, <2>5, <3>1, <3>2, <3>3
  <2> QED
    BY <1>2, <2>4, <2>5
<1>6. ASSUME NEW k \in 0 .. P - 1 PROVE Ahead(o, k, D) # a.db
  <2>1. k \in 0 .. D - 1 /\ k # P
    BY <1>2
  <2> QED
    BY <1>2, <2>1, RingStep
<1> QED
  BY <1>1, <1>2, <1>3, <1>4, <1>5, <1>6

\* The driver writes a command behind the pending ones.
LEMMA SubmitKeeps ==
  ASSUME ControllerInv, NEW cid \in Cids, NEW op \in Ops, Submit(cid, op)
  PROVE  ControllerInv'
<1>1. PICK D, n, c : D = bar.aqa /\ n = (host.tail + 1) % D /\ c = [cid |-> cid, op |-> op]
  OBVIOUS
<1>2. /\ host.step = "up" /\ Cardinality(host.out) < D - 1
      /\ \A x \in host.out : x.cid # cid
      /\ op \in QueueOps => ~ Asked /\ Leads(host.queue, op) # "no"
      /\ op = "create_sq" => io.made < MaxQueues
      /\ host' = [host EXCEPT !.tail = n, !.out = @ \cup {c}]
      /\ mem' = [mem EXCEPT !.sq[bar.asq][host.tail] = c]
      /\ aq' = [aq EXCEPT !.db = n]
      /\ UNCHANGED <<bar, old, csts, io, posted, turn>>
  BY <1>1 DEF Submit
<1>3. /\ Types /\ Followed /\ Trailing /\ Cleared /\ Resting
      /\ host \in Driver /\ aq \in AdminQueue /\ mem \in Memory /\ io \in Pair
      /\ posted \in Seq(Cids) /\ aq.sqDepth = D /\ D \in Nat \ {0} /\ D \in Depths
      /\ aq.cq = bar.acq /\ aq.sq = bar.asq /\ bar.asq \in Bases
  BY <1>1, <1>2, UpNow
<1>4. /\ Inside(aq, aq.oldDb) /\ Asks(aq, mem, io, aq.oldDb) /\ Numbered(io)
      /\ InRing(host, aq) /\ Counted(host, aq, posted, aq.oldDb)
      /\ Distinct(host, aq, mem, posted, aq.oldDb) /\ Written(host, aq, mem, posted)
      /\ OneQueueOp(host) /\ Current(host, io, posted)
  BY <1>2, UpNow
<1>5. PICK o, P, L : o = aq.oldDb /\ P = Pending(aq, aq.oldDb) /\ L = Len(posted)
  OBVIOUS
<1>6. L \in Nat /\ P \in Nat
  BY <1>3, <1>4, <1>5, PendingRange
<1>7. /\ IsFiniteSet(host.out) /\ L + P <= Cardinality(host.out)
      /\ Cardinality(host.out) \in Nat
  BY <1>4, <1>5, FS_CardinalityType DEF Counted
<1>8. host.tail = aq.db /\ n = Ahead(aq.db, 1, D) /\ P # D - 1 /\ aq.db \in 0 .. D - 1
  <2>1. host.tail = aq.db
    BY <1>4 DEF InRing
  <2>2. P # D - 1
    BY <1>2, <1>3, <1>6, <1>7
  <2>3. aq.db \in 0 .. D - 1
    BY <1>3, <1>4, PendingRange
  <2>4. (aq.db + 1) % D = Ahead(aq.db, 1, D)
    <3>1. 1 \in 0 .. D
      BY <1>3
    <3> QED
      BY <1>3, <2>3, <3>1, RingPlace
  <2> QED
    BY <1>1, <2>1, <2>2, <2>3, <2>4
<1>9. PICK g, b, w : g = host' /\ b = aq' /\ w = mem'
  OBVIOUS
<1>10. /\ n \in 0 .. D - 1 /\ o \in 0 .. D - 1 /\ n \in Slots /\ aq.db \in Slots
       /\ P \in 0 .. D - 2 /\ Ahead(o, P, D) = aq.db
       /\ \A k \in 0 .. P - 1 : Ahead(o, k, D) # aq.db
  <2>1. b.db = n /\ b.sqDepth = D
    BY <1>2, <1>3, <1>9 DEF AdminQueue
  <2>2. /\ n \in 0 .. D - 1 /\ o \in 0 .. D - 1 /\ P \in 0 .. D - 2 /\ Ahead(o, P, D) = aq.db
        /\ \A k \in 0 .. P - 1 : Ahead(o, k, D) # aq.db
    BY <1>3, <1>4, <1>5, <1>8, <2>1, PendingGrows
  <2> QED
    BY <1>3, <1>8, <2>2, DeepestSlots
<1>11. /\ b.built = aq.built /\ b.sq = aq.sq /\ b.cq = aq.cq /\ b.sqRoom = aq.sqRoom
       /\ b.cqRoom = aq.cqRoom /\ b.sqDepth = aq.sqDepth /\ b.cqDepth = aq.cqDepth
       /\ b.head = aq.head /\ b.phase = aq.phase /\ b.db = n /\ b.oldDb = o /\ b \in AdminQueue
  BY <1>2, <1>3, <1>5, <1>9, <1>10 DEF AdminQueue
<1>12. Pending(b, o) = P + 1
  BY <1>3, <1>4, <1>5, <1>8, <1>11, PendingGrows
<1>13. c \in Request /\ c.cid = cid /\ c.op = op
  BY <1>1 DEF Request
<1>14. /\ w \in Memory /\ w.cq = mem.cq /\ w.sq[aq.sq][aq.db] = c
       /\ \A s \in Slots : s # aq.db => w.sq[aq.sq][s] = mem.sq[aq.sq][s]
  <2>1. PICK q : q = [mem.sq EXCEPT ![aq.sq][aq.db] = c]
    OBVIOUS
  <2>2. w = [mem EXCEPT !.sq = q]
    BY <1>2, <1>3, <1>8, <1>9, <2>1 DEF Memory
  <2>3. mem.sq \in [Bases -> [Slots -> Command]]
    BY <1>3 DEF Memory
  <2>4. c \in Command
    BY <1>13 DEF Request, Command
  <2>5. q \in [Bases -> [Slots -> Command]]
    <3>1. ASSUME NEW x \in Bases PROVE q[x] \in [Slots -> Command]
      <4>1. CASE x = aq.sq
        BY <1>10, <2>1, <2>3, <2>4, <4>1
      <4>2. CASE x # aq.sq
        BY <2>1, <2>3, <4>2
      <4> QED
        BY <4>1, <4>2
    <3>2. q = [x \in Bases |-> q[x]]
      BY <2>1, <2>3
    <3> QED
      BY <3>1, <3>2
  <2>6. q[aq.sq][aq.db] = c /\ \A s \in Slots : s # aq.db => q[aq.sq][s] = mem.sq[aq.sq][s]
    BY <1>3, <1>10, <2>1, <2>3
  <2> QED
    BY <1>3, <2>2, <2>5, <2>6 DEF Memory
<1>15. /\ AskedAt(b, w, o, P) = c
       /\ \A k \in 0 .. P - 1 : AskedAt(b, w, o, k) = AskedAt(aq, mem, o, k)
  <2>1. AskedAt(b, w, o, P) = c
    BY <1>3, <1>10, <1>11, <1>14 DEF AskedAt
  <2>2. ASSUME NEW k \in 0 .. P - 1 PROVE AskedAt(b, w, o, k) = AskedAt(aq, mem, o, k)
    <3>1. Ahead(o, k, D) \in 0 .. D - 1 /\ Ahead(o, k, D) # aq.db
      <4>1. k \in 0 .. D - 1
        BY <1>3, <1>10
      <4> QED
        BY <1>3, <1>10, <4>1, RingStep
    <3>2. Ahead(o, k, D) \in Slots
      BY <1>3, <3>1, DeepestSlots
    <3> QED
      BY <1>3, <1>11, <1>14, <3>1, <3>2 DEF AskedAt
  <2> QED
    BY <2>1, <2>2
<1>16. \A k \in 0 .. (P + 1) - 1 : k \in 0 .. P - 1 \/ k = P
  BY <1>6
<1>17. /\ g.step = "up" /\ g.place = host.place /\ g.tail = n /\ g.head = host.head
       /\ g.phase = host.phase /\ g.out = host.out \cup {c} /\ g.queue = host.queue
       /\ g.ios = host.ios /\ g \in Driver /\ g.stale = host.stale
  <2>1. PICK O : O = host.out \cup {c}
    OBVIOUS
  <2>2. O \in SUBSET Request
    BY <1>3, <1>13, <2>1 DEF Driver
  <2>3. g = [host EXCEPT !.tail = n, !.out = O]
    BY <1>2, <1>3, <1>9, <2>1 DEF Driver
  <2> QED
    BY <1>2, <1>3, <1>10, <2>1, <2>2, <2>3 DEF Driver
<1>18. Types'
  BY <1>2, <1>3, <1>9, <1>11, <1>14, <1>17 DEF Types
<1>19. Followed' /\ Trailing'
  <2>1. host'.step = host.step /\ host'.place = host.place
    BY <1>2, <1>9, <1>17
  <2>2. Followed'
    BY <1>2, <1>3, <1>9, <1>11, <2>1 DEF Followed
  <2>3. Trailing'
    BY <1>2, <1>3, <2>1 DEF Trailing
  <2> QED
    BY <2>2, <2>3
<1>20. Cleared' /\ Resting'
  BY <1>9, <1>17 DEF Cleared, Resting, Starting
<1>21. Inside(b, o)
  BY <1>3, <1>4, <1>5, <1>10, <1>11 DEF Inside
<1>22. /\ \A k \in 0 .. P - 1 : AskedAt(aq, mem, o, k) \in host.out
       /\ \A k \in 0 .. P - 1 : AsksOk(aq, mem, io, o, P, k)
  BY <1>4, <1>5 DEF Distinct, Asks
<1>23. op \in QueueOps => \A x \in host.out : x.op \notin QueueOps
  BY <1>2 DEF Asked
<1>24. Asks(b, w, io, o)
  <2>1. ASSUME NEW k \in 0 .. (P + 1) - 1 PROVE AsksOk(b, w, io, o, P + 1, k)
    <3>1. CASE k = P
      <4>1. \A x \in 0 .. (P + 1) - 1 : x # P => x \in 0 .. P - 1
        BY <1>16
      <4>2. op \in QueueOps =>
              \A x \in 0 .. (P + 1) - 1 : x # P => AskedAt(b, w, o, x).op \notin QueueOps
        BY <1>15, <1>22, <1>23, <4>1
      <4> QED
        BY <1>2, <1>13, <1>15, <3>1, <4>2 DEF AsksOk
    <3>2. CASE k \in 0 .. P - 1
      <4>1. PICK e : e = AskedAt(aq, mem, o, k)
        OBVIOUS
      <4>2. /\ e \in Request /\ (e.op = "create_sq" => io.made < MaxQueues)
            /\ (e.op \in QueueOps =>
                  \A x \in 0 .. P - 1 : x # k => AskedAt(aq, mem, o, x).op \notin QueueOps)
        BY <1>22, <3>2, <4>1 DEF AsksOk
      <4>3. e.op \in QueueOps => c.op \notin QueueOps
        BY <1>13, <1>22, <1>23, <3>2, <4>1
      <4>4. e.op \in QueueOps =>
              \A x \in 0 .. (P + 1) - 1 : x # k => AskedAt(b, w, o, x).op \notin QueueOps
        BY <1>15, <1>16, <4>2, <4>3
      <4>5. AskedAt(b, w, o, k) = e
        BY <1>15, <3>2, <4>1
      <4> QED
        BY <4>2, <4>4, <4>5 DEF AsksOk
    <3> QED
      BY <1>16, <3>1, <3>2
  <2> QED
    BY <1>12, <2>1 DEF Asks
<1>25. InRing(g, b)
  BY <1>4, <1>11, <1>17 DEF InRing
<1>26. Counted(g, b, posted, o)
  <2>1. c \notin host.out
    BY <1>2, <1>13
  <2>2. IsFiniteSet(g.out) /\ Cardinality(g.out) = Cardinality(host.out) + 1
    <3>1. PICK O : O = host.out
      OBVIOUS
    <3>2. IsFiniteSet(O)
      BY <1>7, <3>1
    <3>3. /\ IsFiniteSet(O \cup {c})
          /\ Cardinality(O \cup {c}) = IF c \in O THEN Cardinality(O) ELSE Cardinality(O) + 1
      BY <3>2, FS_AddElement
    <3> QED
      BY <1>17, <2>1, <3>1, <3>3
  <2>3. L + (P + 1) <= Cardinality(g.out) /\ Cardinality(g.out) <= D - 1
    BY <1>2, <1>3, <1>6, <1>7, <2>2
  <2> QED
    BY <1>3, <1>5, <1>11, <1>12, <2>2, <2>3 DEF Counted
<1>27. Distinct(g, b, w, posted, o)
  <2>1. \A x, y \in host.out : x.cid = y.cid => x = y
    BY <1>4 DEF Distinct
  <2>2. \A k, x \in 0 .. P - 1 : AskedAt(aq, mem, o, k).cid = AskedAt(aq, mem, o, x).cid => k = x
    BY <1>4, <1>5 DEF Distinct
  <2>3. \A j \in 1 .. L : \E x \in host.out : x.cid = posted[j]
    BY <1>4, <1>5 DEF Distinct
  <2>4. \A j, x \in 1 .. L : posted[j] = posted[x] => j = x
    BY <1>4, <1>5 DEF Distinct
  <2>5. \A j \in 1 .. L : \A k \in 0 .. P - 1 : posted[j] # AskedAt(aq, mem, o, k).cid
    BY <1>4, <1>5 DEF Distinct
  <2>6. \A x, y \in g.out : x.cid = y.cid => x = y
    BY <1>2, <1>13, <1>17, <2>1
  <2>7. \A k \in 0 .. (P + 1) - 1 : AskedAt(b, w, o, k) \in g.out
    BY <1>15, <1>16, <1>17, <1>22
  <2>8. \A k, x \in 0 .. (P + 1) - 1 : AskedAt(b, w, o, k).cid = AskedAt(b, w, o, x).cid => k = x
    <3>1. \A k \in 0 .. P - 1 : AskedAt(b, w, o, k).cid # cid
      BY <1>2, <1>15, <1>22
    <3> QED
      BY <1>13, <1>15, <1>16, <2>2, <3>1
  <2>9. \A j \in 1 .. L : \E x \in g.out : x.cid = posted[j]
    BY <1>17, <2>3
  <2>10. \A j \in 1 .. L : \A k \in 0 .. (P + 1) - 1 : posted[j] # AskedAt(b, w, o, k).cid
    <3>1. \A j \in 1 .. L : posted[j] # cid
      BY <1>2, <2>3
    <3> QED
      BY <1>13, <1>15, <1>16, <2>5, <3>1
  <2> QED
    BY <1>5, <1>12, <2>4, <2>6, <2>7, <2>8, <2>9, <2>10 DEF Distinct
<1>28. Written(g, b, w, posted)
  <2>1. \A j : PhaseAt(g, j, D) = PhaseAt(host, j, D)
    BY <1>17 DEF PhaseAt
  <2> QED
    BY <1>3, <1>4, <1>11, <1>14, <1>17, <2>1 DEF Written, Shown, Hidden
<1>29. OneQueueOp(g)
  BY <1>2, <1>4, <1>13, <1>17, <1>23 DEF OneQueueOp
<1>30. Current(g, io, posted)
  <2>1. ASSUME Made(g, posted) PROVE Made(host, posted)
    <3>1. CASE g.queue = "both"
      BY <1>17, <3>1 DEF Made
    <3>2. CASE /\ g.queue = "cq"
               /\ \E x \in g.out : x.op = "create_sq" /\ \E j \in 1 .. Len(posted) : posted[j] = x.cid
      <4>1. PICK x \in g.out : x.op = "create_sq" /\ \E j \in 1 .. Len(posted) : posted[j] = x.cid
        BY <3>2
      <4>2. PICK j \in 1 .. Len(posted) : posted[j] = x.cid
        BY <4>1
      <4>3. posted[j] # cid
        BY <1>2, <1>4 DEF Distinct
      <4>4. x \in host.out
        BY <1>13, <1>17, <4>1, <4>2, <4>3
      <4> QED
        BY <1>17, <3>2, <4>1, <4>4 DEF Made
    <3> QED
      BY <2>1, <3>1, <3>2 DEF Made
  <2> QED
    BY <1>4, <1>17, <2>1 DEF Current
<1>31. Going(g, b, w, io, posted, o)
  BY <1>4, <1>21, <1>24, <1>25, <1>26, <1>27, <1>28, <1>29, <1>30 DEF Going
<1>32. Going(host, aq, mem, io, posted, aq.oldDb)'
  BY <1>2, <1>9, <1>11, <1>31
<1> QED
  BY <1>18, <1>19, <1>20, <1>32 DEF ControllerInv
-----------------------------------------------------------------------------
(* The invariant, and what follows from it.                                 *)

\* Nothing is set up at first.
LEMMA ControllerStarts ==
  ASSUME Init
  PROVE  ControllerInv
<1>1. 0 \in Slots /\ 0 \in Bits /\ 1 \in Bits /\ 0 \in Sizes /\ None \in Places
  BY DeepestSlots DEF Bits, Sizes, Places
<1>2. PICK e, f : e = NoCmd /\ f = [cid |-> None, phase |-> 0]
  OBVIOUS
<1>3. e \in Command /\ f \in Entry
  <2>1. "identify" \in Ops
    BY DEF Ops
  <2> QED
    BY <1>2, <2>1 DEF NoCmd, Command, Entry, Bits
<1>4. /\ host = [step |-> "off", place |-> None, starts |-> 0, tail |-> 0, head |-> 0, phase |-> 1,
                 out |-> {}, queue |-> "none", ios |-> {}, stale |-> FALSE]
      /\ bar = Zero /\ old = Zero /\ csts = [rdy |-> 0, shst |-> 0]
      /\ aq = [built |-> FALSE, sq |-> None, cq |-> None, sqRoom |-> 0, cqRoom |-> 0,
               sqDepth |-> 0, cqDepth |-> 0, head |-> 0, phase |-> 0, db |-> 0, oldDb |-> 0]
      /\ mem = [sq |-> [b \in Bases |-> [s \in Slots |-> e]],
                cq |-> [b \in Bases |-> [s \in Slots |-> f]]]
      /\ io = [polled |-> FALSE, sq |-> 0, cq |-> FALSE, made |-> 0, tags |-> {}, rung |-> {},
               flight |-> {}, bad |-> "no"]
      /\ posted = <<>> /\ turn = "bars"
  BY <1>2 DEF Init
<1>5. host \in Driver
  <2>1. 0 \in 0 .. MaxStarts
    BY BoundsAssumption
  <2>2. PICK u \in BOOLEAN : u = FALSE
    OBVIOUS
  <2>3. host = [step |-> "off", place |-> None, starts |-> 0, tail |-> 0, head |-> 0, phase |-> 1,
                out |-> {}, queue |-> "none", ios |-> {}, stale |-> u]
    BY <1>4, <2>2
  <2> QED
    BY <1>1, <2>1, <2>3 DEF Driver, DriverSteps
<1>6. Zero \in Registers /\ csts \in Status
  BY <1>1, <1>4 DEF Zero, Registers, Status
<1>7. aq \in AdminQueue
  <2>1. PICK t : t = FALSE
    OBVIOUS
  <2>2. t \in BOOLEAN
    BY <2>1
  <2>3. aq = [built |-> t, sq |-> None, cq |-> None, sqRoom |-> 0, cqRoom |-> 0,
              sqDepth |-> 0, cqDepth |-> 0, head |-> 0, phase |-> 0, db |-> 0, oldDb |-> 0]
    BY <1>4, <2>1
  <2> QED
    BY <1>1, <2>2, <2>3 DEF AdminQueue
<1>8. mem \in Memory
  <2>1. PICK q, c : q = [b \in Bases |-> [s \in Slots |-> e]] /\ c = [b \in Bases |-> [s \in Slots |-> f]]
    OBVIOUS
  <2>2. q \in [Bases -> [Slots -> Command]] /\ c \in [Bases -> [Slots -> Entry]]
    BY <1>3, <2>1
  <2> QED
    BY <1>4, <2>1, <2>2 DEF Memory
<1>9. io \in Pair /\ io.sq = 0 /\ io.flight = {}
  <2>1. PICK t, u : t = FALSE /\ u = "no"
    OBVIOUS
  <2>2. t \in BOOLEAN /\ u \in Faults
    BY <2>1 DEF Faults
  <2>6. 0 \in 0 .. MaxQueues
    BY BoundsAssumption
  <2>3. io = [polled |-> t, sq |-> 0, cq |-> t, made |-> 0, tags |-> {}, rung |-> {},
              flight |-> {}, bad |-> u]
    BY <1>4, <2>1
  <2>4. {} \in SUBSET IoCids /\ {} \in SUBSET Flight
    OBVIOUS
  <2>5. io \in Pair
    BY <2>2, <2>3, <2>4, <2>6 DEF Pair
  <2> QED
    BY <1>4, <2>5
<1>10. Types
  BY <1>4, <1>5, <1>6, <1>7, <1>8, <1>9 DEF Types
<1>11. Followed
  BY <1>4 DEF Followed, Zero
<1>12. Trailing
  BY <1>4 DEF Trailing, Zero, Starting
<1>13. Cleared /\ Resting
  BY <1>4 DEF Cleared, Resting, Starting
<1>14. Going(host, aq, mem, io, posted, 0)
  <2>1. Numbered(io)
    BY <1>9 DEF Numbered
  <2>2. host.step # "up" /\ aq.db = 0 /\ aq.head = 0
    BY <1>4
  <2> QED
    BY <1>7, <2>1, <2>2, GoingEmpty
<1> QED
  BY <1>4, <1>10, <1>11, <1>12, <1>13, <1>14 DEF ControllerInv

\* Every step keeps the invariant.
LEMMA ControllerKeeps ==
  ASSUME ControllerInv, [Next]_vars
  PROVE  ControllerInv'
<1>1. CASE UNCHANGED vars
  <2>1. UNCHANGED <<host, bar, old, csts, aq, mem, io, posted>> /\ turn' = turn
    BY <1>1 DEF vars
  <2>2. turn' \in {"bars", "doorbells"}
    BY <2>1 DEF ControllerInv, Types
  <2> QED
    BY <2>1, <2>2, IdleKeeps
<1>2. CASE HostStep
  BY <1>2, ProgramKeeps, RegisterKeeps, ReadyKeeps, DisableKeeps, OffKeeps, ReapKeeps,
     SubmitIoKeeps, SubmitKeeps, StopKeeps DEF HostStep
<1>3. CASE io.bad = "no" /\ Dispatcher
  BY <1>3, BarsKeep, DoorbellKeeps, FetchKeeps, CompleteKeeps DEF Dispatcher
<1> QED
  BY <1>1, <1>2, <1>3 DEF Next

\* The inductive invariant of the controller and its host.
THEOREM ControllerInvariance == Spec => []ControllerInv
<1>1. Init => ControllerInv
  BY ControllerStarts
<1>2. ControllerInv /\ [Next]_vars => ControllerInv'
  BY ControllerKeeps
<1> QED
  BY <1>1, <1>2, PTL DEF Spec

\* The entries of the phase expected are the completions posted.
LEMMA SeesThePosted ==
  ASSUME ControllerInv, host.step = "up", ~ host.stale
  PROVE  Visible = posted
<1>1. PICK D, L, S : /\ D = bar.aqa /\ L = Len(posted)
                     /\ S = {i \in 0 .. D - 1 :
                               \A x \in 0 .. i :
                                 mem.cq[bar.acq][(host.head + x) % D].phase =
                                   IF host.head + x >= D THEN 1 - host.phase ELSE host.phase}
  OBVIOUS
<1>2. /\ host \in Driver /\ aq \in AdminQueue /\ posted \in Seq(Cids) /\ aq.sqDepth = D
      /\ D \in Nat \ {0} /\ aq.cq = bar.acq /\ InRing(host, aq) /\ Inside(aq, aq.oldDb)
      /\ Counted(host, aq, posted, aq.oldDb) /\ Shown(host, aq, mem, posted)
  BY <1>1, UpNow DEF Written
<1>3. host.head \in 0 .. D - 1
  <2>1. host.head \in Nat /\ host.head < D
    BY <1>2, DeepestSlots DEF Driver, InRing
  <2> QED
    BY <1>2, <2>1
<1>4. L \in Nat /\ L <= D - 1
  <2>1. Pending(aq, aq.oldDb) \in Nat /\ Cardinality(host.out) \in Nat /\ L \in Nat
    BY <1>1, <1>2, PendingRange, FS_CardinalityType DEF Counted
  <2>2. L + Pending(aq, aq.oldDb) <= Cardinality(host.out) /\ Cardinality(host.out) <= D - 1
    BY <1>1, <1>2 DEF Counted
  <2> QED
    BY <1>2, <2>1, <2>2
<1>5. ASSUME NEW x \in 0 .. D - 1
      PROVE  (host.head + x) % D = Ahead(host.head, x, D)
  <2>1. x \in 0 .. D
    BY <1>2
  <2> QED
    BY <1>2, <1>3, <2>1, RingPlace
<1>6. ASSUME NEW x \in 0 .. D - 1
      PROVE  IF x < L THEN /\ mem.cq[bar.acq][(host.head + x) % D].cid = posted[x + 1]
                           /\ mem.cq[bar.acq][(host.head + x) % D].phase = PhaseAt(host, x, D)
             ELSE mem.cq[bar.acq][(host.head + x) % D].phase # PhaseAt(host, x, D)
  BY <1>1, <1>2, <1>5 DEF Shown
<1>7. \A x : PhaseAt(host, x, D) = IF host.head + x >= D THEN 1 - host.phase ELSE host.phase
  BY DEF PhaseAt
<1>8. S = 0 .. L - 1
  <2>1. ASSUME NEW i \in S PROVE i \in 0 .. L - 1
    <3>1. i \in 0 .. D - 1 /\ i \in 0 .. i
      BY <1>1, <1>2
    <3>2. mem.cq[bar.acq][(host.head + i) % D].phase = PhaseAt(host, i, D)
      BY <1>1, <1>7, <3>1
    <3>3. i < L
      BY <1>6, <3>1, <3>2
    <3> QED
      BY <1>4, <3>1, <3>3
  <2>2. ASSUME NEW i \in 0 .. L - 1 PROVE i \in S
    <3>1. i \in 0 .. D - 1
      BY <1>2, <1>4
    <3>2. ASSUME NEW x \in 0 .. i
          PROVE  mem.cq[bar.acq][(host.head + x) % D].phase =
                   IF host.head + x >= D THEN 1 - host.phase ELSE host.phase
      <4>1. x \in 0 .. D - 1 /\ x < L
        BY <1>2, <1>4
      <4> QED
        BY <1>6, <1>7, <4>1
    <3> QED
      BY <1>1, <3>1, <3>2
  <2> QED
    BY <2>1, <2>2
<1>9. Cardinality(S) = L
  <2>1. 0 \in Int /\ L - 1 \in Int /\ (0 > L - 1 <=> L = 0) /\ (L - 1) - 0 + 1 = L
    BY <1>4
  <2>2. Cardinality(0 .. L - 1) = IF 0 > L - 1 THEN 0 ELSE (L - 1) - 0 + 1
    BY <2>1, FS_Interval
  <2> QED
    BY <1>8, <2>1, <2>2
<1>10. Visible = [i \in 1 .. L |-> mem.cq[bar.acq][(host.head + (i - 1)) % D].cid]
  <2>1. Visible = [i \in 1 .. Cardinality(S) |-> mem.cq[bar.acq][(host.head + (i - 1)) % D].cid]
    BY <1>1 DEF Visible
  <2> QED
    BY <1>9, <2>1
<1>11. ASSUME NEW i \in 1 .. L
       PROVE  mem.cq[bar.acq][(host.head + (i - 1)) % D].cid = posted[i]
  <2>1. i - 1 \in 0 .. D - 1 /\ i - 1 < L /\ (i - 1) + 1 = i
    BY <1>2, <1>4
  <2> QED
    BY <1>6, <2>1
<1>12. posted = [i \in 1 .. L |-> posted[i]]
  BY <1>1, <1>2
<1> QED
  BY <1>10, <1>11, <1>12

\* With the phase of an earlier start, it sees none.
LEMMA SeesNone ==
  ASSUME ControllerInv, host.step = "up", host.stale
  PROVE  Visible = <<>>
<1>1. PICK D, S : /\ D = bar.aqa
                  /\ S = {i \in 0 .. D - 1 :
                            \A x \in 0 .. i :
                              mem.cq[bar.acq][(host.head + x) % D].phase =
                                IF host.head + x >= D THEN 1 - host.phase ELSE host.phase}
  OBVIOUS
<1>2. /\ D \in Nat \ {0} /\ aq.sqDepth = D /\ aq.cq = bar.acq /\ Hidden(host, aq, mem, posted)
  BY <1>1, UpNow DEF Written
<1>3. /\ host.head = 0 /\ host.phase = 1 /\ (host.head + 0) % D = 0 /\ ~ (host.head + 0 >= D)
      /\ 0 \in 0 .. D - 1 /\ mem.cq[bar.acq][0].phase = 0
  BY <1>2 DEF Hidden
<1>4. S = {}
  <2>1. ASSUME NEW i \in S PROVE FALSE
    <3>1. 0 \in 0 .. i
      BY <1>1
    <3>2. mem.cq[bar.acq][(host.head + 0) % D].phase =
            IF host.head + 0 >= D THEN 1 - host.phase ELSE host.phase
      BY <1>1, <3>1
    <3> QED
      BY <1>3, <3>2
  <2> QED
    BY <2>1
<1>5. Cardinality(S) = 0
  BY <1>4, FS_EmptySet
<1>6. Visible = [i \in 1 .. Cardinality(S) |-> mem.cq[bar.acq][(host.head + (i - 1)) % D].cid]
  BY <1>1 DEF Visible
<1> QED
  BY <1>5, <1>6

\* A host that is up sees the completions of its admin commands, all of them, in
\* order and no other, or, if its start found the phase bit of an earlier one at
\* 0 and left the depth as it was, none of them; and the page lists suffice for
\* the depth (__make_cq_entry, nvmev_proc_admin_sq and nvmev_proc_bars, admin.c
\* and pci.c).  For every set of depths and of places, and any number of starts
\* that the model has (Restarts).
THEOREM AdminStaysInStep == Spec => []AdminInStep
<1>1. ControllerInv => AdminInStep
  <2> SUFFICES ASSUME ControllerInv PROVE AdminInStep
    OBVIOUS
  <2>1. TypeOK
    BY DEF ControllerInv, Types, TypeOK, AdminQueue, Pair, Status, Sizes, Bits
  <2>2. host.step = "up" => Visible = IF host.stale THEN <<>> ELSE posted
    BY SeesThePosted, SeesNone
  <2>3. host.step = "up" => aq.sqDepth <= aq.sqRoom /\ aq.cqDepth <= aq.cqRoom
    <3> SUFFICES ASSUME host.step = "up" PROVE aq.sqDepth <= aq.sqRoom /\ aq.cqDepth <= aq.cqRoom
      OBVIOUS
    <3>1. Followed /\ old = bar
      BY UpNow
    <3> QED
      BY <3>1 DEF Followed
  <2> QED
    BY <2>1, <2>2, <2>3 DEF AdminInStep
<1> QED
  BY <1>1, ControllerInvariance, PTL

\* What is fetched from the I/O queue of a host that is up, or is of it in the
\* rings, that host submitted (CREATE_SQ, nvmev_proc_io_sq).
THEOREM NothingStale == Spec => []NoStaleFetch
<1>1. ControllerInv => NoStaleFetch
  <2> SUFFICES ASSUME ControllerInv, io.bad = "no", host.step = "up", host.queue = "both"
               PROVE  /\ io.rung \subseteq host.ios
                      /\ \A f \in io.flight : f.queue = io.sq => f.cid \in host.ios
    BY DEF NoStaleFetch
  <2>1. Current(host, io, posted) /\ Made(host, posted)
    BY UpNow DEF Made
  <2> QED
    BY <2>1 DEF Current
<1> QED
  BY <1>1, ControllerInvariance, PTL
-----------------------------------------------------------------------------
(* WorkQueue: the inductive invariant. *)

\* One in an operation's insertion: the entry is in no chain.
Loose == IF At("insert") THEN 1 ELSE 0

\* S has n entries, none twice, each linked to the one behind it.
Path(link, S, n) ==
  /\ S \in [1 .. n -> Entries]
  /\ \A i, j \in 1 .. n : S[i] = S[j] => i = j
  /\ \A i \in 1 .. n - 1 : link[S[i]] = S[i + 1]

\* The list: its head, its end, and its links backwards.
Linked(L, n) ==
  /\ Path(next, L, n)
  /\ ends.seq = IF n = 0 THEN Nil ELSE L[1]
  /\ n > 0 => next[L[n]] = Nil /\ ends.end = L[n] /\ prev[L[1]] = Nil
  /\ \A i \in 2 .. n : prev[L[i]] = L[i - 1]

\* The free entries.
Spare(F, m) ==
  /\ Path(next, F, m) /\ m > 0
  /\ ends.free = F[1] /\ ends.freeEnd = F[m] /\ next[F[m]] = Nil

\* The entries that are being taken back.
Leaving(C, k) ==
  /\ Path(next, C, k)
  /\ k > 0 <=> At("cut") \/ At("free")
  /\ k > 0 => /\ disp.e = C[1] /\ disp.curr = C[k]
              /\ next[C[k]] = IF At("cut") THEN ends.seq ELSE Nil

\* The entry that is being inserted.
Inserted ==
  At("insert") => disp.e \in Entries /\ next[disp.e] = Nil /\ prev[disp.e] = Nil

\* No entry is in two places, and every one is in one.
Apart(L, n, F, m, C, k) ==
  /\ \A i \in 1 .. n, j \in 1 .. m : L[i] # F[j]
  /\ \A i \in 1 .. n, j \in 1 .. k : L[i] # C[j]
  /\ \A i \in 1 .. m, j \in 1 .. k : F[i] # C[j]
  /\ At("insert") => /\ \A i \in 1 .. n : L[i] # disp.e
                     /\ \A i \in 1 .. m : F[i] # disp.e
Placed(L, n, F, m, C, k) ==
  \A e \in Entries : \/ \E i \in 1 .. n : L[i] = e
                     \/ \E i \in 1 .. m : F[i] = e
                     \/ \E i \in 1 .. k : C[i] = e
                     \/ At("insert") /\ disp.e = e

\* The order of the list, and what the search for a place has passed.
Sorted(L, n) ==
  \A i, j \in 1 .. n :
    i < j => work[L[i]].target <= work[L[j]].target \/ work[L[i]].target <= ends.latest
Passed(L, n) ==
  At("insert") /\ n > 0 =>
    \E p \in 0 .. n : /\ disp.curr = IF p = 0 THEN Nil ELSE L[p]
                      /\ \A j \in p + 1 .. n : work[L[j]].target > work[disp.e].target

\* What an entry in use is for, and whether that is still to come.
KindOf(e) == IF work[e].internal THEN "buffer" ELSE "completion"
Awaited(e) ==
  owed[e] = IF work[e].completed \/ (worker.pc = "mark" /\ worker.curr = e) THEN "nothing"
            ELSE KindOf(e)
Owing(L, n, F, m, C, k) ==
  /\ \A e \in Entries : owed[e] # "wrong"
  /\ \A i \in 1 .. n : Awaited(L[i])
  /\ At("insert") => Awaited(disp.e)
  /\ \A i \in 1 .. m : owed[F[i]] = "nothing"
  /\ \A i \in 1 .. k : owed[C[i]] = "nothing" /\ work[C[i]].completed

\* Where the worker stands, and what lies ahead of it.
Walking(L, n, F, m) ==
  /\ worker.curr = Nil <=> worker.pc \in {"start", "irq"}
  /\ worker.pc \in {"serve", "mark"} =>
       ~ work[worker.curr].completed /\ \E i \in 1 .. n : worker.curr = L[i]
  /\ \A i \in 1 .. m : worker.curr = F[i] => \A j \in i .. m : work[F[j]].completed
  /\ At("insert") => worker.curr # disp.e

Chains(L, n, F, m, C, k) ==
  /\ n \in Nat /\ m \in Nat /\ k \in Nat /\ n + m + k + Loose = NrEntries
  /\ Linked(L, n) /\ Spare(F, m) /\ Leaving(C, k)
  /\ Inserted /\ Apart(L, n, F, m, C, k) /\ Placed(L, n, F, m, C, k)
Uses(L, n, F, m, C, k) ==
  Sorted(L, n) /\ Passed(L, n) /\ Owing(L, n, F, m, C, k) /\ Walking(L, n, F, m)

WorkInv ==
  /\ WorkTypeOK /\ ends.latest <= now
  /\ \E n, m, k \in 0 .. NrEntries : 
     \E L \in [1 .. n -> Entries], F \in [1 .. m -> Entries], C \in [1 .. k -> Entries] :
       Chains(L, n, F, m, C, k) /\ Uses(L, n, F, m, C, k)

\* The chain from an entry on is the path that begins there and ends.
LEMMA ChainIs ==
  ASSUME NEW n \in 0 .. NrEntries, NEW S, Path(next, S, n), NEW e \in Link,
         n = 0 => e = Nil, n > 0 => e = S[1] /\ next[S[n]] = Nil
  PROVE  Chain(e) = S
<1> USE EntriesAssumption
<1> DEFINE Links(f) == [k \in 0 .. NrEntries |-> IF k = 0 THEN e ELSE After(f[k - 1])]
           h == CHOOSE f : f = Links(f)
<1>1. Chain(e) = [i \in 1 .. Cardinality({k \in 0 .. NrEntries : h[k] # Nil}) |-> h[i - 1]]
  BY DEF Chain
<1>2. PICK g : g = [k \in 0 .. NrEntries |-> IF k < n THEN S[k + 1] ELSE Nil]
  OBVIOUS
<1>3. \A i \in 1 .. n : S[i] \in Entries /\ S[i] # Nil
  BY DEF Path, Entries, Nil
<1>4. \A i \in 1 .. n - 1 : next[S[i]] = S[i + 1]
  BY DEF Path
<1>5. ASSUME NEW k \in 0 .. NrEntries
      PROVE  g[k] = IF k = 0 THEN e ELSE After(g[k - 1])
  <2>1. CASE k = 0
    BY <1>2, <2>1
  <2>2. CASE k # 0 /\ k < n
    <3>1. k \in 1 .. n - 1 /\ k - 1 \in 0 .. NrEntries /\ k - 1 < n /\ (k - 1) + 1 = k
      BY <2>2
    <3>2. g[k] = S[k + 1] /\ g[k - 1] = S[k]
      BY <1>2, <2>2, <3>1
    <3> QED
      BY <1>3, <1>4, <2>2, <3>1, <3>2 DEF After
  <2>3. CASE k # 0 /\ k = n
    <3>1. k - 1 \in 0 .. NrEntries /\ k - 1 < n /\ (k - 1) + 1 = k /\ n > 0 /\ k \in 1 .. n
      BY <2>3
    <3>2. g[k] = Nil /\ g[k - 1] = S[k]
      BY <1>2, <2>3, <3>1
    <3> QED
      BY <1>3, <2>3, <3>1, <3>2 DEF After
  <2>4. CASE k # 0 /\ k > n
    <3>1. k - 1 \in 0 .. NrEntries /\ ~ (k - 1 < n)
      BY <2>4
    <3>2. g[k] = Nil /\ g[k - 1] = Nil
      BY <1>2, <2>4, <3>1
    <3> QED
      BY <2>4, <3>2 DEF After
  <2> QED
    BY <2>1, <2>2, <2>3, <2>4
<1>6. g = Links(g)
  BY <1>2, <1>5
<1>7. h = Links(h)
  BY <1>6
<1> HIDE DEF h
<1>8. \A k \in 0 .. NrEntries : h[k] = IF k = 0 THEN e ELSE After(h[k - 1])
  BY <1>7
<1>9. \A k \in 0 .. NrEntries : k \in {j \in 0 .. NrEntries : h[j] = g[j]}
  <2> DEFINE T == {j \in 0 .. NrEntries : h[j] = g[j]}
  <2>1. 0 \in T
    BY <1>5, <1>8
  <2>2. ASSUME NEW k \in 0 .. NrEntries - 1, k \in T PROVE k + 1 \in T
    <3>1. k + 1 \in 0 .. NrEntries /\ k + 1 # 0 /\ (k + 1) - 1 = k
      OBVIOUS
    <3>2. h[k + 1] = After(h[k]) /\ g[k + 1] = After(g[k])
      BY <1>5, <1>8, <3>1
    <3> QED
      BY <2>2, <3>1, <3>2
  <2> HIDE DEF T
  <2>3. \A k \in 0 .. NrEntries : k \in T
    BY <2>1, <2>2, UpTo
  <2> QED
    BY <2>3 DEF T
<1>10. \A k \in 0 .. NrEntries : h[k] = IF k < n THEN S[k + 1] ELSE Nil
  BY <1>2, <1>9
<1>11. {k \in 0 .. NrEntries : h[k] # Nil} = 0 .. n - 1
  <2>1. ASSUME NEW k \in 0 .. NrEntries PROVE h[k] # Nil <=> k \in 0 .. n - 1
    <3>1. CASE k < n
      <4>1. k + 1 \in 1 .. n
        BY <3>1
      <4> QED
        BY <1>3, <1>10, <3>1, <4>1
    <3>2. CASE ~ (k < n)
      BY <1>10, <3>2
    <3> QED
      BY <3>1, <3>2
  <2> QED
    BY <2>1
<1>12. Cardinality(0 .. n - 1) = n
  BY FS_Interval
<1>13. Chain(e) = [i \in 1 .. n |-> h[i - 1]]
  BY <1>1, <1>11, <1>12
<1>14. \A i \in 1 .. n : h[i - 1] = S[i]
  BY <1>10
<1>15. S = [i \in 1 .. n |-> S[i]]
  BY DEF Path
<1> QED
  BY <1>13, <1>14, <1>15

\* A path that is not disturbed.
LEMMA PathKept ==
  ASSUME NEW was, NEW is, NEW S, NEW n \in Nat, Path(was, S, n),
         \A i \in 1 .. n - 1 : is[S[i]] = was[S[i]]
  PROVE  Path(is, S, n)
BY DEF Path

\* A piece of a path is a path.
LEMMA Piece ==
  ASSUME NEW link, NEW S, NEW n \in Nat, Path(link, S, n),
         NEW a \in 0 .. n, NEW b \in a .. n, NEW P, P = [i \in 1 .. b - a |-> S[a + i]]
  PROVE  Path(link, P, b - a)
<1>1. \A i \in 1 .. b - a : a + i \in 1 .. n /\ P[i] = S[a + i]
  OBVIOUS
<1>2. P \in [1 .. b - a -> Entries]
  BY <1>1 DEF Path
<1>3. \A i, j \in 1 .. b - a : P[i] = P[j] => i = j
  BY <1>1 DEF Path
<1>4. ASSUME NEW i \in 1 .. (b - a) - 1 PROVE link[P[i]] = P[i + 1]
  <2>1. i \in 1 .. b - a /\ i + 1 \in 1 .. b - a /\ a + i \in 1 .. n - 1 /\ (a + i) + 1 = a + (i + 1)
    OBVIOUS
  <2> QED
    BY <1>1, <2>1 DEF Path
<1> QED
  BY <1>2, <1>3, <1>4 DEF Path

\* Two paths that have nothing in common, the first linked to the second.
LEMMA Joined ==
  ASSUME NEW link, NEW n \in Nat, NEW m \in Nat, NEW A, NEW B,
         Path(link, A, n), Path(link, B, m),
         \A i \in 1 .. n, j \in 1 .. m : A[i] # B[j],
         n > 0 /\ m > 0 => link[A[n]] = B[1],
         NEW J, J = [i \in 1 .. n + m |-> IF i <= n THEN A[i] ELSE B[i - n]]
  PROVE  Path(link, J, n + m)
<1>1. \A i \in 1 .. n + m : i <= n => i \in 1 .. n /\ J[i] = A[i]
  OBVIOUS
<1>2. \A i \in 1 .. n + m : i > n => i - n \in 1 .. m /\ J[i] = B[i - n]
  OBVIOUS
<1>3. J \in [1 .. n + m -> Entries]
  <2>1. \A i \in 1 .. n + m : J[i] \in Entries
    BY <1>1, <1>2 DEF Path
  <2> QED
    BY <2>1
<1>4. ASSUME NEW i \in 1 .. n + m, NEW j \in 1 .. n + m, J[i] = J[j] PROVE i = j
  <2>1. CASE i <= n /\ j <= n
    BY <1>1, <1>4, <2>1 DEF Path
  <2>2. CASE i > n /\ j > n
    <3>1. i - n = j - n
      BY <1>2, <1>4, <2>2 DEF Path
    <3> QED
      BY <3>1
  <2>3. CASE (i <= n /\ j > n) \/ (i > n /\ j <= n)
    BY <1>1, <1>2, <1>4, <2>3
  <2> QED
    BY <2>1, <2>2, <2>3
<1>5. ASSUME NEW i \in 1 .. (n + m) - 1 PROVE link[J[i]] = J[i + 1]
  <2>0. i \in 1 .. n + m /\ i + 1 \in 1 .. n + m
    OBVIOUS
  <2>1. CASE i < n
    <3>1. i \in 1 .. n - 1
      BY <2>1
    <3>2. J[i] = A[i] /\ J[i + 1] = A[i + 1]
      BY <1>1, <2>0, <2>1
    <3> QED
      BY <3>1, <3>2 DEF Path
  <2>2. CASE i = n
    <3>1. J[i] = A[n] /\ J[i + 1] = B[1] /\ n > 0 /\ m > 0
      <4>1. (i + 1) - n = 1 /\ i + 1 > n /\ n \in 1 .. n + m /\ n <= n /\ n > 0 /\ m > 0
        BY <2>2
      <4>2. J[i] = A[n]
        BY <1>1, <2>2, <4>1
      <4>3. J[i + 1] = B[(i + 1) - n]
        BY <1>2, <2>0, <4>1
      <4> QED
        BY <4>1, <4>2, <4>3
    <3> QED
      BY <3>1
  <2>3. CASE i > n
    <3>0. (i + 1) - n = (i - n) + 1 /\ i + 1 > n
      BY <2>3
    <3>1. i - n >= 1 /\ i - n <= m - 1
      BY <2>3
    <3>2. i - n \in 1 .. m - 1
      BY <3>1
    <3>3. J[i] = B[i - n] /\ J[i + 1] = B[(i + 1) - n]
      BY <1>2, <2>0, <2>3, <3>0
    <3> QED
      BY <3>0, <3>2, <3>3 DEF Path
  <2> QED
    BY <2>1, <2>2, <2>3
<1> QED
  BY <1>3, <1>4, <1>5 DEF Path

\* The invariant of the next state, with the chains it then has.
LEMMA HoldsNext ==
  ASSUME WorkTypeOK', (ends.latest <= now)',
         NEW n, NEW m, NEW k, NEW L, NEW F, NEW C, Chains(L, n, F, m, C, k)',
         Uses(L, n, F, m, C, k)'
  PROVE  WorkInv'
<1> USE EntriesAssumption
<1>1. PICK x : x = Loose'
  OBVIOUS
<1>2. n \in Nat /\ m \in Nat /\ k \in Nat /\ x \in Nat /\ n + m + k + x = NrEntries
  BY <1>1 DEF Chains, Loose
<1>3. n \in 0 .. NrEntries /\ m \in 0 .. NrEntries /\ k \in 0 .. NrEntries
  BY <1>2
<1>4. L \in [1 .. n -> Entries] /\ F \in [1 .. m -> Entries] /\ C \in [1 .. k -> Entries]
  BY DEF Chains, Linked, Spare, Leaving, Path
<1> QED
  BY <1>3, <1>4 DEF WorkInv

\* What the chains depend on.
LEMMA SameChains ==
  ASSUME NEW n, NEW m, NEW k, NEW L, NEW F, NEW C, Chains(L, n, F, m, C, k),
         UNCHANGED <<next, prev, disp>>, ends'.seq = ends.seq, ends'.end = ends.end,
         ends'.free = ends.free, ends'.freeEnd = ends.freeEnd
  PROVE  Chains(L, n, F, m, C, k)'
<1>1. At("insert")' = At("insert") /\ At("cut")' = At("cut") /\ At("free")' = At("free")
  BY DEF At
<1>2. Loose' = Loose
  BY <1>1 DEF Loose
<1>3. Linked(L, n)' /\ Spare(F, m)' /\ Inserted'
  BY <1>1 DEF Chains, Linked, Spare, Inserted, Path
<1>4. Leaving(C, k)'
  BY <1>1 DEF Chains, Leaving, Path
<1>5. Apart(L, n, F, m, C, k)' /\ Placed(L, n, F, m, C, k)'
  BY <1>1 DEF Chains, Apart, Placed
<1> QED
  BY <1>2, <1>3, <1>4, <1>5 DEF Chains
-----------------------------------------------------------------------------
(* The worker's steps. *)

\* The worker takes another entry: one that is not being inserted, and behind
\* which no free entry is unfinished.
LEMMA Moves ==
  ASSUME NEW n \in Nat, NEW m \in Nat, NEW k \in Nat, NEW L, NEW F, NEW C,
         WorkInv, Chains(L, n, F, m, C, k), Uses(L, n, F, m, C, k),
         NEW c \in Link, worker' = StepTo(c), worker.pc # "mark",
         UNCHANGED <<lists, work, disp, now, owed>>,
         \A i \in 1 .. m : c = F[i] => \A j \in i .. m : work[F[j]].completed,
         At("insert") => c # disp.e
  PROVE  WorkInv'
<1>1. WorkTypeOK /\ ends.latest <= now
  BY DEF WorkInv
<1>2. /\ worker' \in [pc : {"start", "visit", "serve", "mark", "follow", "irq"}, curr : Link, tick : Time]
      /\ worker'.curr = c /\ worker'.pc = IF c = Nil THEN "irq" ELSE "visit"
  <2>1. 0 \in Time
    BY EntriesAssumption DEF Time
  <2>2. worker \in [pc : {"start", "visit", "serve", "mark", "follow", "irq"}, curr : Link, tick : Time]
    BY <1>1 DEF WorkTypeOK
  <2> QED
    BY <2>1, <2>2 DEF StepTo
<1>3. WorkTypeOK'
  BY <1>1, <1>2 DEF WorkTypeOK, lists
<1>4. Chains(L, n, F, m, C, k)'
  BY SameChains DEF lists
<1>5. Sorted(L, n)' /\ Passed(L, n)'
  BY DEF Uses, Sorted, Passed, lists, At
<1>6. ASSUME NEW e, Awaited(e) PROVE Awaited(e)'
  BY <1>2, <1>6 DEF Awaited, KindOf
<1>7. Owing(L, n, F, m, C, k)'
  BY <1>6 DEF Uses, Owing, At
<1>8. Walking(L, n, F, m)'
  BY <1>2 DEF Walking, At
<1> QED
  BY <1>1, <1>3, <1>4, <1>5, <1>7, <1>8, HoldsNext DEF Uses, lists

\* A pass begins at the head of the list.
LEMMA StartKeeps == ASSUME WorkInv, Start PROVE WorkInv'
<1>1. PICK n, m, k \in 0 .. NrEntries :
        \E L \in [1 .. n -> Entries], F \in [1 .. m -> Entries], C \in [1 .. k -> Entries] :
          Chains(L, n, F, m, C, k) /\ Uses(L, n, F, m, C, k)
  BY DEF WorkInv
<1>2. PICK L \in [1 .. n -> Entries], F \in [1 .. m -> Entries], C \in [1 .. k -> Entries] :
        Chains(L, n, F, m, C, k) /\ Uses(L, n, F, m, C, k)
  BY <1>1
<1>3. n \in Nat /\ m \in Nat /\ k \in Nat
  OBVIOUS
<1>4. ends.seq \in Link
  BY DEF WorkInv, WorkTypeOK
<1>5. ends.seq = IF n = 0 THEN Nil ELSE L[1]
  BY <1>2 DEF Chains, Linked
<1>6. \A i \in 1 .. m : F[i] \in Entries /\ F[i] # Nil
  BY EntriesAssumption DEF Entries, Nil
<1>7. ASSUME NEW i \in 1 .. m PROVE ends.seq # F[i]
  <2>1. CASE n = 0
    BY <1>5, <1>6, <2>1
  <2>2. CASE n # 0
    BY <1>2, <1>5, <2>2 DEF Chains, Apart
  <2> QED
    BY <2>1, <2>2
<1>8. At("insert") => ends.seq # disp.e
  <2>1. CASE n = 0
    BY <1>2, <1>5, <2>1, EntriesAssumption DEF Chains, Inserted, Entries, Nil
  <2>2. CASE n # 0
    BY <1>2, <1>5, <2>2 DEF Chains, Apart
  <2> QED
    BY <2>1, <2>2
<1> QED
  BY <1>2, <1>3, <1>4, <1>7, <1>8, Moves DEF Start

\* The worker follows a link: along the list, or along entries taken back under it.
LEMMA FollowKeeps == ASSUME WorkInv, Follow PROVE WorkInv'
<1>1. PICK n, m, k \in 0 .. NrEntries :
        \E L \in [1 .. n -> Entries], F \in [1 .. m -> Entries], C \in [1 .. k -> Entries] :
          Chains(L, n, F, m, C, k) /\ Uses(L, n, F, m, C, k)
  BY DEF WorkInv
<1>2. PICK L \in [1 .. n -> Entries], F \in [1 .. m -> Entries], C \in [1 .. k -> Entries] :
        Chains(L, n, F, m, C, k) /\ Uses(L, n, F, m, C, k)
  BY <1>1
<1>3. n \in Nat /\ m \in Nat /\ k \in Nat
  OBVIOUS
<1>4. PICK c : c = next[worker.curr]
  OBVIOUS
<1>5. worker.curr \in Entries /\ c \in Link
  BY <1>2, <1>4 DEF Follow, Uses, Walking, WorkInv, WorkTypeOK, Link
<1>6. c \in Link /\ (\A i \in 1 .. m : c = F[i] => \A j \in i .. m : work[F[j]].completed)
      /\ (At("insert") => c # disp.e)
  <2>0. /\ \A i \in 1 .. m : F[i] \in Entries /\ F[i] # Nil
        /\ At("insert") => disp.e # Nil
    BY <1>2, EntriesAssumption DEF Entries, Nil, Chains, Inserted
  <2>1. CASE \E i \in 1 .. n : L[i] = worker.curr
    <3>1. PICK i \in 1 .. n : L[i] = worker.curr
      BY <2>1
    <3>2. c = Nil \/ (i + 1 \in 1 .. n /\ c = L[i + 1])
      <4>1. CASE i = n
        BY <1>2, <1>4, <3>1, <4>1 DEF Chains, Linked
      <4>2. CASE i # n
        <5>1. i \in 1 .. n - 1 /\ i + 1 \in 1 .. n
          BY <4>2
        <5> QED
          BY <1>2, <1>4, <3>1, <5>1 DEF Chains, Linked, Path
      <4> QED
        BY <4>1, <4>2
    <3> QED
      BY <1>2, <1>5, <2>0, <3>2 DEF Chains, Apart
  <2>2. CASE \E i \in 1 .. m : F[i] = worker.curr
    <3>1. PICK i \in 1 .. m : F[i] = worker.curr
      BY <2>2
    <3>2. c = Nil \/ (i + 1 \in 1 .. m /\ c = F[i + 1])
      <4>1. CASE i = m
        BY <1>2, <1>4, <3>1, <4>1 DEF Chains, Spare
      <4>2. CASE i # m
        <5>1. i \in 1 .. m - 1 /\ i + 1 \in 1 .. m
          BY <4>2
        <5> QED
          BY <1>2, <1>4, <3>1, <5>1 DEF Chains, Spare, Path
      <4> QED
        BY <4>1, <4>2
    <3>3. \A j \in i .. m : work[F[j]].completed
      BY <1>2, <3>1 DEF Uses, Walking
    <3>4. \A j, h \in 1 .. m : F[j] = F[h] => j = h
      BY <1>2 DEF Chains, Spare, Path
    <3>5. \A j \in 1 .. m : c = F[j] => j = i + 1
      BY <2>0, <3>2, <3>4
    <3>6. At("insert") => c # disp.e
      BY <1>2, <2>0, <3>2 DEF Chains, Apart
    <3> QED
      BY <1>5, <3>3, <3>5, <3>6
  <2>3. CASE \E i \in 1 .. k : C[i] = worker.curr
    <3>1. PICK i \in 1 .. k : C[i] = worker.curr
      BY <2>3
    <3>2. c = Nil \/ (i + 1 \in 1 .. k /\ c = C[i + 1]) \/ (1 \in 1 .. n /\ c = L[1])
      <4>1. CASE i = k
        <5>1. c = IF At("cut") THEN ends.seq ELSE Nil
          BY <1>2, <1>4, <3>1, <4>1 DEF Chains, Leaving
        <5> QED
          BY <1>2, <5>1 DEF Chains, Linked
      <4>2. CASE i # k
        <5>1. i \in 1 .. k - 1 /\ i + 1 \in 1 .. k
          BY <4>2
        <5> QED
          BY <1>2, <1>4, <3>1, <5>1 DEF Chains, Leaving, Path
      <4> QED
        BY <4>1, <4>2
    <3>3. ~ At("insert")
      BY <1>2, <3>1 DEF Chains, Leaving, At
    <3> QED
      BY <1>2, <1>5, <2>0, <3>2, <3>3 DEF Chains, Apart
  <2>4. ~ (At("insert") /\ disp.e = worker.curr)
    BY <1>2 DEF Uses, Walking
  <2> QED
    BY <1>2, <1>5, <2>1, <2>2, <2>3, <2>4 DEF Chains, Placed
<1>7. worker' = StepTo(c) /\ worker.pc # "mark" /\ UNCHANGED <<lists, work, disp, now, owed>>
  BY <1>4 DEF Follow
<1> QED
  BY <1>2, <1>3, <1>6, <1>7, Moves

\* The worker looks at an entry that it has come to.
LEMMA VisitKeeps == ASSUME WorkInv, Visit PROVE WorkInv'
<1>1. PICK n, m, k \in 0 .. NrEntries :
        \E L \in [1 .. n -> Entries], F \in [1 .. m -> Entries], C \in [1 .. k -> Entries] :
          Chains(L, n, F, m, C, k) /\ Uses(L, n, F, m, C, k)
  BY DEF WorkInv
<1>2. PICK L \in [1 .. n -> Entries], F \in [1 .. m -> Entries], C \in [1 .. k -> Entries] :
        Chains(L, n, F, m, C, k) /\ Uses(L, n, F, m, C, k)
  BY <1>1
<1>3. WorkTypeOK /\ ends.latest <= now
  BY DEF WorkInv
<1>4. PICK c : c = worker.curr
  OBVIOUS
<1>5. c \in Entries /\ worker.pc = "visit"
  BY <1>2, <1>3, <1>4 DEF Visit, Uses, Walking, WorkTypeOK, Link
<1>6. /\ worker' \in [pc : {"start", "visit", "serve", "mark", "follow", "irq"}, curr : Link, tick : Time]
      /\ worker'.curr = c /\ worker'.pc = IF work[c].completed THEN "follow" ELSE "serve"
  BY <1>3, <1>4 DEF WorkTypeOK, Visit
<1>7. /\ ends' \in [seq : Link, end : Link, free : Entries, freeEnd : Entries, latest : Time]
      /\ ends'.seq = ends.seq /\ ends'.end = ends.end /\ ends'.free = ends.free
      /\ ends'.freeEnd = ends.freeEnd /\ ends'.latest = now
  BY <1>3 DEF WorkTypeOK, Visit
<1>8. UNCHANGED <<next, prev, work, disp, now, owed>>
  BY DEF Visit
<1>9. WorkTypeOK'
  BY <1>3, <1>6, <1>7, <1>8 DEF WorkTypeOK
<1>10. Chains(L, n, F, m, C, k)'
  BY <1>2, <1>7, <1>8, SameChains
<1>11. ends.latest \in Int /\ now \in Int /\ \A e \in Entries : work[e].target \in Int
  BY <1>3, EntriesAssumption DEF WorkTypeOK, Time
<1>12. Sorted(L, n)'
  BY <1>2, <1>3, <1>7, <1>8, <1>11 DEF Uses, Sorted
<1>13. Passed(L, n)'
  BY <1>2, <1>8 DEF Uses, Passed, At
<1>14. ASSUME NEW e, Awaited(e) PROVE Awaited(e)'
  BY <1>5, <1>6, <1>8, <1>14 DEF Awaited, KindOf
<1>15. Owing(L, n, F, m, C, k)'
  BY <1>2, <1>8, <1>14 DEF Uses, Owing, At
<1>16. ~ work[c].completed => \E i \in 1 .. n : c = L[i]
  <2>1. ASSUME NEW i \in 1 .. m, F[i] = c PROVE work[c].completed
    BY <1>2, <1>4, <2>1 DEF Uses, Walking
  <2>2. ASSUME NEW i \in 1 .. k, C[i] = c PROVE work[c].completed
    BY <1>2, <2>2 DEF Uses, Owing
  <2>3. ~ (At("insert") /\ disp.e = c)
    BY <1>2, <1>4 DEF Uses, Walking
  <2> QED
    BY <1>2, <1>5, <2>1, <2>2, <2>3 DEF Chains, Placed
<1>17. Walking(L, n, F, m)'
  <2>1. (worker.curr = Nil <=> worker.pc \in {"start", "irq"})'
    BY <1>5, <1>6, EntriesAssumption DEF Entries, Nil
  <2> QED
    BY <1>2, <1>4, <1>6, <1>8, <1>16, <2>1 DEF Uses, Walking, At
<1>18. (ends.latest <= now)'
  BY <1>7, <1>8, <1>11
<1> QED
  BY <1>9, <1>10, <1>12, <1>13, <1>15, <1>17, <1>18, HoldsNext DEF Uses

\* What the search has passed depends on the times only.
LEMMA PassedKept ==
  ASSUME NEW n \in Nat, NEW L \in [1 .. n -> Entries], Passed(L, n), disp' = disp,
         At("insert") => disp.e \in Entries,
         \A e \in Entries : work'[e].target = work[e].target
  PROVE  Passed(L, n)'
<1> SUFFICES ASSUME At("insert"), n > 0 PROVE Passed(L, n)'
  BY DEF Passed, At
<1>1. PICK p \in 0 .. n : /\ disp.curr = IF p = 0 THEN Nil ELSE L[p]
                         /\ \A j \in p + 1 .. n : work[L[j]].target > work[disp.e].target
  BY DEF Passed
<1>2. \A j \in p + 1 .. n : work'[L[j]].target > work'[disp.e].target
  BY <1>1
<1> QED
  BY <1>1, <1>2 DEF Passed

\* The data are copied, and an operation that is due has its effect: it is in the list still.
LEMMA ServeKeeps == ASSUME WorkInv, Serve PROVE WorkInv'
<1>1. PICK n, m, k \in 0 .. NrEntries :
        \E L \in [1 .. n -> Entries], F \in [1 .. m -> Entries], C \in [1 .. k -> Entries] :
          Chains(L, n, F, m, C, k) /\ Uses(L, n, F, m, C, k)
  BY DEF WorkInv
<1>2. PICK L \in [1 .. n -> Entries], F \in [1 .. m -> Entries], C \in [1 .. k -> Entries] :
        Chains(L, n, F, m, C, k) /\ Uses(L, n, F, m, C, k)
  BY <1>1
<1>3. WorkTypeOK /\ ends.latest <= now
  BY DEF WorkInv
<1>4. PICK c, due : c = worker.curr /\ due = (work[c].target <= worker.tick)
  OBVIOUS
<1>5. worker.pc = "serve" /\ ~ work[c].completed /\ \E i \in 1 .. n : c = L[i]
  BY <1>2, <1>4 DEF Serve, Uses, Walking
<1>6. c \in Entries /\ Awaited(c)
  BY <1>2, <1>5 DEF Uses, Owing
<1>7. owed[c] = KindOf(c)
  BY <1>5, <1>6 DEF Awaited
<1>8. PICK b : b = TRUE
  OBVIOUS
<1>9. work' = [work EXCEPT ![c].copied = b]
  BY <1>4, <1>8 DEF Serve
<1>10. /\ work' \in [Entries -> [target : Time, completed : BOOLEAN, copied : BOOLEAN, internal : BOOLEAN]]
       /\ \A e \in Entries : /\ work'[e].target = work[e].target
                             /\ work'[e].completed = work[e].completed
                             /\ work'[e].internal = work[e].internal
  <2>1. work \in [Entries -> [target : Time, completed : BOOLEAN, copied : BOOLEAN, internal : BOOLEAN]]
    BY <1>3 DEF WorkTypeOK
  <2>2. b \in BOOLEAN
    BY <1>8
  <2> QED
    BY <1>9, <2>1, <2>2
<1>11. /\ worker' \in [pc : {"start", "visit", "serve", "mark", "follow", "irq"}, curr : Link, tick : Time]
       /\ worker'.curr = c /\ worker'.pc = IF due THEN "mark" ELSE "follow"
  BY <1>3, <1>4 DEF WorkTypeOK, Serve
<1>12. /\ owed' \in [Entries -> Kinds \cup {"nothing", "wrong"}]
       /\ owed'[c] = IF due THEN "nothing" ELSE KindOf(c)
       /\ \A e \in Entries \ {c} : owed'[e] = owed[e]
  <2>1. owed' = IF due THEN [owed EXCEPT ![c] = IF @ = KindOf(c) THEN "nothing" ELSE "wrong"] ELSE owed
    BY <1>4 DEF Serve, KindOf
  <2>2. owed \in [Entries -> Kinds \cup {"nothing", "wrong"}]
    BY <1>3 DEF WorkTypeOK
  <2> QED
    BY <1>6, <1>7, <2>1, <2>2
<1>13. UNCHANGED <<lists, disp, now>>
  BY DEF Serve
<1>14. WorkTypeOK'
  BY <1>3, <1>10, <1>11, <1>12, <1>13 DEF WorkTypeOK, lists
<1>15. Chains(L, n, F, m, C, k)'
  BY <1>2, <1>13, SameChains DEF lists
<1>16. Sorted(L, n)'
  BY <1>2, <1>10, <1>13 DEF Uses, Sorted, lists
<1>17. Passed(L, n)'
  <2>1. At("insert") => disp.e \in Entries
    BY <1>2 DEF Chains, Inserted
  <2> QED
    BY <1>2, <1>10, <1>13, <2>1, PassedKept DEF Uses
<1>18. ASSUME NEW e \in Entries, Awaited(e) PROVE Awaited(e)'
  <2>1. CASE e = c
    BY <1>5, <1>6, <1>10, <1>11, <1>12, <2>1 DEF Awaited, KindOf
  <2>2. CASE e # c
    BY <1>5, <1>10, <1>11, <1>12, <1>18, <2>2 DEF Awaited, KindOf
  <2> QED
    BY <2>1, <2>2
<1>19. Owing(L, n, F, m, C, k)'
  <2>1. \A i \in 1 .. n : Awaited(L[i])'
    BY <1>2, <1>18 DEF Uses, Owing
  <2>2. At("insert")' => Awaited(disp.e)'
    BY <1>2, <1>13, <1>18 DEF Uses, Owing, Chains, Inserted, At
  <2>3. \A i \in 1 .. m : F[i] # c
    BY <1>2, <1>5 DEF Chains, Apart
  <2>4. \A i \in 1 .. k : C[i] # c
    BY <1>2, <1>5 DEF Chains, Apart
  <2>5. \A e \in Entries : owed'[e] # "wrong"
    BY <1>2, <1>12 DEF Uses, Owing, KindOf
  <2>6. \A i \in 1 .. m : owed'[F[i]] = "nothing"
    BY <1>2, <1>12, <2>3 DEF Uses, Owing
  <2>7. \A i \in 1 .. k : owed'[C[i]] = "nothing" /\ work'[C[i]].completed
    BY <1>2, <1>10, <1>12, <2>4 DEF Uses, Owing
  <2> QED
    BY <2>1, <2>2, <2>5, <2>6, <2>7 DEF Owing
<1>20. Walking(L, n, F, m)'
  <2>1. (worker.curr = Nil <=> worker.pc \in {"start", "irq"})'
    BY <1>6, <1>11, EntriesAssumption DEF Entries, Nil
  <2>2. At("insert")' => c # disp'.e
    BY <1>2, <1>4, <1>13 DEF Uses, Walking, At
  <2>3. \A i \in 1 .. m : c = F[i] => \A j \in i .. m : work'[F[j]].completed
    BY <1>2, <1>4, <1>10 DEF Uses, Walking
  <2> QED
    BY <1>5, <1>6, <1>10, <1>11, <2>1, <2>2, <2>3 DEF Walking
<1>21. (ends.latest <= now)'
  BY <1>3, <1>13 DEF lists
<1> QED
  BY <1>14, <1>15, <1>16, <1>17, <1>19, <1>20, <1>21, HoldsNext DEF Uses

\* The entry is marked as completed.
LEMMA MarkKeeps == ASSUME WorkInv, Mark PROVE WorkInv'
<1>1. PICK n, m, k \in 0 .. NrEntries :
        \E L \in [1 .. n -> Entries], F \in [1 .. m -> Entries], C \in [1 .. k -> Entries] :
          Chains(L, n, F, m, C, k) /\ Uses(L, n, F, m, C, k)
  BY DEF WorkInv
<1>2. PICK L \in [1 .. n -> Entries], F \in [1 .. m -> Entries], C \in [1 .. k -> Entries] :
        Chains(L, n, F, m, C, k) /\ Uses(L, n, F, m, C, k)
  BY <1>1
<1>3. WorkTypeOK /\ ends.latest <= now
  BY DEF WorkInv
<1>4. PICK c : c = worker.curr
  OBVIOUS
<1>5. worker.pc = "mark" /\ ~ work[c].completed /\ \E i \in 1 .. n : c = L[i]
  BY <1>2, <1>4 DEF Mark, Uses, Walking
<1>6. c \in Entries /\ Awaited(c)
  BY <1>2, <1>5 DEF Uses, Owing
<1>7. owed[c] = "nothing"
  BY <1>4, <1>5, <1>6 DEF Awaited
<1>8. PICK b : b = TRUE
  OBVIOUS
<1>9. work' = [work EXCEPT ![c].completed = b]
  BY <1>4, <1>8 DEF Mark
<1>10. /\ work' \in [Entries -> [target : Time, completed : BOOLEAN, copied : BOOLEAN, internal : BOOLEAN]]
       /\ \A e \in Entries : /\ work'[e].target = work[e].target
                             /\ work'[e].internal = work[e].internal
                             /\ e # c => work'[e].completed = work[e].completed
       /\ work'[c].completed
  <2>1. work \in [Entries -> [target : Time, completed : BOOLEAN, copied : BOOLEAN, internal : BOOLEAN]]
    BY <1>3 DEF WorkTypeOK
  <2>2. b \in BOOLEAN
    BY <1>8
  <2>3. /\ work' \in [Entries -> [target : Time, completed : BOOLEAN, copied : BOOLEAN, internal : BOOLEAN]]
        /\ \A e \in Entries : /\ work'[e].target = work[e].target
                              /\ work'[e].internal = work[e].internal
                              /\ e # c => work'[e].completed = work[e].completed
        /\ work'[c].completed = b
    BY <1>6, <1>9, <2>1, <2>2
  <2> QED
    BY <1>8, <2>3
<1>11. /\ worker' \in [pc : {"start", "visit", "serve", "mark", "follow", "irq"}, curr : Link, tick : Time]
       /\ worker'.curr = c /\ worker'.pc = "follow"
  BY <1>3, <1>4 DEF WorkTypeOK, Mark
<1>12. UNCHANGED <<lists, disp, now, owed>>
  BY DEF Mark
<1>13. WorkTypeOK'
  BY <1>3, <1>10, <1>11, <1>12 DEF WorkTypeOK, lists
<1>14. Chains(L, n, F, m, C, k)'
  BY <1>2, <1>12, SameChains DEF lists
<1>15. Sorted(L, n)'
  BY <1>2, <1>10, <1>12 DEF Uses, Sorted, lists
<1>16. Passed(L, n)'
  <2>1. At("insert") => disp.e \in Entries
    BY <1>2 DEF Chains, Inserted
  <2> QED
    BY <1>2, <1>10, <1>12, <2>1, PassedKept DEF Uses
<1>17. ASSUME NEW e \in Entries, Awaited(e) PROVE Awaited(e)'
  <2>1. CASE e = c
    BY <1>7, <1>10, <1>12, <2>1 DEF Awaited
  <2>2. CASE e # c
    BY <1>4, <1>10, <1>11, <1>12, <1>17, <2>2 DEF Awaited, KindOf
  <2> QED
    BY <2>1, <2>2
<1>18. Owing(L, n, F, m, C, k)'
  <2>1. \A i \in 1 .. n : Awaited(L[i])'
    BY <1>2, <1>17 DEF Uses, Owing
  <2>2. At("insert")' => Awaited(disp.e)'
    BY <1>2, <1>12, <1>17 DEF Uses, Owing, Chains, Inserted, At
  <2>3. \A i \in 1 .. k : owed'[C[i]] = "nothing" /\ work'[C[i]].completed
    BY <1>2, <1>10, <1>12 DEF Uses, Owing
  <2> QED
    BY <1>2, <1>12, <2>1, <2>2, <2>3 DEF Uses, Owing
<1>19. Walking(L, n, F, m)'
  <2>1. (worker.curr = Nil <=> worker.pc \in {"start", "irq"})'
    BY <1>6, <1>11, EntriesAssumption DEF Entries, Nil
  <2>2. At("insert")' => c # disp'.e
    BY <1>2, <1>4, <1>12 DEF Uses, Walking, At
  <2>3. ASSUME NEW i \in 1 .. m, c = F[i], NEW j \in i .. m PROVE work'[F[j]].completed
    <3>1. work[F[j]].completed /\ F[j] \in Entries
      BY <1>2, <1>4, <2>3 DEF Uses, Walking
    <3>2. CASE F[j] = c
      BY <1>10, <3>2
    <3>3. CASE F[j] # c
      BY <1>10, <3>1, <3>3
    <3> QED
      BY <3>2, <3>3
  <2> QED
    BY <1>11, <2>1, <2>2, <2>3 DEF Walking
<1>20. (ends.latest <= now)'
  BY <1>3, <1>12 DEF lists
<1> QED
  BY <1>13, <1>14, <1>15, <1>16, <1>18, <1>19, <1>20, HoldsNext DEF Uses

\* Interrupts and the clock.
LEMMA SignalOrTickKeeps == ASSUME WorkInv, Signal \/ Tick PROVE WorkInv'
<1>1. PICK n, m, k \in 0 .. NrEntries :
        \E L \in [1 .. n -> Entries], F \in [1 .. m -> Entries], C \in [1 .. k -> Entries] :
          Chains(L, n, F, m, C, k) /\ Uses(L, n, F, m, C, k)
  BY DEF WorkInv
<1>2. PICK L \in [1 .. n -> Entries], F \in [1 .. m -> Entries], C \in [1 .. k -> Entries] :
        Chains(L, n, F, m, C, k) /\ Uses(L, n, F, m, C, k)
  BY <1>1
<1>3. WorkTypeOK /\ ends.latest <= now
  BY DEF WorkInv
<1>4. UNCHANGED <<lists, work, disp, owed>>
  BY DEF Signal, Tick
<1>5. /\ now' \in Time /\ now <= now' /\ ends.latest \in Int /\ now \in Int /\ now' \in Int
  BY <1>3, EntriesAssumption DEF WorkTypeOK, Signal, Tick, Time
<1>6. /\ worker' \in [pc : {"start", "visit", "serve", "mark", "follow", "irq"}, curr : Link, tick : Time]
      /\ worker'.curr = worker.curr
      /\ worker' = worker \/ (worker.pc = "irq" /\ worker'.pc = "start")
  BY <1>3 DEF WorkTypeOK, Signal, Tick
<1>7. WorkTypeOK'
  BY <1>3, <1>4, <1>5, <1>6 DEF WorkTypeOK, lists
<1>8. Chains(L, n, F, m, C, k)'
  BY <1>2, <1>4, SameChains DEF lists
<1>9. Sorted(L, n)' /\ Passed(L, n)'
  BY <1>2, <1>4 DEF Uses, Sorted, Passed, lists, At
<1>10. ASSUME NEW e, Awaited(e) PROVE Awaited(e)'
  BY <1>4, <1>6, <1>10 DEF Awaited, KindOf
<1>11. Owing(L, n, F, m, C, k)'
  BY <1>2, <1>4, <1>10 DEF Uses, Owing, At
<1>12. Walking(L, n, F, m)'
  BY <1>2, <1>4, <1>6 DEF Uses, Walking, At
<1>13. (ends.latest <= now)'
  BY <1>3, <1>4, <1>5 DEF lists
<1> QED
  BY <1>7, <1>8, <1>9, <1>11, <1>12, <1>13, HoldsNext DEF Uses

-----------------------------------------------------------------------------
(* The dispatcher's steps. *)

\* The first free entry, on which the worker does not stand, is taken and filled.
LEMMA ScheduleKeeps ==
  ASSUME WorkInv, NEW kind \in Kinds, NEW t \in Time, Schedule(kind, t) PROVE WorkInv'
<1>1. PICK n, m, k \in 0 .. NrEntries :
        \E L \in [1 .. n -> Entries], F \in [1 .. m -> Entries], C \in [1 .. k -> Entries] :
          Chains(L, n, F, m, C, k) /\ Uses(L, n, F, m, C, k)
  BY DEF WorkInv
<1>2. PICK L \in [1 .. n -> Entries], F \in [1 .. m -> Entries], C \in [1 .. k -> Entries] :
        Chains(L, n, F, m, C, k) /\ Uses(L, n, F, m, C, k)
  BY <1>1
<1>3. WorkTypeOK /\ ends.latest <= now
  BY DEF WorkInv
<1>4. PICK e, f : e = ends.free /\ f = next[e]
  OBVIOUS
<1>5. /\ e \in Entries /\ f # Nil /\ worker.curr # e /\ disp.pc = "idle"
      /\ ~ At("insert") /\ ~ At("cut") /\ ~ At("free")
  BY <1>3, <1>4 DEF Schedule, MayAllocate, NotStalled, At, WorkTypeOK
<1>6. k = 0
  BY <1>2, <1>5 DEF Chains, Leaving
<1>7. m > 0 /\ e = F[1] /\ next[F[m]] = Nil /\ ends.freeEnd = F[m] /\ Path(next, F, m)
  BY <1>2, <1>4 DEF Chains, Spare
<1>8. m > 1 /\ f = F[2]
  <2>1. m # 1
    BY <1>4, <1>5, <1>7
  <2>2. m > 1 /\ 1 \in 1 .. m - 1
    BY <1>7, <2>1
  <2>3. next[F[1]] = F[1 + 1]
    BY <1>7, <2>2 DEF Path
  <2> QED
    BY <1>4, <1>7, <2>2, <2>3
<1>9. /\ next' = [next EXCEPT ![e] = Nil] /\ prev' = [prev EXCEPT ![e] = Nil]
      /\ work' = [work EXCEPT ![e] = Filled(kind, t)]
      /\ owed' = [owed EXCEPT ![e] = kind]
      /\ ends' = [ends EXCEPT !.free = f]
      /\ disp' = [pc |-> "insert", e |-> e, curr |-> ends.end]
      /\ UNCHANGED <<worker, now>>
  BY <1>4 DEF Schedule
<1>10. next \in [Entries -> Link] /\ prev \in [Entries -> Link] /\ Nil \in Link /\ f \in Entries
  BY <1>3, <1>8 DEF WorkTypeOK, Link
<1>11. /\ next' \in [Entries -> Link] /\ prev' \in [Entries -> Link]
       /\ next'[e] = Nil /\ prev'[e] = Nil
       /\ \A c \in Entries \ {e} : next'[c] = next[c] /\ prev'[c] = prev[c]
  BY <1>5, <1>9, <1>10
<1>12. PICK w : w = Filled(kind, t)
  OBVIOUS
<1>13. /\ w \in [target : Time, completed : BOOLEAN, copied : BOOLEAN, internal : BOOLEAN]
       /\ ~ w.completed /\ w.internal = (kind = "buffer")
  BY <1>12 DEF Filled
<1>14. /\ work' \in [Entries -> [target : Time, completed : BOOLEAN, copied : BOOLEAN, internal : BOOLEAN]]
       /\ work'[e] = w /\ \A c \in Entries \ {e} : work'[c] = work[c]
  <2>1. work \in [Entries -> [target : Time, completed : BOOLEAN, copied : BOOLEAN, internal : BOOLEAN]]
    BY <1>3 DEF WorkTypeOK
  <2> QED
    BY <1>5, <1>9, <1>12, <1>13, <2>1
<1>15. /\ owed' \in [Entries -> Kinds \cup {"nothing", "wrong"}]
       /\ owed'[e] = kind /\ \A c \in Entries \ {e} : owed'[c] = owed[c]
  <2>1. owed \in [Entries -> Kinds \cup {"nothing", "wrong"}]
    BY <1>3 DEF WorkTypeOK
  <2> QED
    BY <1>5, <1>9, <2>1
<1>16. /\ ends \in [seq : Link, end : Link, free : Entries, freeEnd : Entries, latest : Time]
       /\ ends' \in [seq : Link, end : Link, free : Entries, freeEnd : Entries, latest : Time]
       /\ ends'.seq = ends.seq /\ ends'.end = ends.end /\ ends'.free = f
       /\ ends'.freeEnd = ends.freeEnd /\ ends'.latest = ends.latest
  BY <1>3, <1>9, <1>10 DEF WorkTypeOK
<1>17. /\ disp' \in [pc : {"idle", "insert", "cut", "free"}, e : Link, curr : Link]
       /\ disp'.pc = "insert" /\ disp'.e = e /\ disp'.curr = ends.end
       /\ At("insert")' /\ ~ At("cut")' /\ ~ At("free")'
  BY <1>5, <1>9, <1>16 DEF Link, At
<1>18. WorkTypeOK'
  BY <1>3, <1>9, <1>11, <1>14, <1>15, <1>16, <1>17 DEF WorkTypeOK
<1>19. PICK F2 : F2 = [i \in 1 .. m - 1 |-> F[1 + i]]
  OBVIOUS
<1>20. \A i \in 1 .. m - 1 : i + 1 \in 2 .. m /\ i + 1 \in 1 .. m /\ F2[i] = F[i + 1]
  BY <1>19
<1>21. Path(next, F2, m - 1)
  <2>1. m \in Nat /\ 1 \in 0 .. m /\ m \in 1 .. m
    BY <1>7
  <2> QED
    BY <1>7, <1>19, <2>1, Piece
<1>22. \A i \in 1 .. m - 1 : F2[i] \in Entries \ {e}
  BY <1>7, <1>20 DEF Path
<1>23. \A i \in 1 .. n : L[i] \in Entries \ {e}
  BY <1>2, <1>7 DEF Chains, Apart
<1>24. Linked(L, n)'
  <2>1. Linked(L, n)
    BY <1>2 DEF Chains
  <2>2. Path(next', L, n)
    <3>1. \A i \in 1 .. n - 1 : i \in 1 .. n
      OBVIOUS
    <3>2. \A i \in 1 .. n - 1 : next'[L[i]] = next[L[i]]
      BY <1>11, <1>23, <3>1
    <3>3. Path(next, L, n) /\ n \in Nat
      BY <2>1 DEF Linked
    <3> QED
      BY <3>2, <3>3, PathKept
  <2>3. \A i \in 2 .. n : prev'[L[i]] = L[i - 1]
    BY <1>11, <1>23, <2>1 DEF Linked
  <2>4. n > 0 => next'[L[n]] = Nil /\ ends'.end = L[n] /\ prev'[L[1]] = Nil
    BY <1>11, <1>16, <1>23, <2>1 DEF Linked
  <2> QED
    BY <1>16, <2>1, <2>2, <2>3, <2>4 DEF Linked
<1>25. Spare(F2, m - 1)'
  <2>1. Path(next', F2, m - 1)
    BY <1>8, <1>11, <1>21, <1>22, PathKept
  <2>2. m - 1 \in 1 .. m - 1 /\ 1 \in 1 .. m - 1
    BY <1>8
  <2>3. F2[m - 1] = F[m] /\ F2[1] = F[2]
    BY <1>20, <2>2
  <2>4. next'[F2[m - 1]] = Nil
    BY <1>7, <1>11, <1>22, <2>2, <2>3
  <2> QED
    BY <1>7, <1>8, <1>16, <2>1, <2>3, <2>4 DEF Spare
<1>26. Leaving(C, 0)'
  BY <1>6, <1>17 DEF Leaving, Path
<1>27. Inserted'
  BY <1>5, <1>11, <1>17 DEF Inserted
<1>28. Apart(L, n, F2, m - 1, C, 0)'
  <2>1. \A i \in 1 .. n, j \in 1 .. m : L[i] # F[j]
    BY <1>2 DEF Chains, Apart
  <2>2. \A i \in 1 .. n, j \in 1 .. m - 1 : L[i] # F2[j]
    BY <1>20, <2>1
  <2> QED
    BY <1>17, <1>22, <1>23, <2>2 DEF Apart
<1>29. Placed(L, n, F2, m - 1, C, 0)'
  <2> SUFFICES ASSUME NEW c \in Entries, c # e
               PROVE  (\E i \in 1 .. n : L[i] = c) \/ (\E i \in 1 .. m - 1 : F2[i] = c)
    BY <1>17 DEF Placed
  <2>1. ASSUME NEW i \in 1 .. m, F[i] = c PROVE \E j \in 1 .. m - 1 : F2[j] = c
    <3>1. i - 1 \in 1 .. m - 1 /\ (i - 1) + 1 = i
      BY <1>7, <2>1
    <3> QED
      BY <1>20, <2>1, <3>1
  <2> QED
    BY <1>2, <1>5, <1>6, <2>1 DEF Chains, Placed
<1>30. Chains(L, n, F2, m - 1, C, 0)'
  <2>1. n + m = NrEntries
    BY <1>2, <1>5, <1>6 DEF Chains, Loose
  <2>2. Loose' = 1
    BY <1>17 DEF Loose
  <2>3. n + (m - 1) + 0 + Loose' = NrEntries
    BY <2>1, <2>2
  <2> QED
    BY <1>8, <1>24, <1>25, <1>26, <1>27, <1>28, <1>29, <2>3 DEF Chains
<1>31. Sorted(L, n)'
  BY <1>2, <1>14, <1>16, <1>23 DEF Uses, Sorted
<1>32. Passed(L, n)'
  <2> SUFFICES ASSUME n > 0
               PROVE  \E p \in 0 .. n : /\ disp'.curr = IF p = 0 THEN Nil ELSE L[p]
                                        /\ \A j \in p + 1 .. n : work'[L[j]].target > work'[disp'.e].target
    BY DEF Passed
  <2>1. ends.end = L[n]
    BY <1>2 DEF Chains, Linked
  <2>2. n \in 0 .. n /\ n # 0 /\ n + 1 .. n = {}
    OBVIOUS
  <2> QED
    BY <1>17, <2>1, <2>2
<1>33. Owing(L, n, F2, m - 1, C, 0)'
  <2>1. \A i \in 1 .. n : Awaited(L[i])'
    BY <1>2, <1>9, <1>14, <1>15, <1>23 DEF Uses, Owing, Awaited, KindOf
  <2>2. Awaited(e)'
    BY <1>5, <1>9, <1>13, <1>14, <1>15 DEF Awaited, KindOf, Kinds
  <2>3. \A c \in Entries : owed'[c] # "wrong"
    BY <1>2, <1>15 DEF Uses, Owing, Kinds
  <2>4. \A i \in 1 .. m - 1 : owed'[F2[i]] = "nothing"
    <3>1. \A i \in 1 .. m : owed[F[i]] = "nothing"
      BY <1>2 DEF Uses, Owing
    <3>2. \A i \in 1 .. m - 1 : owed[F2[i]] = "nothing"
      BY <1>20, <3>1
    <3> QED
      BY <1>15, <1>22, <3>2
  <2> QED
    BY <1>17, <2>1, <2>2, <2>3, <2>4 DEF Owing
<1>34. Walking(L, n, F2, m - 1)'
  <2>1. worker' = worker /\ worker.curr # e
    BY <1>5, <1>9
  <2>2. worker.pc \in {"serve", "mark"} => \E i \in 1 .. n : worker.curr = L[i]
    BY <1>2 DEF Uses, Walking
  <2>3. worker.pc \in {"serve", "mark"} => ~ work'[worker.curr].completed
    BY <1>2, <1>14, <1>23, <2>2 DEF Uses, Walking
  <2>4. ASSUME NEW i \in 1 .. m - 1, worker.curr = F2[i], NEW j \in i .. m - 1
        PROVE  work'[F2[j]].completed
    <3>1. i + 1 \in 1 .. m /\ j + 1 \in i + 1 .. m /\ j \in 1 .. m - 1
      OBVIOUS
    <3>2. worker.curr = F[i + 1] /\ F2[j] = F[j + 1]
      BY <1>20, <2>4, <3>1
    <3>3. work[F2[j]].completed
      BY <1>2, <3>1, <3>2 DEF Uses, Walking
    <3> QED
      BY <1>14, <1>22, <3>1, <3>3
  <2> QED
    BY <1>2, <1>17, <2>1, <2>2, <2>3, <2>4 DEF Uses, Walking
<1>35. (ends.latest <= now)'
  BY <1>3, <1>9, <1>16
<1> QED
  BY <1>18, <1>30, <1>31, <1>32, <1>33, <1>34, <1>35, HoldsNext DEF Uses

\* The search passes an entry that is due later than the new one.
LEMMA SearchKeeps == ASSUME WorkInv, Search PROVE WorkInv'
<1>1. PICK n, m, k \in 0 .. NrEntries :
        \E L \in [1 .. n -> Entries], F \in [1 .. m -> Entries], C \in [1 .. k -> Entries] :
          Chains(L, n, F, m, C, k) /\ Uses(L, n, F, m, C, k)
  BY DEF WorkInv
<1>2. PICK L \in [1 .. n -> Entries], F \in [1 .. m -> Entries], C \in [1 .. k -> Entries] :
        Chains(L, n, F, m, C, k) /\ Uses(L, n, F, m, C, k)
  BY <1>1
<1>3. WorkTypeOK /\ ends.latest <= now
  BY DEF WorkInv
<1>4. At("insert") /\ ends.seq # Nil /\ disp.curr # Nil /\ ~ BelongsBehind(disp.curr)
  BY DEF Search
<1>5. UNCHANGED <<next, prev, ends, work, worker, now, owed>>
  BY DEF Search, lists
<1>6. PICK c : c = prev[disp.curr]
  OBVIOUS
<1>7. /\ disp.curr \in Entries
      /\ prev[disp.curr] \in Link
  BY <1>3, <1>4 DEF WorkTypeOK, Link
<1>8. /\ disp' \in [pc : {"idle", "insert", "cut", "free"}, e : Link, curr : Link]
      /\ disp'.pc = disp.pc /\ disp'.e = disp.e /\ disp'.curr = c
  BY <1>3, <1>6, <1>7 DEF WorkTypeOK, Search
<1>9. WorkTypeOK'
  BY <1>3, <1>5, <1>8 DEF WorkTypeOK
<1>10. At("insert")' = At("insert") /\ At("cut")' = At("cut") /\ At("free")' = At("free")
       /\ ~ At("cut") /\ ~ At("free")
  BY <1>4, <1>8 DEF At
<1>11. Chains(L, n, F, m, C, k)'
  <2>1. Loose' = Loose
    BY <1>10 DEF Loose
  <2>2. Linked(L, n)' /\ Spare(F, m)' /\ Inserted'
    BY <1>2, <1>5, <1>8, <1>10 DEF Chains, Linked, Spare, Inserted, Path
  <2>3. Leaving(C, k)'
    BY <1>2, <1>5, <1>10 DEF Chains, Leaving, Path
  <2>4. Apart(L, n, F, m, C, k)' /\ Placed(L, n, F, m, C, k)'
    BY <1>2, <1>8, <1>10 DEF Chains, Apart, Placed
  <2> QED
    BY <1>2, <2>1, <2>2, <2>3, <2>4 DEF Chains
<1>12. Sorted(L, n)'
  BY <1>2, <1>5 DEF Uses, Sorted
<1>13. Passed(L, n)'
  <2>1. n > 0
    BY <1>2, <1>4 DEF Chains, Linked
  <2>2. PICK p \in 0 .. n : /\ disp.curr = IF p = 0 THEN Nil ELSE L[p]
                            /\ \A j \in p + 1 .. n : work[L[j]].target > work[disp.e].target
    BY <1>2, <1>4, <2>1 DEF Uses, Passed
  <2>3. p \in 1 .. n /\ p - 1 \in 0 .. n /\ disp.curr = L[p]
    BY <1>4, <2>2
  <2>4. work[L[p]].target > work[disp.e].target
    <3>1. work[disp.curr].target \in Int /\ work[disp.e].target \in Int
      BY <1>2, <1>3, <1>4, <1>7, EntriesAssumption DEF WorkTypeOK, Time, Chains, Inserted
    <3> QED
      BY <1>4, <2>3, <3>1 DEF BelongsBehind
  <2>5. \A j \in (p - 1) + 1 .. n : work[L[j]].target > work[disp.e].target
    <3>1. \A j \in (p - 1) + 1 .. n : j = p \/ j \in p + 1 .. n
      BY <2>3
    <3> QED
      BY <2>2, <2>4, <3>1
  <2>6. c = IF p - 1 = 0 THEN Nil ELSE L[p - 1]
    <3>1. CASE p = 1
      BY <1>2, <1>6, <2>3, <3>1 DEF Chains, Linked
    <3>2. CASE p # 1
      <4>1. p \in 2 .. n /\ p - 1 # 0
        BY <2>3, <3>2
      <4> QED
        BY <1>2, <1>6, <2>3, <4>1 DEF Chains, Linked
    <3> QED
      BY <3>1, <3>2
  <2> QED
    BY <1>5, <1>8, <2>3, <2>5, <2>6 DEF Passed
<1>14. Owing(L, n, F, m, C, k)'
  BY <1>2, <1>5, <1>8, <1>10 DEF Uses, Owing, Awaited, KindOf
<1>15. Walking(L, n, F, m)'
  BY <1>2, <1>5, <1>8, <1>10 DEF Uses, Walking
<1>16. (ends.latest <= now)'
  BY <1>3, <1>5
<1> QED
  BY <1>9, <1>11, <1>12, <1>13, <1>14, <1>15, <1>16, HoldsNext DEF Uses

\* The entry e between the first p entries of the list and the others, ...
Between(L, n, p, e) == [i \in 1 .. n + 1 |-> IF i <= p THEN L[i] ELSE IF i = p + 1 THEN e ELSE L[i - 1]]

\* ... and what the links then are.
Spliced(L, n, p, e) ==
  /\ next' \in [Entries -> Link] /\ prev' \in [Entries -> Link]
  /\ next'[e] = (IF p = n THEN Nil ELSE L[p + 1]) /\ (p > 0 => next'[L[p]] = e)
  /\ prev'[e] = (IF p = 0 THEN Nil ELSE L[p]) /\ (p < n => prev'[L[p + 1]] = e)
  /\ \A c \in Entries : c # e /\ (p > 0 => c # L[p]) => next'[c] = next[c]
  /\ \A c \in Entries : c # e /\ (p < n => c # L[p + 1]) => prev'[c] = prev[c]
  /\ ends' \in [seq : Link, end : Link, free : Entries, freeEnd : Entries, latest : Time]
  /\ ends'.seq = (IF p = 0 THEN e ELSE L[1]) /\ ends'.end = (IF p = n THEN e ELSE L[n])
  /\ ends'.free = ends.free /\ ends'.freeEnd = ends.freeEnd /\ ends'.latest = ends.latest

\* The links of an insertion keep the invariant, wherever the entry goes.
LEMMA SpliceKeeps ==
  ASSUME NEW n \in Nat, NEW m \in Nat, NEW k \in Nat, NEW L, NEW F, NEW C,
         WorkInv, Chains(L, n, F, m, C, k), Uses(L, n, F, m, C, k),
         NEW p \in 0 .. n, NEW e \in Entries, e = disp.e, At("insert"), Spliced(L, n, p, e),
         disp' = Idle, UNCHANGED <<work, worker, now, owed>>,
         p > 0 => work[L[p]].target <= ends.latest \/ work[L[p]].target <= work[e].target,
         \A j \in p + 1 .. n : work[L[j]].target > work[e].target
  PROVE  WorkInv'
<1>1. WorkTypeOK /\ ends.latest <= now
  BY DEF WorkInv
<1>2. /\ disp' \in [pc : {"idle", "insert", "cut", "free"}, e : Link, curr : Link]
      /\ disp'.pc = "idle" /\ ~ At("insert")' /\ ~ At("cut")' /\ ~ At("free")'
      /\ ~ At("cut") /\ ~ At("free")
  BY DEF Idle, Link, At
<1>3. WorkTypeOK'
  BY <1>1, <1>2 DEF WorkTypeOK, Spliced
<1>4. k = 0
  BY <1>2 DEF Chains, Leaving
<1>5. PICK L2 : L2 = Between(L, n, p, e)
  OBVIOUS
<1>6. /\ Path(next, L, n)
      /\ \A i \in 1 .. n : L[i] \in Entries /\ L[i] # e
      /\ \A i \in 1 .. m : F[i] \in Entries /\ F[i] # e
  BY DEF Chains, Linked, Spare, Path, Apart
<1>7. \A i, j \in 1 .. n : L[i] = L[j] => i = j
  BY <1>6 DEF Path
<1>8. /\ \A i \in 1 .. p : i \in 1 .. n /\ i \in 1 .. n + 1 /\ L2[i] = L[i]
      /\ p + 1 \in 1 .. n + 1 /\ L2[p + 1] = e
      /\ \A i \in p + 2 .. n + 1 : i - 1 \in 1 .. n /\ i \in 1 .. n + 1 /\ L2[i] = L[i - 1]
  BY <1>5 DEF Between
<1>9. \A i \in 1 .. n + 1 : i \in 1 .. p \/ i = p + 1 \/ i \in p + 2 .. n + 1
  OBVIOUS
<1>10. L2 \in [1 .. n + 1 -> Entries]
  <2>1. \A i \in 1 .. n + 1 : L2[i] \in Entries
    BY <1>6, <1>8, <1>9
  <2> QED
    BY <1>5, <2>1 DEF Between
<1>11. \A i \in 1 .. n : i \in 1 .. p \/ i = p + 1 \/ i \in p + 2 .. n
  OBVIOUS
<1>12. \A i \in 1 .. n : \E j \in 1 .. n + 1 : L2[j] = L[i]
  <2> SUFFICES ASSUME NEW i \in 1 .. n PROVE \E j \in 1 .. n + 1 : L2[j] = L[i]
    OBVIOUS
  <2>1. CASE i <= p
    BY <1>8, <2>1
  <2>2. CASE i > p
    <3>1. i + 1 \in p + 2 .. n + 1 /\ (i + 1) - 1 = i
      BY <2>2
    <3> QED
      BY <1>8, <3>1
  <2> QED
    BY <2>1, <2>2
<1>13. ASSUME NEW i \in 1 .. n + 1, NEW j \in 1 .. n + 1, L2[i] = L2[j] PROVE i = j
  <2>1. CASE i = p + 1
    BY <1>6, <1>8, <1>9, <1>13, <2>1
  <2>2. CASE j = p + 1
    BY <1>6, <1>8, <1>9, <1>13, <2>2
  <2>3. CASE i \in 1 .. p /\ j \in 1 .. p
    BY <1>7, <1>8, <1>13, <2>3
  <2>4. CASE i \in 1 .. p /\ j \in p + 2 .. n + 1
    <3>1. i = j - 1
      BY <1>7, <1>8, <1>13, <2>4
    <3> QED
      BY <2>4, <3>1
  <2>5. CASE i \in p + 2 .. n + 1 /\ j \in 1 .. p
    <3>1. i - 1 = j
      BY <1>7, <1>8, <1>13, <2>5
    <3> QED
      BY <2>5, <3>1
  <2>6. CASE i \in p + 2 .. n + 1 /\ j \in p + 2 .. n + 1
    <3>1. i - 1 = j - 1
      BY <1>7, <1>8, <1>13, <2>6
    <3> QED
      BY <2>6, <3>1
  <2> QED
    BY <1>9, <2>1, <2>2, <2>3, <2>4, <2>5, <2>6
<1>14. \A i \in 1 .. n : i # p => next'[L[i]] = next[L[i]]
  <2>1. \A i \in 1 .. n : i # p /\ p > 0 => L[i] # L[p]
    BY <1>7
  <2> QED
    BY <1>6, <2>1 DEF Spliced
<1>15. \A i \in 1 .. n : i # p + 1 => prev'[L[i]] = prev[L[i]]
  <2>1. \A i \in 1 .. n : i # p + 1 /\ p < n => L[i] # L[p + 1]
    BY <1>7
  <2> QED
    BY <1>6, <2>1 DEF Spliced
<1>16. ASSUME NEW i \in 1 .. (n + 1) - 1 PROVE next'[L2[i]] = L2[i + 1]
  <2>1. CASE i < p
    <3>1. i \in 1 .. p /\ i + 1 \in 1 .. p /\ i \in 1 .. n - 1 /\ i # p
      BY <2>1
    <3>2. next'[L[i]] = L[i + 1]
      BY <1>6, <1>14, <3>1 DEF Path
    <3> QED
      BY <1>8, <3>1, <3>2
  <2>2. CASE i = p
    <3>1. p \in 1 .. p /\ p > 0
      BY <2>2
    <3> QED
      BY <1>8, <2>2, <3>1 DEF Spliced
  <2>3. CASE i = p + 1
    <3>1. p < n /\ i + 1 \in p + 2 .. n + 1 /\ (i + 1) - 1 = p + 1 /\ p # n
      BY <2>3
    <3>2. L2[i + 1] = L[p + 1] /\ L2[i] = e
      BY <1>8, <2>3, <3>1
    <3> QED
      BY <3>1, <3>2 DEF Spliced
  <2>4. CASE i > p + 1
    <3>1. i \in p + 2 .. n + 1 /\ i + 1 \in p + 2 .. n + 1 /\ i - 1 \in 1 .. n - 1 /\ i - 1 # p
          /\ (i + 1) - 1 = (i - 1) + 1 /\ i - 1 \in 1 .. n
      BY <2>4
    <3>2. next'[L[i - 1]] = L[(i - 1) + 1]
      BY <1>6, <1>14, <3>1 DEF Path
    <3>3. L2[i] = L[i - 1] /\ L2[i + 1] = L[(i + 1) - 1]
      BY <1>8, <3>1
    <3> QED
      BY <3>1, <3>2, <3>3
  <2> QED
    BY <2>1, <2>2, <2>3, <2>4
<1>17. Path(next', L2, n + 1)
  BY <1>10, <1>13, <1>16 DEF Path
<1>18. n + 1 > 0 /\ n + 1 # 0 /\ n + 1 \in 1 .. n + 1 /\ 1 \in 1 .. n + 1
  OBVIOUS
<1>19. ends'.seq = L2[1]
  <2>1. CASE p = 0
    BY <1>8, <2>1 DEF Spliced
  <2>2. CASE p # 0
    <3>1. 1 \in 1 .. p
      BY <2>2
    <3> QED
      BY <1>8, <2>2, <3>1 DEF Spliced
  <2> QED
    BY <2>1, <2>2
<1>20. next'[L2[n + 1]] = Nil /\ ends'.end = L2[n + 1]
  <2>1. CASE p = n
    BY <1>8, <2>1 DEF Spliced
  <2>2. CASE p # n
    <3>1. n + 1 \in p + 2 .. n + 1 /\ (n + 1) - 1 = n /\ n \in 1 .. n /\ n > 0
      BY <2>2
    <3>2. L2[n + 1] = L[n]
      BY <1>8, <3>1
    <3>3. next'[L[n]] = Nil
      BY <1>14, <2>2, <3>1 DEF Chains, Linked
    <3> QED
      BY <2>2, <3>2, <3>3 DEF Spliced
  <2> QED
    BY <2>1, <2>2
<1>21. prev'[L2[1]] = Nil
  <2>1. CASE p = 0
    BY <1>8, <2>1 DEF Spliced
  <2>2. CASE p # 0
    <3>1. 1 \in 1 .. p /\ 1 \in 1 .. n /\ 1 # p + 1 /\ n > 0
      BY <2>2
    <3> QED
      BY <1>8, <1>15, <3>1 DEF Chains, Linked
  <2> QED
    BY <2>1, <2>2
<1>22. ASSUME NEW i \in 2 .. n + 1 PROVE prev'[L2[i]] = L2[i - 1]
  <2>1. CASE i <= p
    <3>1. i \in 1 .. p /\ i - 1 \in 1 .. p /\ i \in 2 .. n /\ i # p + 1 /\ i \in 1 .. n
      BY <2>1
    <3>2. prev'[L[i]] = L[i - 1]
      BY <1>15, <3>1 DEF Chains, Linked
    <3> QED
      BY <1>8, <3>1, <3>2
  <2>2. CASE i = p + 1
    <3>1. i - 1 = p /\ p \in 1 .. p /\ p # 0
      BY <2>2
    <3> QED
      BY <1>8, <2>2, <3>1 DEF Spliced
  <2>3. CASE i = p + 2
    <3>1. p < n /\ i \in p + 2 .. n + 1 /\ i - 1 = p + 1
      BY <2>3
    <3>2. L2[i] = L[p + 1] /\ L2[i - 1] = e
      BY <1>8, <3>1
    <3> QED
      BY <3>1, <3>2 DEF Spliced
  <2>4. CASE i > p + 2
    <3>1. i \in p + 2 .. n + 1 /\ i - 1 \in p + 2 .. n + 1 /\ i - 1 \in 2 .. n /\ i - 1 # p + 1
          /\ i - 1 \in 1 .. n
      BY <2>4
    <3>2. prev'[L[i - 1]] = L[(i - 1) - 1]
      BY <1>15, <3>1 DEF Chains, Linked
    <3>3. L2[i] = L[i - 1] /\ L2[i - 1] = L[(i - 1) - 1]
      BY <1>8, <3>1
    <3> QED
      BY <3>2, <3>3
  <2> QED
    BY <2>1, <2>2, <2>3, <2>4
<1>23. Linked(L2, n + 1)'
  BY <1>17, <1>18, <1>19, <1>20, <1>21, <1>22 DEF Linked
<1>24. Spare(F, m)'
  <2>1. \A i \in 1 .. m : next'[F[i]] = next[F[i]]
    <3>1. \A i \in 1 .. m : p > 0 => F[i] # L[p]
      BY DEF Chains, Apart
    <3> QED
      BY <1>6, <3>1 DEF Spliced
  <2>2. Spare(F, m)
    BY DEF Chains
  <2>3. Path(next', F, m)
    BY <2>1, <2>2, PathKept DEF Spare
  <2>4. m \in 1 .. m
    BY <2>2 DEF Spare
  <2> QED
    BY <2>1, <2>2, <2>3, <2>4 DEF Spare, Spliced
<1>25. Leaving(C, 0)'
  BY <1>2, <1>4 DEF Leaving, Path, Chains
<1>26. Inserted'
  BY <1>2 DEF Inserted
<1>27. Apart(L2, n + 1, F, m, C, 0)'
  <2>1. \A i \in 1 .. n, j \in 1 .. m : L[i] # F[j]
    BY DEF Chains, Apart
  <2>2. \A i \in 1 .. n + 1, j \in 1 .. m : L2[i] # F[j]
    BY <1>6, <1>8, <1>9, <2>1
  <2> QED
    BY <1>2, <2>2 DEF Apart
<1>28. Placed(L2, n + 1, F, m, C, 0)'
  <2>1. \A c \in Entries : (\E i \in 1 .. n : L[i] = c) \/ (\E i \in 1 .. m : F[i] = c) \/ c = e
    BY <1>4 DEF Chains, Placed
  <2>2. \A c \in Entries : (\E i \in 1 .. n + 1 : L2[i] = c) \/ (\E i \in 1 .. m : F[i] = c)
    BY <1>8, <1>12, <2>1
  <2> QED
    BY <2>2 DEF Placed
<1>29. Chains(L2, n + 1, F, m, C, 0)'
  <2>1. n + m + 1 = NrEntries
    BY <1>4 DEF Chains, Loose
  <2>2. Loose' = 0
    BY <1>2 DEF Loose
  <2>3. (n + 1) + m + 0 + Loose' = NrEntries
    BY <2>1, <2>2
  <2> QED
    BY <1>23, <1>24, <1>25, <1>26, <1>27, <1>28, <2>3 DEF Chains
<1>30. Sorted(L2, n + 1)'
  <2> DEFINE T(c) == work[c].target
  <2>1. \A c \in Entries : T(c) \in Int
    BY <1>1, EntriesAssumption DEF WorkTypeOK, Time
  <2>2. ends.latest \in Int
    BY <1>1, EntriesAssumption DEF WorkTypeOK, Time
  <2>3. \A i, j \in 1 .. n : i < j => T(L[i]) <= T(L[j]) \/ T(L[i]) <= ends.latest
    BY DEF Uses, Sorted
  <2> HIDE DEF T
  <2>4. \A i \in 1 .. p : T(L[i]) <= T(e) \/ T(L[i]) <= ends.latest
    <3> SUFFICES ASSUME NEW i \in 1 .. p PROVE T(L[i]) <= T(e) \/ T(L[i]) <= ends.latest
      OBVIOUS
    <3>1. p \in 1 .. n /\ i \in 1 .. n /\ p > 0
      OBVIOUS
    <3>2. T(L[p]) <= ends.latest \/ T(L[p]) <= T(e)
      BY <3>1 DEF T
    <3>3. i = p \/ T(L[i]) <= T(L[p]) \/ T(L[i]) <= ends.latest
      BY <2>3, <3>1
    <3>4. T(L[i]) \in Int /\ T(L[p]) \in Int /\ T(e) \in Int
      BY <1>6, <2>1, <3>1
    <3> QED
      BY <2>2, <3>2, <3>3, <3>4
  <2>5. \A j \in p + 1 .. n : T(e) <= T(L[j])
    <3>1. \A j \in p + 1 .. n : j \in 1 .. n /\ T(L[j]) > T(e)
      BY DEF T
    <3> QED
      BY <1>6, <2>1, <3>1
  <2>6. ASSUME NEW i \in 1 .. n + 1, NEW j \in 1 .. n + 1, i < j
        PROVE  T(L2[i]) <= T(L2[j]) \/ T(L2[i]) <= ends.latest
    <3>1. CASE j \in 1 .. p
      <4>1. i \in 1 .. p
        BY <2>6, <3>1
      <4> QED
        BY <1>8, <2>3, <2>6, <3>1, <4>1
    <3>2. CASE j = p + 1
      <4>1. i \in 1 .. p
        BY <2>6, <3>2
      <4> QED
        BY <1>8, <2>4, <3>2, <4>1
    <3>3. CASE j \in p + 2 .. n + 1
      <4>1. j - 1 \in 1 .. n /\ L2[j] = L[j - 1] /\ j - 1 \in p + 1 .. n
        BY <1>8, <3>3
      <4>2. CASE i \in 1 .. p
        <5>1. i < j - 1
          BY <3>3, <4>2
        <5> QED
          BY <1>8, <2>3, <4>1, <4>2, <5>1
      <4>3. CASE i = p + 1
        BY <1>8, <2>5, <4>1, <4>3
      <4>4. CASE i \in p + 2 .. n + 1
        <5>1. i - 1 < j - 1
          BY <2>6
        <5> QED
          BY <1>8, <2>3, <4>1, <4>4, <5>1
      <4> QED
        BY <1>9, <4>2, <4>3, <4>4
    <3> QED
      BY <1>9, <3>1, <3>2, <3>3
  <2>7. ends'.latest = ends.latest
    BY DEF Spliced
  <2>8. \A i, j \in 1 .. n + 1 : i < j => work[L2[i]].target <= work[L2[j]].target \/ work[L2[i]].target <= ends.latest
    BY <2>6 DEF T
  <2> QED
    BY <2>7, <2>8 DEF Sorted
<1>31. Passed(L2, n + 1)'
  BY <1>2 DEF Passed
<1>32. Owing(L2, n + 1, F, m, C, 0)'
  <2>1. (\A i \in 1 .. n : Awaited(L[i])) /\ Awaited(e)
    BY DEF Uses, Owing
  <2>2. ASSUME NEW c, Awaited(c) PROVE Awaited(c)'
    BY <2>2 DEF Awaited, KindOf
  <2>3. \A i \in 1 .. n + 1 : Awaited(L2[i])'
    BY <1>8, <1>9, <2>1, <2>2
  <2> QED
    BY <1>2, <2>3 DEF Uses, Owing
<1>33. Walking(L2, n + 1, F, m)'
  <2>1. worker.pc \in {"serve", "mark"} => \E i \in 1 .. n + 1 : worker.curr = L2[i]
    BY <1>12 DEF Uses, Walking
  <2> QED
    BY <1>2, <2>1 DEF Uses, Walking
<1>34. (ends.latest <= now)'
  BY <1>1 DEF Spliced
<1> QED
  BY <1>3, <1>29, <1>30, <1>31, <1>32, <1>33, <1>34, HoldsNext DEF Uses

\* Each of the three ways to insert writes these links.
LEMMA InsertKeeps == ASSUME WorkInv, InsertFirst \/ InsertHead \/ InsertBehind PROVE WorkInv'
<1>1. PICK n, m, k \in 0 .. NrEntries :
        \E L \in [1 .. n -> Entries], F \in [1 .. m -> Entries], C \in [1 .. k -> Entries] :
          Chains(L, n, F, m, C, k) /\ Uses(L, n, F, m, C, k)
  BY DEF WorkInv
<1>2. PICK L \in [1 .. n -> Entries], F \in [1 .. m -> Entries], C \in [1 .. k -> Entries] :
        Chains(L, n, F, m, C, k) /\ Uses(L, n, F, m, C, k)
  BY <1>1
<1>3. WorkTypeOK /\ ends.latest <= now
  BY DEF WorkInv
<1>4. PICK e : e = disp.e
  OBVIOUS
<1>5. At("insert") /\ disp' = Idle /\ UNCHANGED <<work, worker, now, owed>>
  BY DEF InsertFirst, InsertHead, InsertBehind
<1>6. e \in Entries /\ next[e] = Nil /\ prev[e] = Nil
  BY <1>2, <1>4, <1>5 DEF Chains, Inserted
<1>7. /\ ends.seq = IF n = 0 THEN Nil ELSE L[1]
      /\ n > 0 => next[L[n]] = Nil /\ ends.end = L[n] /\ prev[L[1]] = Nil
      /\ Path(next, L, n)
      /\ \A i \in 1 .. n : L[i] \in Entries /\ L[i] # Nil /\ L[i] # e
  BY <1>2, <1>4, <1>5, EntriesAssumption DEF Chains, Linked, Apart, Path, Entries, Nil
<1>8. /\ next \in [Entries -> Link] /\ prev \in [Entries -> Link] /\ e \in Link
      /\ ends \in [seq : Link, end : Link, free : Entries, freeEnd : Entries, latest : Time]
  BY <1>3, <1>6 DEF WorkTypeOK, Link
<1>9. n \in Nat /\ m \in Nat /\ k \in Nat
  OBVIOUS
<1>10. CASE InsertFirst
  <2>1. n = 0
    BY <1>7, <1>10 DEF InsertFirst
  <2>2. UNCHANGED <<next, prev>> /\ ends' = [ends EXCEPT !.seq = e, !.end = e]
    BY <1>4, <1>10 DEF InsertFirst
  <2>3. /\ ends' \in [seq : Link, end : Link, free : Entries, freeEnd : Entries, latest : Time]
        /\ ends'.seq = e /\ ends'.end = e
        /\ ends'.free = ends.free /\ ends'.freeEnd = ends.freeEnd /\ ends'.latest = ends.latest
    BY <1>8, <2>2
  <2>4. 0 \in 0 .. n /\ ~ (0 > 0) /\ ~ (0 < n) /\ 0 = n
    BY <2>1
  <2>5. /\ next' \in [Entries -> Link] /\ prev' \in [Entries -> Link]
        /\ next'[e] = Nil /\ prev'[e] = Nil
        /\ \A c \in Entries : next'[c] = next[c] /\ prev'[c] = prev[c]
    BY <1>6, <1>8, <2>2
  <2>6. Spliced(L, n, 0, e)
    BY <2>3, <2>4, <2>5 DEF Spliced
  <2>7. /\ At("insert") /\ disp.e = e /\ disp' = Idle
        /\ UNCHANGED <<work, worker, now, owed>>
    BY <1>4, <1>5
  <2>8. \A j \in 0 + 1 .. n : work[L[j]].target > work[e].target
    <3>1. 0 + 1 .. n = {}
      BY <2>1
    <3> QED
      BY <3>1
  <2>9. 0 > 0 => work[L[0]].target <= ends.latest \/ work[L[0]].target <= work[e].target
    OBVIOUS
  <2> QED
    BY <1>2, <1>6, <1>9, <2>4, <2>6, <2>7, <2>8, <2>9, SpliceKeeps
<1>11. CASE InsertHead
  <2>1. n > 0 /\ n # 0 /\ disp.curr = Nil /\ ends.seq = L[1] /\ 1 \in 1 .. n
    BY <1>7, <1>11 DEF InsertHead
  <2>2. /\ prev' = [prev EXCEPT ![L[1]] = e] /\ next' = [next EXCEPT ![e] = L[1]]
        /\ ends' = [ends EXCEPT !.seq = e]
    BY <1>4, <1>11, <2>1 DEF InsertHead
  <2>3. /\ ends' \in [seq : Link, end : Link, free : Entries, freeEnd : Entries, latest : Time]
        /\ ends'.seq = e /\ ends'.end = ends.end
        /\ ends'.free = ends.free /\ ends'.freeEnd = ends.freeEnd /\ ends'.latest = ends.latest
    BY <1>8, <2>2
  <2>4. /\ next' \in [Entries -> Link] /\ next'[e] = L[1]
        /\ \A c \in Entries : c # e => next'[c] = next[c]
    BY <1>6, <1>7, <1>8, <2>1, <2>2 DEF Link
  <2>5. /\ prev' \in [Entries -> Link] /\ prev'[L[1]] = e /\ prev'[e] = Nil
        /\ \A c \in Entries : c # L[1] => prev'[c] = prev[c]
    BY <1>6, <1>7, <1>8, <2>1, <2>2
  <2>6. 0 \in 0 .. n /\ Spliced(L, n, 0, e)
    <3>1. 0 \in 0 .. n /\ 0 + 1 = 1 /\ 0 # n /\ ~ (0 > 0)
      BY <2>1
    <3>2. L[0 + 1] = L[1]
      BY <3>1
    <3> QED
      BY <1>7, <2>1, <2>3, <2>4, <2>5, <3>1, <3>2 DEF Spliced
  <2>7. \A j \in 0 + 1 .. n : work[L[j]].target > work[e].target
    <3>1. PICK p \in 0 .. n : /\ disp.curr = IF p = 0 THEN Nil ELSE L[p]
                              /\ \A j \in p + 1 .. n : work[L[j]].target > work[disp.e].target
      BY <1>2, <1>5, <2>1 DEF Uses, Passed
    <3>2. p = 0
      BY <1>7, <2>1, <3>1
    <3> QED
      BY <1>4, <3>1, <3>2
  <2> QED
    BY <1>2, <1>4, <1>5, <1>6, <1>9, <2>6, <2>7, SpliceKeeps
<1>12. CASE InsertBehind
  <2>1. n > 0 /\ disp.curr # Nil /\ BelongsBehind(disp.curr)
    BY <1>7, <1>12 DEF InsertBehind
  <2>2. PICK p \in 0 .. n : /\ disp.curr = IF p = 0 THEN Nil ELSE L[p]
                            /\ \A j \in p + 1 .. n : work[L[j]].target > work[disp.e].target
    BY <1>2, <1>5, <2>1 DEF Uses, Passed
  <2>3. p \in 1 .. n /\ p # 0 /\ p > 0 /\ disp.curr = L[p]
    BY <2>1, <2>2
  <2>4. PICK c, after : c = L[p] /\ after = next[c]
    OBVIOUS
  <2>5. after = IF p = n THEN Nil ELSE L[p + 1]
    <3>1. p # n => p \in 1 .. n - 1
      BY <2>3
    <3> QED
      BY <1>7, <2>1, <2>3, <2>4, <3>1 DEF Path
  <2>6. p # n => p + 1 \in 1 .. n /\ p < n
    BY <2>3
  <2>7. /\ next' = [next EXCEPT ![e] = after, ![c] = e]
        /\ prev' = [d \in Entries |-> IF d = e THEN c ELSE IF d = after THEN e ELSE prev[d]]
        /\ ends' = IF after = Nil THEN [ends EXCEPT !.end = e] ELSE ends
    BY <1>4, <1>12, <2>3, <2>4 DEF InsertBehind
  <2>8. c \in Entries /\ c # e /\ after \in Link /\ after # e /\ c \in Link
    BY <1>6, <1>7, <2>3, <2>4, <2>5, <2>6, EntriesAssumption DEF Link, Entries, Nil
  <2>9. /\ next' \in [Entries -> Link] /\ next'[e] = after /\ next'[c] = e
        /\ \A d \in Entries : d # e /\ d # c => next'[d] = next[d]
    BY <1>6, <1>8, <2>7, <2>8
  <2>10. /\ prev' \in [Entries -> Link] /\ prev'[e] = c
         /\ \A d \in Entries : d # e /\ d = after => prev'[d] = e
         /\ \A d \in Entries : d # e /\ d # after => prev'[d] = prev[d]
    BY <1>6, <1>8, <2>7, <2>8
  <2>11. /\ ends' \in [seq : Link, end : Link, free : Entries, freeEnd : Entries, latest : Time]
         /\ ends'.seq = ends.seq /\ ends'.end = (IF after = Nil THEN e ELSE ends.end)
         /\ ends'.free = ends.free /\ ends'.freeEnd = ends.freeEnd /\ ends'.latest = ends.latest
    BY <1>8, <2>7
  <2>12. p = n <=> after = Nil
    BY <1>7, <2>5, <2>6
  <2>13. p < n => prev'[L[p + 1]] = e
    BY <1>7, <2>5, <2>6, <2>10
  <2>14. \A d \in Entries : d # e /\ (p < n => d # L[p + 1]) => prev'[d] = prev[d]
    <3>1. \A d \in Entries : d # Nil
      BY EntriesAssumption DEF Entries, Nil
    <3> QED
      BY <2>5, <2>6, <2>10, <3>1
  <2>15. Spliced(L, n, p, e)
    <3>1. next'[e] = (IF p = n THEN Nil ELSE L[p + 1]) /\ next'[L[p]] = e /\ prev'[e] = L[p]
      BY <2>4, <2>5, <2>9, <2>10
    <3>2. ends'.seq = L[1] /\ ends'.end = (IF p = n THEN e ELSE L[n])
      BY <1>7, <2>1, <2>11, <2>12
    <3> QED
      BY <2>3, <2>4, <2>9, <2>10, <2>11, <2>13, <2>14, <3>1, <3>2 DEF Spliced
  <2>16. work[L[p]].target <= ends.latest \/ work[L[p]].target <= work[e].target
    BY <1>4, <2>1, <2>3 DEF BelongsBehind
  <2>17. \A j \in p + 1 .. n : work[L[j]].target > work[e].target
    BY <1>4, <2>2
  <2> QED
    BY <1>2, <1>4, <1>5, <1>6, <1>9, <2>15, <2>16, <2>17, SpliceKeeps
<1> QED
  BY <1>10, <1>11, <1>12

\* Of the first places of a list that are in a set there is a last one.
LEMMA LastPlace ==
  ASSUME NEW n \in Nat, NEW T, T \subseteq 1 .. n, T # {}
  PROVE  Max(T) \in T /\ \A i \in T : i <= Max(T)
<1> DEFINE U == {n - i : i \in T}
<1>1. U \subseteq Nat /\ U # {}
  <2>1. \A i \in T : n - i \in Nat
    OBVIOUS
  <2>2. PICK i : i \in T
    OBVIOUS
  <2>3. n - i \in U
    BY <2>2
  <2> QED
    BY <2>1, <2>3
<1>2. PICK u \in U : \A v \in U : u <= v
  <2> HIDE DEF U
  <2> QED
    BY <1>1, LeastNumber
<1>3. PICK i \in T : u = n - i
  BY <1>2
<1>4. \A j \in T : n - j \in U
  OBVIOUS
<1>5. ASSUME NEW j \in T PROVE i >= j
  <2>1. u <= n - j
    BY <1>2, <1>4
  <2>2. i \in Nat /\ j \in Nat
    OBVIOUS
  <2> QED
    BY <1>3, <2>1, <2>2
<1>6. \E x \in T : \A y \in T : x >= y
  BY <1>3, <1>5
<1>7. Max(T) \in T /\ \A j \in T : Max(T) >= j
  BY <1>6 DEF Max
<1> QED
  BY <1>7

\* The list that the dispatcher reads is the list.
LEMMA ListIs ==
  ASSUME WorkInv, NEW n \in Nat, NEW m \in Nat, NEW k \in Nat, NEW L, NEW F, NEW C,
         Chains(L, n, F, m, C, k)
  PROVE  Chain(ends.seq) = L /\ DOMAIN L = 1 .. n
<1>1. n \in 0 .. NrEntries
  BY DEF Chains, Loose
<1>2. Path(next, L, n) /\ (n = 0 => ends.seq = Nil) /\ (n > 0 => ends.seq = L[1] /\ next[L[n]] = Nil)
  BY DEF Chains, Linked
<1>3. ends.seq \in Link
  BY DEF WorkInv, WorkTypeOK
<1> QED
  BY <1>1, <1>2, <1>3, ChainIs DEF Path

\* The finished entries at the head leave the list, and still lead into it.
LEMMA ReclaimKeeps == ASSUME WorkInv, Reclaim PROVE WorkInv'
<1>1. PICK n, m, k \in 0 .. NrEntries :
        \E L \in [1 .. n -> Entries], F \in [1 .. m -> Entries], C \in [1 .. k -> Entries] :
          Chains(L, n, F, m, C, k) /\ Uses(L, n, F, m, C, k)
  BY DEF WorkInv
<1>2. PICK L \in [1 .. n -> Entries], F \in [1 .. m -> Entries], C \in [1 .. k -> Entries] :
        Chains(L, n, F, m, C, k) /\ Uses(L, n, F, m, C, k)
  BY <1>1
<1>3. WorkTypeOK /\ ends.latest <= now
  BY DEF WorkInv
<1>4. n \in Nat /\ m \in Nat /\ k \in Nat
  OBVIOUS
<1>5. Chain(ends.seq) = L /\ DOMAIN L = 1 .. n
  BY <1>2, <1>4, ListIs
<1>6. PICK q, last, after : q = Max(Reclaimable(L)) /\ last = L[q] /\ after = next[last]
  OBVIOUS
<1>7. /\ disp.pc = "idle" /\ Reclaimable(L) # {}
      /\ ends' = [ends EXCEPT !.seq = after]
      /\ prev' = IF after = Nil THEN prev ELSE [prev EXCEPT ![after] = Nil]
      /\ disp' = [disp EXCEPT !.pc = "cut", !.e = ends.seq, !.curr = last]
      /\ UNCHANGED <<next, work, worker, now, owed>>
  BY <1>5, <1>6 DEF Reclaim, At
<1>8. q \in 1 .. n /\ \A i \in 1 .. q : i \in 1 .. n /\ work[L[i]].completed
  <2>1. Reclaimable(L) \subseteq 1 .. n
    BY <1>5 DEF Reclaimable
  <2>2. q \in Reclaimable(L)
    BY <1>6, <1>7, <2>1, LastPlace
  <2>3. q \in 1 .. n /\ \A i \in 1 .. q : Finished(L[i])
    BY <1>5, <2>2 DEF Reclaimable
  <2> QED
    BY <2>3 DEF Finished
<1>9. k = 0 /\ ~ At("insert") /\ ~ At("cut") /\ ~ At("free") /\ n + m = NrEntries
  <2>1. ~ At("insert") /\ ~ At("cut") /\ ~ At("free")
    BY <1>7 DEF At
  <2> QED
    BY <1>2, <2>1 DEF Chains, Leaving, Loose
<1>10. /\ Path(next, L, n) /\ ends.seq = L[1] /\ next[L[n]] = Nil /\ ends.end = L[n]
       /\ \A i \in 2 .. n : prev[L[i]] = L[i - 1]
       /\ \A i \in 1 .. n : L[i] \in Entries /\ L[i] # Nil
       /\ \A i, j \in 1 .. n : L[i] = L[j] => i = j
       /\ \A i \in 1 .. m : F[i] \in Entries
  BY <1>2, <1>8, EntriesAssumption DEF Chains, Linked, Path, Entries, Nil
<1>11. after = IF q = n THEN Nil ELSE L[q + 1]
  <2>1. q # n => q \in 1 .. n - 1
    BY <1>8
  <2> QED
    BY <1>6, <1>10, <2>1 DEF Path
<1>12. PICK r : r = n - q
  OBVIOUS
<1>13. r \in 0 .. n /\ q \in 0 .. n /\ n \in q .. n /\ q + r = n /\ q \in Nat /\ r \in Nat
       /\ q > 0 /\ q - 0 = q /\ n - q = r
  BY <1>8, <1>12
<1>14. PICK L2, C2 : L2 = [i \in 1 .. r |-> L[q + i]] /\ C2 = [i \in 1 .. q |-> L[0 + i]]
  OBVIOUS
<1>15. Path(next, L2, r)
  <2>1. L2 = [i \in 1 .. n - q |-> L[q + i]]
    BY <1>13, <1>14
  <2>2. Path(next, L2, n - q)
    BY <1>4, <1>10, <1>13, <2>1, Piece
  <2> QED
    BY <1>13, <2>2
<1>16. Path(next, C2, q)
  <2>1. 0 \in 0 .. n /\ q \in 0 .. n /\ n \in Nat /\ C2 = [i \in 1 .. q - 0 |-> L[0 + i]]
    BY <1>13, <1>14
  <2>2. Path(next, C2, q - 0)
    <3>1. q \in 0 .. q
      BY <1>13
    <3> QED
      BY <1>10, <2>1, <3>1, Piece
  <2> QED
    BY <1>13, <2>2
<1>17. \A i \in 1 .. r : q + i \in 1 .. n /\ L2[i] = L[q + i]
  BY <1>13, <1>14
<1>18. \A i \in 1 .. q : i \in 1 .. n /\ C2[i] = L[i]
  <2>1. \A i \in 1 .. q : 0 + i = i
    BY <1>13
  <2> QED
    BY <1>8, <1>14, <2>1
<1>19. r > 0 => /\ q + 1 \in 1 .. n /\ q # n /\ after = L[q + 1] /\ after # Nil /\ after \in Entries
                /\ 1 \in 1 .. r /\ r \in 1 .. r /\ L2[1] = after /\ L2[r] = L[n]
  <2> SUFFICES ASSUME r > 0
               PROVE  /\ q + 1 \in 1 .. n /\ q # n /\ after = L[q + 1] /\ after # Nil
                      /\ after \in Entries
                      /\ 1 \in 1 .. r /\ r \in 1 .. r /\ L2[1] = after /\ L2[r] = L[n]
    OBVIOUS
  <2>1. q + 1 \in 1 .. n /\ q # n /\ 1 \in 1 .. r /\ r \in 1 .. r
    BY <1>13
  <2>2. after = L[q + 1]
    BY <1>11, <2>1
  <2> QED
    BY <1>10, <1>13, <1>17, <2>1, <2>2
<1>20. r = 0 => after = Nil
  BY <1>11, <1>13
<1>21. last \in Entries /\ last = C2[q] /\ ends.seq = C2[1]
  <2>1. 1 \in 1 .. q /\ q \in 1 .. q /\ q \in 1 .. n
    BY <1>8, <1>13
  <2>2. C2[1] = L[1] /\ C2[q] = L[q]
    BY <1>18, <2>1
  <2>3. last = L[q] /\ L[q] \in Entries /\ ends.seq = L[1]
    BY <1>6, <1>10, <2>1
  <2> QED
    BY <2>2, <2>3
<1>22. after \in Link
  BY <1>19, <1>20, <1>13 DEF Link
<1>23. /\ ends' \in [seq : Link, end : Link, free : Entries, freeEnd : Entries, latest : Time]
       /\ ends'.seq = after /\ ends'.end = ends.end
       /\ ends'.free = ends.free /\ ends'.freeEnd = ends.freeEnd /\ ends'.latest = ends.latest
  BY <1>3, <1>7, <1>22 DEF WorkTypeOK
<1>24. /\ disp' \in [pc : {"idle", "insert", "cut", "free"}, e : Link, curr : Link]
       /\ disp'.pc = "cut" /\ disp'.e = C2[1] /\ disp'.curr = C2[q]
  BY <1>3, <1>7, <1>21 DEF WorkTypeOK, Link
<1>25. At("cut")' /\ ~ At("insert")' /\ ~ At("free")'
  BY <1>24 DEF At
<1>26. /\ prev' \in [Entries -> Link] /\ (r > 0 => prev'[after] = Nil)
       /\ \A c \in Entries : c # after => prev'[c] = prev[c]
  <2>1. prev \in [Entries -> Link] /\ Nil \in Link
    BY <1>3 DEF WorkTypeOK, Link
  <2>2. CASE r > 0
    BY <1>7, <1>19, <2>1, <2>2
  <2>3. CASE r = 0
    BY <1>7, <1>20, <2>1, <2>3
  <2> QED
    BY <1>13, <2>2, <2>3
<1>27. WorkTypeOK'
  BY <1>3, <1>7, <1>23, <1>24, <1>26 DEF WorkTypeOK
<1>28. Linked(L2, r)'
  <2>1. ends'.seq = IF r = 0 THEN Nil ELSE L2[1]
    BY <1>13, <1>19, <1>20, <1>23
  <2>2. r > 0 => next'[L2[r]] = Nil /\ ends'.end = L2[r] /\ prev'[L2[1]] = Nil
    BY <1>7, <1>10, <1>19, <1>23, <1>26
  <2>3. ASSUME NEW i \in 2 .. r PROVE prev'[L2[i]] = L2[i - 1]
    <3>1. i \in 1 .. r /\ i - 1 \in 1 .. r /\ q + i \in 2 .. n /\ (q + i) - 1 = q + (i - 1) /\ r > 0
          /\ q + i # q + 1 /\ q + i \in 1 .. n
      BY <1>13
    <3>2. L2[i] = L[q + i] /\ L2[i - 1] = L[(q + i) - 1] /\ L[q + i] # after
      <4>1. L2[i] = L[q + i] /\ L2[i - 1] = L[(q + i) - 1]
        BY <1>17, <3>1
      <4>2. q + 1 \in 1 .. n /\ after = L[q + 1]
        BY <1>19, <3>1
      <4>3. L[q + i] # L[q + 1]
        BY <1>10, <3>1, <4>2
      <4> QED
        BY <4>1, <4>2, <4>3
    <3>3. L[q + i] \in Entries
      BY <1>10, <3>1
    <3>4. prev'[L[q + i]] = prev[L[q + i]]
      BY <1>26, <3>1, <3>2, <3>3
    <3>5. prev[L[q + i]] = L[(q + i) - 1]
      BY <1>10, <3>1
    <3> QED
      BY <3>2, <3>4, <3>5
  <2> QED
    BY <1>7, <1>15, <2>1, <2>2, <2>3 DEF Linked
<1>29. Spare(F, m)'
  BY <1>2, <1>7, <1>23 DEF Chains, Spare, Path
<1>30. Leaving(C2, q)'
  <2>1. next'[C2[q]] = ends'.seq
    BY <1>6, <1>7, <1>21, <1>23
  <2> QED
    BY <1>7, <1>13, <1>16, <1>24, <1>25, <2>1 DEF Leaving
<1>31. Inserted'
  BY <1>25 DEF Inserted
<1>32. Apart(L2, r, F, m, C2, q)'
  <2>1. \A i \in 1 .. n, j \in 1 .. m : L[i] # F[j]
    BY <1>2 DEF Chains, Apart
  <2>2. \A i \in 1 .. r, j \in 1 .. m : L2[i] # F[j]
    BY <1>17, <2>1
  <2>3. \A i \in 1 .. m, j \in 1 .. q : F[i] # C2[j]
    BY <1>18, <2>1
  <2>4. ASSUME NEW i \in 1 .. r, NEW j \in 1 .. q PROVE L2[i] # C2[j]
    <3>1. PICK h : h = q + i
      OBVIOUS
    <3>2. h # j /\ h \in 1 .. n /\ j \in 1 .. n
      BY <1>13, <3>1
    <3>3. L2[i] = L[h] /\ C2[j] = L[j]
      BY <1>17, <1>18, <3>1
    <3> QED
      BY <1>10, <3>2, <3>3
  <2> QED
    BY <1>25, <2>2, <2>3, <2>4 DEF Apart
<1>33. Placed(L2, r, F, m, C2, q)'
  <2>1. \A c \in Entries : (\E i \in 1 .. n : L[i] = c) \/ (\E i \in 1 .. m : F[i] = c)
    BY <1>2, <1>9 DEF Chains, Placed
  <2>2. ASSUME NEW i \in 1 .. n
        PROVE  (\E j \in 1 .. r : L2[j] = L[i]) \/ (\E j \in 1 .. q : C2[j] = L[i])
    <3>1. CASE i <= q
      BY <1>18, <3>1
    <3>2. CASE i > q
      <4>1. i - q \in 1 .. r /\ q + (i - q) = i
        BY <1>13, <3>2
      <4> QED
        BY <1>17, <4>1
    <3> QED
      BY <1>13, <3>1, <3>2
  <2>3. \A c \in Entries : \/ \E j \in 1 .. r : L2[j] = c
                           \/ \E j \in 1 .. q : C2[j] = c
                           \/ \E i \in 1 .. m : F[i] = c
    BY <2>1, <2>2
  <2> QED
    BY <2>3 DEF Placed
<1>34. Chains(L2, r, F, m, C2, q)'
  <2>1. Loose' = 0
    BY <1>25 DEF Loose
  <2>2. r + m + q + Loose' = NrEntries
    BY <1>9, <1>13, <2>1
  <2> QED
    BY <1>4, <1>13, <1>28, <1>29, <1>30, <1>31, <1>32, <1>33, <2>2 DEF Chains
<1>35. Sorted(L2, r)'
  <2>1. \A i, j \in 1 .. n : i < j => work[L[i]].target <= work[L[j]].target \/ work[L[i]].target <= ends.latest
    BY <1>2 DEF Uses, Sorted
  <2>2. \A i, j \in 1 .. r : i < j => q + i < q + j
    BY <1>13
  <2>3. \A i, j \in 1 .. r :
          i < j => work[L2[i]].target <= work[L2[j]].target \/ work[L2[i]].target <= ends.latest
    BY <1>17, <2>1, <2>2
  <2> QED
    BY <1>7, <1>23, <2>3 DEF Sorted
<1>36. Passed(L2, r)'
  BY <1>25 DEF Passed
<1>37. Owing(L2, r, F, m, C2, q)'
  <2>1. \A i \in 1 .. n : Awaited(L[i])
    BY <1>2 DEF Uses, Owing
  <2>2. ASSUME NEW c, Awaited(c) PROVE Awaited(c)'
    BY <1>7, <2>2 DEF Awaited, KindOf
  <2>3. \A i \in 1 .. r : Awaited(L2[i])'
    BY <1>17, <2>1, <2>2
  <2>4. \A i \in 1 .. q : owed'[C2[i]] = "nothing" /\ work'[C2[i]].completed
    BY <1>7, <1>8, <1>18, <2>1 DEF Awaited
  <2> QED
    BY <1>2, <1>7, <1>25, <2>3, <2>4 DEF Uses, Owing
<1>38. Walking(L2, r, F, m)'
  <2>1. ASSUME worker.pc \in {"serve", "mark"}
        PROVE  ~ work[worker.curr].completed /\ \E j \in 1 .. r : worker.curr = L2[j]
    <3>1. ~ work[worker.curr].completed
      BY <1>2, <2>1 DEF Uses, Walking
    <3>2. PICK i \in 1 .. n : worker.curr = L[i]
      BY <1>2, <2>1 DEF Uses, Walking
    <3>3. i > q
      BY <1>8, <1>13, <3>1, <3>2
    <3>4. i - q \in 1 .. r /\ q + (i - q) = i
      BY <1>13, <3>3
    <3> QED
      BY <1>17, <3>1, <3>2, <3>4
  <2> QED
    BY <1>2, <1>7, <1>25, <2>1 DEF Uses, Walking
<1>39. (ends.latest <= now)'
  BY <1>3, <1>7, <1>23
<1> QED
  BY <1>27, <1>34, <1>35, <1>36, <1>37, <1>38, <1>39, HoldsNext DEF Uses

\* They are cut off.
LEMMA CutKeeps == ASSUME WorkInv, Cut PROVE WorkInv'
<1>1. PICK n, m, k \in 0 .. NrEntries :
        \E L \in [1 .. n -> Entries], F \in [1 .. m -> Entries], C \in [1 .. k -> Entries] :
          Chains(L, n, F, m, C, k) /\ Uses(L, n, F, m, C, k)
  BY DEF WorkInv
<1>2. PICK L \in [1 .. n -> Entries], F \in [1 .. m -> Entries], C \in [1 .. k -> Entries] :
        Chains(L, n, F, m, C, k) /\ Uses(L, n, F, m, C, k)
  BY <1>1
<1>3. WorkTypeOK /\ ends.latest <= now
  BY DEF WorkInv
<1>4. At("cut") /\ k > 0 /\ k \in 1 .. k /\ ~ At("insert")
  BY <1>2 DEF Cut, Chains, Leaving, At
<1>5. /\ disp.e = C[1] /\ disp.curr = C[k] /\ Path(next, C, k)
      /\ \A i \in 1 .. k : C[i] \in Entries
      /\ \A i, j \in 1 .. k : C[i] = C[j] => i = j
  BY <1>2, <1>4 DEF Chains, Leaving, Path
<1>6. next' = [next EXCEPT ![C[k]] = Nil] /\ UNCHANGED <<prev, work, ends, worker, now, owed>>
  BY <1>5 DEF Cut
<1>7. /\ disp' \in [pc : {"idle", "insert", "cut", "free"}, e : Link, curr : Link]
      /\ disp'.pc = "free" /\ disp'.e = disp.e /\ disp'.curr = disp.curr
  BY <1>3 DEF WorkTypeOK, Cut
<1>8. ~ At("cut")' /\ ~ At("insert")' /\ At("free")'
  BY <1>7 DEF At
<1>9. /\ next' \in [Entries -> Link] /\ next'[C[k]] = Nil
      /\ \A c \in Entries : c # C[k] => next'[c] = next[c]
  <2>1. next \in [Entries -> Link] /\ Nil \in Link /\ C[k] \in Entries
    BY <1>3, <1>4, <1>5 DEF WorkTypeOK, Link
  <2> QED
    BY <1>6, <2>1
<1>10. WorkTypeOK'
  BY <1>3, <1>6, <1>7, <1>9 DEF WorkTypeOK
<1>11. Linked(L, n)'
  <2>1. \A i \in 1 .. n : L[i] \in Entries /\ L[i] # C[k]
    BY <1>2, <1>4 DEF Chains, Apart
  <2>2. Linked(L, n)
    BY <1>2 DEF Chains
  <2>3. Path(next', L, n)
    <3>1. \A i \in 1 .. n - 1 : i \in 1 .. n
      OBVIOUS
    <3>2. \A i \in 1 .. n - 1 : next'[L[i]] = next[L[i]]
      BY <1>9, <2>1, <3>1
    <3>3. Path(next, L, n) /\ n \in Nat
      BY <2>2 DEF Linked
    <3> QED
      BY <3>2, <3>3, PathKept
  <2> QED
    BY <1>6, <1>9, <2>1, <2>2, <2>3 DEF Linked
<1>12. Spare(F, m)'
  <2>1. \A i \in 1 .. m : F[i] \in Entries /\ F[i] # C[k]
    BY <1>2, <1>4 DEF Chains, Apart
  <2>2. Spare(F, m)
    BY <1>2 DEF Chains
  <2>3. Path(next', F, m)
    BY <1>9, <2>1, <2>2, PathKept DEF Spare
  <2>4. m \in 1 .. m
    BY <2>2 DEF Spare
  <2> QED
    BY <1>6, <1>9, <2>1, <2>2, <2>3, <2>4 DEF Spare
<1>13. Leaving(C, k)'
  <2>1. \A i \in 1 .. k - 1 : next'[C[i]] = next[C[i]]
    <3>1. \A i \in 1 .. k - 1 : i \in 1 .. k /\ i # k
      OBVIOUS
    <3> QED
      BY <1>4, <1>5, <1>9, <3>1
  <2>2. Path(next', C, k)
    BY <1>5, <2>1, PathKept
  <2> QED
    BY <1>4, <1>5, <1>7, <1>8, <1>9, <2>2 DEF Leaving
<1>14. Chains(L, n, F, m, C, k)'
  <2>1. Loose' = Loose
    BY <1>4, <1>8 DEF Loose
  <2>2. Inserted' /\ Apart(L, n, F, m, C, k)' /\ Placed(L, n, F, m, C, k)'
    BY <1>2, <1>4, <1>8 DEF Chains, Inserted, Apart, Placed
  <2> QED
    BY <1>2, <1>11, <1>12, <1>13, <2>1, <2>2 DEF Chains
<1>15. Sorted(L, n)'
  BY <1>2, <1>6 DEF Uses, Sorted
<1>16. Passed(L, n)'
  BY <1>8 DEF Passed
<1>17. Owing(L, n, F, m, C, k)'
  BY <1>2, <1>6, <1>8 DEF Uses, Owing, Awaited, KindOf
<1>18. Walking(L, n, F, m)'
  BY <1>2, <1>6, <1>8 DEF Uses, Walking
<1>19. (ends.latest <= now)'
  BY <1>3, <1>6
<1> QED
  BY <1>10, <1>14, <1>15, <1>16, <1>17, <1>18, <1>19, HoldsNext DEF Uses

\* They go behind the free entries; all that the worker may meet there are completed.
LEMMA GiveBackKeeps == ASSUME WorkInv, GiveBack PROVE WorkInv'
<1>1. PICK n, m, k \in 0 .. NrEntries :
        \E L \in [1 .. n -> Entries], F \in [1 .. m -> Entries], C \in [1 .. k -> Entries] :
          Chains(L, n, F, m, C, k) /\ Uses(L, n, F, m, C, k)
  BY DEF WorkInv
<1>2. PICK L \in [1 .. n -> Entries], F \in [1 .. m -> Entries], C \in [1 .. k -> Entries] :
        Chains(L, n, F, m, C, k) /\ Uses(L, n, F, m, C, k)
  BY <1>1
<1>3. WorkTypeOK /\ ends.latest <= now
  BY DEF WorkInv
<1>4. At("free") /\ k > 0 /\ k \in 1 .. k /\ ~ At("insert") /\ ~ At("cut") /\ 1 \in 1 .. k
  BY <1>2 DEF GiveBack, Chains, Leaving, At
<1>5. /\ disp.e = C[1] /\ disp.curr = C[k] /\ next[C[k]] = Nil /\ Path(next, C, k)
      /\ \A i \in 1 .. k : C[i] \in Entries
  BY <1>2, <1>4 DEF Chains, Leaving, Path
<1>6. /\ m > 0 /\ m \in 1 .. m /\ ends.free = F[1] /\ ends.freeEnd = F[m] /\ Path(next, F, m)
      /\ \A i \in 1 .. m : F[i] \in Entries
      /\ \A i, j \in 1 .. m : F[i] = F[j] => i = j
  <2>1. Spare(F, m)
    BY <1>2 DEF Chains
  <2>2. m \in 1 .. m
    BY <2>1 DEF Spare
  <2> QED
    BY <2>1, <2>2 DEF Spare, Path
<1>7. /\ prev' = [prev EXCEPT ![C[1]] = F[m]]
      /\ next' = [next EXCEPT ![F[m]] = C[1]]
      /\ ends' = [ends EXCEPT !.freeEnd = C[k]]
      /\ disp' = Idle
      /\ UNCHANGED <<work, worker, now, owed>>
  BY <1>5, <1>6 DEF GiveBack
<1>8. /\ \A i \in 1 .. n : L[i] \in Entries
      /\ \A i \in 1 .. n, j \in 1 .. m : L[i] # F[j]
      /\ \A i \in 1 .. n, j \in 1 .. k : L[i] # C[j]
      /\ \A i \in 1 .. m, j \in 1 .. k : F[i] # C[j]
  BY <1>2 DEF Chains, Apart
<1>9. /\ next' \in [Entries -> Link] /\ prev' \in [Entries -> Link]
      /\ next'[F[m]] = C[1] /\ \A c \in Entries : c # F[m] => next'[c] = next[c]
      /\ \A c \in Entries : c # C[1] => prev'[c] = prev[c]
  <2>1. next \in [Entries -> Link] /\ prev \in [Entries -> Link]
        /\ C[1] \in Entries /\ F[m] \in Entries /\ C[1] \in Link /\ F[m] \in Link
    BY <1>3, <1>4, <1>5, <1>6 DEF WorkTypeOK, Link
  <2> QED
    BY <1>7, <2>1
<1>10. /\ ends' \in [seq : Link, end : Link, free : Entries, freeEnd : Entries, latest : Time]
       /\ ends'.seq = ends.seq /\ ends'.end = ends.end
       /\ ends'.free = ends.free /\ ends'.freeEnd = C[k] /\ ends'.latest = ends.latest
  BY <1>3, <1>4, <1>5, <1>7 DEF WorkTypeOK
<1>11. /\ disp' \in [pc : {"idle", "insert", "cut", "free"}, e : Link, curr : Link]
       /\ disp'.pc = "idle"
  BY <1>7 DEF Idle, Link
<1>12. ~ At("cut")' /\ ~ At("insert")' /\ ~ At("free")'
  BY <1>11 DEF At
<1>13. WorkTypeOK'
  BY <1>3, <1>7, <1>9, <1>10, <1>11 DEF WorkTypeOK
<1>14. PICK F2 : F2 = [i \in 1 .. m + k |-> IF i <= m THEN F[i] ELSE C[i - m]]
  OBVIOUS
<1>15. \A i \in 1 .. m : i \in 1 .. m + k /\ F2[i] = F[i]
  BY <1>14
<1>16. \A i \in 1 .. k : m + i \in 1 .. m + k /\ F2[m + i] = C[i]
  <2>1. \A i \in 1 .. k : m + i \in 1 .. m + k /\ ~ (m + i <= m) /\ (m + i) - m = i
    OBVIOUS
  <2> QED
    BY <1>14, <2>1
<1>17. \A i \in 1 .. m + k : i \in 1 .. m \/ (\E j \in 1 .. k : i = m + j)
  <2>1. \A i \in 1 .. m + k : i \in 1 .. m \/ (i - m \in 1 .. k /\ i = m + (i - m))
    OBVIOUS
  <2> QED
    BY <2>1
<1>18. Path(next', F2, m + k)
  <2>1. \A i \in 1 .. m - 1 : next'[F[i]] = next[F[i]]
    <3>1. \A i \in 1 .. m - 1 : i \in 1 .. m /\ i # m
      OBVIOUS
    <3> QED
      BY <1>6, <1>9, <3>1
  <2>2. Path(next', F, m)
    BY <1>6, <2>1, PathKept
  <2>3. \A i \in 1 .. k : next'[C[i]] = next[C[i]]
    BY <1>5, <1>6, <1>8, <1>9
  <2>4. Path(next', C, k)
    BY <1>5, <2>3, PathKept
  <2>5. m > 0 /\ k > 0 => next'[F[m]] = C[1]
    BY <1>9
  <2>6. m \in Nat /\ k \in Nat
    OBVIOUS
  <2> QED
    BY <1>8, <1>14, <2>2, <2>4, <2>5, <2>6, Joined
<1>19. Linked(L, n)'
  <2>1. Linked(L, n)
    BY <1>2 DEF Chains
  <2>2. \A i \in 1 .. n : L[i] # F[m] /\ L[i] # C[1]
    BY <1>4, <1>6, <1>8
  <2>3. Path(next', L, n)
    <3>1. \A i \in 1 .. n - 1 : i \in 1 .. n
      OBVIOUS
    <3>2. \A i \in 1 .. n - 1 : next'[L[i]] = next[L[i]]
      BY <1>8, <1>9, <2>2, <3>1
    <3>3. Path(next, L, n) /\ n \in Nat
      BY <2>1 DEF Linked
    <3> QED
      BY <3>2, <3>3, PathKept
  <2>4. n > 0 => next'[L[n]] = Nil /\ prev'[L[1]] = Nil
    <3>1. n > 0 => n \in 1 .. n /\ 1 \in 1 .. n
      OBVIOUS
    <3> QED
      BY <1>8, <1>9, <2>1, <2>2, <3>1 DEF Linked
  <2>5. \A i \in 2 .. n : prev'[L[i]] = L[i - 1]
    <3>1. \A i \in 2 .. n : i \in 1 .. n
      OBVIOUS
    <3> QED
      BY <1>8, <1>9, <2>1, <2>2, <3>1 DEF Linked
  <2> QED
    BY <1>10, <2>1, <2>3, <2>4, <2>5 DEF Linked
<1>20. Spare(F2, m + k)'
  <2>1. m + k > 0 /\ F2[m + k] = C[k] /\ F2[1] = F[1]
    BY <1>4, <1>6, <1>15, <1>16
  <2>2. next'[C[k]] = Nil
    BY <1>4, <1>5, <1>6, <1>8, <1>9
  <2> QED
    BY <1>6, <1>10, <1>18, <2>1, <2>2 DEF Spare
<1>21. PICK C2 : C2 = [i \in 1 .. 0 |-> C[i]]
  OBVIOUS
<1>22. Leaving(C2, 0)'
  BY <1>12, <1>21 DEF Leaving, Path
<1>23. Inserted'
  BY <1>12 DEF Inserted
<1>24. Apart(L, n, F2, m + k, C2, 0)'
  <2>1. ASSUME NEW i \in 1 .. n, NEW j \in 1 .. m + k PROVE L[i] # F2[j]
    <3>1. CASE j \in 1 .. m
      BY <1>8, <1>15, <3>1
    <3>2. CASE \E h \in 1 .. k : j = m + h
      <4>1. PICK h \in 1 .. k : j = m + h
        BY <3>2
      <4>2. F2[j] = C[h]
        BY <1>16, <4>1
      <4> QED
        BY <1>8, <4>2
    <3> QED
      BY <1>17, <3>1, <3>2
  <2> QED
    BY <1>12, <2>1 DEF Apart
<1>25. Placed(L, n, F2, m + k, C2, 0)'
  <2>1. \A c \in Entries : \/ \E i \in 1 .. n : L[i] = c
                           \/ \E i \in 1 .. m : F[i] = c
                           \/ \E i \in 1 .. k : C[i] = c
    BY <1>2, <1>4 DEF Chains, Placed
  <2>2. \A c \in Entries : (\E i \in 1 .. n : L[i] = c) \/ (\E i \in 1 .. m + k : F2[i] = c)
    BY <1>15, <1>16, <2>1
  <2> QED
    BY <2>2 DEF Placed
<1>26. Chains(L, n, F2, m + k, C2, 0)'
  <2>1. n + m + k = NrEntries
    BY <1>2, <1>4 DEF Chains, Loose
  <2>2. Loose' = 0
    BY <1>12 DEF Loose
  <2>3. n + (m + k) + 0 + Loose' = NrEntries
    BY <2>1, <2>2
  <2> QED
    BY <1>19, <1>20, <1>22, <1>23, <1>24, <1>25, <2>3 DEF Chains
<1>27. Sorted(L, n)'
  BY <1>2, <1>7, <1>10 DEF Uses, Sorted
<1>28. Passed(L, n)'
  BY <1>12 DEF Passed
<1>29. Owing(L, n, F2, m + k, C2, 0)'
  <2>1. \A i \in 1 .. m + k : owed[F2[i]] = "nothing"
    <3>1. /\ \A i \in 1 .. m : owed[F[i]] = "nothing"
          /\ \A i \in 1 .. k : owed[C[i]] = "nothing"
      BY <1>2 DEF Uses, Owing
    <3>2. ASSUME NEW i \in 1 .. m + k PROVE owed[F2[i]] = "nothing"
      <4>1. CASE i \in 1 .. m
        BY <1>15, <3>1, <4>1
      <4>2. CASE \E j \in 1 .. k : i = m + j
        <5>1. PICK j \in 1 .. k : i = m + j
          BY <4>2
        <5> QED
          BY <1>16, <3>1, <5>1
      <4> QED
        BY <1>17, <4>1, <4>2
    <3> QED
      BY <3>2
  <2>2. \A i \in 1 .. n : Awaited(L[i])'
    BY <1>2, <1>7 DEF Uses, Owing, Awaited, KindOf
  <2> QED
    BY <1>2, <1>7, <1>12, <2>1, <2>2 DEF Uses, Owing
<1>30. Walking(L, n, F2, m + k)'
  <2>1. ASSUME NEW i \in 1 .. m + k, worker.curr = F2[i], NEW j \in i .. m + k
        PROVE  work[F2[j]].completed
    <3>1. \A h \in 1 .. k : work[F2[m + h]].completed
      <4>1. \A h \in 1 .. k : work[C[h]].completed
        BY <1>2 DEF Uses, Owing
      <4> QED
        BY <1>16, <4>1
    <3>2. CASE j \in 1 .. m
      <4>1. i \in 1 .. m /\ j \in i .. m
        BY <3>2
      <4>2. worker.curr = F[i] /\ F2[j] = F[j]
        BY <1>15, <2>1, <3>2, <4>1
      <4> QED
        BY <1>2, <4>1, <4>2 DEF Uses, Walking
    <3>3. CASE \E h \in 1 .. k : j = m + h
      BY <3>1, <3>3
    <3>4. j \in 1 .. m + k
      OBVIOUS
    <3> QED
      BY <1>17, <3>2, <3>3, <3>4
  <2> QED
    BY <1>2, <1>7, <1>12, <2>1 DEF Uses, Walking
<1>31. (ends.latest <= now)'
  BY <1>3, <1>7, <1>10
<1>32. m + k \in Nat /\ n \in Nat /\ 0 \in Nat
  OBVIOUS
<1> QED
  BY <1>13, <1>26, <1>27, <1>28, <1>29, <1>30, <1>31, HoldsNext DEF Uses

\* At first every entry is free.
LEMMA WorkInitInv == WorkInit => WorkInv
<1> SUFFICES ASSUME WorkInit PROVE WorkInv
  OBVIOUS
<1> USE EntriesAssumption
<1>1. /\ next \in [Entries -> Link] /\ prev \in [Entries -> Link]
      /\ \A e \in Entries : next[e] = IF e + 1 \in Entries THEN e + 1 ELSE Nil
  <2>1. \A e \in Entries : e - 1 \in Link
    BY DEF Entries, Link, Nil
  <2> QED
    BY <2>1 DEF WorkInit, Link
<1>2. /\ work \in [Entries -> [target : Time, completed : BOOLEAN, copied : BOOLEAN, internal : BOOLEAN]]
      /\ ends \in [seq : Link, end : Link, free : Entries, freeEnd : Entries, latest : Time]
      /\ owed \in [Entries -> Kinds \cup {"nothing", "wrong"}] /\ \A e \in Entries : owed[e] = "nothing"
  <2>1. 0 \in Time /\ 0 \in Entries /\ NrEntries - 1 \in Entries
    BY DEF Time, Entries
  <2> QED
    BY <2>1 DEF WorkInit, Link
<1>3. /\ disp = Idle /\ disp \in [pc : {"idle", "insert", "cut", "free"}, e : Link, curr : Link]
      /\ worker \in [pc : {"start", "visit", "serve", "mark", "follow", "irq"}, curr : Link, tick : Time]
      /\ now \in Time /\ ends.latest <= now
  BY DEF WorkInit, Idle, Link, Time
<1>4. WorkTypeOK
  BY <1>1, <1>2, <1>3 DEF WorkTypeOK
<1>5. disp.pc = "idle" /\ ~ At("insert") /\ ~ At("cut") /\ ~ At("free")
  BY <1>3 DEF Idle, At
<1>6. PICK L, F : L = [i \in 1 .. 0 |-> 0] /\ F = [i \in 1 .. NrEntries |-> i - 1]
  OBVIOUS
<1>7. /\ L \in [1 .. 0 -> Entries] /\ F \in [1 .. NrEntries -> Entries]
      /\ \A i \in 1 .. NrEntries : F[i] = i - 1
      /\ NrEntries \in 1 .. NrEntries /\ 1 \in 1 .. NrEntries
  <2>1. \A i \in 1 .. NrEntries : i - 1 \in Entries
    BY DEF Entries
  <2> QED
    BY <1>6, <2>1
<1>8. Path(next, F, NrEntries)
  <2>1. ASSUME NEW i \in 1 .. NrEntries - 1 PROVE next[F[i]] = F[i + 1]
    <3>1. i \in 1 .. NrEntries /\ i + 1 \in 1 .. NrEntries /\ F[i] = i - 1 /\ F[i + 1] = i
          /\ i \in Entries /\ i - 1 \in Entries /\ (i - 1) + 1 = i
      BY <1>7 DEF Entries
    <3> QED
      BY <1>1, <3>1
  <2> QED
    BY <1>7, <2>1 DEF Path
<1>9. Spare(F, NrEntries)
  <2>1. F[NrEntries] = NrEntries - 1 /\ F[1] = 0
    BY <1>7
  <2>2. next[NrEntries - 1] = Nil
    <3>1. NrEntries - 1 \in Entries /\ (NrEntries - 1) + 1 \notin Entries
      BY DEF Entries
    <3> QED
      BY <1>1, <3>1
  <2>3. ends.free = 0 /\ ends.freeEnd = NrEntries - 1
    BY DEF WorkInit
  <2> QED
    BY <1>8, <2>1, <2>2, <2>3 DEF Spare
<1>10. Linked(L, 0)
  BY <1>7 DEF Linked, Path, WorkInit
<1>11. Leaving(L, 0) /\ Inserted
  BY <1>5, <1>7 DEF Leaving, Path, Inserted
<1>12. Apart(L, 0, F, NrEntries, L, 0)
  BY <1>5 DEF Apart
<1>13. Placed(L, 0, F, NrEntries, L, 0)
  <2>1. \A e \in Entries : e + 1 \in 1 .. NrEntries /\ (e + 1) - 1 = e
    BY DEF Entries
  <2>2. \A e \in Entries : F[e + 1] = e
    BY <1>7, <2>1
  <2> QED
    BY <2>1, <2>2 DEF Placed
<1>14. Chains(L, 0, F, NrEntries, L, 0)
  <2>1. 0 + NrEntries + 0 + Loose = NrEntries
    BY <1>5 DEF Loose
  <2> QED
    BY <1>9, <1>10, <1>11, <1>12, <1>13, <2>1 DEF Chains
<1>15. Uses(L, 0, F, NrEntries, L, 0)
  <2>1. Sorted(L, 0) /\ Passed(L, 0)
    BY DEF Sorted, Passed
  <2>2. Owing(L, 0, F, NrEntries, L, 0)
    BY <1>2, <1>5, <1>7 DEF Owing
  <2>3. Walking(L, 0, F, NrEntries)
    <3>1. worker.pc = "start" /\ worker.curr = Nil
      BY DEF WorkInit
    <3>2. \A i \in 1 .. NrEntries : F[i] # Nil
      BY <1>7 DEF Entries, Nil
    <3> QED
      BY <1>5, <3>1, <3>2 DEF Walking
  <2> QED
    BY <2>1, <2>2, <2>3 DEF Uses
<1>16. 0 \in 0 .. NrEntries /\ NrEntries \in 0 .. NrEntries
  OBVIOUS
<1> QED
  BY <1>3, <1>4, <1>7, <1>14, <1>15, <1>16 DEF WorkInv

\* Every step keeps the invariant.
LEMMA WorkStep == WorkInv /\ [WorkNext]_workVars => WorkInv'
<1> SUFFICES ASSUME WorkInv, [WorkNext]_workVars PROVE WorkInv'
  OBVIOUS
<1>1. ASSUME NEW kind \in Kinds, NEW t \in Time, Schedule(kind, t) PROVE WorkInv'
  BY <1>1, ScheduleKeeps
<1>2. CASE InsertFirst \/ InsertHead \/ InsertBehind
  BY <1>2, InsertKeeps
<1>3. CASE Search
  BY <1>3, SearchKeeps
<1>4. CASE Reclaim
  BY <1>4, ReclaimKeeps
<1>5. CASE Cut
  BY <1>5, CutKeeps
<1>6. CASE GiveBack
  BY <1>6, GiveBackKeeps
<1>7. CASE Start
  BY <1>7, StartKeeps
<1>8. CASE Visit
  BY <1>8, VisitKeeps
<1>9. CASE Serve
  BY <1>9, ServeKeeps
<1>10. CASE Mark
  BY <1>10, MarkKeeps
<1>11. CASE Follow
  BY <1>11, FollowKeeps
<1>12. CASE Signal \/ Tick
  BY <1>12, SignalOrTickKeeps
<1>13. CASE UNCHANGED workVars
  <2>1. UNCHANGED <<next, prev, work, ends, disp, worker, now, owed>>
    BY <1>13 DEF workVars
  <2>2. PICK n, m, k \in 0 .. NrEntries :
          \E L \in [1 .. n -> Entries], F \in [1 .. m -> Entries], C \in [1 .. k -> Entries] :
            Chains(L, n, F, m, C, k) /\ Uses(L, n, F, m, C, k)
    BY DEF WorkInv
  <2>3. PICK L \in [1 .. n -> Entries], F \in [1 .. m -> Entries], C \in [1 .. k -> Entries] :
          Chains(L, n, F, m, C, k) /\ Uses(L, n, F, m, C, k)
    BY <2>2
  <2>4. WorkTypeOK' /\ (ends.latest <= now)'
    BY <2>1 DEF WorkInv, WorkTypeOK
  <2>5. Chains(L, n, F, m, C, k)'
    BY <2>1, <2>3, SameChains
  <2>6. Sorted(L, n)' /\ Passed(L, n)'
    BY <2>1, <2>3 DEF Uses, Sorted, Passed, At
  <2>7. Owing(L, n, F, m, C, k)' /\ Walking(L, n, F, m)'
    BY <2>1, <2>3 DEF Uses, Owing, Awaited, KindOf, Walking, At
  <2> QED
    BY <2>4, <2>5, <2>6, <2>7, HoldsNext DEF Uses
<1> QED
  BY <1>1, <1>2, <1>3, <1>4, <1>5, <1>6, <1>7, <1>8, <1>9, <1>10, <1>11, <1>12, <1>13
     DEF WorkNext, DispatcherStep, Proceed, Worker

\* The inductive invariant holds.
THEOREM WorkInvariance == WorkSpec => []WorkInv
<1>1. WorkInit => WorkInv
  BY WorkInitInv
<1>2. WorkInv /\ [WorkNext]_workVars => WorkInv'
  BY WorkStep
<1> QED
  BY <1>1, <1>2, PTL DEF WorkSpec

\* From every place of a path that ends, the chain is no longer than the path.
LEMMA RestIsShort ==
  ASSUME NEW n \in 0 .. NrEntries, NEW S, Path(next, S, n), NEW i \in 1 .. n, next[S[n]] = Nil
  PROVE  Len(Chain(S[i])) <= NrEntries
<1> USE EntriesAssumption
<1>1. PICK h, r : h = i - 1 /\ r = n - h
  OBVIOUS
<1>2. h \in 0 .. n /\ n \in h .. n /\ r \in 1 .. n /\ h + 1 = i /\ h + r = n /\ n \in Nat
      /\ r \in 0 .. NrEntries /\ r \in Nat
  BY <1>1
<1>3. PICK R : R = [j \in 1 .. n - h |-> S[h + j]]
  OBVIOUS
<1>4. Path(next, R, n - h)
  BY <1>2, <1>3, Piece
<1>5. Path(next, R, r)
  BY <1>1, <1>4
<1>6. R[1] = S[i] /\ R[r] = S[n]
  <2>1. 1 \in 1 .. n - h /\ r \in 1 .. n - h
    BY <1>1, <1>2
  <2> QED
    BY <1>2, <1>3, <2>1
<1>7. S[i] \in Link
  BY DEF Path, Link
<1>8. r # 0 /\ r > 0
  BY <1>2
<1>9. Chain(S[i]) = R
  BY <1>2, <1>5, <1>6, <1>7, <1>8, ChainIs
<1>10. R \in Seq(Entries) /\ Len(R) = r
  <2>1. R \in [1 .. r -> Entries]
    BY <1>5 DEF Path
  <2> QED
    BY <1>2, <2>1, LenProperties
<1> QED
  BY <1>2, <1>9, <1>10

\* The list: sound at rest, whatever the worker does meanwhile.
LEMMA InvListsSound == WorkInv => ListsSound
<1> SUFFICES ASSUME WorkInv PROVE ListsSound
  OBVIOUS
<1>1. PICK n, m, k \in 0 .. NrEntries :
        \E L \in [1 .. n -> Entries], F \in [1 .. m -> Entries], C \in [1 .. k -> Entries] :
          Chains(L, n, F, m, C, k) /\ Uses(L, n, F, m, C, k)
  BY DEF WorkInv
<1>2. PICK L \in [1 .. n -> Entries], F \in [1 .. m -> Entries], C \in [1 .. k -> Entries] :
        Chains(L, n, F, m, C, k) /\ Uses(L, n, F, m, C, k)
  BY <1>1
<1>3. WorkTypeOK
  BY DEF WorkInv
<1>4. n \in Nat /\ m \in Nat /\ k \in Nat
  OBVIOUS
<1>5. Len(Chain(worker.curr)) <= NrEntries
  <2>1. CASE worker.curr = Nil
    <3>1. PICK S : S = [i \in 1 .. 0 |-> 0]
      OBVIOUS
    <3>2. Path(next, S, 0) /\ S = <<>>
      BY <3>1 DEF Path
    <3>3. 0 \in 0 .. NrEntries /\ Nil \in Link
      BY EntriesAssumption DEF Link
    <3>4. Chain(worker.curr) = S
      BY <2>1, <3>2, <3>3, ChainIs
    <3> QED
      BY <3>2, <3>4, EntriesAssumption
  <2>2. CASE \E i \in 1 .. n : L[i] = worker.curr
    <3>1. PICK i \in 1 .. n : L[i] = worker.curr
      BY <2>2
    <3>2. n > 0 /\ Path(next, L, n) /\ next[L[n]] = Nil
      BY <1>2, <3>1 DEF Chains, Linked
    <3> QED
      BY <3>1, <3>2, RestIsShort
  <2>3. CASE \E i \in 1 .. m : F[i] = worker.curr
    <3>1. PICK i \in 1 .. m : F[i] = worker.curr
      BY <2>3
    <3>2. Path(next, F, m) /\ next[F[m]] = Nil
      BY <1>2 DEF Chains, Spare
    <3> QED
      BY <3>1, <3>2, RestIsShort
  <2>4. CASE \E i \in 1 .. k : C[i] = worker.curr
    <3>1. PICK i \in 1 .. k : C[i] = worker.curr
      BY <2>4
    <3>2. k > 0 /\ Path(next, C, k) /\ next[C[k]] = IF At("cut") THEN ends.seq ELSE Nil
      BY <1>2, <3>1 DEF Chains, Leaving
    <3>3. CASE next[C[k]] = Nil
      BY <3>1, <3>2, <3>3, RestIsShort
    <3>4. CASE next[C[k]] # Nil
      <4>1. n > 0 /\ next[C[k]] = L[1] /\ Path(next, L, n) /\ next[L[n]] = Nil
        BY <1>2, <3>2, <3>4 DEF Chains, Linked
      <4>2. \A a \in 1 .. k, b \in 1 .. n : C[a] # L[b]
        BY <1>2 DEF Chains, Apart
      <4>3. PICK J : J = [j \in 1 .. k + n |-> IF j <= k THEN C[j] ELSE L[j - k]]
        OBVIOUS
      <4>4. Path(next, J, k + n)
        BY <1>4, <3>2, <4>1, <4>2, <4>3, Joined
      <4>5. k + n \in 0 .. NrEntries /\ i \in 1 .. k + n /\ k + n \in 1 .. k + n /\ i <= k
            /\ ~ (k + n <= k) /\ (k + n) - k = n
        <5>1. n + m + k + Loose = NrEntries /\ Loose \in {0, 1}
          BY <1>2 DEF Chains, Loose
        <5> QED
          BY <4>1, <5>1
      <4>6. J[i] = C[i] /\ J[k + n] = L[n]
        BY <4>3, <4>5
      <4> QED
        BY <3>1, <4>1, <4>4, <4>5, <4>6, RestIsShort
    <3> QED
      BY <3>3, <3>4
  <2>5. ~ (At("insert") /\ disp.e = worker.curr)
    BY <1>2 DEF Uses, Walking
  <2>6. worker.curr \in Link
    BY <1>3 DEF WorkTypeOK
  <2> QED
    BY <1>2, <2>1, <2>2, <2>3, <2>4, <2>5, <2>6 DEF Chains, Placed, Link
<1>6. ASSUME At("idle")
      PROVE  LET list == List
                 free == Free
             IN  /\ Len(list) + Len(free) = NrEntries
                 /\ ToSet(list) \cup ToSet(free) = Entries
                 /\ Last(free) = ends.freeEnd
                 /\ list # <<>> => Last(list) = ends.end /\ prev[ends.seq] = Nil
                 /\ \A i \in DOMAIN list : i > 1 => prev[list[i]] = list[i - 1]
                 /\ \A j \in DOMAIN list : \A i \in 1 .. j :
                      work[list[i]].target <= work[list[j]].target \/ work[list[i]].target <= ends.latest
  <2>1. List = L /\ DOMAIN L = 1 .. n
    BY <1>2, <1>4, ListIs DEF List
  <2>2. /\ Path(next, F, m) /\ m > 0 /\ m # 0 /\ ends.free = F[1] /\ next[F[m]] = Nil
        /\ ends.freeEnd = F[m]
    BY <1>2 DEF Chains, Spare
  <2>3. Free = F
    BY <1>3, <2>2, ChainIs DEF Free, WorkTypeOK, Link
  <2>4. k = 0 /\ n + m = NrEntries /\ ~ At("insert")
    BY <1>2, <1>6 DEF Chains, Leaving, Loose, At
  <2>5. L \in Seq(Entries) /\ Len(L) = n /\ F \in Seq(Entries) /\ Len(F) = m
    BY <1>4, LenProperties
  <2>6. ToSet(L) = {L[i] : i \in 1 .. n} /\ ToSet(F) = {F[i] : i \in 1 .. m}
    BY <2>1 DEF ToSet
  <2>7. ToSet(L) \cup ToSet(F) = Entries
    <3>1. \A e \in Entries : (\E i \in 1 .. n : L[i] = e) \/ (\E i \in 1 .. m : F[i] = e)
      BY <1>2, <2>4 DEF Chains, Placed
    <3> QED
      BY <2>6, <3>1
  <2>8. Last(F) = ends.freeEnd
    BY <2>2, <2>5 DEF Last
  <2>9. L # <<>> => Last(L) = ends.end /\ prev[ends.seq] = Nil
    <3>1. L # <<>> => n > 0 /\ n # 0
      BY <1>4, <2>5
    <3> QED
      BY <1>2, <2>5, <3>1 DEF Last, Chains, Linked
  <2>10. \A i \in 1 .. n : i > 1 => prev[L[i]] = L[i - 1]
    BY <1>2 DEF Chains, Linked
  <2>11. ASSUME NEW j \in 1 .. n, NEW i \in 1 .. j
         PROVE  work[L[i]].target <= work[L[j]].target \/ work[L[i]].target <= ends.latest
    <3>1. i \in 1 .. n /\ (i = j \/ i < j)
      OBVIOUS
    <3>2. work[L[j]].target \in Int
      BY <1>3, EntriesAssumption DEF WorkTypeOK, Time
    <3> QED
      BY <1>2, <3>1, <3>2 DEF Uses, Sorted
  <2> QED
    BY <2>1, <2>3, <2>4, <2>5, <2>7, <2>8, <2>9, <2>10, <2>11
<1> QED
  BY <1>3, <1>5, <1>6 DEF ListsSound

\* An operation has its effect once.
LEMMA InvOnceEach == WorkInv => OnceEach
<1> SUFFICES ASSUME WorkInv PROVE OnceEach
  OBVIOUS
<1>1. PICK n, m, k \in 0 .. NrEntries :
        \E L \in [1 .. n -> Entries], F \in [1 .. m -> Entries], C \in [1 .. k -> Entries] :
          Chains(L, n, F, m, C, k) /\ Uses(L, n, F, m, C, k)
  BY DEF WorkInv
<1>2. PICK L \in [1 .. n -> Entries], F \in [1 .. m -> Entries], C \in [1 .. k -> Entries] :
        Chains(L, n, F, m, C, k) /\ Uses(L, n, F, m, C, k)
  BY <1>1
<1>3. Free = F
  <2>1. /\ Path(next, F, m) /\ m > 0 /\ m # 0 /\ ends.free = F[1] /\ next[F[m]] = Nil
    BY <1>2 DEF Chains, Spare
  <2>2. ends.free \in Link
    BY DEF WorkInv, WorkTypeOK, Link
  <2> QED
    BY <2>1, <2>2, ChainIs DEF Free
<1>4. ToSet(F) = {F[i] : i \in 1 .. m}
  BY DEF ToSet
<1>5. \A e \in ToSet(Free) : owed[e] = "nothing"
  BY <1>2, <1>3, <1>4 DEF Uses, Owing
<1> QED
  BY <1>2, <1>5 DEF OnceEach, Uses, Owing

\* Between two operations of the dispatcher every entry is in the list or free,
\* once, in chains that are linked in both directions and sorted but for what
\* is due; and the worker's walk ends, for every number of entries and every clock.
THEOREM ListsStaySound == WorkSpec => []ListsSound
<1>1. WorkInv => ListsSound
  BY InvListsSound
<1> QED
  BY <1>1, WorkInvariance, PTL

\* Every operation has its effect once, before its entry is given to another.
THEOREM EffectOnce == WorkSpec => []OnceEach
<1>1. WorkInv => OnceEach
  BY InvOnceEach
<1> QED
  BY <1>1, WorkInvariance, PTL
=============================================================================
