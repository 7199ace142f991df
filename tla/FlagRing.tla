------------------------------ MODULE FlagRing ------------------------------
(***************************************************************************)
(* One shared-memory ring between one producer and one consumer thread.    *)
(* The device has two for every (dispatcher, FTL thread) pair:             *)
(*   in_que  / to_ftl     dispatcher -> FTL thread  (io.c, ~ waits)        *)
(*   out_que / to_poller  FTL thread -> dispatcher  (sgx_ftl.cpp, waits)   *)
(* The threads share no index: the producer owns the tail, the consumer    *)
(* owns the head, and all they synchronise on is the is_completed flag of  *)
(* each slot.  A step is one access to shared memory.                      *)
(***************************************************************************)
EXTENDS Integers, Sequences

CONSTANTS Values,   \* what a slot carries
          Torn,     \* a slot some of whose fields are already overwritten
          Size,     \* in_que_size or out_que_size
          Window,   \* messages the clients of a producer that does not
                    \* wait keep outstanding
          MaxSent   \* bound: messages sent in a behaviour

ASSUME SizeAssumption   == Size \in Nat \ {0}
ASSUME WindowAssumption == Window \in Nat
ASSUME MaxSentAssumption == MaxSent \in Nat
ASSUME TornAssumption   == Torn \notin Values
\* A producer that does not wait relies on its clients (IoPath shows what
\* happens when they keep more messages outstanding than the ring holds).
ASSUME FlowControl == Window <= Size

VARIABLES
  waits,    \* does the producer wait for its slot to be empty?  (fixed)
  slot,     \* the fields of each entry
  flag,     \* is_completed of each entry: TRUE, the entry is full
  tail,     \* the producer's index
  ppc, pval,    \* the producer's position, and the message it is writing
  head,     \* the consumer's index
  cpc, cval,    \* the consumer's position, and the fields it has read
  sent, got     \* history: messages published, messages taken

producerVars == <<tail, ppc, pval>>
consumerVars == <<head, cpc, cval>>
ringVars == <<waits, slot, flag, producerVars, consumerVars, sent, got>>

RingSlots == 0 .. Size - 1

\* if (++index >= size) index = 0
\* (An operator named Bug... is the operator after it with a plausible mistake
\* in it; the mutants listed in PROJECT.json put it in that operator's place.)
Succ(i) == IF i + 1 >= Size THEN 0 ELSE i + 1

RingInit == /\ waits \in BOOLEAN
            /\ slot = [i \in RingSlots |-> Torn]
            /\ flag = [i \in RingSlots |-> FALSE]
            /\ tail = 0 /\ ppc = "idle" /\ pval = Torn
            /\ head = 0 /\ cpc = "idle" /\ cval = Torn
            /\ sent = <<>> /\ got = <<>>
-----------------------------------------------------------------------------
(* The producer. *)

\* The flag of the slot at the tail is read.  The FTL thread retries until
\* it is clear; the dispatcher reports a full ring and goes on all the same.
Check(v) ==
  /\ ppc = "idle"
  /\ Len(sent) < MaxSent
  /\ IF waits THEN ~ flag[tail] ELSE Len(sent) - Len(got) < Window
  /\ ppc' = "begin" /\ pval' = v
  /\ UNCHANGED <<waits, slot, flag, tail, consumerVars, sent, got>>

BugBeginFlagFirst ==
  /\ ppc = "begin"
  /\ slot' = [slot EXCEPT ![tail] = Torn]
  /\ flag' = [flag EXCEPT ![tail] = TRUE]
  /\ ppc' = "end"
  /\ UNCHANGED <<waits, tail, pval, consumerVars, sent, got>>

\* The first fields of the entry are written ...
BeginWrite ==
  /\ ppc = "begin"
  /\ slot' = [slot EXCEPT ![tail] = Torn]
  /\ ppc' = "end"
  /\ UNCHANGED <<waits, flag, tail, pval, consumerVars, sent, got>>

\* ... and the last ones.
EndWrite ==
  /\ ppc = "end"
  /\ slot' = [slot EXCEPT ![tail] = pval]
  /\ ppc' = "publish"
  /\ UNCHANGED <<waits, flag, tail, pval, consumerVars, sent, got>>

BugPublishUnflagged ==
  /\ ppc = "publish"
  /\ sent' = Append(sent, pval)
  /\ tail' = Succ(tail)
  /\ ppc' = "idle"
  /\ UNCHANGED <<waits, slot, flag, pval, consumerVars, got>>

\* After the barrier the flag is set; the tail is the producer's own.
Publish ==
  /\ ppc = "publish"
  /\ flag' = [flag EXCEPT ![tail] = TRUE]
  /\ sent' = Append(sent, pval)
  /\ tail' = Succ(tail)
  /\ ppc' = "idle"
  /\ UNCHANGED <<waits, slot, pval, consumerVars, got>>

Producer == (\E v \in Values : Check(v)) \/ BeginWrite \/ EndWrite \/ Publish
-----------------------------------------------------------------------------
(* The consumer. *)

Poll ==
  /\ cpc = "idle"
  /\ flag[head]
  /\ cpc' = "read"
  /\ UNCHANGED <<waits, slot, flag, producerVars, head, cval, sent, got>>

Read ==
  /\ cpc = "read"
  /\ cval' = slot[head]
  /\ cpc' = "clear"
  /\ UNCHANGED <<waits, slot, flag, producerVars, head, sent, got>>

BugClearFlagKept ==
  /\ cpc = "clear"
  /\ got' = Append(got, cval)
  /\ head' = Succ(head)
  /\ cpc' = "idle"
  /\ UNCHANGED <<waits, slot, flag, producerVars, cval, sent>>

BugClearHeadKept ==
  /\ cpc = "clear"
  /\ flag' = [flag EXCEPT ![head] = FALSE]
  /\ got' = Append(got, cval)
  /\ cpc' = "idle"
  /\ UNCHANGED <<waits, slot, producerVars, head, cval, sent>>

\* After the barrier the slot is given back.
Clear ==
  /\ cpc = "clear"
  /\ flag' = [flag EXCEPT ![head] = FALSE]
  /\ got' = Append(got, cval)
  /\ head' = Succ(head)
  /\ cpc' = "idle"
  /\ UNCHANGED <<waits, slot, producerVars, cval, sent>>

Consumer == Poll \/ Read \/ Clear
-----------------------------------------------------------------------------
RingNext == Producer \/ Consumer

RingSpec == RingInit /\ [][RingNext]_ringVars

\* Both threads run for ever on CPUs of their own.
RingFairSpec == RingSpec /\ WF_ringVars(BeginWrite \/ EndWrite \/ Publish)
                         /\ WF_ringVars(Consumer)
-----------------------------------------------------------------------------
RingTypeOK ==
  /\ waits \in BOOLEAN
  /\ slot \in [RingSlots -> Values \cup {Torn}]
  /\ flag \in [RingSlots -> BOOLEAN]
  /\ tail \in RingSlots /\ head \in RingSlots
  /\ ppc \in {"idle", "begin", "end", "publish"}
  /\ cpc \in {"idle", "read", "clear"}
  /\ pval \in Values \cup {Torn} /\ cval \in Values \cup {Torn}
  /\ ppc # "idle" => pval \in Values
  /\ sent \in Seq(Values) /\ got \in Seq(Values \cup {Torn})

\* The dispatcher's assertion in __enqueue_io_req_to_ftl: the entry it is
\* about to fill has been given back by the FTL thread.
NoOverrun == ppc # "idle" => ~ flag[tail]

\* The producer never writes the fields of the entry the consumer reads.
NoDataRace == ~ (ppc \in {"begin", "end"} /\ cpc # "idle" /\ tail = head)

\* Nothing is lost, duplicated, reordered or torn: the ring implements the
\* bounded channel.
Chan == INSTANCE Channel
ImplementsChannel == Chan!Spec

\* Every message published is eventually taken by the consumer.
Delivery == \A n \in 1 .. MaxSent : (Len(sent) >= n) ~> (Len(got) >= n)
=============================================================================
