----------------------------- MODULE Controller -----------------------------
(***************************************************************************)
(* The controller registers (nvmev_proc_bars), the admin queue pair and    *)
(* its commands (admin.c), and the life of one I/O queue pair, as the      *)
(* dispatcher sees them against a host driver that brings the controller   *)
(* up, uses it, stops it with or without a shutdown, and brings it up      *)
(* again.  The host writes registers, memory and doorbells at any time;    *)
(* the dispatcher notices one register change per pass and then the        *)
(* doorbell.  The host is external: it waits for csts as the NVMe          *)
(* specification asks it to.                                               *)
(***************************************************************************)
EXTENDS Integers, Sequences, FiniteSets

CONSTANTS
  Depths,       \* depths of the admin queues, for aqa
  Bases,        \* places of a pair of admin queues in memory, for asq and acq
  Cids,         \* identifiers of admin commands
  IoCids,       \* identifiers of I/O commands
  MaxStarts,    \* bound: times the host brings the controller up
  MaxQueues     \* bound: times the I/O queue pair is created

\* A depth is one more than a field of twelve bits; an empty slot tells a full
\* queue from an empty one.
ASSUME DepthsAssumption == Depths \subseteq 2 .. 4096 /\ Depths # {}
ASSUME BoundsAssumption == MaxStarts \in Nat /\ MaxQueues \in Nat /\ Bases # {}

None == "none"
Slots == 0 .. (CHOOSE d \in Depths : \A x \in Depths : x <= d) - 1
QueueOps == {"create_cq", "create_sq", "delete_sq", "delete_cq"}
Ops == QueueOps \cup {"identify", "set_features", "abort"}
NoCmd == [cid |-> None, op |-> "identify"]

VARIABLES
  host,     \* the driver: its step, queue positions, expected phase, what is
            \* outstanding, its view of the I/O queue pair; history: the phase
            \* bit of an earlier start is still in use (stale)
  bar,      \* the registers as the host wrote them
  old,      \* old_bar: the values the dispatcher has acted on
  csts,     \* controller status: rdy, shst
  aq,       \* admin_q, with its doorbell and the doorbell acted on
  mem,      \* host memory: admin submission and completion queues by place
  io,       \* the I/O queue pair: nr_sq > 0, sqes, cqes, tag_mapper, doorbell, its
            \* commands in the rings, and what went wrong
  posted,   \* history: the completions posted that the host has not taken
  turn      \* what the dispatcher looks at next

vars == <<host, bar, old, csts, aq, mem, io, posted, turn>>

\* The registers are zero, as old_bar is.
Zero == [aqa |-> 0, asq |-> None, acq |-> None, en |-> 0, shn |-> 0]

Init ==
  /\ host = [step |-> "off", place |-> None, starts |-> 0, tail |-> 0, head |-> 0, phase |-> 1,
             out |-> {}, queue |-> "none", ios |-> {}, stale |-> FALSE]
  /\ bar = Zero /\ old = Zero /\ csts = [rdy |-> 0, shst |-> 0]
  /\ aq = [built |-> FALSE, sq |-> None, cq |-> None, sqRoom |-> 0, cqRoom |-> 0,
           sqDepth |-> 0, cqDepth |-> 0, head |-> 0, phase |-> 0, db |-> 0, oldDb |-> 0]
  /\ mem = [sq |-> [b \in Bases |-> [s \in Slots |-> NoCmd]],
            cq |-> [b \in Bases |-> [s \in Slots |-> [cid |-> None, phase |-> 0]]]]
  /\ io = [polled |-> FALSE, sq |-> 0, cq |-> FALSE, made |-> 0, tags |-> {}, rung |-> {},
           flight |-> {}, bad |-> "no"]
  /\ posted = << >>
  /\ turn = "bars"
-----------------------------------------------------------------------------
(* Admin commands.  An operation takes the device d, a record of aq, mem, io *)
(* and the completions posted, and gives the device after it.               *)

\* __make_cq_entry
Post(d, cid) ==
  LET a == d.aq
      wraps == a.head + 1 = a.cqDepth
  IN [d EXCEPT !.mem.cq[a.cq][a.head] = [cid |-> cid, phase |-> a.phase],
               !.aq.head = IF wraps THEN 0 ELSE @ + 1,
               !.aq.phase = IF wraps THEN 1 - @ ELSE @,
               !.posted = Append(@, cid)]

CreateCq(d) == [d EXCEPT !.io.cq = TRUE]
DeleteCq(d) == [d EXCEPT !.io.cq = FALSE]

\* Faulty: the doorbell stays as it was.
BugCreateSq(d) == [d EXCEPT !.io.sq = d.io.made + 1, !.io.made = @ + 1, !.io.tags = {}]

\* The doorbell starts at zero: what was rung before is not fetched.
CreateSq(d) ==
  [d EXCEPT !.io.sq = d.io.made + 1, !.io.made = @ + 1, !.io.tags = {}, !.io.rung = {}]
DeleteSq(d) == [d EXCEPT !.io.sq = 0]

\* The pages it fills in are not read by anything here; what every identify,
\* log page, get features or unknown command changes is the completion queue.
Identify(d, cid) == Post(d, cid)

\* The number of queues is what the dispatcher polls, from then on.
SetFeatures(d, cid) == Post([d EXCEPT !.io.polled = TRUE], cid)

\* __nvmev_proc_admin_req.  An abort has no completion.
ProcAdminReq(d, cmd) ==
  CASE cmd.op = "create_cq" -> Post(CreateCq(d), cmd.cid)
    [] cmd.op = "create_sq" -> Post(CreateSq(d), cmd.cid)
    [] cmd.op = "delete_sq" -> Post(DeleteSq(d), cmd.cid)
    [] cmd.op = "delete_cq" -> Post(DeleteCq(d), cmd.cid)
    [] cmd.op = "identify"  -> Identify(d, cmd.cid)
    [] cmd.op = "set_features" -> SetFeatures(d, cmd.cid)
    [] cmd.op = "abort"     -> d

\* nvmev_proc_admin_sq: the entries between the doorbell seen last and now.
ProcAdminSq(d, newDb, oldDb) ==
  LET num == IF newDb < oldDb THEN newDb - oldDb + d.aq.sqDepth ELSE newDb - oldDb
      after[n \in 0 .. num] ==
        IF n = 0 THEN d
        ELSE ProcAdminReq(after[n - 1],
                          mem.sq[d.aq.sq][(oldDb + n - 1) % d.aq.sqDepth])
  IN [after[num] EXCEPT !.aq.oldDb = newDb]

ProcAdminDb ==
  /\ turn = "doorbells" /\ turn' = "bars"
  /\ IF aq.db = aq.oldDb THEN UNCHANGED <<aq, mem, io, posted>>
     ELSE LET d == ProcAdminSq([aq |-> aq, mem |-> mem, io |-> io, posted |-> posted],
                               aq.db, aq.oldDb)
          IN /\ aq' = d.aq /\ mem' = d.mem /\ io' = d.io
             /\ posted' = d.posted
  /\ UNCHANGED <<host, bar, old, csts>>
-----------------------------------------------------------------------------
(* nvmev_proc_bars: one change of a register per pass.                      *)

NewAqa ==
  /\ old' = [old EXCEPT !.aqa = bar.aqa]
  /\ aq' = [aq EXCEPT !.built = TRUE, !.head = 0, !.phase = 1, !.sqDepth = bar.aqa,
                      !.cqDepth = bar.aqa, !.db = 0, !.oldDb = 0]
  /\ UNCHANGED csts

\* asq and acq wait for the queue that aqa makes.
NewAsq ==
  /\ IF ~ aq.built THEN UNCHANGED <<old, aq>>
     ELSE /\ old' = [old EXCEPT !.asq = bar.asq]
          /\ aq' = [aq EXCEPT !.sq = bar.asq, !.sqDepth = bar.aqa, !.sqRoom = bar.aqa,
                              !.db = 0, !.oldDb = 0]
  /\ UNCHANGED csts

NewAcq ==
  /\ IF ~ aq.built THEN UNCHANGED <<old, aq>>
     ELSE /\ old' = [old EXCEPT !.acq = bar.acq]
          /\ aq' = [aq EXCEPT !.cq = bar.acq, !.cqDepth = bar.aqa, !.cqRoom = bar.aqa,
                              !.head = 0]
  /\ UNCHANGED csts

\* A shutdown resets doorbells and head, and not the phase.
NewCc ==
  /\ old' = [old EXCEPT !.en = bar.en, !.shn = bar.shn]
  /\ csts' = [rdy  |-> IF bar.en = 0 THEN 0 ELSE IF aq.built THEN 1 ELSE csts.rdy,
              shst |-> IF bar.shn = 1 THEN 2 ELSE csts.shst]
  /\ aq' = IF bar.shn = 1 THEN [aq EXCEPT !.db = 0, !.oldDb = 0, !.head = 0] ELSE aq

\* Faulty: the enable bit is looked at before the places of the queues.
BugRegisterChange ==
  IF old.aqa # bar.aqa THEN NewAqa
  ELSE IF <<old.en, old.shn>> # <<bar.en, bar.shn>> THEN NewCc
  ELSE IF old.asq # bar.asq THEN NewAsq
  ELSE IF old.acq # bar.acq THEN NewAcq
  ELSE UNCHANGED <<old, aq, csts>>

RegisterChange ==
  IF old.aqa # bar.aqa THEN NewAqa
  ELSE IF old.asq # bar.asq THEN NewAsq
  ELSE IF old.acq # bar.acq THEN NewAcq
  ELSE IF <<old.en, old.shn>> # <<bar.en, bar.shn>> THEN NewCc
  ELSE UNCHANGED <<old, aq, csts>>

ProcBars ==
  /\ turn = "bars" /\ turn' = "doorbells"
  /\ RegisterChange
  /\ UNCHANGED <<host, bar, mem, io, posted>>
-----------------------------------------------------------------------------
(* The I/O queue pair.  A command that comes back from the FTL threads finds *)
(* its request by its identifier, in the queue that is there then.          *)

Fetch(cid) ==
  /\ turn = "bars" /\ io.polled /\ io.sq # 0 /\ cid \in io.rung
  /\ io' = [io EXCEPT !.rung = @ \ {cid}, !.tags = @ \cup {cid},
                      !.flight = @ \cup {[queue |-> io.sq, cid |-> cid]}]
  /\ UNCHANGED <<host, bar, old, csts, aq, mem, posted, turn>>

Complete(f) ==
  LET back == [io EXCEPT !.flight = @ \ {f}]
      hit == f.cid \in io.tags
  IN /\ turn = "bars" /\ f \in io.flight
     /\ io' = CASE io.sq = 0 \/ (hit /\ ~ io.cq) -> [back EXCEPT !.bad = "null pointer"]
                [] io.sq # 0 /\ hit /\ io.cq ->
                     [back EXCEPT !.tags = @ \ {f.cid},
                                  !.bad = IF f.queue = io.sq THEN @ ELSE "wrong command"]
                [] OTHER -> back
     /\ host' = IF io.sq # 0 /\ hit THEN [host EXCEPT !.ios = @ \ {f.cid}] ELSE host
     /\ UNCHANGED <<bar, old, csts, aq, mem, posted, turn>>
-----------------------------------------------------------------------------
(* The host driver.                                                         *)

\* The dispatcher acts on registers that change.  A new depth resets head, phase
\* and doorbells; new places, head and doorbells; the same registers, nothing.
\* Left out are the starts that run on in the middle of the old queues (the
\* dispatcher then takes whatever their slots hold for commands), and those
\* with a larger depth in the same places (the page lists are then too short).
Restarts(a, b) ==
  /\ a > bar.aqa => b # bar.asq
  /\ a = bar.aqa => (aq.db = aq.oldDb /\ (b # bar.asq \/ (aq.db = 0 /\ aq.head = 0)))

\* The host writes the registers one after the other.
Program(a, b) ==
  /\ host.step = "off" /\ host.starts < MaxStarts /\ Restarts(a, b)
  /\ bar' = [bar EXCEPT !.aqa = a]
  /\ host' = [host EXCEPT !.step = "asq", !.place = b, !.starts = @ + 1,
                          !.stale = (a = bar.aqa /\ aq.phase = 0)]
  /\ UNCHANGED <<old, csts, aq, mem, io, posted, turn>>

WriteRegister ==
  /\ \/ /\ host.step = "asq" /\ bar' = [bar EXCEPT !.asq = host.place]
        /\ host' = [host EXCEPT !.step = "acq"]
     \/ /\ host.step = "acq" /\ bar' = [bar EXCEPT !.acq = host.place]
        /\ host' = [host EXCEPT !.step = "cc"]
     \/ /\ host.step = "cc" /\ bar' = [bar EXCEPT !.en = 1]
        /\ host' = [host EXCEPT !.step = "enabling"]
  /\ UNCHANGED <<old, csts, aq, mem, io, posted, turn>>

\* Once the controller is ready the completion queue is cleared.
Ready ==
  /\ host.step = "enabling" /\ csts.rdy = 1
  /\ host' = [host EXCEPT !.step = "up", !.tail = 0, !.head = 0, !.phase = 1]
  /\ mem' = [mem EXCEPT !.cq[bar.acq] = [s \in Slots |-> [cid |-> None, phase |-> 0]]]
  /\ posted' = << >>
  /\ UNCHANGED <<bar, old, csts, aq, io, turn>>

\* One command on the I/O queues at a time, and what the pair is then.
Asked == \E c \in host.out : c.op \in QueueOps
Leads(from, op) ==
  CASE from = "none" /\ op = "create_cq" -> "cq"
    [] from = "cq"   /\ op = "create_sq" -> "both"
    [] from = "both" /\ op = "delete_sq" -> "cq"
    [] from = "cq"   /\ op = "delete_cq" -> "none"
    [] OTHER -> "no"

Submit(cid, op) ==
  LET next == (host.tail + 1) % bar.aqa IN
  /\ host.step = "up" /\ Cardinality(host.out) < bar.aqa - 1
  /\ \A c \in host.out : c.cid # cid
  /\ op \in QueueOps => ~ Asked /\ Leads(host.queue, op) # "no"
  /\ op = "create_sq" => io.made < MaxQueues
  /\ op = "set_features" => host.queue = "none" /\ ~ Asked
  /\ host' = [host EXCEPT !.tail = next, !.out = @ \cup {[cid |-> cid, op |-> op]}]
  /\ mem' = [mem EXCEPT !.sq[bar.asq][host.tail] = [cid |-> cid, op |-> op]]
  /\ aq' = [aq EXCEPT !.db = next]
  /\ UNCHANGED <<bar, old, csts, io, posted, turn>>

Reap ==
  LET e == mem.cq[bar.acq][host.head]
      wraps == host.head + 1 = bar.aqa
  IN /\ host.step = "up" /\ e.phase = host.phase
     /\ \E c \in host.out :
          /\ c.cid = e.cid
          /\ host' = [host EXCEPT !.out = @ \ {c},
                                  !.head = IF wraps THEN 0 ELSE @ + 1,
                                  !.phase = IF wraps THEN 1 - @ ELSE @,
                                  !.queue = IF c.op \in QueueOps THEN Leads(@, c.op) ELSE @]
     /\ posted' = Tail(posted)
     /\ UNCHANGED <<bar, old, csts, aq, mem, io, turn>>

SubmitIo(cid) ==
  /\ host.step = "up" /\ host.queue = "both" /\ ~ Asked /\ cid \notin host.ios
  /\ host' = [host EXCEPT !.ios = @ \cup {cid}]
  /\ io' = [io EXCEPT !.rung = @ \cup {cid}]
  /\ UNCHANGED <<bar, old, csts, aq, mem, posted, turn>>

\* It stops using the controller, whatever is outstanding: by a shutdown and
\* then a reset of the enable bit, or by the reset alone.
Stop(shutdown) ==
  /\ host.step = "up"
  /\ bar' = IF shutdown THEN [bar EXCEPT !.shn = 1] ELSE [bar EXCEPT !.en = 0]
  /\ host' = [host EXCEPT !.step = IF shutdown THEN "shutting down" ELSE "disabling",
                          !.out = {}, !.ios = {}, !.queue = "none"]
  /\ UNCHANGED <<old, csts, aq, mem, io, posted, turn>>

Disable ==
  /\ host.step = "shutting down" /\ csts.shst = 2
  /\ bar' = [bar EXCEPT !.en = 0, !.shn = 0]
  /\ host' = [host EXCEPT !.step = "disabling"]
  /\ UNCHANGED <<old, csts, aq, mem, io, posted, turn>>

Off ==
  /\ host.step = "disabling" /\ csts.rdy = 0
  /\ host' = [host EXCEPT !.step = "off"]
  /\ UNCHANGED <<bar, old, csts, aq, mem, io, posted, turn>>

HostStep ==
  \/ \E a \in Depths, b \in Bases : Program(a, b)
  \/ WriteRegister \/ Ready \/ Disable \/ Off \/ Reap
  \/ \E cid \in IoCids : SubmitIo(cid)
  \/ \E cid \in Cids, op \in Ops : Submit(cid, op)
  \/ \E shutdown \in BOOLEAN : Stop(shutdown)

Dispatcher ==
  \/ ProcBars \/ ProcAdminDb
  \/ \E cid \in IoCids : Fetch(cid)
  \/ \E f \in io.flight : Complete(f)

Next == io.bad = "no" /\ (HostStep \/ Dispatcher)
Spec == Init /\ [][Next]_vars
-----------------------------------------------------------------------------
\* What the host would see in its completion queue: the entries from its head
\* up to the first with the other phase.
Visible ==
  LET at(i) == mem.cq[bar.acq][(host.head + i) % bar.aqa]
      phase(i) == IF host.head + i >= bar.aqa THEN 1 - host.phase ELSE host.phase
      seen == {i \in 0 .. bar.aqa - 1 : \A x \in 0 .. i : at(x).phase = phase(x)}
  IN [i \in 1 .. Cardinality(seen) |-> at(i - 1).cid]

TypeOK ==
  /\ aq.sqDepth \in Depths \cup {0} /\ aq.head \in Slots /\ aq.phase \in {0, 1}
  /\ aq.db \in Slots /\ aq.oldDb \in Slots
  /\ io.sq \in 0 .. MaxQueues /\ io.tags \subseteq IoCids /\ io.rung \subseteq IoCids
  /\ csts.rdy \in {0, 1} /\ csts.shst \in {0, 2}

\* A host that is up sees the completions of its admin commands, all of them,
\* in order and no other, and the page lists suffice for the depth, however
\* its register writes fell between the passes of the dispatcher and whatever
\* was left in the queues when it stopped.  The one exception is a start with
\* the depth of the one before, after a shutdown or in new places, that finds
\* the phase bit at 0: nothing sets it again, and the host sees none of them.
AdminInStep ==
  /\ TypeOK
  /\ host.step = "up" =>
       /\ Visible = IF host.stale THEN << >> ELSE posted
       /\ aq.sqDepth <= aq.sqRoom /\ aq.cqDepth <= aq.cqRoom

\* What the dispatcher may still fetch from the I/O queue of a host that is up,
\* or has of it in the rings, is what that host submitted: nothing that was
\* rung for an earlier queue of the same number is fetched from a new one.
\* (A command of an earlier queue that comes back late is out of this: it
\* dereferences a null pointer, or completes a command of the later queue.)
NoStaleFetch ==
  io.bad = "no" /\ host.step = "up" /\ host.queue = "both" =>
    /\ io.rung \subseteq host.ios
    /\ \A f \in io.flight : f.queue = io.sq => f.cid \in host.ios
=============================================================================
