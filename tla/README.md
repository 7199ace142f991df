# XHarvest: specifications and proofs

XHarvest emulates an NVMe SSD in software and runs its flash translation layers
(FTLs) on cores of the host, one of them inside an SGX enclave.  This directory
holds TLA+ specifications of it, the TLC configurations that check them on small
instances, and proofs for TLAPS.  Names follow the source; `PROJECT.json` maps
every definition to the lines it stands for.

## 1. Inventory

| component | source | state | operations | correct when |
|---|---|---|---|---|
| host driver (external) | – | tags, SQ tail, CQ head and phase | submit, interrupt handler, doorbells, start and stop of the controller | – |
| controller registers, admin queue | `pci.c`, `admin.c` | BAR copies, admin queue, tables of I/O queues | `nvmev_proc_bars`, create/delete queue, identify, features | every register change and admin command takes effect once; no queue is freed while used |
| dispatcher threads | `main.c`, `io.c` | old doorbells, internal requests, tags, completed list, CQ head and phase, ring tails/heads | `nvmev_proc_dbs`, `enqueue_io_req_to_ftl`, `dequeue_io_req_from_ftl`, interrupts | each command completed once, after all of its pieces, not before its time |
| message rings | `in_que`/`to_ftl`, `out_que`/`to_poller` | slots with an `is_completed` flag, one private index per side | fill and publish; poll, read and give back | a bounded FIFO channel |
| FTL thread in the enclave, message loop | `sgx_ftl.cpp` | answer lists `pq`, pool of flight records | `check_req_from_dispatcher`, `check_resp_to_dispatcher` | every request answered once |
| FTL in the enclave, mapping and GC | `sgx_ftl.cpp` | `SGX_maptbl`, `SGX_rmap`, page status, lines and their lists, write pointer | warm-up, write, collect | tables inverse on valid pages, no line lost, writes end |
| FTL in the enclave, timing and cache | `sgx_ftl.cpp` | free time slots of each LUN, cached mapping pages | `advance_time_slot`, `get_FTL_page` | no LUN does two things at once, no change of a mapping page is lost |
| FTL thread 0 (external) | user-space process, not in the repository | | same protocol as the enclave thread | |
| conventional FTL | `conv_ftl.c`, `pqueue.c` | as above with two write pointers, a victim heap, write credits | read, write, GC | as above; collection keeps ahead of writes |
| ZNS FTL | `zns_*.c`, buffers in `ssd.c` | zone descriptors, resource counters, buffers | write, ZRWA write, zone management | resources = zones in the states that hold them; buffers not overdrawn |
| KV FTL | `kv_ftl.c`, `append_only.c`, `bitmap.c` | hash table with chains, value allocator, iterators | store, retrieve, delete, iterate | a map from keys to values |
| timing of the kernel FTLs | `ssd.c`, `channel_model.c`, `simple_ftl.c` | next-free times, bandwidth credits | `ssd_advance_nand`, `chmodel_request` | times never go back |
| legacy I/O worker | `io.c` | list threaded through a static array | enqueue, reclaim, worker loop | entries neither lost nor shared, every operation performed once |

**Interaction.**  The host writes submission entries and doorbells.  A dispatcher
polls the doorbells of the queues `qid` with `(qid - 1) % nr_dispatcher` its own
number, copies the data, cuts the command into *pieces*, and puts each into the
`in_que` ring of an FTL thread.  The FTL thread computes when the piece would be
finished on a real drive and answers over `out_que`.  When the last piece is
back, the dispatcher queues the command on its completed list, posts a
completion when its time has come, and raises an interrupt.  The first 200
commands (`hack_num`) skip the FTL threads.  Dispatcher 0 also serves the
registers and the admin queue, and creates and deletes the I/O queues.  There are
no locks on this path: a ring slot has one flag, and everything else has one
writer.

**What is hard.**  Threads synchronise through single flags; queues wrap with a
phase bit; pieces return out of order from two threads; identifiers are reused
as soon as a completion is visible; two rings are full at the same time; queues
are deleted and created again with commands in the rings; a collection runs
between the steps of a write and writes itself.  `PROJECT.json` lists the hazards
at their lines.

The namespaces' own FTLs (`conv`, `zns`, `kv`, `simple`) and the I/O workers are
compiled but not called from `__nvmev_proc_io` in this version, which serves I/O
through the FTL threads only, and the worker threads are not started
(`main.c:1106`).  They are modelled as the code they are, each on its own.

## 2. Modules

*The I/O path*

- `Channel` – abstract: a bounded FIFO channel.
- `FlagRing` – one ring, one step per access to shared memory.  The variable
  `waits`, fixed in the initial state, tells the two producers apart: the FTL
  thread waits for its slot, the dispatcher reports "cmd is not completed" and
  goes on (`NVMEV_ASSERT` expands to nothing).  Filling a slot takes two steps,
  so that a message can be seen half written (`Torn`).  The fences of the code
  order a thread's own accesses; the steps are in that order.
- `NvmeService` – abstract: what the device promises the host.  A command slot is
  queued, then done, then free; one completion per command, none for any other.
- `IoPath`, `MCIoPath` – host, dispatchers, rings and FTL threads composed.  A
  ring slot is a record or `Empty`, justified by `FlagRing`.  A step is one
  iteration of a loop of the code: one submission entry taken (`StartIo`), one
  piece sent (`EnqueuePiece`), one answer taken (`Dequeue`), one completion posted
  (`FillCq`), one request served (`CheckReq`), and so on; `disp[d]` and `ftl[f]`
  hold a thread's position and local variables.  Data is abstracted to block
  numbers.  `work` is a history variable: the blocks of a command not served yet
  and the latest time its service ends.
- `IoPathInv`, `IoPath_proofs` – the theorems about it: the inductive
  invariant with the arithmetic of queues and rings, one lemma for each action,
  and the theorems.
- `Controller`, `MCController` – registers, admin queue pair and one I/O queue
  pair.  A step of the dispatcher is one register change, one look at the admin
  doorbell, one command; the host's register, memory and doorbell writes fall
  between any two.  An I/O command only is *fetched* and *completed* here;
  `IoPath` has what happens in between.
- `SharedMemory_proofs` – the theorems about `FlagRing`, `Controller` and `WorkQueue`,
  the three protocols over shared memory without a lock.  (The definitions that all
  would call `Init`, `Next`, `Spec` and so on are `RingInit`, `RingNext`, `RingSpec` in
  `FlagRing`, and `WorkInit`, `WorkNext`, `WorkSpec` in `WorkQueue`.)

*The FTL in the enclave*

- `SgxFtl`, `MCSgxFtl` – mapping and garbage collection.  A step writes or cleans
  one page, or erases one block, so that the invariants are checked in the middle
  of a write and of a collection.
- `SgxFtl_proofs` – its theorems.
- `SgxTiming` – the time each flash operation takes place: the lists of free
  intervals and the cache of mapping pages, as functions of the page numbers and
  start times that reach them.  A step is one page of a request, or one operation
  of a collection.  It does not repeat the mapping of `SgxFtl`: which LUN an
  operation goes to is any.
- `SgxTiming_proofs` – its theorems.

*The FTLs and the worker retained in the kernel module*

- `PQueue` – the binary heap of `pqueue.c`, with the position each entry keeps of
  itself; operators without state.  Sifting is said in one go: the places on the
  way up or down are a recursive function (`PathUp`, `PathDown`), the element stops
  at the first of them that the loop of the code stops at, and `Moved` is what the
  assignments of the loop amount to.
- `ConvFtl`, `MCConvFtl` – one partition of the conventional FTL over `PQueue`,
  with write credits; one page per step.
- `ConvFtl_proofs` – theorems about the heap and about the FTL.
- `ZnsFtl` – zones, their resources, and the write buffers.  A command is one
  step: the dispatcher performs it and no other thread touches the zones; the
  worker gives buffer space back between any two.  Commands count in blocks and
  the flash in pages of `SecsPerPg` blocks, of which `OneShot` make a flash page
  (`PageOf`, `Ends`): 8 blocks of 512 bytes a page in ZN540.
- `LossyMap` – abstract: a map in which a store changes its own key and possibly
  keys it cannot be told from, a delete may lose other keys too, and nothing old
  ever comes back.
- `KvFtl`, `MCKvFtl` – the chained hash table with both allocators and the
  iterators; the hash function is any function.  Keys are strings of bytes, and a
  slot keeps the bytes of its key but not how many they are (`Matches`, `Written`).
  `Chain` is what a search passes, a recursive function of the number of links.
  **One I/O worker**: a command is one step because one thread performs all of them,
  one after another.  That is the default (`nr_io_workers = 1`, `main.c:85`); the
  code accepts two (`main.c:877`), among which commands go round in turn
  (`io.c:314`), and table and allocators have no lock.  With two, nothing this module
  says would hold (see section 4), so two are not modelled.
- `NamespaceFtl_proofs` – the theorems about `ZnsFtl` and about `KvFtl`.
- `WorkQueue` – the list of an I/O worker, shared without a lock by the
  dispatcher and the worker; one access to the chain the worker follows per step.
  `Chain` reads a chain into a sequence; it is a recursive function of the links
  followed so far.

*For proofs*

- `ListFacts` – what a list holds, and holds once, after an element is added or
  removed; the least element of a set of numbers, and induction over numbers that
  follows from it; recursive functions exist; quotients.

Operators named `Bug...` are mistaken versions of the definition that follows
them; no specification uses them.  Putting one in the place of the original
(the list is in `PROJECT.json`) must break the property named with it, which
shows that the property depends on the code.

Type invariants are the first conjunct of one invariant of each module
(`PiecesAccounted`, `TablesAgree`, `LinesSound`, `ZonesConsistent`,
`SearchesEnd`, `AdminInStep`, `ListsSound`).

## 3. Runs

| run | instance | shows |
|---|---|---|
| `ring` | 3 slots, window 3, 6 messages, either producer | no overrun, no data race, refines `Channel`; everything is delivered |
| `io_split` | 3 commands of 3 pieces, 1 queue of 3 entries, 2 FTL threads, out rings of 1 slot, clock 0..1 | pieces are counted and go to their owner; answers fit the pool; tags and internal requests are reused without mix-up (this includes the assertions of the dispatch path); a command is posted when served and due, and no unread completion is overwritten; refines `NvmeService` |
| `io_threads` | 3 commands of 2 pieces, 2 queues of 2 entries, 2 dispatchers, 1 FTL thread, in rings of 2 slots and out rings of 1, `hack_num` = 1 | `nr_in_flight` covers the commands held; refines `NvmeService`; every command completes |
| `io_overrun` | in ring of 1 slot, 2 commands | finding 1 |
| `io_straddle` | segments of 2 blocks, a command across a boundary | finding 2 |
| `controller` | depths 2 and 3, 2 places for the queues, 2 admin identifiers, 1 I/O identifier, 2 starts, 2 creations of the I/O queue | the host sees its admin completions in step across restarts, with other queues and with the same ones; a new queue fetches nothing that was rung for an old one |
| `sgx_ftl` | 4 lines x 2 LUNs x 2 pages, 4 logical pages, requests of 1 or 2 pages | the tables, lists, counts and write pointer of the FTL; collected pages only move; writes end |
| `sgx_timing` | 2 LUNs, 3 mapping pages, cache of 2, latencies 1/2/3, start times 3, 5, 8, 4 operations | no LUN does two things at once, first fit, no lost or early mapping page |
| `conv_ftl` | 5 lines x 2 LUNs x 2 pages, 4 logical pages, threshold 2 | tables, lines and heap stay consistent; credits keep collection ahead of writes |
| `zns_ftl` | 2 zones of 3 pages of 2 blocks, 2 pages programmed at once, writes of 1 to 3 blocks, shared buffer of 6 blocks, random write area of a page | resource counts, states and write pointers agree; buffers are not given back twice while writes are whole pages |
| `kv_ftl` | 3 keys, one the beginning of another, 2 values, 3 slots, 4 areas or 2 bits, 1 iterator reading 1 key at a time | chains stay acyclic, storage is not shared, iterations are complete, refines `LossyMap` |
| `work_queue` | 4 entries of which 3 can be used, clock 0..1 | no entry is lost, every operation is performed once and in the end |

**Bounds.**  `MaxCmds`, `MaxSent`, `MaxSteps`, `MaxStarts` and `MaxQueues` bound
how much happens in a behaviour: enough for every index to wrap and every
identifier to be reused, for a start after a stop in any state, and for a queue
to be created after one of the same number.  `MaxTime` bounds the clock (the end
of a piece is capped at it; two ticks are enough for one operation to be due while
another is not).  `io_threads` runs with a clock that stands still: its subject
is the threads, and `io_split` has time.  `Requests`, `Lats` and `StartTimes` are
the inputs: the requests the host makes, the latencies an FTL thread may compute,
and clocks that differ by less and by more than an operation lasts.  `hackLeft`
stops at 0, where the code's counter goes on to negative numbers.

`SgxFtl`, `ConvFtl` and `WorkQueue` need no further bound: their states are
finite.  Four logical pages fill a line of four, so that full lines occur; with
four lines (`SgxFtl`) two are closed while one is free, and with five
(`ConvFtl`) two are open, two are the threshold and one is spare.  In `ZnsFtl`
a zone has an odd number of pages and they are programmed by two, so the unaligned
end of a zone occurs; a page has two blocks, so writes of parts of a page do; the
shared buffer holds one zone, so writes are refused for want of space; `MaxWrite`,
`MaxPending` and `MaxSpace` bound one write, the releases outstanding, and how far
releases take a buffer beyond its size.  The run has a random write area of a page;
areas of no size, as in both builds, are part of the theorems.  In `KvFtl` three
keys in three slots collide in every way, including the full table, and either
allocator can run out; `<<1>>` begins `<<1, 2>>`.  The last start of `Controller` is
one with other registers or with the same ones, after a shutdown with the phase at
0 too.  In `io_threads` a command is answered in two pieces over one slot, so the
FTL thread waits for a full `out_que`.

**Symmetry and views.**  Logical pages (`ConvFtl`), values (`KvFtl`), places and
identifiers (`Controller`) are interchangeable: no definition tells
one from another.  Views leave out what is never read again: reverse entries of
pages that are not valid (`SgxFtl`, `ConvFtl`), where a value lies (`KvFtl`),
consumed queue entries (`Controller`), backward links and contents of free entries
(`WorkQueue`).  Liveness is checked with views of this kind only, never with symmetry.

**Deadlock** is checked except where a behaviour really ends: `ring`,
`sgx_timing` and `controller` at their bounds, `zns_ftl` and `kv_ftl` also where
the code stops its thread (a failed assertion, a search that never ends),
`controller` where a late command of a deleted queue follows a null pointer.

**Fairness.**  A dispatcher, an FTL thread and an I/O worker are loops that never
sleep for good, on cores of their own (`main.c` and `NVMEV_IO_WORKER_INIT` bind
them, `cond_resched` returns): weak fairness of each thread as a whole, never of
one of its actions.  The host's interrupt handler runs when an interrupt is
pending and rings its doorbell; the clock ticks.  Nothing is assumed of the host's
submissions, nor, in `WorkQueue`, that a dispatcher begins anything: it only
finishes what it has begun.  In `ring` the consumer is fair and the producer
finishes a message it has begun.  `SgxFtl` assumes the FTL thread takes steps.

## 4. Findings

1. `__enqueue_io_req_to_ftl` (`io.c:343`) overwrites a slot of `in_que` that the
   FTL thread has not given back, when the queues of one dispatcher hold more
   commands than the ring has slots.  The code reports this case and marks it
   impossible with an assertion that is compiled to nothing.  `FlagRing` shows
   the condition under which it is safe, as assumption `FlowControl`; with the
   default 4096 slots four full queues of 1024 entries of one-piece commands fit.
2. `enqueue_io_req_to_ftl` (`io.c:475`) cuts the first piece at `seg_units` blocks
   from the start of the *command*, not at the end of the *segment*.  The
   enclave's warm-up lays logical pages out by segments and asserts so
   (`sgx_ftl.cpp:1370`).  A command that crosses a boundary has blocks served by
   the thread that does not own them.  `io_split` uses commands that start at a
   boundary, where the rule and the layout agree.

What the modules show besides, where nothing in the repository says that it should
be otherwise, or where a property is stated so as to allow it:

*Controller.*
- A shutdown resets the head and the doorbells of the admin queue, but not its
  phase (`pci.c:246`).  A new `aqa` sets the queue up anew; new places alone reset its
  indices; a host that starts again with exactly the same `aqa`, `asq` and `acq`
  changes no register but `cc.en`.  In the last two cases the queue keeps the phase
  it had.  All three are in the model (`Restarts`): if the phase is 0
  then (`host.stale`), the host sees none of the completions posted in the first
  pass of the queue, and so does not go on; `AdminInStep` says that it sees none,
  and nothing wrong either.
- Clearing `cc.en` without a shutdown resets nothing but `csts.rdy`, so a start with the
  same `aqa` afterwards runs on at old indices: the dispatcher takes for commands
  what the slots between the old doorbell and the new one hold.  `Restarts` leaves
  such starts out, and a larger depth in the same places, for which the page lists
  of the queue are too short (`pci.c:162-225`).
- `csts.shst` is never cleared.  Doorbells are served while the controller is not
  ready.
- An abort gets no completion (`admin.c`), although identify advertises a limit of
  aborts; its identifier stays in use until the host stops.
- A command of a queue that was deleted or abandoned comes back from the rings and
  follows a null pointer, or completes a command of the queue created after it
  (`io.bad`, `admin.c:167-194`).  `NoStaleFetch` leaves these states out.
- Internal requests are numbered up to `queue_size`, and the allocation has room
  for one less (`admin.c:144`).
- Creating a submission queue (`admin.c:161`) makes the queue visible before its
  doorbells are reset, which another dispatcher could see; the model has one.

*Enclave timing.*
- Collection books its operations from time 0 (`stime` 0), so it fills idle time
  in the past.  A request forgets the idle time before its own clock, and a later
  request with an earlier clock does not find it; `EarliestFit` says so.
- `advance_time_slot` subtracts a latency from the unsigned end of an interval.
  `ClockAssumption` states what that needs: clocks not smaller than the longest
  latency.
- Collection moves pages without marking their mapping pages changed.

*Conventional FTL.*  Credits keep collection ahead of writes when the logical
pages leave the threshold's lines and two more unused (`SpareAssumption`); the code
takes it for granted.  An earlier form of the assumption asked for one line more
than the threshold only, and the proof of `CollectionKeepsUp` failed: with nothing
to collect while two lines are left, the credits are refilled without a line
gained.  TLC then found the free list empty with 5 lines of 4 pages, a threshold of
2 and 6 logical pages; with 4 logical pages, which the bound now allows, it holds.

*Zones.*
- A write takes its buffer space before it is checked and keeps it if it fails
  (`zns_read_write.c:104`); a zone that is reset or finished in the middle of a
  page keeps that of the pages not programmed.  So space is lost.
- Every write that touches the last page of a flash page schedules the release of
  the whole flash page (`zns_read_write.c:186`, `207`), also if it fills the page
  only in part.  With ZN540 (blocks of 512 bytes, pages of 4 KB,
  `ssd_config.h:204`) up to eight writes to one page each give back a flash page,
  and the buffer is overdrawn.  `BufferNeverOverdrawn` therefore speaks of behaviours
  in which commands write whole pages (`pending.whole`, a history); in them space is
  never given back twice.  The model has the other behaviours too, and the other
  two properties cover them.
- The random write area is the other way round: an explicit flush takes no
  space, an implicit one gives whole flash pages back, and a reset refills the buffer
  while releases are still to come, so it grows beyond its size (`MaxSpace`).
- A zone with a random write area that is filled by a write hits `ASSERT(0)`
  (`zns_read_write.c:33`) after it has given its resources back.
- In both builds the sizes of the area are 0 (`ssd_config.h:170-173`, `235-238`), and a
  zone can be opened with one nevertheless (`zns_ftl.c:78` sets the resources).  A
  write to it is refused, except at the first block of the device, where the end of
  the area wraps around (`zns_read_write.c:244`) and the length of the flush is divided by
  0 (`316`); an explicit flush there divides by 0 too (`zns_mgmt_send.c:204`); and a write
  there to a closed zone has no buffer to take space from (`zns_read_write.c:289`).  The model
  stops with `bug` in these cases (`InZrwa`, `FlushFaults`, `ZrwaFault`).

*Key-value.*
- A delete cuts the chain behind the deleted key (`kv_ftl.c:438`), and the keys
  behind it are lost; `LossyMap` allows that and nothing else.
- A search compares the bytes of the command's key only (`kv_ftl.c:291`, `347`, `407`,
  `465`), and a slot does not keep the length of its key: a key that begins another may
  be found at the other's slot, and a store of it then changes the other's value.  `LossyMap`
  allows this between keys of which one begins the other (`Alike`).
- Table and allocators have no lock.  With two workers, two stores may read `latest`
  before either moves it (`append_only.c:27`) and place two values in one area, and a
  store that links to the end of a chain which another command deletes and fills
  again can close a cycle (`kv_ftl.c:169`).  `KvFtl` has one worker.
- A store into a full table never ends (`kv_ftl.c:181`).  The bitmap allocator, when
  it is used up, returns one and the same place for ever, which the caller does not
  recognise as a failure (`bitmap.c:88`): keys share their storage from then on.
  `AreasDistinct` and `ImplementsLossyMap` end there.
- `iter_handle` is not initialised, and reading an iterator past the end returns
  success with no keys.
- A value that grows in the append-only allocator overwrites its neighbour, and a
  batch never updates a length: not in the model, whose values have one length.

*Legacy worker list.*
- `io_seq_end` is stale while the list is empty; an insertion sets it.  When one
  entry is left, the operation is dropped without a word (`io.c:318`).
- A pass that is fed new entries for ever never ends, and only the end of a pass
  raises interrupts; `EveryOperationPerformed` asks for them once no new operations
  come.
- `io.c:557` and `io.c:590` say that the worker "shall see the updated w at once".
  A worker that stood still on an entry while the dispatcher took it back and, as
  many insertions later as entries were free (few when the list is nearly full),
  gave it away again, would see it half filled; `NotStalled` excludes it.  Nothing in
  the code does.

## 5. Proofs

Every theorem holds for all values of the constants that satisfy the named
assumptions of its module.  None of the properties is inductive by itself; what
follows says which invariant carries each proof and why it is needed.  Every
proof of an invariant has one lemma per action and combines them in a lemma
`NextIInv` (`RingKeeps`, `ControllerKeeps`, `WorkStep`).

### The ring (`SharedMemory_proofs`)

`RingTypeOK`, `NoOverrun`, `NoDataRace`, and that `FlagRing` implements `Channel`.
Assumptions: the ring has a slot, `Torn` is not a message, and the clients of a
producer that does not wait fit the ring (`FlowControl`).  That the slot at the tail
is empty follows from *which* slots are full.  `RingIInv` says that the full slots are
exactly the `Len(sent) - Len(got)` ones from the head on, that they hold the
messages sent and not yet taken in order, that the tail is the slot after them
(`RingInv`), and what each thread knows between two of its steps (`ThreadInv`).
`PlaceRange` has the arithmetic of the wrapped indices, `CheckFindsRoom` the
producer's side.

### The controller (`SharedMemory_proofs`)

`AdminInStep` and `NoStaleFetch`, for all queue depths, places and identifiers, and
any number of starts and of creations of the I/O queue.  Assumption: a depth is one
more than a field of twelve bits, and at least two (`DepthsAssumption`); the host is
the one of the model, which waits for `csts` and whose starts are those of
`Restarts`.  `ControllerInv` says:

- `Followed`, `Trailing`: the admin queue is as the registers the dispatcher has acted
  on say (`old`), and in each step of the driver it is known how far these may trail
  the ones written.  The page lists suffice for the new depth unless a place is
  still to be noticed.
- `Cleared`: once the dispatcher has acted on the depth and the places written, the
  indices are zero until the host is up, and the phase is one, unless the start is one
  that keeps the phase of an earlier one at zero (`host.stale`).  This is what the order
  of the tests in `nvmev_proc_bars` is for.
- `Resting`: a host that is not up has nothing outstanding.
- `Going`: what holds between any two admin commands, `o` being the place of the next
  one.  `Inside` and `Asks` are about the commands up to the doorbell: at most one of
  them creates or deletes a queue.  When the host is up, the completions posted and
  the commands not processed are different ones of those outstanding (`Distinct`), so
  there are fewer than the queue has entries (`Counted`); from the host's head on, the
  queue holds the completions posted with the phase the host expects there, and
  the other phase behind them (`Shown`), or, if the start is stale, holds nothing with
  the phase it expects (`Hidden`); and what is rung or in the rings of the
  queue pair is the host's (`Current`), also while the pair has been made and the
  host does not know it yet (`Made`).

`Going` takes the device as parameters, because one look at the doorbell processes
all pending commands: `OneMore` is one iteration, put together from one lemma for
each part (`CountedOn`, `DistinctOn`, `ShownOn`, `HiddenOn`, `CurrentOn`), and `AllProcessed` goes
by induction along the loop.  `SeesThePosted` and `SeesNone` are the ways from `Shown` and
`Hidden` to what the host sees.

### The enclave FTL (`SgxFtl_proofs`)

`TablesAgree`, `LinesPartitioned`, `WritesToErased`, `NeverOutOfLines` and
`OnlyMoved`, for every geometry.  Assumptions: the sizes are positive
(`SizesAssumption`), the thresholds are numbers (`ThresAssumption`), and the process
that sizes the device leaves a spare line when forced collection starts, more
flash than logical pages, and takes no request larger than a line
(`SpareAssumption`).  The invariant has these parts:

- `Lists`: each line is in exactly one place – one of three lists, at the write
  pointer, or with the collector.
- `Places`: free lines are erased, closed ones are full, and the line at the write
  pointer is written exactly up to it.  `WritesToErased` is what is left of this.
- `Counts`: `vpc` and `ipc` count the pages of each status; a line of the full list
  has no invalid page and a victim has one.
- `Tables`, `Cleaned`, `Control`: the mapping is inverse on valid pages not yet
  passed by the collector, the blocks it has passed are erased, and a request is
  as long as it can be.
- `EnoughRoom`: how many pages can be written before a line has to be found,
  against what can still be written before room is made.  While a victim is
  cleaned there is more room than the victim has pages still to look at.

`Programmed` and `Invalidated` are the two changes that a write makes; a write does
both, and a collection does the first with the line being cleaned left out.  That
forced collection finds a victim (`NothingToCollect`) is a counting argument: if
all closed lines were full of valid pages there would be more valid pages than
logical ones, and the mapping is injective.  With `EnoughRoom` this gives
`NeverOutOfLines`: the assertion of the code on an empty free list never fails.

### The I/O path (`IoPathInv`, `IoPath_proofs`)

`RequestsPartitioned`, `NoCqeLost`, `FlightPoolSuffices`, `InFlightSound`,
`ServedBeforePosted`, and that `IoPath` implements `NvmeService`, for any number of
queues and dispatchers, any queue and ring sizes, and any interleaving.
Assumption: the sizes are positive, queues have at least two entries, and there
are one or two FTL threads (`IoPathAssumption`).  The invariant
assumes nothing of the rings: a ring that is overrun (finding 1) loses pieces, and
tags, requests and completions stay in order all the same.  But `CheckReq` reads,
serves and gives back a slot in one step, which is exact only while the slot is not
overwritten in between (`sgx_ftl.cpp:1559` and, later, `1272` read it); so of an overrun
the theorems know the slot that is replaced as a whole, before or after the FTL
thread reads it.  The two theorems about pieces assume that there is none.

`IInv` says:

- `Placed`: a command whose tag the host has in use stands in exactly one place: an
  entry of the submission queue not yet taken, an internal request, or a
  completion not yet taken.  The host has at most `QSize - 1` tags, so a pigeonhole
  argument shows that the completion queue has room whenever the device holds a
  request (`RoomLeft`), and that a request is free whenever an entry is waiting
  (`RequestLeft`).  `NoCqeLost` rests on the first: the device does not look.
- `Phases`: an entry of the completion queue has the phase of the pass in which it
  was written, so the host's test of the phase finds exactly the entries from its
  head to the device's.
- `Requested`, `CompletedOk`: free list, tags and requests partition the request
  numbers; a finished request stands once in the list of its dispatcher.
- `Routed`, `PiecesOk`: the rings of a dispatcher hold pieces of its own queues, and
  no more of a command than its request counts: an overrun takes pieces away, so an answer is
  never one too many.
- `ThreadOk`, `FtlOk`: what the threads know between two steps.  An FTL thread has
  no answer for the dispatcher whose piece it takes; hence `FlightPoolSuffices`.

For the refinement the host's view of a queue is split off: `Waits` is a completion
between head and device, `Sees` the ways a step can change tags and waiting
completions, and `StatusOf` the refinement mapping; `StepSeen` shows that each step
is one of those ways or invisible.  `InFlightSound` has an invariant of its own,
`FlowInv`: `nr_in_flight` is at least the requests held, plus the distances between
the four heads of the completion queue (the device's, the host's, the doorbell's, the one last
read); it is a lower bound only, as the host's head may go round the queue between
two looks at the doorbell (`Triangle`).  `ServedBeforePosted` has `ServedInv`: for a
command of which no piece was overwritten (`Whole`), every block not yet served is
still with the dispatcher (`Unsent`) or in an in ring (`Sent`), and its latest end
is covered by the request or by an answer on its way (`Lasts`).

Three properties hold under a hypothesis that the findings show to be needed:

- `ServedBeforePosted` (`ServedFirst`): as long as `NoOverrun` holds, for the reason
  above: a slot overwritten while it is read would have other blocks served than
  those of the piece.
- `PiecesAccounted` (`PiecesCountedExactly`): as long as `NoOverrun` holds, which is
  the assertion of `__enqueue_io_req_to_ftl`, the bound `PiecesOk` of `IInv` is an
  equality (`Exact`).  The theorem assumes `[]NoOverrun`, as it is a property of a
  run and not of the constants: `io_split` satisfies it, `io_overrun` does not.
  `PiecesCounted` shows that the sets the property counts are the pieces of `Exact`.
- `RoutedToOwner` (`BlocksGoHome`): assumed is `RequestsFit`, that a command starts at
  the beginning of a segment or lies in one.  The segments of the threads repeat
  after a period of `Units * (1 + Ratio)` blocks (`OwnerAt`); a piece ends with its
  segment, and the rest of the command starts the next one, that of the other
  thread (`PieceFits`).  `RouteInv` says this of the entries of the submission
  queues, the dispatchers and the in rings.  The commands of `io_split` and
  `io_threads` fit, those of `io_straddle` do not.

### The timing of the enclave FTL (`SgxTiming_proofs`)

`OneAtATime`, `EarliestFit`, `ChangesKept` and `MappingFirst`, for any number of LUNs,
any cache size, layout and latencies, and start times in any order.  Assumptions:
the sizes are positive and a mapping page is not one of thread 0's
(`TimingAssumption`, `LayoutAssumption`), clocks have run for longer than an
operation takes (`ClockAssumption`), and no step comes near the end of time
(`ForeverAssumption`: 2^64 - 1 ns in the code).  Without the last one the search for
a free interval comes to the end of the list, which is the code's assertion "No
free time slot found".  `IInv` has three parts:

- `LunOk`, for each LUN: the list is sorted, of intervals that are not empty and do
  not touch; it offers exactly the time not booked, from the latest clock that
  made it forget idle time on; and each interval ends no earlier than the longest
  operation takes.  The last is what makes the unsigned subtraction of the search
  safe.
- `CacheOk`: the list, the slots and the free indices partition the cache, flags
  mark exactly the unsaved changes, and a page is available no earlier than it
  was last fetched.
- No interval starts, and no page arrives, later than the steps taken so far allow
  (`Budget`).

`EarliestFit` says of the next operation what the list says of all time: the count
that stands for `upper_bound` finds the one interval that can have begun (`Begun`),
and the first later one that holds the operation is the first time at which all
of it is free (`SlotFound`, `Booked`).  `Forgotten` shows that forgetting loses no time
from the clock on.  `Evicted`, `Fetched` and `Used` are the three changes of the
cache, and `RequestKeeps` and `CollectionKeeps` put a step together from them.

### The zoned FTL (`NamespaceFtl_proofs`)

`ResourcesExact`, `ZonesConsistent` and `BufferNeverOverdrawn`, for any number and
size of zones, pages, flash pages, write buffers and random write areas, with a
shared write buffer or one for each zone.  Assumptions: the sizes are positive, or
numbers where the code allows 0, a zone is made of whole pages, a buffer starts
within its bound (`SizesAssumption`), and a random write area is no smaller than the
unit it is flushed by (`ZrwaAssumption`), both of which may be 0, as they are in the
builds of the repository.  `IInv` says:

- `Running`: as long as no assertion failed, the zones are `Sound` – the count of
  each resource is the number of zones that have it (`Holders`), pointers are
  within the zones, a zone in use has room.  After an assertion or a fault what
  remains is that counts are bounded and empty zones begin at 0 (`Dead`).
- `Settled`: `BufferNeverOverdrawn`, said of the record of the zones (`Owed`), so
  that it can be asked of the records in the middle of a command, and that write
  pointers are at the edges of pages (`InPages`), both while commands write whole
  pages.  Without the second a write could touch a page begun before.

A zone command is a chain of small changes – take a resource, give one back, turn
a state, move a pointer.  In between the counts are off by what was taken so far;
`Takes`, `Gives`, `GivesAll` and `Changes` say by how much, and `OneChange` shows that they
are right again when state and resources have changed together.  `Goes` is what a
whole command does: zones stay sound, and no zone without a random write area comes
to be used in the middle of a flash page that it was not in before (`Kept`), so no
buffer owes more.  A command on all zones is a fold over them, proved by induction:
the function of the intermediate records exists (`Iterated`), and each of its values
is sound (`UpTo`).

A write takes its blocks from the buffer, and every flash page it completes, the
odd last one included, gives back what it took (`ZoneWritten`).  `Pages` is the
arithmetic, by induction on the pages written: pages in the part of a flash page
begun before, plus the pages written, are the flash pages completed and the part
begun last; `WholeWritten` turns it into blocks for writes of whole pages.

The attempt to prove the implicit flush showed a mistake of the model: it chose
between its two causes with a `CASE` whose arms could both hold, while the code
(`zns_read_write.c:315`) tries them in order.  It is an `IF` now.

### The conventional FTL (`ConvFtl_proofs`)

`TablesAgree`, `LinesSound`, `HeapSound` and `CollectionKeepsUp`, for every
geometry, any logical pages and any threshold.  Assumptions: the sizes are
positive and a block is written and read in whole units (`SizesAssumption`), the
threshold is at least the two lines of `conv_init_params`, and the logical pages
fit the lines without the open and the threshold ones (`SpareAssumption`, see
section 4).

*The heap.*  `HeapOf` says that a queue is a heap for given priorities, has each
element once and that each knows its place.  `MovedKeeps` is about moving along
any path of distinct places: the elements are permuted and told their places.
`UpWay` and `DownWay` show that the paths of `BubbleUp` and `PercolateDown` are such
paths – they rise or fall, so they end, which is where the first place to stop
comes from (`FirstStop`) – and `UpHeaps` and `DownHeaps` that a heap wrong at one
place only (`HeapedAbove`, `HeapedBelow`) is right afterwards.  `InsertHeaps`,
`PopHeaps` and `ChangeHeaps` are the three operations.

*The lines.*  The invariant has these parts:

- `Lists`, `Heap`, `Places`, `Counts` (together `Sound`): each line is in one of six
  places; the heap is one for the counts as they are; free lines are erased,
  closed ones written, open ones up to their pointer; and counts are those of the
  pages.  They take the state as parameters, since a write changes it twice, for
  the page it replaces (`Invalidated`) and for the one it writes (`Programmed`).
- `Tables`, `Cleaned`, `Control`: the tables agree on every valid page that the
  collector has not passed, and the blocks it has passed are erased.  What is
  written and what is cleaned go through a line in different orders (`Order`).
- `EnoughRoom`: between collections there are more pages to write than credits and
  two lines; during one, more than a line, the credits the victim will bring and
  the pages it has still to copy.  `CollectionKeepsUp` follows.

The arithmetic of the last part: a victim with `i` invalid pages takes up as many
pages as it has valid ones, gives a line back and allows `i` writes, so that the
room after it covers the credits again (`PaidKeeps`, `CopyPageKeeps`,
`FreeLineKeeps`).  If the credits run out and there is nothing to collect, either
more than the threshold's lines are free, or all closed lines are full of valid
pages.  Then, the mapping being injective, there are no fewer lines free than the
threshold and none of the open ones has a valid page (`NothingToCollect`): the page
just written was the last of a line, and there is room for another round.

### The worker's list (`SharedMemory_proofs`)

`ListsSound` and `OnceEach`, for any number of entries and any clock.  Assumption:
there are two entries at least (`EntriesAssumption`).  `WorkInv` says that there are
three sequences of entries – the list, the free ones, and those being taken back –
with:

- `Chains`: each is a path, linked to its end and nowhere closed (`Path`); they have no
  entry in common and, with the one being inserted, make up the array.  Until they
  are cut off (`Cut`), the entries being taken back lead on into the list.
- `Sorted`, `Passed`: the order of the list, and that the entries behind the place of
  the search are due later than the new one.
- `Owing`: an unfinished entry of the list owes its effect, unless the worker is just
  between the effect and the mark (`Awaited`); one that is free owes nothing.
- `Walking`: an entry that the worker serves or marks is unfinished and in the list, so
  it cannot be taken back then.  A worker whose entry has been taken back has only
  completed ones ahead of it, since they go to the end of the free entries in the
  order of the list: it repeats nothing on its way out.  Here `NotStalled` is needed.

`ChainIs` is the step from the links to `Chain`: a path that ends is the chain of its
first entry.  `Piece` and `Joined` cut paths and put them together, `SpliceKeeps` is
what the three ways to insert have in common, `Moves` what all moves of the worker
have.  That the worker's walk ends wherever it stands is `RestIsShort`, for the rest of
the one or two paths before it.

### The key-value FTL (`NamespaceFtl_proofs`)

`SearchesEnd`, `AreasDistinct`, `IterationComplete`, and `ImplementsLossyMap`, for one
I/O worker, every number of slots, any keys, every hash function, both allocators,
and any number and filters of iterators.  Assumptions: the counts are positive
(`CountsAssumption`), keys are strings of bytes that fit a slot and `NoVal` is not a
value (`KeysAssumption`), filters select contents of slots (`FiltersAssumption`).
`ImplementsLossyMap` relates command to command: a store of a key must be a `Put` of
it and a delete a `Remove`; a store cannot pass for a delete or a stutter.  `KvInv`
says of the table that it is a `SoundTable`:

- `Ranked`: the slots have ranks such that every link that a search follows leads to
  a slot of a higher rank.  A slot that is filled gets a rank above all others, and
  it is linked to the end of a chain (`FilledRises`).  This is what keeps chains
  acyclic although deletes cut them and slots are used again in any order: ranks
  rise along a chain (`ChainRises`), so it has no slot twice, and it ends within
  `NrSlots` links since there are no more slots (`ChainShort`).
- `FreeUnlinked`: a free slot has no link.  Without this a slot that is filled would
  bring the old keys behind it back.  So filling a slot lengthens the chains that
  reach it by this slot alone (`Grows`), and clearing one cuts chains (`Shrinks`): a key
  that is found is found in the same slot until it is deleted or cut off, and only
  the key that is stored can come to be found (`FilledFind`, `ClearedFind`).
- `InStorage`, `OwnStorage`, `Allocator`: storage in use was allocated, and once unless
  the bitmap is exhausted.
- `EndlessIfFull`: the search that does not end is one of a full table.

The rest is about what hosts see: `found` is what the table has for each key, and an
entry that could be found since an iterator was opened is reported if its slot has
been passed (`Watched`).  As a found key stays in its slot, that slot cannot come to lie
behind the iterator otherwise.  `StoreFacts` and `DeleteFacts` say what a store and a
delete do to a sound table (`StoredIn`, `RemovedFrom`): what is found for a key after
a store is what was found before, or the entry stored, and the latter only if the
two begin alike.

### Only model-checked

Liveness under fairness, which is out of the prover's reach: `Delivery` (ring),
`EveryCommandCompletes` (I/O path), `WritesEnd` (enclave FTL) and
`EveryOperationPerformed` (worker's list).  Every other property of the passing runs
is proved.

## 6. Not modelled, and why

- The copy of the data (`__do_perform_io`), DMA offload (`dma.c`), PCI
  configuration space and MSI-X: input and output, with no state that the rest
  depends on but the interrupt, which `IoPath` raises.
- Module set-up and tear-down: straight-line code that runs once.  (Tear-down
  frees the rings of one dispatcher and the queues from 0 on; see the hazards.)
- Generated enclave glue.
- `simple_ftl.c`, and the latencies of the kernel FTLs (`ssd_advance_nand`,
  `ssd_advance_pcie`, `channel_model.c`): they compute completion times only, and
  the live path does not reach them.
- Parts of modelled files: reads and flushes of `conv_ftl.c` and reads and reports
  of `zns_*.c`, which change no table; values of several lengths in `kv_ftl.c`
  (`update_mapping_entry`) and more than one I/O worker there; `pqueue_remove`, which
  nothing calls; what identify
  pages and logs contain; profiling counters.
- FTL thread 0 and the process that sizes the device are not in the repository:
  thread 0 is taken to follow the enclave's protocol, the cache of mapping pages
  to be handed over empty, and the sizes enter `SgxFtl`, `ConvFtl` and `SgxTiming`
  as assumptions.
- Weak memory is represented only by the order of steps that the fences impose.
- `IoPath` creates no queues and `Controller` splits no commands: the composition of
  both is too large to explore, and what crosses between them is that a queue's
  commands may be in the rings when it is deleted, which `Controller` has.

## 7. Plan

1. done: the I/O path with the proofs of the ring, the controller, the enclave FTL
   with its timing, the FTLs and the worker retained in the kernel module.
2. done: proofs of the enclave FTL (mapping, room, timing), of the I/O path, of the
   zoned and of the conventional FTL with its heap.
3. done: proofs of the controller, of the worker's list and of the key-value FTL.
4. next: two I/O workers on the key-value table, to see which of its properties a lock
   around a command would restore; a model of the bandwidth credits of
   `channel_model.c`.
