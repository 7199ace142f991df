---------------------------- MODULE NvmeService ----------------------------
(***************************************************************************)
(* What the device promises to the host on its I/O queues.  A command slot *)
(* is a (queue, command identifier) pair.  A slot the host has filled is   *)
(* "queued" until the device posts its completion, "done" until the host   *)
(* reaps it, and then free for another command: one completion for each    *)
(* command, none for any other slot.                                       *)
(***************************************************************************)
CONSTANTS Queues, Cids

VARIABLE status     \* of each command slot

Slots == Queues \X Cids

Init == status = [s \in Slots |-> "free"]

\* (The second conjunct follows from the third; TLC is faster with it.)
Moves(s, from, to) ==
  /\ status[s] = from
  /\ status'[s] = to
  /\ status' = [status EXCEPT ![s] = to]

Submit(s)   == Moves(s, "free", "queued")
Complete(s) == Moves(s, "queued", "done")

\* The host takes all the completions it finds on one queue.
Reap(q) == LET posted == {s \in Slots : s[1] = q /\ status[s] = "done"}
           IN  /\ posted # {}
               /\ \A s \in posted : status'[s] = "free"
               /\ status' = [s \in Slots |-> IF s \in posted THEN "free" ELSE status[s]]

Next == \/ \E s \in Slots : Submit(s) \/ Complete(s)
        \/ \E q \in Queues : Reap(q)

Spec == Init /\ [][Next]_status
=============================================================================
