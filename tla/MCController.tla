---------------------------- MODULE MCController ----------------------------
(* Instances of Controller for TLC. *)
EXTENDS Controller, TLC

\* No definition tells one place or one identifier from another.
Perms == Permutations(Bases) \cup Permutations(Cids)

\* Of host memory, the entries that are submitted and not processed, and the
\* completion queues in use, are all that is still read.
Submitted ==
  LET num == IF aq.sqDepth = 0 THEN 0 ELSE (aq.db - aq.oldDb) % aq.sqDepth
  IN [i \in 1 .. num |-> IF aq.sq = None THEN NoCmd
                         ELSE mem.sq[aq.sq][(aq.oldDb + i - 1) % aq.sqDepth]]
Completed == [b \in Bases \cap {bar.acq, aq.cq} |-> mem.cq[b]]
View == <<host, bar, old, csts, aq, Submitted, Completed, io, posted, turn>>
=============================================================================
