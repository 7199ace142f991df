------------------------------ MODULE MCSgxFtl ------------------------------
(* Instances of SgxFtl for TLC. *)
EXTENDS SgxFtl

\* The code reads the reverse entry of a page only while the page is valid:
\* what it holds otherwise does not make two states different.  (The first
\* member is TRUE; it makes TLC tabulate rmap before it is read.)
ReadEntries == [p \in Pages |-> IF status[p] = "valid" THEN rmap[p] ELSE NoLpn]
View == <<rmap \in [Pages -> Lpns \cup {NoLpn}], ReadEntries, maptbl, status, lm, wp, ctl>>
=============================================================================
