----------------------------- MODULE MCConvFtl -----------------------------
(* Instances of ConvFtl for TLC. *)
EXTENDS ConvFtl, TLC

\* No definition tells one logical page from another.
Perms == Permutations(Lpns)

\* The reverse entry of a page is read only while the page is valid.  (The
\* first member is TRUE; it makes TLC tabulate rmap before it is read.)
ReadEntries == [p \in Pages |-> IF status[p] = "valid" THEN rmap[p] ELSE NoLpn]
View == <<rmap \in [Pages -> Lpns \cup {NoLpn}], ReadEntries, maptbl, status, lm, wp, wfc, gc>>
=============================================================================
