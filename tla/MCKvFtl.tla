------------------------------ MODULE MCKvFtl ------------------------------
(* Instances of KvFtl for TLC. *)
EXTENDS KvFtl, TLC

\* Two keys of which one begins with the other, and a third one.
TwoAlike == {<<1>>, <<1, 2>>, <<2>>}
\* Iterators over what begins with a 1.
OnlyOnes == {{c \in Contents : c[1] = 1}}

\* No definition tells one value from another.
Perms == Permutations(Vals)

\* Storage is only read through a slot, and where it lies matters only if two
\* slots share it.
Held == [s \in Slots |-> IF Free(kv, s) THEN NoVal ELSE kv.mem[kv.off[s]]]
Shared == {p \in Slots \X Slots : kv.off[p[1]] = kv.off[p[2]]}
View == <<hash, kv.key, kv.next, Held, Shared, kv.latest, kv.bits, kv.stopped, iter, found, watch>>
=============================================================================
