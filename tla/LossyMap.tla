------------------------------ MODULE LossyMap ------------------------------
(***************************************************************************)
(* What the key-value FTL promises: a map from keys to values in which the *)
(* value stored for a key is the one found from then on, until the key is  *)
(* stored again, a key that it cannot be told from is stored, the key is   *)
(* deleted, or a delete of another key loses it.  A key that is lost stays *)
(* lost until it is stored again, and an old value never comes back.       *)
(***************************************************************************)
CONSTANTS Keys, Vals, NoVal,
          Alike         \* pairs of keys that the map may take for one another
VARIABLES store, halted

Init == store = [k \in Keys |-> NoVal] /\ ~ halted

\* A store that finds no room halts the map and changes nothing in it.
Put(k, v) ==
  /\ ~ halted
  /\ \/ halted' /\ store' = store
     \/ /\ ~ halted' /\ store'[k] = v
        /\ \A x \in Keys \ {k} : store'[x] = store[x] \/ (store'[x] = v /\ <<x, k>> \in Alike)

\* A delete removes its key, and loses possibly others.
Remove(k) ==
  /\ ~ halted /\ ~ halted'
  /\ store[k] # NoVal /\ store'[k] = NoVal
  /\ \A x \in Keys : store'[x] \in {store[x], NoVal}

Next == \E k \in Keys : Remove(k) \/ \E v \in Vals : Put(k, v)
Spec == Init /\ [][Next]_<<store, halted>>
=============================================================================
