------------------------------ MODULE Channel ------------------------------
(***************************************************************************)
(* What a message ring between a dispatcher and an FTL thread promises: a  *)
(* lossless first-in first-out channel that holds at most Size messages.   *)
(* `sent` is every message published so far, `got` every message taken.    *)
(***************************************************************************)
EXTENDS Naturals, Sequences

CONSTANTS Values,   \* the messages
          Size      \* the number of messages the channel can hold

VARIABLES sent, got

Init == /\ sent = <<>>
        /\ got = <<>>

Send(v) == /\ Len(sent) < Len(got) + Size
           /\ sent' = Append(sent, v)
           /\ UNCHANGED got

Receive == /\ Len(got) < Len(sent)
           /\ got' = Append(got, sent[Len(got) + 1])
           /\ UNCHANGED sent

Next == \/ \E v \in Values : Send(v)
        \/ Receive

Spec == Init /\ [][Next]_<<sent, got>>
=============================================================================
