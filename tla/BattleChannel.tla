--------------------------- MODULE BattleChannel ---------------------------
(***************************************************************************)
(* What one direction of a battle promises: a channel that delivers the   *)
(* messages sent into it in order, each exactly once, one at a time.      *)
(***************************************************************************)
EXTENDS Integers, Sequences

VARIABLES sent, delivered       \* all the messages so far

Init == sent = <<>> /\ delivered = <<>>

Send == /\ Len(sent') = Len(sent) + 1
        /\ sent = SubSeq(sent', 1, Len(sent))
        /\ UNCHANGED delivered

Deliver == /\ Len(delivered) < Len(sent)
           /\ delivered' = Append(delivered, sent[Len(delivered) + 1])
           /\ UNCHANGED sent

\* A new battle starts with an empty channel.
Renew == sent' = <<>> /\ delivered' = <<>>

Next == Send \/ Deliver \/ Renew

Spec == Init /\ [][Next]_<<sent, delivered>>
=============================================================================
