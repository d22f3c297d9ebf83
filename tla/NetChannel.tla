----------------------------- MODULE NetChannel -----------------------------
(***************************************************************************)
(* What one direction of a connection promises to the two sides that use   *)
(* its reliable packets: the other side handles the packets in the order   *)
(* they were sent, each of them once, and may stop short of the last one.  *)
(* Packets are numbered in the order they were sent.                       *)
(***************************************************************************)
EXTENDS Naturals, Sequences

VARIABLES
    sent,     \* how many packets were sent
    handled   \* the packets the other side has handled, in that order

Init == sent = 0 /\ handled = <<>>

Send == sent' = sent + 1 /\ UNCHANGED handled

Handle ==
    /\ Len(handled) < sent
    /\ handled' = Append(handled, Len(handled))
    /\ UNCHANGED sent

Next == Send \/ Handle

Spec == Init /\ [][Next]_<<sent, handled>>
=============================================================================
