------------------------------ MODULE Channel ------------------------------
(***************************************************************************)
(* What a streaming queue promises its two ends: the consumer receives     *)
(* exactly the items the producer sent before the close, in order, each    *)
(* once, and is told "end of stream" only when all of them were received.  *)
(* At most Capacity items are in flight.                                   *)
(***************************************************************************)
EXTENDS Naturals, Sequences

CONSTANTS
    Item,      \* what travels on the channel (token ids, log-prob records)
    Capacity   \* bound on the items sent and not yet received

VARIABLES
    sent,      \* every item accepted so far, in order
    received,  \* every item delivered so far, in order
    shut,      \* no further item is accepted
    ended      \* the consumer was told that the stream is over

chVars == <<sent, received, shut, ended>>

Init ==
    /\ sent = <<>>
    /\ received = <<>>
    /\ shut = FALSE
    /\ ended = FALSE

(* An item is accepted while the channel is open and has room for it.      *)
Send(v) ==
    /\ ~shut
    /\ Len(sent) - Len(received) < Capacity
    /\ sent' = Append(sent, v)
    /\ UNCHANGED <<received, shut, ended>>

(* The oldest item not yet delivered is delivered.                         *)
Receive ==
    /\ Len(received) < Len(sent)
    /\ received' = Append(received, sent[Len(received) + 1])
    /\ UNCHANGED <<sent, shut, ended>>

Shut ==
    /\ ~shut
    /\ shut' = TRUE
    /\ UNCHANGED <<sent, received, ended>>

(* End of stream: only on a shut channel, only when nothing is in flight.  *)
End ==
    /\ shut
    /\ Len(received) = Len(sent)
    /\ ended' = TRUE
    /\ UNCHANGED <<sent, received, shut>>

Next ==
    \/ \E v \in Item : Send(v)
    \/ Receive
    \/ Shut
    \/ End

Spec == Init /\ [][Next]_chVars
=============================================================================
