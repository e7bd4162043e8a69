-------------------------------- MODULE Fifo --------------------------------
(***************************************************************************)
(* What one direction of a channel promises its callers: messages arrive   *)
(* once, whole, and in the order in which they were sent, and after one    *)
(* that does not arrive none is sent.  A send that is reported as failed   *)
(* may have delivered its message all the same, and the first message may  *)
(* be lost although it was reported as sent.  This is the channel that     *)
(* Parties gives the enclaves.                                             *)
(***************************************************************************)
EXTENDS Naturals, Sequences

VARIABLES
    sends,     \* how many messages were handed to auntie_msg_send
    queue,     \* those that will arrive, by their number
    delivered  \* those that auntie_msg_receive returned

Init == sends = 0 /\ queue = <<>> /\ delivered = <<>>

NothingLost == Len(delivered) + Len(queue) = sends

Send == /\ NothingLost
        /\ sends' = sends + 1
        /\ queue' = Append(queue, sends + 1)
        /\ UNCHANGED delivered

Lose == /\ NothingLost
        /\ sends' = sends + 1
        /\ UNCHANGED <<queue, delivered>>

Receive == /\ queue # <<>>
           /\ delivered' = Append(delivered, Head(queue))
           /\ queue' = Tail(queue)
           /\ UNCHANGED sends

Next == Send \/ Lose \/ Receive

Spec == Init /\ [][Next]_<<sends, queue, delivered>>
=============================================================================
