--------------------------- MODULE SetupInductive ---------------------------
(***************************************************************************)
(* The inductive invariant behind the safety of the setup.  At most one    *)
(* message is under way in either direction between the operator and a     *)
(* client, so the conversation of the two has few stages; where the        *)
(* operator is tells at which stage it can be with each client.            *)
(***************************************************************************)
EXTENDS Setup

At(c, pc, toOp, toCl) ==
    /\ clPc[c] \in {pc, "gone"}
    /\ up[c] = toOp
    /\ down[c] = toCl

(***************************************************************************)
(* A client that has no seat: not started, its SYN sent, its SYN answered, *)
(* its ACK sent, and, when it was dropped, its SYN taken without an answer.*)
(***************************************************************************)
NotStarted(c) == clPc[c] = "out" /\ At(c, "out", <<>>, <<>>) /\ link[c] = "none"
SynSent(c)    == /\ \E syn \in Plaintext("SYN") : At(c, "synack", <<syn>>, <<>>)
                 /\ link[c] # "none"
Attesting(c)  == /\ \/ \E synack \in Plaintext("SYNACK") : At(c, "synack", <<>>, <<synack>>)
                    \/ At(c, "quotes", <<Msg("ACK")>>, <<>>)
                 /\ link[c] \in {"open", "dropped"}
TurnedAway(c) == At(c, "synack", <<>>, <<>>) /\ link[c] = "dropped"

(***************************************************************************)
(* A client that has one: registered, shown the quotes or acknowledging    *)
(* them, its acknowledgement taken, notified.                              *)
(***************************************************************************)
HasAllQuotes(c) == shown[c] = {players[i] : i \in Seats} \ {c}

Registered(c)   == At(c, "quotes", <<>>, <<>>)
Presented(c)    == \/ At(c, "quotes", <<>>, <<Quotes>>)
                   \/ At(c, "notice", <<Msg("QUOTES_OK")>>, <<>>) /\ HasAllQuotes(c)
Acknowledged(c) == At(c, "notice", <<>>, <<>>) /\ HasAllQuotes(c)
Notified(c)     == /\ \/ At(c, "notice", <<>>, <<Msg("SETUP_COMPLETE")>>)
                      \/ At(c, "shell", <<>>, <<>>)
                   /\ HasAllQuotes(c)

AllSeatsTaken == \A i \in Seats : players[i] # NoClient

HasSeat(c) == players[seat[c]] = c

(***************************************************************************)
(* One client is attested at a time; it has no seat yet, and once its SYN  *)
(* is answered its seat is free.                                           *)
(***************************************************************************)
OneAtATime ==
    /\ opPc \in {"syn", "ack"} => /\ serving \in Clients
                                  /\ ~ AllSeatsTaken
                                  /\ ~ HasSeat(serving)
                                  /\ link[serving] = "open"
    /\ opPc = "syn" => SynSent(serving)
    /\ opPc = "ack" => Attesting(serving) /\ SeatFree(serving)

Lobby ==
    \A c \in Clients : ~ HasSeat(c) =>
        /\ NotStarted(c) \/ SynSent(c) \/ Attesting(c) \/ TurnedAway(c)
        /\ link[c] \in {"queued", "leaked"} => SynSent(c)
        /\ shown[c] = {}

OwnSeats ==
    \A i \in Seats : players[i] # NoClient =>
        /\ seat[players[i]] = i
        /\ link[players[i]] = "open"

(***************************************************************************)
(* present_quotes goes over the seats three times; an abandoned one stays  *)
(* where it was, either before or after the last acknowledgement.          *)
(***************************************************************************)
Presenting ==
    /\ opPc \in PresentPcs \cup {"shell"} => AllSeatsTaken
    /\ ~ AllSeatsTaken \/ opPc = "present" =>
         /\ opIdx = 1
         /\ \A i \in Seats : players[i] # NoClient => Registered(players[i])
    /\ opPc = "broadcast" =>
         \A i \in Seats : IF i < opIdx THEN Presented(players[i]) ELSE Registered(players[i])
    /\ opPc = "collect" =>
         \A i \in Seats : IF i < opIdx THEN Acknowledged(players[i]) ELSE Presented(players[i])
    /\ opPc = "notify" =>
         \A i \in Seats : IF i < opIdx THEN Notified(players[i]) ELSE Acknowledged(players[i])
    /\ opPc = "shell" => \A i \in Seats : Notified(players[i])
    /\ opPc \in {"accept", "dead"} /\ AllSeatsTaken =>
         \/ \A i \in Seats : \/ Registered(players[i])
                             \/ Presented(players[i])
                             \/ Acknowledged(players[i])
         \/ \A i \in Seats : Acknowledged(players[i]) \/ Notified(players[i])

(***************************************************************************)
(* The conjunction is inductive: it holds of the initial states and every  *)
(* step preserves it.  The loops of present_quotes (players.c:70-121) rest *)
(* on it, which expect of each player what the one before has done.        *)
(***************************************************************************)
SetupConsistent ==
    /\ SetupTypeOK
    /\ OneAtATime
    /\ Lobby
    /\ OwnSeats
    /\ Presenting
    /\ Counted
=============================================================================
