----------------------------- MODULE Agreement ------------------------------
(***************************************************************************)
(* What the setup promises, without connections, messages or loops: every  *)
(* seat is taken once, by one client; when all are taken everybody learns  *)
(* who the others are; and a party starts its contract only when all of    *)
(* them know.  Nobody is promised that it will ever come to that.          *)
(***************************************************************************)
CONSTANTS Seats, Clients, NoClient

VARIABLES
    roster,   \* [Seats -> Clients \cup {NoClient}], who has which seat
    view,     \* [Seats -> SUBSET Clients], whom the one in that seat knows of
    started,  \* the clients who have started their contract
    opened    \* whether the operator has

vars == <<roster, view, started, opened>>

Everybody == {roster[i] : i \in Seats}
Complete  == NoClient \notin Everybody
Others(i) == Everybody \ {roster[i]}
Agreed    == Complete /\ \A i \in Seats : view[i] = Others(i)

Init ==
    /\ roster = [i \in Seats |-> NoClient]
    /\ view = [i \in Seats |-> {}]
    /\ started = {}
    /\ opened = FALSE

Join(i, c) ==
    /\ roster[i] = NoClient
    /\ c \notin Everybody
    /\ roster' = [roster EXCEPT ![i] = c]
    /\ UNCHANGED <<view, started, opened>>

Learn(i) ==
    /\ Complete
    /\ view' = [view EXCEPT ![i] = Others(i)]
    /\ UNCHANGED <<roster, started, opened>>

Start(c) ==
    /\ Agreed
    /\ c \in Everybody
    /\ started' = started \cup {c}
    /\ UNCHANGED <<roster, view, opened>>

Open ==
    /\ Agreed
    /\ opened' = TRUE
    /\ UNCHANGED <<roster, view, started>>

Next ==
    \/ \E i \in Seats : Learn(i) \/ \E c \in Clients : Join(i, c)
    \/ \E c \in Clients : Start(c)
    \/ Open

Spec == Init /\ [][Next]_vars
=============================================================================
