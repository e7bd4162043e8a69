------------------------------ MODULE MCSetup -------------------------------
(***************************************************************************)
(* Setup for TLC: two seats and three clients, so that some client always  *)
(* competes for a seat or comes too late.                                  *)
(***************************************************************************)
EXTENDS SetupInductive

CONSTANTS c1, c2, c3
ThreeClients == {c1, c2, c3}

AllMisfortunes == SetupFaultKinds
Leaving        == {"leave"}

(***************************************************************************)
(* Clients differ in nothing but the seat they ask for, so it does not     *)
(* matter which of them asks for which.                                    *)
(***************************************************************************)
InOrderOfSeats ==
    /\ SetupInit
    /\ seat[c1] <= seat[c2] /\ seat[c2] <= seat[c3]

FairSetupInOrder == InOrderOfSeats /\ [][SetupNext]_setupVars /\ SetupFairness
=============================================================================
