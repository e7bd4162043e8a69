------------------------------ MODULE MCHosts -------------------------------
(***************************************************************************)
(* Hosts for TLC: the operator and one player, with every kind of fault.   *)
(***************************************************************************)
EXTENDS Hosts

AllFaults == FaultKinds
=============================================================================
