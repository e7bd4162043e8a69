------------------------------ MODULE MCAuntie ------------------------------
(***************************************************************************)
(* Auntie for TLC.  The delays are the smallest that tell the two apart,   *)
(* and leave room for a refund to overtake a settlement and vice versa.    *)
(***************************************************************************)
EXTENDS AuntieInductive

AllFaults  == FaultKinds
NoCrash    == {"call_error", "host_io"}
Interrupts == {"call_error"}
NoFaults   == {}
=============================================================================
