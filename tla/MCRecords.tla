----------------------------- MODULE MCRecords ------------------------------
(***************************************************************************)
(* Records for TLC: an envelope and a header that can both be cut in two,  *)
(* and messages with and without a payload.                                *)
(***************************************************************************)
EXTENDS RecordsInductive

AllMishaps == MishapKinds
=============================================================================
