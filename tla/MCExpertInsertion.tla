-------------------------- MODULE MCExpertInsertion --------------------------
(* Instances of ExpertInsertion for TLC.                                   *)
EXTENDS ExpertInsertion

AllFaults == FaultKinds
=============================================================================
