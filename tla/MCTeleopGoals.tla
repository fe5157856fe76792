--------------------------- MODULE MCTeleopGoals ---------------------------
(* Instances of TeleopGoals for TLC.                                       *)
EXTENDS TeleopGoals

AllFaults == FaultKinds
=============================================================================
