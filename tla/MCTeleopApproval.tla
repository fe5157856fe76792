-------------------------- MODULE MCTeleopApproval --------------------------
(* Instances of TeleopApproval for TLC: two runs of the node with the same *)
(* episode identity and a third with another one.                          *)
EXTENDS TeleopApproval

CONSTANTS p1, p2

SharedPaths == <<p1, p1, p2>>
Reasons == <<TRUE, FALSE, TRUE>>
AllFaults == FaultKinds
=============================================================================
