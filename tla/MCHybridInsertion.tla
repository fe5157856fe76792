------------------------- MODULE MCHybridInsertion -------------------------
(* Instances of HybridInsertion for TLC.                                   *)
EXTENDS HybridInsertion

AllFaults ==
  {"feedback", "submit", "refuse", "response", "result", "write", "unlink"}
=============================================================================
