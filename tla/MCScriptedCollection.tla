------------------------ MODULE MCScriptedCollection ------------------------
(* Instances of ScriptedCollection for TLC.                                *)
EXTENDS ScriptedCollection

AllFaults == FaultKinds
NoFaults == {}

(* Three runs, the second after a commit.                                  *)
SecondDiffers == [r \in Runs |-> IF r = 2 THEN "new" ELSE "old"]
=============================================================================
