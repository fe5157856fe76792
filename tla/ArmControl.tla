----------------------------- MODULE ArmControl -----------------------------
(***************************************************************************)
(* What the hybrid insertion promises about the arm: at most one of MoveIt *)
(* and the local expert controls it, the expert only once MoveIt has       *)
(* placed the arm, and only the expert makes the run complete.             *)
(*                                                                         *)
(* It does not promise that the expert gives the arm back: a run that has  *)
(* failed may leave it in control, or even gain control late.              *)
(***************************************************************************)

VARIABLES
  holders,  \* who controls the arm
  placed,   \* MoveIt has brought the arm to where the expert starts
  outcome   \* of the run

vars == <<holders, placed, outcome>>

Init ==
  /\ holders = {}
  /\ placed = FALSE
  /\ outcome = "open"

MoveItTakes ==
  /\ holders = {} /\ ~placed
  /\ holders' = {"moveit"}
  /\ UNCHANGED <<placed, outcome>>

MoveItReleases ==
  /\ holders = {"moveit"}
  /\ holders' = {}
  /\ placed' \in BOOLEAN
  /\ UNCHANGED outcome

ExpertTakes ==
  /\ holders = {} /\ placed
  /\ holders' = {"expert"}
  /\ UNCHANGED <<placed, outcome>>

Fails ==
  /\ outcome = "open"
  /\ outcome' = "failed"
  /\ UNCHANGED <<holders, placed>>

Completes ==
  /\ outcome = "open" /\ holders = {"expert"}
  /\ outcome' = "complete"
  /\ UNCHANGED <<holders, placed>>

Next == MoveItTakes \/ MoveItReleases \/ ExpertTakes \/ Fails \/ Completes

Spec == Init /\ [][Next]_vars
=============================================================================
