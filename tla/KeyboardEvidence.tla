-------------------------- MODULE KeyboardEvidence --------------------------
(***************************************************************************)
(* What keyboard_teleop.py knows of the arm before it lets something       *)
(* happen: the interlocks of the cartesian mode (CartesianSafety) and the  *)
(* motion guard of a recording's review (ReviewMotionGuard).  Parameters   *)
(* decide, when the node starts, which of them it has.  They have no state *)
(* in common, so a node that has both behaves as two that have one each,   *)
(* and only those are modelled.                                            *)
(***************************************************************************)
EXTENDS CartesianSafety, ReviewMotionGuard

VARIABLE has  \* which of them this node has

evidence == <<vars, reviewVars, has>>

(* Without the interlocks there is no client of the parameter service.     *)
NodeStarts ==
  /\ Init /\ ReviewInit
  /\ has \in {"interlocks", "guard"}
  /\ has = "guard" => ~ready

Interlocks == has = "interlocks" /\ UNCHANGED <<reviewVars, has>>
Guard == has = "guard" /\ UNCHANGED <<vars, has>>

NodeNext ==
  \/ Interlocks /\ Next
  \/ Guard /\ ReviewNext

(* Time passes, the timer fires, and a service that stays answers.         *)
NodeSpec ==
  /\ NodeStarts /\ [][NodeNext]_evidence
  /\ WF_evidence(Interlocks /\ Tick /\ Watch)
  /\ WF_evidence(Interlocks /\ (Poll \/ PollJog) /\ Watch)
  /\ WF_evidence(Interlocks /\ Answers /\ Watch)
=============================================================================
