--------------------------- MODULE HybridInsertion ---------------------------
(***************************************************************************)
(* One hybrid insertion as hybrid_insertion.launch.py starts it: the       *)
(* coordinator and a disarmed local expert that commands the arm.  They    *)
(* meet in the expert's set_armed service, which only the coordinator      *)
(* calls, and in the topic of the expert's status, of which the            *)
(* coordinator's queue keeps the last message.                             *)
(***************************************************************************)
EXTENDS Naturals, Sequences

CONSTANTS
  MaxGoals,  \* bound on the expert's trajectories
  Faults     \* what may go wrong in the expert

\* of the expert
VARIABLES
  config, armed, terminal, status, fed, inFlight, handle, overdue, frames,
  pending, label, capture, sent, server, replied, awaited, cancelled

\* of the coordinator
VARIABLES
  phase, joints, latest, waited, late, sceneApplied, execution, answered, armCall

expertVars ==
  <<config, armed, terminal, status, fed, inFlight, handle, overdue, frames,
    pending, label, capture, sent, server, replied, awaited, cancelled>>
coordinatorVars ==
  <<phase, joints, latest, waited, late, sceneApplied, execution, answered, armCall>>
vars == <<expertVars, coordinatorVars>>

Expert == INSTANCE LocalExpert

ASSUME ExpertAssumptions ==
  MaxGoals \in Nat /\ Faults \subseteq Expert!FaultKinds

Coordinator == INSTANCE HybridCoordinator

Init ==
  /\ Expert!Init
  /\ config.commands /\ ~config.startArmed
  /\ Coordinator!Init

ExpertStep == Expert!OwnNext /\ UNCHANGED coordinatorVars

CoordinatorStep == Coordinator!OwnNext /\ UNCHANGED expertVars

(* The expert serves the coordinator's request.                            *)
ArmCall ==
  \E granted \in BOOLEAN :
    /\ Coordinator!ArmCallAnswered(granted)
    /\ Expert!SetArmed(TRUE, granted)

(* A status that was overwritten in the queue is never delivered.          *)
StatusDelivered ==
  /\ latest # status
  /\ Coordinator!StatusArrives(status)
  /\ UNCHANGED expertVars

Next == ExpertStep \/ CoordinatorStep \/ ArmCall \/ StatusDelivered

Spec == Init /\ [][Next]_vars

(* As in HybridCoordinator: the expert and MoveIt owe nothing.             *)
FairSpec == Spec /\ Coordinator!Fairness

-----------------------------------------------------------------------------
(* Properties.                                                             *)

(* MoveIt and the expert never move the arm at the same time, though they  *)
(* share its controller and neither coordinator nor expert cancels what    *)
(* MoveIt executes.                                                        *)
NoContention ==
  execution \in {"requested", "active"} => \A g \in 1..MaxGoals : ~Expert!Live(g)

(* A run that completes has its demonstration on disk, of a success.       *)
CompleteMeansDemonstrated ==
  phase = "complete" =>
    /\ status = "success"
    /\ config.captures => capture.label = "success" /\ capture.frames # <<>>

(* Of the coordinator, with the expert that it really has: no outcome that *)
(* reached it is left unread, and once started it ends, whatever the       *)
(* expert does.                                                            *)
NoLostStatus == Coordinator!NoLostStatus

StartedEnds == Coordinator!StartedEnds

Control == INSTANCE ArmControl WITH
  holders <- (IF execution = "active" THEN {"moveit"} ELSE {})
               \cup (IF armed THEN {"expert"} ELSE {}),
  placed <- execution = "succeeded",
  outcome <- IF Coordinator!Over THEN phase ELSE "open"

(* The two nodes together keep what ArmControl promises.                   *)
ControlKept == Control!Spec
=============================================================================
