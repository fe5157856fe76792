--------------------------- MODULE ExpertInsertion ---------------------------
(***************************************************************************)
(* The expert node at work: LocalExpert, whose ticks may have any outcome, *)
(* with the control law of ScriptedInsertion, which decides theirs, and    *)
(* the peg, which its trajectories and the world move.                     *)
(*                                                                         *)
(* A tick judges the last joint state that was received.  The peg may have *)
(* moved since: the trajectory may be under way, or have ended before the  *)
(* joint state of its end was received.                                    *)
(***************************************************************************)
EXTENDS LocalExpert, ScriptedInsertion

CONSTANT MaxDisturbances  \* bound on what the world does to the peg

ASSUME MaxDisturbancesAssumption == MaxDisturbances \in Nat

VARIABLES
  peg,         \* where it is
  seen,        \* where it was by _latest_joint_positions
  contact,     \* _latest_wrist_force_sensor
  aim,         \* what the last trajectory was sent for
  carried,     \* it has been carried out
  disturbed,   \* how often the world has interfered
  serverReady  \* _trajectory_client.server_is_ready()

taskVars == <<peg, seen, contact>>
aimVars == <<aim, carried>>
worldVars == <<disturbed, serverReady>>
allVars == <<vars, taskVars, aimVars, worldVars>>

TaskTypeOK ==
  /\ peg \in Pegs /\ seen \in Pegs
  /\ contact \in Contacts
  /\ aim \in {"align", "insert"}
  /\ carried \in BOOLEAN
  /\ disturbed \in 0..MaxDisturbances
  /\ serverReady \in BOOLEAN

InsertionInit ==
  /\ Init
  /\ peg \in {p \in Pegs : p.depth = 0}
  /\ seen = peg
  /\ contact = "free"
  /\ aim = "align"
  /\ carried = TRUE
  /\ disturbed = 0
  /\ serverReady \in BOOLEAN

-----------------------------------------------------------------------------
(* The tick, by what it sees.                                              *)

(* Failure is judged first, then success, then the control law is asked.   *)
Continues == ~Failed(seen) /\ ~Succeeded(seen)

TickAborts ==
  /\ Failed(seen) \/ (Continues /\ IsUnsafe(contact))
  /\ TickFails
  /\ UNCHANGED <<taskVars, aimVars, worldVars>>

(* Numbers that are not finite, or a Jacobian that cannot be solved.       *)
TickRaises ==
  /\ Continues
  /\ TickFails
  /\ UNCHANGED <<taskVars, aimVars, worldVars>>

TickCompletes ==
  /\ Succeeded(seen)
  /\ TickSucceeds
  /\ UNCHANGED <<taskVars, aimVars, worldVars>>

WantsToMove == Continues /\ ~IsUnsafe(contact) /\ Moves(seen, contact)

(* _send_joint_target returns unsent while the controller's action server  *)
(* is not there, and the frame that was staged is rejected: such a tick    *)
(* leaves everything as it is.                                             *)
TickMoves ==
  /\ WantsToMove
  /\ serverReady
  /\ TickCommands
  /\ aim' = Phase(seen)
  /\ carried' = FALSE
  /\ UNCHANGED <<taskVars, worldVars>>

TickCannotMove ==
  /\ WantsToMove
  /\ serverReady
  /\ TickCannotSubmit
  /\ UNCHANGED <<taskVars, aimVars, worldVars>>

TickGivesUp ==
  /\ TickTimesOut
  /\ UNCHANGED <<taskVars, aimVars, worldVars>>

-----------------------------------------------------------------------------
(* The peg.                                                                *)

(* A joint state; the first may complete the feedback, with the wrench and *)
(* the controller's state, which the tick needs as well.                   *)
Observe ==
  /\ FeedbackArrives \/ (fed /\ UNCHANGED vars)
  /\ seen' = peg
  /\ UNCHANGED <<peg, contact, aimVars, worldVars>>

(* The trajectory the controller runs takes the peg along.                 *)
PegMoves ==
  /\ \E g \in Goals : server[g] = "active"
  /\ ~carried
  /\ carried' = TRUE
  /\ peg' = Moved(peg, aim)
  /\ UNCHANGED <<vars, seen, contact, aim, worldVars>>

(* It ends when that is done, or because it was cancelled.                 *)
TrajectoryEnds(g) ==
  /\ carried \/ g \in cancelled
  /\ ControllerEnds(g)
  /\ UNCHANGED <<taskVars, aimVars, worldVars>>

(* Something else moves the peg a little, or a contact comes or goes.      *)
Disturb ==
  /\ disturbed < MaxDisturbances
  /\ disturbed' = disturbed + 1
  /\ \/ /\ \E p \in Pegs : Near(p, peg) /\ peg' = p
        /\ UNCHANGED contact
     \/ /\ contact' \in Contacts
        /\ UNCHANGED peg
  /\ UNCHANGED <<vars, seen, aimVars, serverReady>>

(* The controller's action server is discovered, or is lost, as long as    *)
(* the node may look for it.                                               *)
ServerComesOrGoes ==
  /\ ~terminal
  /\ serverReady' = ~serverReady
  /\ UNCHANGED <<vars, taskVars, aimVars, disturbed>>

(* All of the node and the controller that the task has no part in.        *)
Elsewhere ==
  /\ \/ FeedbackNotFinite \/ GoalAges
     \/ \E requested, granted \in BOOLEAN : SetArmed(requested, granted)
     \/ \E g \in Goals :
          \/ OnLateGoalResponse(g) \/ OnGoalRefused(g) \/ OnGoalAccepted(g)
          \/ OnGoalResult(g)
          \/ ControllerAnswers(g)
  /\ UNCHANGED <<taskVars, aimVars, worldVars>>

InsertionNext ==
  \/ TickAborts \/ TickRaises \/ TickCompletes
  \/ TickMoves \/ TickCannotMove \/ TickGivesUp
  \/ Observe \/ PegMoves \/ Disturb \/ ServerComesOrGoes
  \/ \E g \in Goals : TrajectoryEnds(g)
  \/ Elsewhere

(* Time passes, the control timer fires and, once the feedback has been    *)
(* complete, joint states keep arriving.  The controller owes nothing: its *)
(* state and the wrench may never be published, its action server may stay *)
(* away, a request may stay unanswered or a trajectory run for ever.       *)
InsertionFairness ==
  /\ WF_allVars(GoalAges /\ UNCHANGED <<taskVars, aimVars, worldVars>>)
  /\ WF_allVars(TickAborts \/ TickCompletes \/ TickMoves \/ TickGivesUp)
  /\ WF_allVars(fed /\ Observe)

InsertionSpec == InsertionInit /\ [][InsertionNext]_allVars /\ InsertionFairness

-----------------------------------------------------------------------------
(* Properties.                                                             *)

(* Where the control law has nothing more to say: at full depth beside the *)
(* axis, which is neither success nor failure, and against an axial force. *)
DeadEnd ==
  \/ seen.depth = 2 /\ seen.lateral = 2
  \/ seen.depth < 2 /\ seen.lateral = 0 /\ contact = "axial"

(* What an armed expert waits for without a time limit: feedback it never  *)
(* had, and the action server.                                             *)
Waits == ~fed \/ ~serverReady

(* The bound on trajectories is reached.                                   *)
Exhausted == sent = MaxGoals /\ ~inFlight

(* An expert that stays armed ends: inserted, failed or given up, whatever *)
(* the controller leaves unanswered and however often the peg is moved or  *)
(* its joint state late, unless again and again it sees a dead end or has  *)
(* to wait for the controller to be there at all.                          *)
InsertionEnds ==
  <>[](armed /\ config.commands) =>
    <>terminal \/ []<>(DeadEnd \/ Waits \/ Exhausted)
=============================================================================
