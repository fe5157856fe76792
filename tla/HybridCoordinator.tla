------------------------- MODULE HybridCoordinator -------------------------
(***************************************************************************)
(* The hybrid insertion coordinator (hybrid_insertion_coordinator.py):     *)
(* MoveIt brings the arm to the pre-insertion configuration, then the      *)
(* local expert is armed and its last status decides the outcome.          *)
(*                                                                         *)
(* A phase asks for one thing, so what a callback means follows from the   *)
(* phase.  A callback after the end does nothing and is no action here.    *)
(* Each clock is abstracted to whether its limit has been reached.  MoveIt *)
(* may fail, refuse or stay silent at any point.                           *)
(***************************************************************************)

(* What may come on the expert's topic, by its meaning: "empty" is a blank *)
(* message; "malformed" is a state the coordinator does not know, or an    *)
(* outcome without a reason.                                               *)
Statuses == {"disarmed", "running", "success", "failed", "empty", "malformed"}

VARIABLES
  phase,         \* _phase; _terminal is Over, _started is Started
  joints,        \* _latest_joint_state is set
  latest,        \* _latest_expert_status
  waited,        \* the clock of _moveit_wait_started_ns: "off", "on", "overdue"
  late,          \* the clock of the phase has reached its limit
  sceneApplied,  \* _planning_scene_applied
  execution,     \* the ExecuteTrajectory goal, at MoveIt
  answered,      \* the goal's acceptance has been handled
  armCall        \* the call of the expert's set_armed service

planVars == <<joints, waited, sceneApplied>>
vars == <<phase, late, latest, planVars, execution, answered, armCall>>

Timed == {"applying_planning_scene", "planning", "executing", "arming_expert",
          "waiting_for_expert"}
Phases == Timed \cup {"waiting_for_state", "waiting_for_moveit",
                      "verifying_handoff", "complete", "failed"}

Over == phase \in {"complete", "failed"}
Started == phase # "waiting_for_state"

TypeOK ==
  /\ phase \in Phases
  /\ joints \in BOOLEAN
  /\ latest \in Statuses \cup {"none"}
  /\ waited \in {"off", "on", "overdue"}
  /\ late \in BOOLEAN
  /\ sceneApplied \in BOOLEAN
  /\ execution \in {"unsent", "requested", "refused", "active", "succeeded",
                    "failed"}
  /\ answered \in BOOLEAN
  /\ armCall \in {"none", "requested", "granted", "refused"}
  /\ phase \in {"applying_planning_scene", "planning"} => joints
  /\ phase = "planning" => sceneApplied /\ waited = "off"

Init ==
  /\ phase = "waiting_for_state"
  /\ joints = FALSE
  /\ latest = "none"
  /\ waited = "off"
  /\ late = FALSE
  /\ sceneApplied = FALSE
  /\ execution = "unsent"
  /\ answered = FALSE
  /\ armCall = "none"

-----------------------------------------------------------------------------
(* Every change of phase starts the clock of the new one.                  *)
Enter(p) == phase' = p /\ late' = FALSE

Fail == Enter("failed")

(* _request_plan and _request_planning_scene: one clock for both services, *)
(* started when either is found missing and stopped only when the plan is  *)
(* asked for, so it runs on while the scene is being applied.              *)
RequestPlan(applied) ==
  \/ /\ Enter("waiting_for_moveit")
     /\ waited' = IF waited = "off" THEN "on" ELSE waited
  \/ /\ ~applied
     /\ Enter("applying_planning_scene")
     /\ UNCHANGED waited
  \/ /\ applied
     /\ Enter("planning")
     /\ waited' = "off"

(* _process_expert_status, as the phase it leads to.                       *)
PhaseAfter(status) ==
  CASE status = "success" -> "complete"
    [] status \in {"failed", "empty", "malformed"} -> "failed"
    [] OTHER -> "waiting_for_expert"

-----------------------------------------------------------------------------
(* Subscriptions.                                                          *)

JointStateArrives ==
  /\ ~joints
  /\ joints' = TRUE
  /\ UNCHANGED <<phase, late, latest, waited, sceneApplied, execution, answered,
                 armCall>>

JointStateNotFinite ==
  /\ ~Over
  /\ Fail
  /\ UNCHANGED <<latest, planVars, execution, answered, armCall>>

(* A status is kept for later unless the coordinator waits for it; a blank *)
(* one is not kept.                                                        *)
StatusArrives(status) ==
  /\ latest' = IF status = "empty" THEN latest ELSE status
  /\ IF phase = "waiting_for_expert" /\ PhaseAfter(status) # phase
     THEN Enter(PhaseAfter(status))
     ELSE UNCHANGED <<phase, late>>
  /\ UNCHANGED <<planVars, execution, answered, armCall>>

-----------------------------------------------------------------------------
(* The clocks and the timer.                                               *)

MutantPhaseAges ==
  /\ phase \in (Timed \ {"arming_expert"}) \cup {"verifying_handoff"}
  /\ ~late
  /\ late' = TRUE
  /\ UNCHANGED <<phase, latest, planVars, execution, answered, armCall>>

PhaseAges ==
  /\ phase \in Timed \cup {"verifying_handoff"}
  /\ ~late
  /\ late' = TRUE
  /\ UNCHANGED <<phase, latest, planVars, execution, answered, armCall>>

WaitAges ==
  /\ waited = "on"
  /\ waited' = "overdue"
  /\ UNCHANGED <<phase, late, latest, joints, sceneApplied, execution, answered,
                 armCall>>

TickStarts ==
  /\ ~Started
  /\ joints
  /\ RequestPlan(sceneApplied)
  /\ UNCHANGED <<latest, joints, sceneApplied, execution, answered, armCall>>

TickWaitsForMoveIt ==
  /\ phase = "waiting_for_moveit"
  /\ IF waited = "overdue"
     THEN Fail /\ UNCHANGED waited
     ELSE RequestPlan(sceneApplied)
  /\ UNCHANGED <<latest, joints, sceneApplied, execution, answered, armCall>>

TickTimesOut ==
  /\ phase \in Timed
  /\ late
  /\ Fail
  /\ UNCHANGED <<latest, planVars, execution, answered, armCall>>

(* When the arm has settled: its measured position must be the one that    *)
(* the expert starts from, and the expert's service be there.              *)
TickVerifies ==
  /\ phase = "verifying_handoff"
  /\ late
  /\ \/ Fail /\ UNCHANGED armCall
     \/ Enter("arming_expert") /\ armCall' = "requested"
  /\ UNCHANGED <<latest, planVars, execution, answered>>

-----------------------------------------------------------------------------
(* Answers.                                                                *)

OnSceneResponse ==
  /\ phase = "applying_planning_scene"
  /\ \/ Fail /\ UNCHANGED <<sceneApplied, waited>>
     \/ sceneApplied' = TRUE /\ RequestPlan(TRUE)
  /\ UNCHANGED <<latest, joints, execution, answered, armCall>>

OnPlanResponse ==
  /\ phase = "planning"
  /\ \/ Fail /\ UNCHANGED execution
     \/ Enter("executing") /\ execution' = "requested"
  /\ UNCHANGED <<latest, planVars, answered, armCall>>

MutantAcceptedIsDone ==
  /\ phase = "executing"
  /\ execution \in {"active", "succeeded", "failed"}
  /\ ~answered
  /\ Enter("verifying_handoff")
  /\ answered' = TRUE
  /\ UNCHANGED <<latest, planVars, execution, armCall>>

OnGoalResponse ==
  /\ phase = "executing"
  /\ execution \notin {"unsent", "requested"}
  /\ ~answered
  /\ \/ Fail /\ UNCHANGED answered
     \/ execution # "refused" /\ answered' = TRUE /\ UNCHANGED <<phase, late>>
  /\ UNCHANGED <<latest, planVars, execution, armCall>>

MutantAnyResultWillDo ==
  /\ phase = "executing"
  /\ answered
  /\ execution \in {"succeeded", "failed"}
  /\ Fail \/ Enter("verifying_handoff")
  /\ UNCHANGED <<latest, planVars, execution, answered, armCall>>

OnResult ==
  /\ phase = "executing"
  /\ answered
  /\ execution \in {"succeeded", "failed"}
  /\ Fail \/ (execution = "succeeded" /\ Enter("verifying_handoff"))
  /\ UNCHANGED <<latest, planVars, execution, answered, armCall>>

MutantArmResponseForgetsStatus ==
  /\ phase = "arming_expert"
  /\ armCall \in {"granted", "refused"}
  /\ Fail \/ (armCall = "granted" /\ Enter("waiting_for_expert"))
  /\ UNCHANGED <<latest, planVars, execution, answered, armCall>>

(* The expert may have ended before its answer is handled: the status kept *)
(* is looked at again.                                                     *)
OnArmResponse ==
  /\ phase = "arming_expert"
  /\ armCall \in {"granted", "refused"}
  /\ Fail \/ (armCall = "granted" /\ Enter(PhaseAfter(latest)))
  /\ UNCHANGED <<latest, planVars, execution, answered, armCall>>

-----------------------------------------------------------------------------
(* MoveIt's side of the execution, and the expert's of the arming.         *)

MoveItAnswers ==
  /\ execution = "requested"
  /\ execution' \in {"refused", "active"}
  /\ UNCHANGED <<phase, late, latest, planVars, answered, armCall>>

MoveItEnds ==
  /\ execution = "active"
  /\ execution' \in {"succeeded", "failed"}
  /\ UNCHANGED <<phase, late, latest, planVars, answered, armCall>>

ArmCallAnswered(granted) ==
  /\ armCall = "requested"
  /\ armCall' = IF granted THEN "granted" ELSE "refused"
  /\ UNCHANGED <<phase, late, latest, planVars, execution, answered>>

(* What needs no expert.                                                   *)
OwnNext ==
  \/ JointStateArrives \/ JointStateNotFinite
  \/ PhaseAges \/ WaitAges
  \/ TickStarts \/ TickWaitsForMoveIt \/ TickTimesOut \/ TickVerifies
  \/ OnSceneResponse \/ OnPlanResponse
  \/ OnGoalResponse \/ OnResult
  \/ OnArmResponse
  \/ MoveItAnswers \/ MoveItEnds

Next ==
  \/ OwnNext
  \/ \E status \in Statuses : StatusArrives(status)
  \/ \E granted \in BOOLEAN : ArmCallAnswered(granted)

Spec == Init /\ [][Next]_vars

(* Time passes and the timer fires.  Nobody owes an answer.                *)
Fairness ==
  /\ WF_vars(PhaseAges)
  /\ WF_vars(WaitAges)
  /\ WF_vars(TickTimesOut)
  /\ WF_vars(TickVerifies)
  /\ WF_vars(phase = "waiting_for_moveit" /\ waited = "overdue" /\ TickWaitsForMoveIt)

FairSpec == Spec /\ Fairness

-----------------------------------------------------------------------------
(* Properties.                                                             *)

(* docs/week9_acceptance.md: "armed the local expert only after the        *)
(* handoff contract was satisfied" and "required successful trajectory     *)
(* execution before local control".                                        *)
ArmedAfterExecution ==
  armCall # "none" => execution = "succeeded" /\ answered

(* Whatever the order in which the arm answer and the statuses come, an    *)
(* outcome that was received is never left unread.                         *)
NoLostStatus ==
  phase = "waiting_for_expert" => latest \in {"none", "disarmed", "running"}

(* The run completes only after it armed the expert, on the expert's word. *)
CompleteMeansArmed ==
  phase = "complete" => armCall = "granted"

(* The outcome is final: late answers and statuses do not change it, nor   *)
(* do they make the coordinator ask for anything more.                     *)
OutcomeIsFinal ==
  [][Over =>
       /\ UNCHANGED phase
       /\ execution = "unsent" => UNCHANGED execution
       /\ armCall = "none" => UNCHANGED armCall]_vars

(* docs/week9_acceptance.md: "success or bounded failure".  Once started   *)
(* the coordinator ends, whoever stays silent.                             *)
StartedEnds == Started ~> Over
=============================================================================
