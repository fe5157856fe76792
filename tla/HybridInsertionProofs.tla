----------------------- MODULE HybridInsertionProofs -----------------------
(***************************************************************************)
(* The hybrid insertion implements ArmControl, never has two commanders at *)
(* the arm's controller and completes only with its demonstration written, *)
(* for any number of the expert's trajectories and whatever goes wrong.    *)
(* So does the coordinator keep its own promises with any other expert.    *)
(***************************************************************************)
EXTENDS HybridInsertion, TLAPS

-----------------------------------------------------------------------------
(* The coordinator by itself, whatever statuses it is sent and whatever    *)
(* answers its request to arm.                                             *)

(* What a phase implies of the calls made so far.  The properties follow   *)
(* from it; it says more than they do where the coordinator is still on    *)
(* the way to the step a property is about.                                *)
BeforeExecution == {"waiting_for_state", "waiting_for_moveit",
                    "applying_planning_scene", "planning"}

CallsFollowPhase ==
  /\ phase \in BeforeExecution \ {"waiting_for_state"} => joints
  /\ phase \in BeforeExecution => execution = "unsent" /\ ~answered
  /\ phase \in BeforeExecution \cup {"executing", "verifying_handoff"} =>
       armCall = "none"
  /\ phase = "executing" => execution # "unsent"
  /\ phase = "verifying_handoff" => execution = "succeeded" /\ answered
  /\ phase = "arming_expert" => armCall # "none"
  /\ phase \in {"waiting_for_expert", "complete"} => armCall = "granted"

CoordinatorInv ==
  /\ Coordinator!TypeOK
  /\ CallsFollowPhase
  /\ Coordinator!ArmedAfterExecution
  /\ Coordinator!NoLostStatus

(* The invariant holds at the start.                                       *)
LEMMA InitCoordinatorInv == Coordinator!Init => CoordinatorInv
BY DEF Coordinator!Init, CoordinatorInv, Coordinator!TypeOK, CallsFollowPhase,
    BeforeExecution, Coordinator!ArmedAfterExecution, Coordinator!NoLostStatus,
    Coordinator!Phases, Coordinator!Timed, Coordinator!Statuses

(* A status leads to one of three phases, and is not an outcome when it    *)
(* leads back to waiting.                                                  *)
LEMMA PhaseAfterStatus ==
  ASSUME NEW s \in Coordinator!Statuses \cup {"none"}
  PROVE  /\ Coordinator!PhaseAfter(s) \in {"complete", "failed", "waiting_for_expert"}
         /\ Coordinator!PhaseAfter(s) = "waiting_for_expert" =>
               s \in {"none", "disarmed", "running"}
BY DEF Coordinator!PhaseAfter, Coordinator!Statuses

(* Every step keeps the invariant.                                         *)
LEMMA NextCoordinatorInv ==
  CoordinatorInv /\ [Coordinator!Next]_(Coordinator!vars) => CoordinatorInv'
<1> SUFFICES ASSUME CoordinatorInv, [Coordinator!Next]_(Coordinator!vars)
             PROVE  CoordinatorInv'
  OBVIOUS
<1> USE DEF CoordinatorInv, Coordinator!TypeOK, CallsFollowPhase,
    BeforeExecution, Coordinator!ArmedAfterExecution, Coordinator!NoLostStatus,
    Coordinator!Phases, Coordinator!Timed, Coordinator!Enter, Coordinator!Fail,
    Coordinator!planVars
<1>1. CASE Coordinator!JointStateArrives
  BY <1>1 DEF Coordinator!JointStateArrives
<1>2. CASE Coordinator!JointStateNotFinite
  BY <1>2 DEF Coordinator!JointStateNotFinite
<1>16. CASE Coordinator!PhaseAges
  BY <1>16 DEF Coordinator!PhaseAges
<1>17. CASE Coordinator!WaitAges
  BY <1>17 DEF Coordinator!WaitAges
<1>3. CASE Coordinator!TickStarts
  BY <1>3 DEF Coordinator!TickStarts, Coordinator!RequestPlan,
      Coordinator!Started
<1>4. CASE Coordinator!TickWaitsForMoveIt
  BY <1>4 DEF Coordinator!TickWaitsForMoveIt, Coordinator!RequestPlan
<1>5. CASE Coordinator!TickTimesOut \/ Coordinator!TickVerifies
  BY <1>5 DEF Coordinator!TickTimesOut, Coordinator!TickVerifies
<1>6. CASE Coordinator!OnSceneResponse
  BY <1>6 DEF Coordinator!OnSceneResponse, Coordinator!RequestPlan
<1>7. CASE Coordinator!OnPlanResponse
  BY <1>7 DEF Coordinator!OnPlanResponse
<1>8. CASE Coordinator!OnGoalResponse
  BY <1>8 DEF Coordinator!OnGoalResponse
<1>9. CASE Coordinator!OnResult
  BY <1>9 DEF Coordinator!OnResult
<1>10. CASE Coordinator!OnArmResponse
  BY <1>10, PhaseAfterStatus DEF Coordinator!OnArmResponse
<1>11. CASE Coordinator!MoveItAnswers
  BY <1>11 DEF Coordinator!MoveItAnswers
<1>12. CASE Coordinator!MoveItEnds
  BY <1>12 DEF Coordinator!MoveItEnds
<1>13. ASSUME NEW word \in Coordinator!Statuses, Coordinator!StatusArrives(word)
       PROVE  CoordinatorInv'
  <2>1. word \in Coordinator!Statuses
    OBVIOUS
  <2>2. Coordinator!PhaseAfter(word) = "waiting_for_expert" =>
          word \in {"disarmed", "running"}
    BY <2>1 DEF Coordinator!PhaseAfter, Coordinator!Statuses
  <2>3. Coordinator!PhaseAfter(word) \in {"complete", "failed", "waiting_for_expert"}
    BY <2>1, PhaseAfterStatus
  <2>4. word = "empty" => Coordinator!PhaseAfter(word) = "failed"
    BY DEF Coordinator!PhaseAfter
  <2>5. CASE phase = "waiting_for_expert" /\ Coordinator!PhaseAfter(word) # phase
    BY <1>13, <2>1, <2>3, <2>5 DEF Coordinator!StatusArrives
  <2>6. CASE ~(phase = "waiting_for_expert" /\ Coordinator!PhaseAfter(word) # phase)
    BY <1>13, <2>1, <2>2, <2>4, <2>6 DEF Coordinator!StatusArrives
  <2> QED BY <2>5, <2>6
<1>14. ASSUME NEW granted \in BOOLEAN, Coordinator!ArmCallAnswered(granted)
       PROVE  CoordinatorInv'
  BY <1>14 DEF Coordinator!ArmCallAnswered
<1>15. CASE UNCHANGED Coordinator!vars
  BY <1>15 DEF Coordinator!vars
<1> QED
  BY <1>1, <1>2, <1>3, <1>4, <1>5, <1>6, <1>7, <1>8, <1>9, <1>10, <1>11, <1>12,
     <1>13, <1>14, <1>15, <1>16, <1>17 DEF Coordinator!Next,
         Coordinator!OwnNext

(* The invariant holds throughout.                                         *)
LEMMA AlwaysCoordinatorInv == Coordinator!Spec => []CoordinatorInv
BY InitCoordinatorInv, NextCoordinatorInv, PTL DEF Coordinator!Spec

(* Every variable keeps its type; planning goes on only with a scene, and  *)
(* with the wait for MoveIt over.                                          *)
THEOREM CoordinatorTypeCorrect == Coordinator!Spec => []Coordinator!TypeOK
<1>1. CoordinatorInv => Coordinator!TypeOK
  BY DEF CoordinatorInv
<1> QED BY AlwaysCoordinatorInv, <1>1, PTL

(* The coordinator asks the expert to arm only when MoveIt's execution was *)
(* accepted and succeeded.                                                 *)
THEOREM ArmedAfterExecutionHolds ==
  Coordinator!Spec => []Coordinator!ArmedAfterExecution
<1>1. CoordinatorInv => Coordinator!ArmedAfterExecution
  BY DEF CoordinatorInv
<1> QED BY AlwaysCoordinatorInv, <1>1, PTL

(* No outcome that was received is left unread, in whatever order the arm  *)
(* answer and the statuses come.                                           *)
THEOREM CoordinatorLosesNoStatus == Coordinator!Spec => []Coordinator!NoLostStatus
<1>1. CoordinatorInv => Coordinator!NoLostStatus
  BY DEF CoordinatorInv
<1> QED BY AlwaysCoordinatorInv, <1>1, PTL

(* A run completes only after the expert agreed to be armed.               *)
THEOREM CompleteMeansArmedHolds ==
  Coordinator!Spec => []Coordinator!CompleteMeansArmed
<1>1. CoordinatorInv => Coordinator!CompleteMeansArmed
  BY DEF CoordinatorInv, CallsFollowPhase, Coordinator!CompleteMeansArmed
<1> QED BY AlwaysCoordinatorInv, <1>1, PTL

(* After the end nothing changes the outcome or asks for anything more.    *)
THEOREM OutcomeIsFinalHolds == Coordinator!Spec => Coordinator!OutcomeIsFinal
<1> DEFINE Frozen ==
      Coordinator!Over =>
        /\ UNCHANGED phase
        /\ execution = "unsent" => UNCHANGED execution
        /\ armCall = "none" => UNCHANGED armCall
<1>1. [Coordinator!Next]_(Coordinator!vars) => [Frozen]_(Coordinator!vars)
  <2> SUFFICES ASSUME [Coordinator!Next]_(Coordinator!vars), Coordinator!Over
               PROVE  Frozen
    OBVIOUS
  <2> USE DEF Coordinator!Over, Coordinator!Timed, Coordinator!planVars
  <2>1. CASE Coordinator!OwnNext
    BY <2>1 DEF Coordinator!OwnNext, Coordinator!JointStateArrives,
        Coordinator!JointStateNotFinite, Coordinator!PhaseAges,
        Coordinator!WaitAges, Coordinator!TickStarts, Coordinator!Started,
        Coordinator!TickWaitsForMoveIt, Coordinator!TickTimesOut,
        Coordinator!TickVerifies, Coordinator!OnSceneResponse,
        Coordinator!OnPlanResponse, Coordinator!OnGoalResponse,
        Coordinator!OnResult, Coordinator!OnArmResponse,
        Coordinator!MoveItAnswers, Coordinator!MoveItEnds
  <2>2. ASSUME NEW word \in Coordinator!Statuses, Coordinator!StatusArrives(word)
        PROVE  Frozen
    BY <2>2 DEF Coordinator!StatusArrives
  <2>3. ASSUME NEW granted \in BOOLEAN, Coordinator!ArmCallAnswered(granted)
        PROVE  Frozen
    BY <2>3 DEF Coordinator!ArmCallAnswered
  <2>4. CASE UNCHANGED Coordinator!vars
    BY <2>4 DEF Coordinator!vars
  <2> QED BY <2>1, <2>2, <2>3, <2>4 DEF Coordinator!Next
<1> QED BY <1>1, PTL DEF Coordinator!Spec, Coordinator!OutcomeIsFinal

-----------------------------------------------------------------------------
(* Who controls the arm.                                                   *)

(* Only the service changes whether the expert is armed.                   *)
LEMMA ExpertKeepsArmed == Expert!OwnNext => UNCHANGED armed
BY DEF Expert!OwnNext, Expert!FeedbackArrives, Expert!FeedbackNotFinite,
       Expert!GoalAges, Expert!TickTimesOut, Expert!TickFails,
       Expert!TickSucceeds, Expert!TickCannotSubmit, Expert!TickCommands,
       Expert!OnLateGoalResponse, Expert!OnGoalRefused, Expert!OnGoalAccepted,
       Expert!OnGoalResult, Expert!ControllerAnswers, Expert!ControllerEnds,
       Expert!Abort, Expert!Complete, Expert!controlVars

(* How far the coordinator has got, and with it the expert's arming.  The  *)
(* coordinator alone decides when to ask, but what it asks for may be      *)
(* granted at any later time, even after it has failed: what counts then   *)
(* is that the execution has ended for good.                               *)
Handover ==
  /\ armed \in BOOLEAN
  /\ execution \in {"unsent", "requested", "refused", "active", "succeeded", "failed"}
  /\ phase \in {"waiting_for_state", "waiting_for_moveit", "applying_planning_scene",
                "planning"} => execution = "unsent"
  /\ phase \in {"waiting_for_state", "waiting_for_moveit", "applying_planning_scene",
                "planning", "executing", "verifying_handoff"} => armCall = "none"
  /\ phase = "verifying_handoff" => execution = "succeeded"
  /\ armCall # "none" => execution = "succeeded"
  /\ armed <=> armCall = "granted"
  /\ phase \in {"waiting_for_expert", "complete"} => armCall = "granted"

(* It holds at the start: the launch file starts the expert disarmed.      *)
LEMMA InitHandover == Init => Handover
BY DEF Init, Handover, Expert!Init, Coordinator!Init, Expert!Configs

(* Every step keeps it.                                                    *)
LEMMA NextHandover == Handover /\ [Next]_vars => Handover'
<1> SUFFICES ASSUME Handover, [Next]_vars PROVE Handover'
  OBVIOUS
<1> USE DEF Handover
<1>1. CASE ExpertStep
  BY <1>1, ExpertKeepsArmed DEF ExpertStep, coordinatorVars
<1>2. CASE CoordinatorStep
  <2> USE <1>2 DEF CoordinatorStep, expertVars, Coordinator!Enter, Coordinator!Fail,
        Coordinator!planVars
  <2>1. CASE Coordinator!JointStateArrives \/ Coordinator!JointStateNotFinite
    BY <2>1 DEF Coordinator!JointStateArrives, Coordinator!JointStateNotFinite
  <2>2. CASE Coordinator!PhaseAges \/ Coordinator!WaitAges
    BY <2>2 DEF Coordinator!PhaseAges, Coordinator!WaitAges
  <2>3. CASE Coordinator!TickStarts \/ Coordinator!TickWaitsForMoveIt
    BY <2>3 DEF Coordinator!TickStarts, Coordinator!TickWaitsForMoveIt,
         Coordinator!RequestPlan, Coordinator!Started
  <2>4. CASE Coordinator!TickTimesOut
    BY <2>4 DEF Coordinator!TickTimesOut
  <2>5. CASE Coordinator!TickVerifies
    BY <2>5 DEF Coordinator!TickVerifies
  <2>6. CASE Coordinator!OnSceneResponse
    BY <2>6 DEF Coordinator!OnSceneResponse, Coordinator!RequestPlan
  <2>7. CASE Coordinator!OnPlanResponse
    BY <2>7 DEF Coordinator!OnPlanResponse
  <2>8. CASE Coordinator!OnGoalResponse \/ Coordinator!OnResult
    BY <2>8 DEF Coordinator!OnGoalResponse, Coordinator!OnResult
  <2>9. CASE Coordinator!OnArmResponse
    BY <2>9 DEF Coordinator!OnArmResponse, Coordinator!PhaseAfter
  <2>10. CASE Coordinator!MoveItAnswers \/ Coordinator!MoveItEnds
    BY <2>10 DEF Coordinator!MoveItAnswers, Coordinator!MoveItEnds
  <2> QED BY <2>1, <2>2, <2>3, <2>4, <2>5, <2>6, <2>7, <2>8, <2>9, <2>10
             DEF Coordinator!OwnNext
<1>3. CASE ArmCall
  BY <1>3 DEF ArmCall, Coordinator!ArmCallAnswered, Expert!SetArmed, Coordinator!planVars
<1>4. CASE StatusDelivered
  BY <1>4 DEF StatusDelivered, Coordinator!StatusArrives, Coordinator!Enter,
       Coordinator!PhaseAfter, Coordinator!planVars, expertVars
<1>5. CASE UNCHANGED vars
  BY <1>5 DEF vars, expertVars, coordinatorVars
<1> QED BY <1>1, <1>2, <1>3, <1>4, <1>5 DEF Next

(* It holds throughout.                                                    *)
LEMMA AlwaysHandover == Spec => []Handover
BY InitHandover, NextHandover, PTL DEF Spec

-----------------------------------------------------------------------------
(* The refinement.                                                         *)

(* The run's outcome, as the state of the coordinator gives it.            *)
LEMMA InitControl == Init => Control!Init
BY DEF Init, Control!Init, Expert!Init, Coordinator!Init, Coordinator!Over

(* The abstract state is the same after a step that changes none of what   *)
(* it is made of: who is armed, whether MoveIt executes or has succeeded,  *)
(* and the outcome.                                                        *)
LEMMA NoAbstractChange ==
  ASSUME armed' = armed,
         (execution' = "active") <=> (execution = "active"),
         (execution' = "succeeded") <=> (execution = "succeeded"),
         UNCHANGED phase
  PROVE  UNCHANGED Control!vars
BY DEF Control!vars, Coordinator!Over

(* A change of phase that keeps who controls the arm is an abstract Fails, *)
(* an abstract Completes when the expert is in control, or no step at all. *)
LEMMA PhaseStep ==
  ASSUME Handover, Handover',
         armed' = armed,
         \/ execution' = execution
         \/ execution = "unsent" /\ execution' = "requested",
         phase \in {"complete", "failed"} => phase' = phase
  PROVE  [Control!Next]_(Control!vars)
<1> DEFINE Final == {"complete", "failed"}
<1>0. /\ (execution' = "active") <=> (execution = "active")
      /\ (execution' = "succeeded") <=> (execution = "succeeded")
  OBVIOUS
<1>1. CASE phase \in Final
  BY <1>0, <1>1, NoAbstractChange
<1>2. CASE phase \notin Final /\ phase' \notin Final
  BY <1>0, <1>2 DEF Control!vars, Coordinator!Over
<1>3. CASE phase \notin Final /\ phase' = "failed"
  <2>1. Control!Fails
    BY <1>0, <1>3 DEF Control!Fails, Coordinator!Over
  <2> QED BY <2>1 DEF Control!Next
<1>4. CASE phase \notin Final /\ phase' = "complete"
  <2>1. armed /\ execution = "succeeded"
    BY <1>0, <1>4 DEF Handover
  <2>2. Control!Completes
    BY <1>0, <1>4, <2>1 DEF Control!Completes, Coordinator!Over
  <2> QED BY <2>2 DEF Control!Next
<1> QED BY <1>1, <1>2, <1>3, <1>4

(* Every step of the two nodes is a step of ArmControl, or a stutter.      *)
LEMMA StepControl ==
  Handover /\ Handover' /\ [Next]_vars => [Control!Next]_(Control!vars)
<1> SUFFICES ASSUME Handover, Handover', [Next]_vars
             PROVE  [Control!Next]_(Control!vars)
  OBVIOUS
<1>1. CASE ExpertStep
  BY <1>1, ExpertKeepsArmed, NoAbstractChange DEF ExpertStep, coordinatorVars
<1>2. CASE CoordinatorStep
  <2>0. UNCHANGED armed
    BY <1>2 DEF CoordinatorStep, expertVars
  <2>1. CASE Coordinator!MoveItAnswers
    <3>1. UNCHANGED phase /\ execution = "requested" /\ execution' \in {"refused", "active"}
      BY <2>1 DEF Coordinator!MoveItAnswers
    <3>2. ~armed
      BY <3>1 DEF Handover
    <3>3. CASE execution' = "refused"
      BY <2>0, <3>1, <3>3, NoAbstractChange
    <3>4. CASE execution' = "active"
      <4>1. Control!MoveItTakes
        BY <2>0, <3>1, <3>2, <3>4 DEF Control!MoveItTakes, Coordinator!Over
      <4> QED BY <4>1 DEF Control!Next
    <3> QED BY <3>1, <3>3, <3>4
  <2>2. CASE Coordinator!MoveItEnds
    <3>1. UNCHANGED phase /\ execution = "active" /\ execution' \in {"succeeded", "failed"}
      BY <2>2 DEF Coordinator!MoveItEnds
    <3>2. ~armed
      BY <3>1 DEF Handover
    <3>3. Control!MoveItReleases
      BY <2>0, <3>1, <3>2 DEF Control!MoveItReleases, Coordinator!Over
    <3> QED BY <3>3 DEF Control!Next
  <2>3. CASE Coordinator!OwnNext /\ ~Coordinator!MoveItAnswers /\ ~Coordinator!MoveItEnds
    <3>1. \/ execution' = execution
          \/ execution = "unsent" /\ execution' = "requested"
      BY <2>3 DEF Handover, Coordinator!OwnNext,
           Coordinator!JointStateArrives, Coordinator!JointStateNotFinite,
           Coordinator!PhaseAges, Coordinator!WaitAges, Coordinator!TickStarts,
           Coordinator!TickWaitsForMoveIt, Coordinator!TickTimesOut,
           Coordinator!TickVerifies, Coordinator!OnSceneResponse,
           Coordinator!OnPlanResponse, Coordinator!OnGoalResponse,
           Coordinator!OnResult, Coordinator!OnArmResponse
    <3>2. phase \in {"complete", "failed"} => phase' = phase
      BY <2>3 DEF Coordinator!OwnNext, Coordinator!Over, Coordinator!Timed,
           Coordinator!JointStateArrives, Coordinator!JointStateNotFinite,
           Coordinator!PhaseAges, Coordinator!WaitAges, Coordinator!TickStarts,
           Coordinator!Started, Coordinator!TickWaitsForMoveIt,
           Coordinator!TickTimesOut, Coordinator!TickVerifies,
           Coordinator!OnSceneResponse, Coordinator!OnPlanResponse,
           Coordinator!OnGoalResponse, Coordinator!OnResult,
           Coordinator!OnArmResponse
    <3> QED BY <2>0, <3>1, <3>2, PhaseStep
  <2> QED BY <1>2, <2>1, <2>2, <2>3 DEF CoordinatorStep
<1>3. CASE ArmCall
  <2>1. UNCHANGED <<phase, execution>> /\ armCall = "requested"
    BY <1>3 DEF ArmCall, Coordinator!ArmCallAnswered
  <2>2. ~armed /\ execution = "succeeded"
    BY <2>1 DEF Handover
  <2>3. CASE ~armed'
    BY <2>1, <2>2, <2>3, NoAbstractChange DEF Handover
  <2>4. CASE armed'
    <3>1. Control!ExpertTakes
      BY <2>1, <2>2, <2>4 DEF Control!ExpertTakes, Coordinator!Over
    <3> QED BY <3>1 DEF Control!Next
  <2> QED BY <2>3, <2>4
<1>4. CASE StatusDelivered
  <2>1. armed' = armed /\ execution' = execution
    BY <1>4 DEF StatusDelivered, Coordinator!StatusArrives, expertVars
  <2>2. phase \in {"complete", "failed"} => phase' = phase
    BY <1>4 DEF StatusDelivered, Coordinator!StatusArrives
  <2> QED BY <2>1, <2>2, PhaseStep
<1>5. CASE UNCHANGED vars
  BY <1>5, NoAbstractChange DEF vars, expertVars, coordinatorVars
<1> QED BY <1>1, <1>2, <1>3, <1>4, <1>5 DEF Next

(* Coordinator and expert together implement ArmControl: at most one of    *)
(* MoveIt and the expert controls the arm, the expert only after MoveIt's  *)
(* execution succeeded and from then on for good, and the run completes    *)
(* only while the expert is in control.                                    *)
THEOREM ControlKeptHolds == Spec => ControlKept
BY InitControl, StepControl, AlwaysHandover, PTL
   DEF Spec, ControlKept, Control!Spec

-----------------------------------------------------------------------------
(* The arm.                                                                *)

(* Before the coordinator has it armed, the expert has sent nothing; and   *)
(* it is armed once and for all.                                           *)
Untouched == ~armed => \A g \in 1..MaxGoals : server[g] = "unsent"

LEMMA InitUntouched == Init => Untouched
BY DEF Init, Expert!Init, Expert!Goals, Untouched

(* A disarmed expert sends nothing, and the controller has nothing to do.  *)
LEMMA ExpertKeepsUntouched ==
  Untouched /\ Expert!OwnNext => Untouched'
<1> SUFFICES ASSUME Untouched, Expert!OwnNext, ~armed
             PROVE  UNCHANGED server
  BY ExpertKeepsArmed DEF Untouched
<1>1. \A g \in 1..MaxGoals : server[g] = "unsent"
  BY DEF Untouched
<1> QED BY <1>1 DEF Expert!OwnNext, Expert!FeedbackArrives, Expert!FeedbackNotFinite,
       Expert!GoalAges, Expert!TickTimesOut, Expert!TickFails, Expert!Evaluates,
       Expert!TickSucceeds, Expert!TickCannotSubmit, Expert!TickCommands, Expert!Ticks,
       Expert!Commands, Expert!OnLateGoalResponse, Expert!OnGoalRefused,
       Expert!OnGoalAccepted, Expert!OnGoalResult, Expert!ControllerAnswers,
       Expert!ControllerEnds, Expert!Goals, Expert!serverVars

LEMMA NextUntouched == Untouched /\ [Next]_vars => Untouched'
<1> SUFFICES ASSUME Untouched, [Next]_vars PROVE Untouched'
  OBVIOUS
<1>1. CASE ExpertStep
  BY <1>1, ExpertKeepsUntouched DEF ExpertStep
<1>2. CASE CoordinatorStep \/ StatusDelivered
  BY <1>2 DEF CoordinatorStep, StatusDelivered, expertVars, Untouched
<1>3. CASE ArmCall
  BY <1>3 DEF ArmCall, Expert!SetArmed, Expert!serverVars, Untouched
<1>4. CASE UNCHANGED vars
  BY <1>4 DEF vars, expertVars, Untouched
<1> QED BY <1>1, <1>2, <1>3, <1>4 DEF Next

(* While MoveIt may move the arm, the expert has nothing at the controller *)
(* they share.                                                             *)
THEOREM NoContentionHolds == Spec => []NoContention
<1>1. Handover /\ Untouched => NoContention
  BY DEF Handover, Untouched, NoContention, Expert!Live
<1> QED BY <1>1, AlwaysHandover, InitUntouched, NextUntouched, PTL
           DEF Spec

-----------------------------------------------------------------------------
(* The outcome.                                                            *)

(* Where a success is to be found, from the coordinator back to the file:  *)
(* it completed on the expert's word, the word is the expert's last, and   *)
(* the expert said it with its capture written.                            *)
Demonstrated ==
  /\ status \in {"disarmed", "running", "success", "failed"}
  /\ latest \in {"none", "disarmed", "running", "success", "failed"}
  /\ status = "success" =>
       /\ terminal = TRUE
       /\ config.captures => capture.label = "success" /\ capture.frames # <<>>
  /\ latest = "success" => status = "success"
  /\ phase = "complete" => status = "success"
  /\ NoLostStatus

LEMMA InitDemonstrated == Init => Demonstrated
BY DEF Init, Demonstrated, Expert!Init, Coordinator!Init, NoLostStatus,
       Coordinator!NoLostStatus

(* An ending writes nothing else than the frames and their label.          *)
LEMMA AbortFails ==
  ASSUME NEW h, Expert!Abort(h)
  PROVE  status' = "failed"
BY DEF Expert!Abort

LEMMA CompleteWrites ==
  ASSUME Expert!Complete
  PROVE  /\ terminal' = TRUE
         /\ config' = config
         /\ status' \in {"success", "failed"}
         /\ status' = "success" /\ config.captures =>
              capture'.label = "success" /\ capture'.frames # <<>>
<1>1. CASE config.captures /\ frames = <<>>
  BY <1>1 DEF Expert!Complete, Expert!Abort
<1>2. CASE ~(config.captures /\ frames = <<>>)
  <2>1. PICK ok \in BOOLEAN :
          /\ Expert!Persists([frames |-> frames, label |-> label'], ok)
          /\ status' = IF ok THEN "success" ELSE "failed"
    BY <1>2 DEF Expert!Complete
  <2>2. terminal' = TRUE /\ config' = config
    BY <1>2 DEF Expert!Complete
  <2>3. ASSUME status' = "success", config.captures
        PROVE  capture'.label = "success" /\ capture'.frames # <<>>
    <3>1. ok
      BY <2>1, <2>3
    <3>2. capture' = [frames |-> frames, label |-> label']
      BY <2>1, <2>3, <3>1 DEF Expert!Persists
    <3>3. label' = "success" /\ frames # <<>>
      BY <1>2, <2>3 DEF Expert!Complete
    <3> QED BY <3>2, <3>3
  <2> QED BY <2>1, <2>2, <2>3
<1> QED BY <1>1, <1>2

(* After its end the expert changes nothing that the success speaks of,    *)
(* and before it only an ending changes its status.                        *)
LEMMA ExpertEnds ==
  ASSUME Expert!OwnNext
  PROVE  \/ UNCHANGED <<config, terminal, status, capture>>
         \/ terminal # TRUE /\ status' = "failed"
         \/ terminal # TRUE /\ Expert!Complete
BY AbortFails
   DEF Expert!OwnNext, Expert!FeedbackArrives, Expert!FeedbackNotFinite,
       Expert!GoalAges, Expert!TickTimesOut, Expert!TickFails,
       Expert!TickSucceeds, Expert!TickCannotSubmit, Expert!TickCommands,
       Expert!Ticks, Expert!Evaluates, Expert!Commands,
       Expert!OnLateGoalResponse, Expert!OnGoalRefused, Expert!OnGoalAccepted,
       Expert!OnGoalResult, Expert!ControllerAnswers, Expert!ControllerEnds,
       Expert!controlVars

LEMMA NextDemonstrated == Demonstrated /\ [Next]_vars => Demonstrated'
<1> SUFFICES ASSUME Demonstrated, [Next]_vars PROVE Demonstrated'
  OBVIOUS
<1> USE DEF Demonstrated, NoLostStatus, Coordinator!NoLostStatus
<1>1. CASE ExpertStep
  <2>1. UNCHANGED <<latest, phase>>
    BY <1>1 DEF ExpertStep, coordinatorVars
  <2>2. \/ UNCHANGED <<config, terminal, status, capture>>
        \/ terminal # TRUE /\ status' = "failed"
        \/ terminal # TRUE /\ Expert!Complete
    BY <1>1, ExpertEnds DEF ExpertStep
  <2>3. CASE UNCHANGED <<config, terminal, status, capture>>
    BY <2>1, <2>3
  <2>4. CASE terminal # TRUE /\ status' = "failed"
    BY <2>1, <2>4
  <2>5. CASE terminal # TRUE /\ Expert!Complete
    BY <2>1, <2>5, CompleteWrites
  <2> QED BY <2>2, <2>3, <2>4, <2>5
<1>2. CASE CoordinatorStep
  <2>1. UNCHANGED <<config, terminal, status, capture>>
    BY <1>2 DEF CoordinatorStep, expertVars
  <2>2. latest' = latest
    BY <1>2 DEF CoordinatorStep, Coordinator!OwnNext,
         Coordinator!JointStateArrives, Coordinator!JointStateNotFinite,
         Coordinator!PhaseAges, Coordinator!WaitAges, Coordinator!TickStarts,
         Coordinator!TickWaitsForMoveIt, Coordinator!TickTimesOut,
         Coordinator!TickVerifies, Coordinator!OnSceneResponse,
         Coordinator!OnPlanResponse, Coordinator!OnGoalResponse,
         Coordinator!OnResult, Coordinator!OnArmResponse,
         Coordinator!MoveItAnswers, Coordinator!MoveItEnds
  <2>3. CASE Coordinator!OnArmResponse
    BY <2>1, <2>2, <2>3 DEF Coordinator!OnArmResponse, Coordinator!Enter,
         Coordinator!Fail, Coordinator!PhaseAfter
  <2>4. CASE ~Coordinator!OnArmResponse
    <3>1. phase' = phase \/ phase' \notin {"complete", "waiting_for_expert"}
      BY <1>2, <2>4 DEF CoordinatorStep, Coordinator!OwnNext,
         Coordinator!Enter, Coordinator!Fail, Coordinator!RequestPlan,
         Coordinator!JointStateArrives, Coordinator!JointStateNotFinite,
         Coordinator!PhaseAges, Coordinator!WaitAges, Coordinator!TickStarts,
         Coordinator!TickWaitsForMoveIt, Coordinator!TickTimesOut,
         Coordinator!TickVerifies, Coordinator!OnSceneResponse,
         Coordinator!OnPlanResponse, Coordinator!OnGoalResponse,
         Coordinator!OnResult, Coordinator!MoveItAnswers, Coordinator!MoveItEnds
    <3> QED BY <2>1, <2>2, <3>1
  <2> QED BY <2>3, <2>4
<1>3. CASE ArmCall
  <2>1. UNCHANGED <<config, terminal, capture, phase, latest>>
    BY <1>3 DEF ArmCall, Coordinator!ArmCallAnswered, Expert!SetArmed
  <2>2. status' = status \/ (terminal # TRUE /\ status' \in {"running", "disarmed"})
    BY <1>3 DEF ArmCall, Expert!SetArmed
  <2> QED BY <2>1, <2>2
<1>4. CASE StatusDelivered
  <2>1. UNCHANGED <<config, terminal, status, capture>>
    BY <1>4 DEF StatusDelivered, expertVars
  <2>2. latest' = status
    BY <1>4 DEF StatusDelivered, Coordinator!StatusArrives
  <2>3. CASE phase = "waiting_for_expert" /\ Coordinator!PhaseAfter(status) # phase
    BY <1>4, <2>1, <2>2, <2>3 DEF StatusDelivered, Coordinator!StatusArrives,
         Coordinator!Enter, Coordinator!PhaseAfter
  <2>4. CASE ~(phase = "waiting_for_expert" /\ Coordinator!PhaseAfter(status) # phase)
    <3>1. phase' = phase
      BY <1>4, <2>4 DEF StatusDelivered, Coordinator!StatusArrives
    <3>2. phase = "waiting_for_expert" => status \in {"disarmed", "running"}
      BY <2>4 DEF Coordinator!PhaseAfter
    <3> QED BY <2>1, <2>2, <3>1, <3>2
  <2> QED BY <2>3, <2>4
<1>5. CASE UNCHANGED vars
  BY <1>5 DEF vars, expertVars, coordinatorVars
<1> QED BY <1>1, <1>2, <1>3, <1>4, <1>5 DEF Next

(* A run of the coordinator that completes has the expert's success on     *)
(* disk, if it captures, with the frames of the demonstration.             *)
THEOREM CompleteMeansDemonstratedHolds == Spec => []CompleteMeansDemonstrated
<1>1. Demonstrated => CompleteMeansDemonstrated
  BY DEF Demonstrated, CompleteMeansDemonstrated
<1> QED BY <1>1, InitDemonstrated, NextDemonstrated, PTL DEF Spec

(* No outcome of the expert that reached the coordinator is left unread,   *)
(* in whatever order it and the answer to the arming arrive.               *)
THEOREM NoLostStatusHolds == Spec => []NoLostStatus
<1>1. Demonstrated => NoLostStatus
  BY DEF Demonstrated
<1> QED BY <1>1, InitDemonstrated, NextDemonstrated, PTL DEF Spec

-----------------------------------------------------------------------------
(* What each node does by itself is also what it does here.                *)

LEMMA AlwaysDemonstrated == Spec => []Demonstrated
BY InitDemonstrated, NextDemonstrated, PTL DEF Spec

(* In the composition each node behaves as its own module says: what the   *)
(* theorems about HybridCoordinator and LocalExpert promise for any        *)
(* environment holds of the two nodes together.                            *)
THEOREM NodesKeepTheirSpecs == Spec => Coordinator!Spec /\ Expert!Spec
<1>1. Init => Coordinator!Init /\ Expert!Init
  BY DEF Init
<1>2. Demonstrated /\ [Next]_vars => [Coordinator!Next]_(Coordinator!vars)
  <2> SUFFICES ASSUME Demonstrated, [Next]_vars
               PROVE  [Coordinator!Next]_(Coordinator!vars)
    OBVIOUS
  <2>1. CASE ExpertStep \/ UNCHANGED vars
    BY <2>1 DEF ExpertStep, vars, coordinatorVars, Coordinator!vars,
         Coordinator!planVars
  <2>2. CASE CoordinatorStep
    BY <2>2 DEF CoordinatorStep, Coordinator!Next
  <2>3. CASE ArmCall
    BY <2>3 DEF ArmCall, Coordinator!Next
  <2>4. CASE StatusDelivered
    <3>1. status \in Coordinator!Statuses
      BY DEF Demonstrated, Coordinator!Statuses
    <3> QED BY <2>4, <3>1 DEF StatusDelivered, Coordinator!Next
  <2> QED BY <2>1, <2>2, <2>3, <2>4 DEF Next
<1>3. [Next]_vars => [Expert!Next]_(Expert!vars)
  <2> SUFFICES ASSUME [Next]_vars PROVE [Expert!Next]_(Expert!vars)
    OBVIOUS
  <2>1. CASE ExpertStep
    BY <2>1 DEF ExpertStep, Expert!Next
  <2>2. CASE CoordinatorStep \/ StatusDelivered \/ UNCHANGED vars
    BY <2>2 DEF CoordinatorStep, StatusDelivered, vars, expertVars, Expert!vars,
         Expert!controlVars, Expert!goalVars, Expert!bufferVars, Expert!serverVars
  <2>3. CASE ArmCall
    BY <2>3 DEF ArmCall, Expert!Next
  <2> QED BY <2>1, <2>2, <2>3 DEF Next
<1> QED BY <1>1, <1>2, <1>3, AlwaysDemonstrated, PTL
           DEF Spec, Coordinator!Spec, Expert!Spec
=============================================================================
