---------------------------- MODULE TeleopGoals ----------------------------
(***************************************************************************)
(* The goal lifecycle of the keyboard teleoperation node                   *)
(* (ros2_ws/.../keyboard_teleop.py) together with the recording session    *)
(* and the completion tracker it owns (teleop_demo_collection.py) and the  *)
(* trajectory controller it drives over a FollowJointTrajectory action.    *)
(*                                                                         *)
(* The node runs on a single-threaded executor: a timer polls one key, and *)
(* goal responses, results and cancel replies arrive as callbacks, each of *)
(* which runs to its end.  The controller is a separate process: it sees   *)
(* goal requests and cancel requests later than they are sent, and its     *)
(* answers reach the node later still and in any order across goals.       *)
(*                                                                         *)
(* Requests are numbered by the node's own request counter.  Motion,       *)
(* trajectories and observations are abstracted: a frame is the number of  *)
(* the request whose observation it holds.                                 *)
(***************************************************************************)
EXTENDS Naturals, Sequences

CONSTANTS
  MaxRequests,  \* bound on the request counter
  Faults        \* which calls to the controller may fail (see FaultKinds)

(* What may go wrong between the node and the controller:                  *)
(*   "send"      send_goal_async raises                                    *)
(*   "response"  the goal-response future raises                           *)
(*   "result"    the result future raises                                  *)
(*   "status"    the result carries a status that is not terminal          *)
(*   "cancel"    cancel_goal_async raises, or its reply is an exception or *)
(*               malformed                                                 *)
(*   "refuse"    the controller refuses to cancel an executing goal        *)
FaultKinds == {"send", "response", "result", "status", "cancel", "refuse"}

ASSUME MaxRequestsAssumption == MaxRequests \in Nat \ {0}
ASSUME FaultsAssumption == Faults \subseteq FaultKinds

Requests == 1..MaxRequests
NoRequest == 0                        \* Python's None

VARIABLES
  \* the trajectory controller and the channels between it and the node
  goal,        \* goal[r]: where the controller has got to with request r
  answered,    \* requests whose goal response the node has consumed
  watched,     \* requests whose result the node awaits
  cancel,      \* cancel[r]: the cancel request of r and its reply
  \* the node
  requestSequence,  \* _request_sequence
  activeRequest,    \* _active_request_id
  goalPending,      \* _goal_pending
  goalHandle,       \* _goal_handle, as the request it belongs to
  deadman,          \* "off", "fresh", or "lapsed": timed out, not yet polled
  reviewMode,       \* _review_mode
  stationary,       \* the motion guard holds sustained, fresh evidence
  aborted,          \* _aborted; the node then shuts down
  \* the recording session: _status ("off": no session), _frames, _pending_frame
  status, frames, pendingFrame,
  \* the completion tracker
  outstanding,      \* _outstanding
  cancelRequests,   \* _cancel_requests
  uncertain         \* _uncertain

controllerVars == <<goal, answered, watched, cancel>>
nodeVars == <<requestSequence, activeRequest, goalPending, goalHandle>>
operatorVars == <<deadman, reviewMode, stationary, aborted>>
sessionVars == <<status, frames, pendingFrame>>
trackerVars == <<outstanding, cancelRequests, uncertain>>
vars == <<controllerVars, nodeVars, operatorVars, sessionVars, trackerVars>>

GoalStates ==
  {"none", "requested", "executing", "canceling", "rejected", "terminal"}
CancelStates == {"none", "sent", "accepted", "refused", "replied"}
Outstanding == {"none", "submitted", "active"}

FlagsOK ==
  /\ goalPending \in BOOLEAN
  /\ reviewMode \in BOOLEAN
  /\ stationary \in BOOLEAN
  /\ aborted \in BOOLEAN
  /\ uncertain \in BOOLEAN

DataOK ==
  /\ goal \in [Requests -> GoalStates]
  /\ answered \subseteq Requests
  /\ watched \subseteq Requests
  /\ cancel \in [Requests -> CancelStates]
  /\ requestSequence \in 0..MaxRequests
  /\ activeRequest \in 0..MaxRequests
  /\ goalHandle \in 0..MaxRequests
  /\ deadman \in {"off", "fresh", "lapsed"}
  /\ status \in {"off", "recording", "accepted", "rejected", "aborted"}
  /\ frames \in Seq(Requests)
  /\ pendingFrame \in 0..MaxRequests
  /\ outstanding \in [Requests -> Outstanding]
  /\ cancelRequests \subseteq Requests

(* Every variable has its type.  (In two parts because the provers handle  *)
(* Boolean variables and the others by different means.)                   *)
TypeOK == FlagsOK /\ DataOK

(* Recording is opt-in: the session exists or not for the whole run.       *)
Init ==
  /\ goal = [r \in Requests |-> "none"]
  /\ answered = {}
  /\ watched = {}
  /\ cancel = [r \in Requests |-> "none"]
  /\ requestSequence = 0
  /\ activeRequest = NoRequest
  /\ goalPending = FALSE
  /\ goalHandle = NoRequest
  /\ deadman = "off"
  /\ reviewMode = FALSE
  /\ stationary = FALSE
  /\ aborted = FALSE
  /\ status \in {"off", "recording"}
  /\ frames = <<>>
  /\ pendingFrame = NoRequest
  /\ outstanding = [r \in Requests |-> "none"]
  /\ cancelRequests = {}
  /\ uncertain = FALSE

-----------------------------------------------------------------------------
(* The tracker and the predicates the node asks of it.                     *)

(* Mutants stand before the definition they replace, and are used by       *)
(* nothing else.                                                           *)
MutantSettledByCertainty == uncertain = FALSE

Settled == uncertain = FALSE /\ \A r \in Requests : outstanding[r] = "none"

InFlight ==
  \/ goalPending
  \/ activeRequest # NoRequest
  \/ goalHandle # NoRequest

(* Approval, rejection and resumption all wait for this.                   *)
ReviewReady ==
  /\ status = "recording"
  /\ reviewMode
  /\ ~aborted
  /\ Settled
  /\ ~InFlight
  /\ stationary

(* tracker.goal_response: only a submitted request may be resolved; any    *)
(* other call raises, and every caller turns the exception into invalidate.*)
TrackGoalResponse(r, accepted) ==
  IF outstanding[r] = "submitted"
  THEN /\ outstanding' =
            [outstanding EXCEPT ![r] = IF accepted THEN "active" ELSE "none"]
       /\ uncertain' = uncertain
  ELSE /\ outstanding' = outstanding
       /\ uncertain' = TRUE

MutantForgetLateGoal(r) ==
  TrackGoalResponse(r, TRUE) /\ UNCHANGED <<cancelRequests, watched, cancel>>

(* Cancelling a goal whose acceptance came too late: record the acceptance *)
(* and the intent, ask for the result, then send the cancel request.  For  *)
(* a request the tracker does not know, recording the intent raises and    *)
(* nothing is sent.                                                        *)
CancelLateGoal(r) ==
  LET known == outstanding[r] # "none"
      expected == outstanding[r] = "submitted"
  IN  /\ outstanding' =
           [outstanding EXCEPT ![r] = IF expected THEN "active" ELSE @]
      /\ cancelRequests' = cancelRequests \cup {q \in {r} : known}
      /\ watched' = watched \cup {q \in {r} : known}
      /\ \/ /\ cancel' = [cancel EXCEPT ![r] = IF known THEN "sent" ELSE @]
            /\ uncertain' = (uncertain \/ ~expected)
         \/ /\ "cancel" \in Faults
            /\ cancel' = cancel
            /\ uncertain' = TRUE

-----------------------------------------------------------------------------
(* Stopping.                                                               *)

MutantCommitWhatever(accepted) ==
  /\ frames' = IF status = "recording" /\ pendingFrame # NoRequest
               THEN Append(frames, pendingFrame)
               ELSE frames
  /\ pendingFrame' = IF status = "recording" THEN NoRequest ELSE pendingFrame

(* _resolve_pending_capture: a recording session commits or discards the   *)
(* staged frame, if there is one.                                          *)
ResolvePendingCapture(accepted) ==
  /\ frames' = IF accepted /\ status = "recording" /\ pendingFrame # NoRequest
               THEN Append(frames, pendingFrame)
               ELSE frames
  /\ pendingFrame' = IF status = "recording" THEN NoRequest ELSE pendingFrame

MutantForgetWithoutCancel ==
  /\ ResolvePendingCapture(FALSE)
  /\ activeRequest' = NoRequest
  /\ goalPending' = FALSE
  /\ goalHandle' = NoRequest
  /\ UNCHANGED <<controllerVars, requestSequence, trackerVars>>

MutantCancelUnrecorded ==
  /\ ResolvePendingCapture(FALSE)
  /\ activeRequest' = NoRequest
  /\ goalPending' = FALSE
  /\ goalHandle' = NoRequest
  /\ cancel' = [r \in Requests |-> IF r = goalHandle THEN "sent" ELSE cancel[r]]
  /\ UNCHANGED <<goal, answered, watched, requestSequence, trackerVars>>

(* _cancel_active_goal: forget the request on the node's side, keep it in  *)
(* the tracker, and send a cancel request when a goal handle is known.     *)
CancelActiveGoal ==
  /\ ResolvePendingCapture(FALSE)
  /\ activeRequest' = NoRequest
  /\ goalPending' = FALSE
  /\ goalHandle' = NoRequest
  /\ cancelRequests' =
       cancelRequests \cup
         {r \in Requests : r = activeRequest /\ outstanding[r] # "none"}
  /\ LET lost == IF activeRequest = NoRequest
                 THEN goalHandle # NoRequest \/ goalPending
                 ELSE outstanding[activeRequest] = "none"
     IN  \/ /\ goalHandle = NoRequest
            /\ uncertain' = (uncertain \/ lost)
            /\ cancel' = cancel
         \/ /\ goalHandle # NoRequest
            /\ uncertain' = (uncertain \/ lost)
            /\ cancel' = [cancel EXCEPT ![goalHandle] = "sent"]
         \/ /\ goalHandle # NoRequest
            /\ "cancel" \in Faults
            /\ uncertain' = TRUE
            /\ cancel' = cancel
  /\ UNCHANGED <<goal, answered, watched, requestSequence, outstanding>>

(* _stop: forget the deadman, then cancel.                                 *)
Stop == CancelActiveGoal /\ deadman' = "off"

-----------------------------------------------------------------------------
(* One poll of the keyboard (_poll_keyboard).  The deadman is checked      *)
(* before the key is read; every key but space and the jogs stops the node *)
(* anyway, so the check is visible in PollDeadman, KeySpace and KeyJog.    *)

(* No key, or a jog that the lapsed deadman makes the node ignore.         *)
PollDeadman ==
  /\ ~aborted
  /\ deadman = "lapsed"
  /\ CancelActiveGoal
  /\ deadman' = "off"
  /\ UNCHANGED <<reviewMode, stationary, aborted, status>>

KeySpace ==
  /\ ~aborted
  /\ ~reviewMode
  /\ deadman' = "fresh"
  /\ \/ /\ deadman = "lapsed"
        /\ CancelActiveGoal
     \/ /\ deadman # "lapsed"
        /\ UNCHANGED <<controllerVars, nodeVars, trackerVars, frames,
                       pendingFrame>>
  /\ UNCHANGED <<reviewMode, stationary, aborted, status>>

KeyStop ==
  /\ ~aborted
  /\ ~reviewMode
  /\ Stop
  /\ UNCHANGED <<reviewMode, stationary, aborted, status>>

(* Esc, in every mode.  rclpy.shutdown() ends the node: nothing it still   *)
(* awaits will be delivered.                                               *)
KeyAbort ==
  /\ ~aborted
  /\ Stop
  /\ aborted' = TRUE
  /\ status' = IF status = "recording" THEN "aborted" ELSE status
  /\ UNCHANGED <<reviewMode, stationary>>

(* The cartesian mode's wrench, reference and interpolation checks stop    *)
(* the node whenever one of them fails while a goal is in flight.          *)
SafetyStop ==
  /\ ~aborted
  /\ InFlight
  /\ Stop
  /\ UNCHANGED <<reviewMode, stationary, aborted, status>>

(* What _poll_keyboard asks before it hands a jog on.  A jog that fails    *)
(* this or one of the checks of KeyJog changes nothing.                    *)
JogAllowed ==
  /\ ~aborted
  /\ ~reviewMode
  /\ deadman = "fresh"
  /\ ~goalPending
  /\ Settled

(* _send_target and _stage_capture_for_target.                             *)
KeyJog ==
  /\ JogAllowed
  /\ status \in {"off", "recording"}
  /\ status = "recording" => pendingFrame = NoRequest
  /\ requestSequence < MaxRequests
  /\ requestSequence' = requestSequence + 1
  /\ outstanding' = [outstanding EXCEPT ![requestSequence'] = "submitted"]
  /\ \/ /\ goal' = [goal EXCEPT ![requestSequence'] = "requested"]
        /\ activeRequest' = requestSequence'
        /\ goalPending' = TRUE
        /\ pendingFrame' =
             IF status = "recording" THEN requestSequence' ELSE pendingFrame
        /\ UNCHANGED <<frames, uncertain>>
     \/ /\ "send" \in Faults
        /\ goal' = goal
        /\ activeRequest' = NoRequest
        /\ goalPending' = FALSE
        /\ UNCHANGED <<frames, pendingFrame>>   \* staged, then discarded
        /\ uncertain' = TRUE
  /\ UNCHANGED <<answered, watched, cancel, goalHandle, operatorVars,
                 status, cancelRequests>>

(* v: robot commands are blocked and the evidence starts afresh.           *)
KeyEnterReview ==
  /\ ~aborted
  /\ ~reviewMode
  /\ status = "recording"
  /\ Stop
  /\ reviewMode' = TRUE
  /\ stationary' = FALSE
  /\ UNCHANGED <<aborted, status>>

(* 0: back to jogging.                                                     *)
KeyResume ==
  /\ ReviewReady
  /\ reviewMode' = FALSE
  /\ stationary' = FALSE
  /\ UNCHANGED <<controllerVars, nodeVars, trackerVars, sessionVars,
                 deadman, aborted>>

(* 1 and 2.  What is written, and what happens when writing fails, is in   *)
(* TeleopApproval; a retry no longer changes the session.                  *)
KeyAccept ==
  /\ ReviewReady
  /\ frames # <<>>
  /\ pendingFrame = NoRequest
  /\ status' = "accepted"
  /\ UNCHANGED <<controllerVars, nodeVars, operatorVars, trackerVars,
                 frames, pendingFrame>>

(* 3 *)
KeyReject ==
  /\ ReviewReady
  /\ status' = "rejected"
  /\ pendingFrame' = NoRequest
  /\ UNCHANGED <<controllerVars, nodeVars, operatorVars, trackerVars, frames>>

-----------------------------------------------------------------------------
(* Callbacks of the action client.                                         *)

Accepted(r) == goal[r] \in {"executing", "canceling", "terminal"}

(* A response to a request that is no longer the active one: the recording *)
(* and the node's fields are left alone, an accepted goal is cancelled.    *)
OnStaleGoalResponse(r) ==
  /\ ~aborted
  /\ Accepted(r) \/ goal[r] = "rejected"
  /\ r \notin answered
  /\ r # activeRequest
  /\ answered' = answered \cup {r}
  /\ \/ /\ "response" \in Faults
        /\ uncertain' = TRUE
        /\ UNCHANGED <<outstanding, cancelRequests, watched, cancel>>
     \/ /\ goal[r] = "rejected"
        /\ TrackGoalResponse(r, FALSE)
        /\ UNCHANGED <<cancelRequests, watched, cancel>>
     \/ /\ Accepted(r)
        /\ CancelLateGoal(r)
  /\ UNCHANGED <<goal, nodeVars, operatorVars, sessionVars>>

(* A response to the active request that does not bring a goal handle.     *)
OnGoalRefused(r) ==
  /\ ~aborted
  /\ Accepted(r) \/ goal[r] = "rejected"
  /\ r \notin answered
  /\ r = activeRequest
  /\ answered' = answered \cup {r}
  /\ \/ /\ "response" \in Faults
        /\ uncertain' = TRUE
        /\ outstanding' = outstanding
     \/ /\ goal[r] = "rejected"
        /\ TrackGoalResponse(r, FALSE)
  /\ goalPending' = FALSE
  /\ activeRequest' = NoRequest
  /\ ResolvePendingCapture(FALSE)
  /\ UNCHANGED <<goal, watched, cancel, requestSequence, goalHandle,
                 operatorVars, status, cancelRequests>>

(* The active request is accepted.  The code re-checks that the operator   *)
(* has not cancelled or finalised meanwhile before it commits the frame.   *)
OnGoalAccepted(r) ==
  /\ ~aborted
  /\ Accepted(r)
  /\ r \notin answered
  /\ r = activeRequest
  /\ answered' = answered \cup {r}
  /\ IF ~goalPending \/ status \notin {"off", "recording"}
     THEN /\ CancelLateGoal(r)
          /\ ResolvePendingCapture(FALSE)
          /\ goalHandle' = NoRequest
          /\ goalPending' = FALSE
          /\ activeRequest' = NoRequest
     ELSE /\ TrackGoalResponse(r, TRUE)
          /\ goalHandle' = r
          /\ ResolvePendingCapture(TRUE)
          /\ watched' = watched \cup {r}
          /\ UNCHANGED <<cancel, cancelRequests, activeRequest, goalPending>>
  /\ UNCHANGED <<goal, requestSequence, operatorVars, status>>

(* _on_goal_result: the tracker hears of every result, the node's own      *)
(* fields are cleared only by the result of the active request.            *)
OnGoalResult(r) ==
  /\ ~aborted
  /\ r \in watched
  /\ watched' = watched \ {r}
  /\ \/ /\ goal[r] = "terminal"
        /\ IF outstanding[r] = "active"
           THEN /\ outstanding' = [outstanding EXCEPT ![r] = "none"]
                /\ uncertain' = uncertain
           ELSE outstanding' = outstanding /\ uncertain' = TRUE
     \/ /\ "status" \in Faults
        /\ outstanding' =
             [outstanding EXCEPT ![r] = IF @ = "active" THEN "none" ELSE @]
        /\ uncertain' = TRUE
     \/ /\ "result" \in Faults
        /\ outstanding' = outstanding
        /\ uncertain' = TRUE
  /\ IF r = activeRequest
     THEN /\ goalHandle' = NoRequest
          /\ goalPending' = FALSE
          /\ activeRequest' = NoRequest
     ELSE UNCHANGED <<goalHandle, goalPending, activeRequest>>
  /\ UNCHANGED <<goal, answered, cancel, requestSequence, operatorVars,
                 sessionVars, cancelRequests>>

MutantCancelCompletes(r) ==
  /\ ~aborted
  /\ cancel[r] \in {"accepted", "refused"}
  /\ cancel' = [cancel EXCEPT ![r] = "replied"]
  /\ outstanding' = [outstanding EXCEPT ![r] = "none"]
  /\ UNCHANGED <<goal, answered, watched, nodeVars, operatorVars, sessionVars,
                 cancelRequests, uncertain>>

(* _on_cancel_response: a reply never completes a goal; one that matches   *)
(* no accepted, outstanding request raises.  (_cancel_responses only feeds *)
(* a report and is left out.)                                              *)
OnCancelResponse(r) ==
  /\ ~aborted
  /\ cancel[r] \in {"accepted", "refused"}
  /\ cancel' = [cancel EXCEPT ![r] = "replied"]
  /\ \/ uncertain' = (\/ uncertain
                      \/ r \notin cancelRequests
                      \/ outstanding[r] = "submitted")
     \/ "cancel" \in Faults /\ uncertain' = TRUE
  /\ UNCHANGED <<goal, answered, watched, nodeVars, operatorVars, sessionVars,
                 outstanding, cancelRequests>>

-----------------------------------------------------------------------------
(* The surroundings: time, joint feedback and the controller.              *)

DeadmanTimeout ==
  /\ deadman = "fresh"
  /\ deadman' = "lapsed"
  /\ UNCHANGED <<controllerVars, nodeVars, trackerVars, sessionVars,
                 reviewMode, stationary, aborted>>

(* Joint feedback accumulates into, or breaks, the evidence the guard      *)
(* needs; ReviewMotionGuard models how.                                    *)
JointFeedback ==
  /\ ~aborted
  /\ status # "off"
  /\ stationary' = ~stationary
  /\ UNCHANGED <<controllerVars, nodeVars, trackerVars, sessionVars,
                 deadman, reviewMode, aborted>>

nonControllerVars == <<nodeVars, operatorVars, sessionVars, trackerVars>>

ControllerAnswers(r) ==
  /\ goal[r] = "requested"
  /\ \E answer \in {"executing", "rejected"} :
       goal' = [goal EXCEPT ![r] = answer]
  /\ UNCHANGED <<answered, watched, cancel, nonControllerVars>>

(* A trajectory ends: of itself, or because its cancellation takes effect. *)
ControllerFinishes(r) ==
  /\ goal[r] \in {"executing", "canceling"}
  /\ goal' = [goal EXCEPT ![r] = "terminal"]
  /\ UNCHANGED <<answered, watched, cancel, nonControllerVars>>

ControllerCompletesCancel(r) == goal[r] = "canceling" /\ ControllerFinishes(r)

(* A cancel request is accepted while the goal executes; it is refused for *)
(* a goal that has ended, or by a controller that may refuse.              *)
ControllerCancels(r) ==
  /\ cancel[r] = "sent"
  /\ \/ /\ goal[r] = "executing"
        /\ cancel' = [cancel EXCEPT ![r] = "accepted"]
        /\ goal' = [goal EXCEPT ![r] = "canceling"]
     \/ /\ goal[r] = "terminal" \/ "refuse" \in Faults
        /\ cancel' = [cancel EXCEPT ![r] = "refused"]
        /\ goal' = goal
  /\ UNCHANGED <<answered, watched, nonControllerVars>>

-----------------------------------------------------------------------------
Keys ==
  \/ PollDeadman \/ KeySpace \/ KeyStop \/ KeyAbort \/ KeyJog
  \/ KeyEnterReview \/ KeyResume \/ KeyAccept \/ KeyReject

Callbacks(r) ==
  \/ OnStaleGoalResponse(r) \/ OnGoalRefused(r) \/ OnGoalAccepted(r)
  \/ OnGoalResult(r) \/ OnCancelResponse(r)

Controller(r) ==
  ControllerAnswers(r) \/ ControllerFinishes(r) \/ ControllerCancels(r)

Next ==
  \/ Keys
  \/ SafetyStop
  \/ DeadmanTimeout
  \/ JointFeedback
  \/ \E r \in Requests : Callbacks(r) \/ Controller(r)

Spec == Init /\ [][Next]_vars

(* The executor keeps polling and runs every callback that is ready; the   *)
(* controller answers every request and every cancel request.  Nothing is  *)
(* assumed of the operator, nor that a trajectory ends of itself or that a *)
(* result fails before its time.                                           *)
Fairness ==
  /\ WF_vars(PollDeadman)
  /\ \A r \in Requests :
       /\ WF_vars(OnStaleGoalResponse(r) \/ OnGoalRefused(r) \/ OnGoalAccepted(r))
       /\ WF_vars(goal[r] = "terminal" /\ OnGoalResult(r))
       /\ WF_vars(OnCancelResponse(r))
       /\ WF_vars(ControllerAnswers(r))
       /\ WF_vars(ControllerCancels(r))
       /\ WF_vars(ControllerCompletesCancel(r))

FairSpec == Spec /\ Fairness

-----------------------------------------------------------------------------
(* Properties.                                                             *)

Moving == {r \in Requests : goal[r] \in {"requested", "executing", "canceling"}}

(* When the tracker reports that every goal is settled, the controller has *)
(* none left to execute: what review waits for (and what lets the next jog *)
(* go out) is the truth about the arm, whatever order acceptances, results *)
(* and cancel replies came in.                                             *)
SettledIsQuiet == Settled => Moving = {}

(* The node never has two goals under way at the controller.               *)
OneGoalAtATime == \A q, r \in Moving : q = r

(* A recorded frame belongs to a goal the controller accepted, and frames  *)
(* are in the order of their requests, none twice.                         *)
FramesWereAccepted ==
  \A i \in 1..Len(frames) :
    /\ frames[i] \in Requests
    /\ Accepted(frames[i])
    /\ \A j \in 1..(i - 1) : frames[j] < frames[i]

(* A staged observation belongs to the request the node still waits for:   *)
(* no acceptance can commit the observation of another goal.               *)
StagedFrameIsActive ==
  pendingFrame # NoRequest =>
    /\ pendingFrame = activeRequest
    /\ pendingFrame \notin answered

(* An executing goal the node no longer calls its own is being cancelled,  *)
(* or will be when its acceptance arrives, unless the tracker has recorded *)
(* that it lost track.                                                     *)
NoOrphanGoal ==
  \A r \in Requests :
    goal[r] = "executing" /\ r # activeRequest =>
      r \notin answered \/ cancel[r] # "none" \/ uncertain

(* The four fields that say whether the node has a goal in flight agree,   *)
(* and nothing is in flight in review or once the recording is final.  The *)
(* late-acceptance branch of OnGoalAccepted is therefore never taken.      *)
NodeFieldsAgree ==
  /\ goalPending <=> activeRequest # NoRequest
  /\ goalHandle # NoRequest => goalHandle = activeRequest
  /\ activeRequest # NoRequest =>
       ~reviewMode /\ ~aborted /\ status \in {"off", "recording"}

(* Unless it has recorded that it lost track, the tracker takes every      *)
(* answer that may still come: whatever the order of stops, responses,     *)
(* results and cancel replies, none of its methods raises of itself.       *)
EveryAnswerIsExpected ==
  ~uncertain =>
    \A r \in Requests :
      /\ goal[r] # "none" /\ r \notin answered => outstanding[r] = "submitted"
      /\ r \in watched => outstanding[r] = "active"
      /\ cancel[r] \in {"sent", "accepted", "refused"} =>
           r \in cancelRequests /\ outstanding[r] # "submitted"

(* The controller goes on with a goal that it was asked to cancel.         *)
Denied ==
  \E r \in Requests : goal[r] = "executing" /\ cancel[r] \in {"refused", "replied"}

GivenUp == uncertain \/ aborted \/ Denied

(* Entering review leads to a decision being possible: goals that were in  *)
(* flight, accepted or not, end because the node cancels them.             *)
ReviewSettles == reviewMode ~> (Settled \/ GivenUp)

(* Letting go of the deadman stops the arm.                                *)
DeadmanHalts == deadman = "lapsed" ~> (Moving = {} \/ GivenUp)
=============================================================================
