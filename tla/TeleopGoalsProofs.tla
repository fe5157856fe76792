------------------------- MODULE TeleopGoalsProofs -------------------------
(***************************************************************************)
(* Safety of the goal lifecycle of the keyboard teleoperation node, for    *)
(* any number of requests and any set of faults.                           *)
(***************************************************************************)
EXTENDS TeleopGoals, TLAPS

-----------------------------------------------------------------------------
(* Types.  The flags and the other variables are typed apart: the first is *)
(* propositional reasoning, the second sets and functions.                 *)

(* Every step keeps the types of the flags and of the statuses.            *)
LEMMA FlagsTyped == FlagsOK /\ [Next]_vars => FlagsOK'
<1> SUFFICES ASSUME FlagsOK, [Next]_vars PROVE FlagsOK'
  OBVIOUS
<1> USE DEF FlagsOK
<1>1. CASE Keys
  BY <1>1 DEF Keys, PollDeadman, KeySpace, KeyStop, KeyAbort, KeyJog, JogAllowed,
       KeyEnterReview, KeyResume, KeyAccept, KeyReject, Stop, CancelActiveGoal,
       ResolvePendingCapture, controllerVars, nodeVars, operatorVars,
       sessionVars, trackerVars
<1>2. CASE SafetyStop \/ DeadmanTimeout \/ JointFeedback
  BY <1>2 DEF SafetyStop, DeadmanTimeout, JointFeedback, Stop,
       CancelActiveGoal, controllerVars, nodeVars, sessionVars, trackerVars
<1>3. ASSUME NEW r \in Requests, Callbacks(r) PROVE FlagsOK'
  BY <1>3 DEF Callbacks, OnStaleGoalResponse, OnGoalRefused, OnGoalAccepted,
       OnGoalResult, OnCancelResponse, TrackGoalResponse, CancelLateGoal,
       nodeVars, operatorVars, sessionVars
<1>4. ASSUME NEW r \in Requests, Controller(r) PROVE FlagsOK'
  BY <1>4 DEF Controller, ControllerAnswers, ControllerFinishes,
       ControllerCancels, nonControllerVars, nodeVars, operatorVars, trackerVars
<1>5. CASE UNCHANGED vars
  BY <1>5 DEF vars, controllerVars, nodeVars, operatorVars, sessionVars, trackerVars
<1> QED BY <1>1, <1>2, <1>3, <1>4, <1>5 DEF Next

(* Committing or discarding the staged frame keeps the session typed.      *)
LEMMA ResolvePendingCaptureTyped ==
  ASSUME DataOK, NEW accepted \in BOOLEAN, ResolvePendingCapture(accepted)
  PROVE  frames' \in Seq(Requests) /\ pendingFrame' \in 0..MaxRequests
<1>1. pendingFrame # NoRequest => pendingFrame \in Requests
  BY DEF DataOK, Requests, NoRequest
<1>2. \/ frames' = frames
      \/ frames' = Append(frames, pendingFrame) /\ pendingFrame # NoRequest
  BY DEF ResolvePendingCapture
<1>3. frames' \in Seq(Requests)
  BY <1>1, <1>2 DEF DataOK
<1>4. pendingFrame' \in 0..MaxRequests
  BY MaxRequestsAssumption DEF ResolvePendingCapture, DataOK, NoRequest
<1> QED BY <1>3, <1>4

(* Stopping keeps the types, given those of what its caller assigns.       *)
LEMMA CancelActiveGoalTyped ==
  ASSUME DataOK, CancelActiveGoal, deadman' \in {"off", "fresh", "lapsed"},
         status' \in {"off", "recording", "accepted", "rejected", "aborted"}
  PROVE  DataOK'
<1>1. ResolvePendingCapture(FALSE)
  BY DEF CancelActiveGoal
<1>2. activeRequest' \in 0..MaxRequests /\ goalHandle' \in 0..MaxRequests
  BY MaxRequestsAssumption DEF CancelActiveGoal, NoRequest
<1>3. cancel' \in [Requests -> CancelStates]
  BY DEF DataOK, CancelActiveGoal, NoRequest, CancelStates, Requests
<1>4. cancelRequests' \subseteq Requests
  BY DEF DataOK, CancelActiveGoal
<1> QED BY <1>1, <1>2, <1>3, <1>4, ResolvePendingCaptureTyped
        DEF DataOK, CancelActiveGoal

(* Cancelling a goal that was accepted late keeps the tracker typed.       *)
LEMMA CancelLateGoalTyped ==
  ASSUME DataOK, NEW r \in Requests, CancelLateGoal(r)
  PROVE  /\ outstanding' \in [Requests -> Outstanding]
         /\ cancelRequests' \subseteq Requests
         /\ watched' \subseteq Requests
         /\ cancel' \in [Requests -> CancelStates]
BY DEF DataOK, CancelLateGoal, Outstanding, CancelStates

(* Every step keeps the types of the requests, the goals and the frames.   *)
LEMMA DataTyped == DataOK /\ [Next]_vars => DataOK'
<1> SUFFICES ASSUME DataOK, [Next]_vars PROVE DataOK'
  OBVIOUS
<1>1. CASE Keys
  <2>1. CASE PollDeadman
    BY <2>1, CancelActiveGoalTyped DEF PollDeadman, DataOK
  <2>2. CASE KeySpace
    <3>1. CASE CancelActiveGoal
      BY <2>2, <3>1, CancelActiveGoalTyped DEF KeySpace, DataOK
    <3>2. CASE UNCHANGED <<controllerVars, nodeVars, trackerVars, frames,
                           pendingFrame>>
      BY <2>2, <3>2 DEF DataOK, KeySpace, controllerVars, nodeVars, trackerVars
    <3> QED BY <2>2, <3>1, <3>2 DEF KeySpace
  <2>3. CASE KeyStop
    BY <2>3, CancelActiveGoalTyped DEF KeyStop, Stop, DataOK
  <2>4. CASE KeyAbort
    BY <2>4, CancelActiveGoalTyped DEF KeyAbort, Stop, DataOK
  <2>5. CASE KeyJog
    <3>1. requestSequence' \in Requests
      BY <2>5, MaxRequestsAssumption DEF DataOK, Requests, KeyJog
    <3>2. pendingFrame' \in 0..MaxRequests /\ activeRequest' \in 0..MaxRequests
      BY <2>5, <3>1, MaxRequestsAssumption
         DEF DataOK, KeyJog, Requests, NoRequest
    <3>3. /\ goal' \in [Requests -> GoalStates]
          /\ outstanding' \in [Requests -> Outstanding]
      BY <2>5, <3>1 DEF DataOK, KeyJog, GoalStates, Outstanding
    <3> QED BY <2>5, <3>1, <3>2, <3>3
            DEF DataOK, KeyJog, operatorVars, Requests
  <2>6. CASE KeyEnterReview
    BY <2>6, CancelActiveGoalTyped DEF KeyEnterReview, Stop, DataOK
  <2>7. CASE KeyResume \/ KeyAccept \/ KeyReject
    <3>1. pendingFrame' \in 0..MaxRequests /\ frames' \in Seq(Requests)
      BY <2>7, MaxRequestsAssumption
         DEF DataOK, KeyResume, KeyAccept, KeyReject, NoRequest, sessionVars
    <3> QED BY <2>7, <3>1
            DEF DataOK, KeyResume, KeyAccept, KeyReject, controllerVars,
                nodeVars, operatorVars, sessionVars, trackerVars
  <2> QED BY <1>1, <2>1, <2>2, <2>3, <2>4, <2>5, <2>6, <2>7 DEF Keys
<1>2. CASE SafetyStop
  BY <1>2, CancelActiveGoalTyped DEF SafetyStop, Stop, DataOK
<1>3. CASE DeadmanTimeout \/ JointFeedback
  BY <1>3 DEF DataOK, DeadmanTimeout, JointFeedback, controllerVars, nodeVars,
       sessionVars, trackerVars
<1>4. ASSUME NEW r \in Requests, Callbacks(r) PROVE DataOK'
  <2>1. CASE OnStaleGoalResponse(r)
    <3>1. /\ outstanding' \in [Requests -> Outstanding]
          /\ cancelRequests' \subseteq Requests
          /\ watched' \subseteq Requests
          /\ cancel' \in [Requests -> CancelStates]
      BY <2>1, CancelLateGoalTyped
         DEF DataOK, OnStaleGoalResponse, TrackGoalResponse, Outstanding
    <3> QED BY <2>1, <3>1
            DEF DataOK, OnStaleGoalResponse, nodeVars, operatorVars, sessionVars
  <2>2. CASE OnGoalRefused(r)
    <3>1. outstanding' \in [Requests -> Outstanding]
      BY <2>2 DEF DataOK, OnGoalRefused, TrackGoalResponse, Outstanding
    <3>2. activeRequest' \in 0..MaxRequests
      BY <2>2, MaxRequestsAssumption DEF OnGoalRefused, NoRequest
    <3>3. frames' \in Seq(Requests) /\ pendingFrame' \in 0..MaxRequests
      BY <2>2, ResolvePendingCaptureTyped DEF OnGoalRefused
    <3> QED BY <2>2, <3>1, <3>2, <3>3 DEF DataOK, OnGoalRefused, operatorVars
  <2>3. CASE OnGoalAccepted(r)
    <3>1. /\ outstanding' \in [Requests -> Outstanding]
          /\ cancelRequests' \subseteq Requests
          /\ watched' \subseteq Requests
          /\ cancel' \in [Requests -> CancelStates]
      BY <2>3, CancelLateGoalTyped
         DEF DataOK, OnGoalAccepted, TrackGoalResponse, Outstanding
    <3>2. activeRequest' \in 0..MaxRequests /\ goalHandle' \in 0..MaxRequests
      <4>1. r \in 0..MaxRequests /\ NoRequest \in 0..MaxRequests
        BY <1>4, MaxRequestsAssumption DEF Requests, NoRequest
      <4>2. activeRequest' \in {activeRequest, NoRequest}
        BY <2>3 DEF OnGoalAccepted
      <4>3. goalHandle' \in {r, NoRequest}
        BY <2>3 DEF OnGoalAccepted
      <4> QED BY <4>1, <4>2, <4>3 DEF DataOK
    <3>3. frames' \in Seq(Requests) /\ pendingFrame' \in 0..MaxRequests
      BY <2>3, ResolvePendingCaptureTyped DEF OnGoalAccepted
    <3> QED BY <2>3, <3>1, <3>2, <3>3 DEF DataOK, OnGoalAccepted, operatorVars
  <2>4. CASE OnGoalResult(r)
    <3>1. outstanding' \in [Requests -> Outstanding]
      BY <2>4 DEF DataOK, OnGoalResult, Outstanding
    <3>2. activeRequest' \in 0..MaxRequests /\ goalHandle' \in 0..MaxRequests
      BY <2>4, MaxRequestsAssumption DEF DataOK, OnGoalResult, NoRequest
    <3> QED BY <2>4, <3>1, <3>2
            DEF DataOK, OnGoalResult, operatorVars, sessionVars
  <2>5. CASE OnCancelResponse(r)
    BY <2>5 DEF DataOK, CancelStates, OnCancelResponse, nodeVars, operatorVars,
         sessionVars
  <2> QED BY <1>4, <2>1, <2>2, <2>3, <2>4, <2>5 DEF Callbacks
<1>5. ASSUME NEW r \in Requests, Controller(r) PROVE DataOK'
  BY <1>5 DEF DataOK, GoalStates, CancelStates, Controller, ControllerAnswers,
       ControllerFinishes, ControllerCancels, nonControllerVars, nodeVars,
       operatorVars, sessionVars, trackerVars
<1>6. CASE UNCHANGED vars
  BY <1>6 DEF DataOK, vars, controllerVars, nodeVars, operatorVars,
       sessionVars, trackerVars
<1> QED BY <1>1, <1>2, <1>3, <1>4, <1>5, <1>6 DEF Next

(* Every variable keeps its type, whatever the faults.                     *)
THEOREM TypeCorrect == Spec => []TypeOK
<1>1. Init => FlagsOK
  BY DEF Init, FlagsOK
<1>2. Init => DataOK
  BY MaxRequestsAssumption
     DEF Init, DataOK, GoalStates, CancelStates, Outstanding, NoRequest
<1>3. TypeOK /\ [Next]_vars => TypeOK'
  BY FlagsTyped, DataTyped DEF TypeOK
<1>4. Init => TypeOK
  BY <1>1, <1>2 DEF TypeOK
<1> QED BY <1>3, <1>4, PTL DEF Spec

-----------------------------------------------------------------------------
(* The tracker against the controller.                                     *)

(* What makes SettledIsQuiet inductive: each goal the controller has yet   *)
(* to answer, execute or finish cancelling is in the tracker's table,      *)
(* unless the tracker has recorded that it lost track.                     *)
Tracked == \A r \in Moving : outstanding[r] # "none" \/ uncertain

(* Stopping the arm asks for a cancellation and forgets no goal: what      *)
(* moves stays tracked.                                                    *)
LEMMA StopsKeepTracked ==
  ASSUME Tracked, CancelActiveGoal
  PROVE  Tracked'
BY DEF Tracked, Moving, CancelActiveGoal

(* Every step keeps each moving goal tracked, unless the tracker says that *)
(* it lost one.                                                            *)
LEMMA TrackedInductive == TypeOK /\ Tracked /\ [Next]_vars => Tracked'
<1> SUFFICES ASSUME DataOK, Tracked, [Next]_vars PROVE Tracked'
  BY DEF TypeOK
<1>1. CASE Keys
  <2>1. CASE CancelActiveGoal
    BY <2>1, StopsKeepTracked
  <2>2. CASE KeyJog
    <3>1. requestSequence' \in Requests
      BY <2>2, MaxRequestsAssumption DEF DataOK, Requests, KeyJog
    <3>2. outstanding' = [outstanding EXCEPT ![requestSequence'] = "submitted"]
      BY <2>2 DEF KeyJog
    <3>3. \A r \in Requests : r # requestSequence' => goal'[r] = goal[r]
      BY <2>2, <3>1 DEF KeyJog, DataOK
    <3>4. uncertain => uncertain'
      BY <2>2 DEF KeyJog
    <3> QED BY <3>1, <3>2, <3>3, <3>4 DEF Tracked, Moving, DataOK
  <2>3. CASE UNCHANGED <<goal, outstanding, uncertain>>
    BY <2>3 DEF Tracked, Moving
  <2> QED BY <1>1, <2>1, <2>2, <2>3
          DEF Keys, PollDeadman, KeySpace, KeyStop, KeyAbort, KeyEnterReview,
              KeyResume, KeyAccept, KeyReject, Stop, controllerVars, trackerVars
<1>2. CASE SafetyStop
  BY <1>2, StopsKeepTracked DEF SafetyStop, Stop
<1>3. CASE DeadmanTimeout \/ JointFeedback \/ UNCHANGED vars
  BY <1>3 DEF Tracked, Moving, DeadmanTimeout, JointFeedback, vars,
       controllerVars, trackerVars
<1>4. ASSUME NEW r \in Requests, Callbacks(r) PROVE Tracked'
  <2>1. goal' = goal
    BY <1>4 DEF Callbacks, OnStaleGoalResponse, OnGoalRefused, OnGoalAccepted,
         OnGoalResult, OnCancelResponse
  <2>2. \A q \in Requests : q # r => outstanding'[q] = outstanding[q]
    BY <1>4 DEF DataOK, Callbacks, OnStaleGoalResponse, OnGoalRefused,
         OnGoalAccepted, OnGoalResult, OnCancelResponse, TrackGoalResponse,
         CancelLateGoal
  <2>3. uncertain => uncertain'
    BY <1>4 DEF Callbacks, OnStaleGoalResponse, OnGoalRefused,
         OnGoalAccepted, OnGoalResult, OnCancelResponse, TrackGoalResponse,
         CancelLateGoal
  <2>4. r \in Moving => \/ outstanding[r] = "none"
                        \/ outstanding'[r] # "none"
                        \/ uncertain'
    BY <1>4 DEF DataOK, Moving, Accepted, Callbacks, OnStaleGoalResponse,
         OnGoalRefused, OnGoalAccepted, OnGoalResult, OnCancelResponse,
         TrackGoalResponse, CancelLateGoal
  <2> QED BY <2>1, <2>2, <2>3, <2>4 DEF Tracked, Moving
<1>5. ASSUME NEW r \in Requests, Controller(r) PROVE Tracked'
  <2>1. Moving' \subseteq Moving
    BY <1>5 DEF DataOK, Moving, Controller, ControllerAnswers,
         ControllerFinishes, ControllerCancels
  <2>2. UNCHANGED <<outstanding, uncertain>>
    BY <1>5 DEF Controller, ControllerAnswers, ControllerFinishes,
         ControllerCancels, nonControllerVars, trackerVars
  <2> QED BY <2>1, <2>2 DEF Tracked
<1> QED BY <1>1, <1>2, <1>3, <1>4, <1>5 DEF Next

(* Whatever order acceptances, results and cancel replies came in, and     *)
(* whichever of them failed: when the tracker says that every goal is      *)
(* settled, the controller has none left to execute.                       *)
THEOREM SettledIsQuietHolds == Spec => []SettledIsQuiet
<1>1. Init => Tracked
  BY DEF Init, Tracked, Moving
<1>2. TypeOK /\ Tracked => SettledIsQuiet
  BY DEF TypeOK, DataOK, Tracked, SettledIsQuiet, Settled, Moving
<1> QED BY <1>1, <1>2, TrackedInductive, TypeCorrect, PTL DEF Spec

(* A jog goes out only when nothing moves, so at most one goal ever does.   *)
THEOREM OneGoalAtATimeHolds == Spec => []OneGoalAtATime
<1>1. Init => OneGoalAtATime
  BY DEF Init, OneGoalAtATime, Moving
<1>2. TypeOK /\ SettledIsQuiet /\ OneGoalAtATime /\ [Next]_vars
        => OneGoalAtATime'
  <2> SUFFICES ASSUME DataOK, SettledIsQuiet, OneGoalAtATime, [Next]_vars
               PROVE  OneGoalAtATime'
    BY DEF TypeOK
  <2>1. CASE KeyJog
    <3>1. Moving = {}
      BY <2>1 DEF KeyJog, JogAllowed, SettledIsQuiet
    <3>2. \A r \in Requests : r # requestSequence' => goal'[r] = goal[r]
      BY <2>1 DEF KeyJog, DataOK
    <3>3. Moving' \subseteq {requestSequence'}
      BY <3>1, <3>2 DEF Moving
    <3> QED BY <3>3 DEF OneGoalAtATime
  <2>2. CASE Moving' \subseteq Moving
    BY <2>2 DEF OneGoalAtATime
  <2>3. CASE goal' = goal
    BY <2>2, <2>3 DEF Moving
  <2>4. ASSUME NEW r \in Requests, Controller(r) PROVE Moving' \subseteq Moving
    BY <2>4 DEF DataOK, Moving, Controller, ControllerAnswers,
         ControllerFinishes, ControllerCancels
  <2> QED
    BY <2>1, <2>2, <2>3, <2>4
       DEF Next, Keys, PollDeadman, KeySpace, KeyStop, KeyAbort, KeyEnterReview,
           KeyResume, KeyAccept, KeyReject, SafetyStop, Stop, CancelActiveGoal,
           DeadmanTimeout, JointFeedback, Callbacks, OnStaleGoalResponse,
           OnGoalRefused, OnGoalAccepted, OnGoalResult, OnCancelResponse,
           vars, controllerVars
<1> QED BY <1>1, <1>2, TypeCorrect, SettledIsQuietHolds, PTL DEF Spec

-----------------------------------------------------------------------------
(* The node's own fields, and the frame it has staged.                     *)

(* What NodeFieldsAgree and StagedFrameIsActive need of the request        *)
(* numbers: the active request is the newest, requests beyond the counter  *)
(* are unused, and what was answered was first requested.                  *)
Numbering ==
  /\ \A r \in Requests : r > requestSequence => goal[r] = "none"
  /\ \A r \in answered : goal[r] \notin {"none", "requested"}
  /\ activeRequest # NoRequest => activeRequest = requestSequence
  /\ activeRequest \in answered => goalHandle = activeRequest
  /\ goalHandle # NoRequest => goalHandle \in answered
  /\ watched \subseteq answered
  /\ status = "off" => pendingFrame = NoRequest

(* Every step keeps the fields of the node that speak of its goal in       *)
(* agreement.                                                              *)
LEMMA NodeFieldsInductive ==
  NodeFieldsAgree /\ Numbering /\ TypeOK /\ [Next]_vars => NodeFieldsAgree'
<1> SUFFICES ASSUME NodeFieldsAgree, Numbering, TypeOK, [Next]_vars
             PROVE  NodeFieldsAgree'
  OBVIOUS
<1> USE DEF NodeFieldsAgree
<1>1. CASE Keys
  <2>1. CASE CancelActiveGoal
    BY <2>1 DEF CancelActiveGoal
  <2>2. CASE KeyJog
    <3>1. requestSequence' # NoRequest
      BY <2>2 DEF KeyJog, TypeOK, DataOK, NoRequest
    <3> QED BY <2>2, <3>1 DEF KeyJog, JogAllowed, operatorVars
  <2>3. CASE KeyResume \/ KeyAccept \/ KeyReject
    BY <2>3 DEF KeyResume, KeyAccept, KeyReject, ReviewReady, InFlight,
         nodeVars, operatorVars, sessionVars
  <2>4. CASE KeySpace
    BY <2>1, <2>4 DEF KeySpace, nodeVars
  <2> QED BY <1>1, <2>1, <2>2, <2>3, <2>4
          DEF Keys, PollDeadman, KeyStop, KeyAbort, KeyEnterReview, Stop
<1>2. CASE SafetyStop
  BY <1>2 DEF SafetyStop, Stop, CancelActiveGoal
<1>3. CASE DeadmanTimeout \/ JointFeedback \/ UNCHANGED vars
  BY <1>3 DEF DeadmanTimeout, JointFeedback, vars, nodeVars, operatorVars,
       sessionVars
<1>4. ASSUME NEW r \in Requests, Callbacks(r) PROVE NodeFieldsAgree'
  <2>1. UNCHANGED <<reviewMode, aborted, status>>
    BY <1>4 DEF Callbacks, OnStaleGoalResponse, OnGoalRefused, OnGoalAccepted,
         OnGoalResult, OnCancelResponse, operatorVars, sessionVars
  <2>2. \/ UNCHANGED <<goalPending, activeRequest, goalHandle>>
        \/ /\ goalPending' = FALSE
           /\ activeRequest' = NoRequest
           /\ goalHandle' = NoRequest
        \/ UNCHANGED <<goalPending, activeRequest>> /\ goalHandle' = activeRequest
    BY <1>4 DEF Numbering, Callbacks, OnStaleGoalResponse, OnGoalRefused,
         OnGoalAccepted,
         OnGoalResult, OnCancelResponse, nodeVars
  <2> QED BY <2>1, <2>2
<1>5. ASSUME NEW r \in Requests, Controller(r) PROVE NodeFieldsAgree'
  BY <1>5 DEF Controller, ControllerAnswers, ControllerFinishes,
       ControllerCancels, nonControllerVars, nodeVars, operatorVars, sessionVars
<1> QED BY <1>1, <1>2, <1>3, <1>4, <1>5 DEF Next

(* Every step keeps the numbering: requests are numbered as they are sent  *)
(* and what the node holds is one of them.                                 *)
LEMMA NumberingInductive ==
  NodeFieldsAgree /\ Numbering /\ TypeOK /\ [Next]_vars => Numbering'
<1> SUFFICES ASSUME NodeFieldsAgree, Numbering, DataOK, [Next]_vars
             PROVE  Numbering'
  BY DEF TypeOK
<1>1. CASE Keys
  <2>1. CASE CancelActiveGoal /\ (status = "off" <=> status' = "off")
    <3>1. NoRequest \notin answered
      BY DEF DataOK, Requests, NoRequest
    <3> QED BY <2>1, <3>1 DEF Numbering, CancelActiveGoal, ResolvePendingCapture
  <2>2. CASE KeyJog
    <3>1. requestSequence' = requestSequence + 1 /\ requestSequence' \in Requests
      BY <2>2, MaxRequestsAssumption DEF DataOK, Requests, KeyJog
    <3>2. goalHandle' = NoRequest
      BY <2>2 DEF KeyJog, JogAllowed, NodeFieldsAgree
    <3>3. \A r \in Requests : r # requestSequence' => goal'[r] = goal[r]
      BY <2>2 DEF KeyJog, DataOK
    <3>4. requestSequence' \notin answered
      BY <3>1 DEF Numbering, DataOK
    <3>5. NoRequest \notin answered
      BY DEF DataOK, Requests, NoRequest
    <3>6. activeRequest' \in {NoRequest, requestSequence'}
      BY <2>2 DEF KeyJog
    <3>7. status' = "off" => pendingFrame' = NoRequest
      BY <2>2 DEF KeyJog, Numbering
    <3>8. answered' = answered /\ watched' = watched
      BY <2>2 DEF KeyJog
    <3> QED BY <3>1, <3>2, <3>3, <3>4, <3>5, <3>6, <3>7, <3>8
            DEF Numbering, DataOK, Requests
  <2>3. CASE KeyResume \/ KeyAccept \/ KeyReject
    BY <2>3 DEF Numbering, KeyResume, KeyAccept, KeyReject, controllerVars,
         nodeVars, sessionVars
  <2>4. CASE KeySpace
    BY <2>1, <2>4 DEF Numbering, KeySpace, controllerVars, nodeVars
  <2> QED BY <1>1, <2>1, <2>2, <2>3, <2>4
          DEF Keys, PollDeadman, KeyStop, KeyAbort, KeyEnterReview, Stop
<1>2. CASE SafetyStop
  <2>1. NoRequest \notin answered
    BY DEF DataOK, Requests, NoRequest
  <2> QED BY <1>2, <2>1 DEF Numbering, SafetyStop, Stop, CancelActiveGoal,
                ResolvePendingCapture
<1>3. CASE DeadmanTimeout \/ JointFeedback \/ UNCHANGED vars
  BY <1>3 DEF Numbering, DeadmanTimeout, JointFeedback, vars, controllerVars,
       nodeVars, sessionVars
<1>4. ASSUME NEW r \in Requests, Callbacks(r) PROVE Numbering'
  <2>1. UNCHANGED <<goal, requestSequence, status>>
    BY <1>4 DEF Callbacks, OnStaleGoalResponse, OnGoalRefused, OnGoalAccepted,
         OnGoalResult, OnCancelResponse, nodeVars, sessionVars
  <2>2. status = "off" => pendingFrame' = NoRequest
    BY <1>4 DEF Numbering, Callbacks, OnStaleGoalResponse, OnGoalRefused,
         OnGoalAccepted, OnGoalResult, OnCancelResponse, sessionVars,
         ResolvePendingCapture
  <2>3. /\ answered' \in {answered, answered \cup {r}}
        /\ r \in answered' => r \in answered \/ goal[r] \notin {"none", "requested"}
    BY <1>4 DEF Callbacks, OnStaleGoalResponse, OnGoalRefused, OnGoalAccepted,
         OnGoalResult, OnCancelResponse, Accepted
  <2>4. \/ /\ UNCHANGED <<activeRequest, goalHandle>>
           /\ answered' = answered \/ r # activeRequest
        \/ activeRequest' = NoRequest /\ goalHandle' = NoRequest
        \/ /\ activeRequest' = activeRequest
           /\ goalHandle' = activeRequest
           /\ activeRequest \in answered'
    BY <1>4 DEF Numbering, NodeFieldsAgree, Callbacks, OnStaleGoalResponse,
         OnGoalRefused, OnGoalAccepted, OnGoalResult, OnCancelResponse, nodeVars
  <2>5. NoRequest \notin Requests
    BY DEF Requests, NoRequest
  <2>6. watched' \subseteq answered'
    BY <1>4 DEF Numbering, Callbacks, OnStaleGoalResponse, OnGoalRefused,
         OnGoalAccepted, OnGoalResult, OnCancelResponse, CancelLateGoal
  <2> QED BY <2>1, <2>2, <2>3, <2>4, <2>5, <2>6 DEF Numbering, DataOK
<1>5. ASSUME NEW r \in Requests, Controller(r) PROVE Numbering'
  BY <1>5 DEF Numbering, DataOK, Controller, ControllerAnswers,
       ControllerFinishes, ControllerCancels, nonControllerVars, nodeVars,
       sessionVars
<1> QED BY <1>1, <1>2, <1>3, <1>4, <1>5 DEF Next

(* The agreement of the fields and the numbering hold together in every    *)
(* reachable state.                                                        *)
LEMMA FieldsAndNumbers == Spec => [](NodeFieldsAgree /\ Numbering)
<1>1. Init => NodeFieldsAgree /\ Numbering
  BY DEF Init, NodeFieldsAgree, Numbering
<1> QED BY <1>1, TypeCorrect, NodeFieldsInductive, NumberingInductive, PTL
        DEF Spec

(* The four fields that say whether the node has a goal in flight agree,   *)
(* and nothing is in flight in review or once the recording is final.      *)
THEOREM NodeFieldsAgreeHolds == Spec => []NodeFieldsAgree
<1> QED BY FieldsAndNumbers, PTL

(* A staged observation belongs to the request the node still waits for.   *)
THEOREM StagedFrameIsActiveHolds == Spec => []StagedFrameIsActive
<1>1. Init => StagedFrameIsActive
  BY DEF Init, StagedFrameIsActive
<1>2. /\ TypeOK /\ NodeFieldsAgree /\ Numbering /\ StagedFrameIsActive
      /\ [Next]_vars
      => StagedFrameIsActive'
  <2> SUFFICES ASSUME DataOK, NodeFieldsAgree, Numbering, StagedFrameIsActive,
                      [Next]_vars
               PROVE  StagedFrameIsActive'
    BY DEF TypeOK
  <2>1. CASE CancelActiveGoal
    \* a final recording has no active request, hence nothing staged
    BY <2>1 DEF CancelActiveGoal, ResolvePendingCapture, StagedFrameIsActive,
         NodeFieldsAgree, Numbering
  <2>2. CASE KeyJog
    <3>1. requestSequence' = requestSequence + 1 /\ requestSequence' \in Requests
      BY <2>2, MaxRequestsAssumption DEF DataOK, Requests, KeyJog
    <3>2. requestSequence' \notin answered /\ answered' = answered
      BY <2>2, <3>1 DEF Numbering, DataOK, KeyJog
    <3>3. \/ pendingFrame' = NoRequest
          \/ pendingFrame' = requestSequence' /\ activeRequest' = requestSequence'
      BY <2>2 DEF KeyJog, Numbering
    <3> QED BY <3>2, <3>3 DEF StagedFrameIsActive
  <2>3. CASE UNCHANGED <<activeRequest, answered>>
             /\ pendingFrame' \in {pendingFrame, NoRequest}
    BY <2>3 DEF StagedFrameIsActive
  <2>4. ASSUME NEW r \in Requests, Callbacks(r) PROVE StagedFrameIsActive'
    <3>1. r # NoRequest
      BY DEF Requests, NoRequest
    <3>2. CASE OnStaleGoalResponse(r) \/ OnCancelResponse(r)
      <4>1. UNCHANGED <<activeRequest, pendingFrame>>
        BY <3>2 DEF OnStaleGoalResponse, OnCancelResponse, nodeVars, sessionVars
      <4>2. activeRequest \in answered' => activeRequest \in answered
        BY <3>2 DEF OnStaleGoalResponse, OnCancelResponse
      <4> QED BY <4>1, <4>2 DEF StagedFrameIsActive
    <3>3. CASE OnGoalResult(r)
      BY <3>3 DEF StagedFrameIsActive, Numbering, OnGoalResult, sessionVars
    <3>4. CASE OnGoalRefused(r)
      BY <3>1, <3>4 DEF StagedFrameIsActive, OnGoalRefused, NodeFieldsAgree,
                        Numbering, ResolvePendingCapture
    <3>5. CASE OnGoalAccepted(r)
      <4>1. status = "off" \/ status = "recording"
        BY <3>1, <3>5 DEF OnGoalAccepted, NodeFieldsAgree
      <4>2. status = "off" => pendingFrame = NoRequest
        BY DEF Numbering
      <4>3. ResolvePendingCapture(FALSE) \/ ResolvePendingCapture(TRUE)
        BY <3>5 DEF OnGoalAccepted
      <4>4. pendingFrame' = NoRequest
        BY <4>1, <4>2, <4>3 DEF ResolvePendingCapture
      <4> QED BY <4>4 DEF StagedFrameIsActive
    <3> QED BY <2>4, <3>2, <3>3, <3>4, <3>5 DEF Callbacks
  <2>5. ASSUME NEW r \in Requests, Controller(r)
        PROVE  UNCHANGED <<activeRequest, answered, pendingFrame>>
    BY <2>5 DEF Controller, ControllerAnswers, ControllerFinishes,
         ControllerCancels, nonControllerVars, nodeVars, sessionVars
  <2> QED
    BY <2>1, <2>2, <2>3, <2>4, <2>5
       DEF Next, Keys, PollDeadman, KeySpace, KeyStop, KeyAbort, KeyEnterReview,
           KeyResume, KeyAccept, KeyReject, SafetyStop, Stop, DeadmanTimeout,
           JointFeedback, vars, controllerVars, nodeVars, sessionVars
<1> QED BY <1>1, <1>2, TypeCorrect, FieldsAndNumbers, PTL DEF Spec

-----------------------------------------------------------------------------
(* What gets into a recording.                                             *)

(* Every recorded frame's request has been answered.                       *)
FramesAnswered == \A i \in 1..Len(frames) : frames[i] \in answered

(* Only OnGoalAccepted records, and it records the request it answers.     *)
LEMMA OnlyAcceptanceRecords ==
  ASSUME TypeOK, NodeFieldsAgree, Numbering, StagedFrameIsActive, [Next]_vars
  PROVE  \/ frames' = frames /\ answered \subseteq answered'
         \/ \E r \in Requests :
              /\ Accepted(r)
              /\ r = requestSequence
              /\ r \notin answered
              /\ answered' = answered \cup {r}
              /\ frames' = Append(frames, r)
<1>1. CASE Keys \/ SafetyStop \/ DeadmanTimeout \/ JointFeedback \/ UNCHANGED vars
  BY <1>1 DEF Keys, PollDeadman, KeySpace, KeyStop, KeyAbort, KeyJog,
       KeyEnterReview, KeyResume, KeyAccept, KeyReject, SafetyStop, Stop,
       CancelActiveGoal, ResolvePendingCapture, DeadmanTimeout, JointFeedback,
       vars, controllerVars, sessionVars
<1>2. ASSUME NEW r \in Requests, Controller(r)
      PROVE  frames' = frames /\ answered' = answered
  BY <1>2 DEF Controller, ControllerAnswers, ControllerFinishes,
       ControllerCancels, nonControllerVars, sessionVars
<1>3. ASSUME NEW r \in Requests, OnGoalAccepted(r)
      PROVE  \/ frames' = frames /\ answered \subseteq answered'
             \/ /\ Accepted(r)
                /\ r = requestSequence
                /\ r \notin answered
                /\ answered' = answered \cup {r}
                /\ frames' = Append(frames, r)
  <2>1. r # NoRequest
    BY DEF Requests, NoRequest
  <2>2. /\ Accepted(r)
        /\ r = activeRequest
        /\ r \notin answered
        /\ answered' = answered \cup {r}
    BY <1>3 DEF OnGoalAccepted
  <2>3. ResolvePendingCapture(FALSE) \/ ResolvePendingCapture(TRUE)
    BY <1>3 DEF OnGoalAccepted
  <2>4. \/ frames' = frames
        \/ frames' = Append(frames, pendingFrame) /\ pendingFrame # NoRequest
    BY <2>3 DEF ResolvePendingCapture
  <2> QED BY <2>1, <2>2, <2>4 DEF Numbering, StagedFrameIsActive
<1>4. ASSUME NEW r \in Requests,
             \/ OnStaleGoalResponse(r) \/ OnGoalRefused(r)
             \/ OnGoalResult(r) \/ OnCancelResponse(r)
      PROVE  frames' = frames /\ answered \subseteq answered'
  BY <1>4 DEF OnStaleGoalResponse, OnGoalRefused, OnGoalResult,
       OnCancelResponse, ResolvePendingCapture, sessionVars
<1> QED BY <1>1, <1>2, <1>3, <1>4 DEF Next, Callbacks

(* An acceptance is never taken back.                                      *)
LEMMA AcceptedIsStable ==
  ASSUME TypeOK, Numbering, [Next]_vars, NEW r \in Requests, Accepted(r)
  PROVE  Accepted(r)'
<1>1. CASE goal' = goal
  BY <1>1 DEF Accepted
<1>2. CASE KeyJog
  <2>1. requestSequence' > requestSequence
    BY <1>2 DEF KeyJog, TypeOK, DataOK
  <2>2. goal'[r] = goal[r]
    BY <1>2, <2>1 DEF KeyJog, Numbering, Accepted, TypeOK, DataOK
  <2> QED BY <2>2 DEF Accepted
<1>3. ASSUME NEW q \in Requests, Controller(q) PROVE Accepted(r)'
  BY <1>3 DEF TypeOK, DataOK, Accepted, Controller, ControllerAnswers,
       ControllerFinishes, ControllerCancels
<1> QED
  BY <1>1, <1>2, <1>3
     DEF Next, Keys, PollDeadman, KeySpace, KeyStop, KeyAbort, KeyEnterReview,
         KeyResume, KeyAccept, KeyReject, SafetyStop, Stop, CancelActiveGoal,
         DeadmanTimeout, JointFeedback, Callbacks, OnStaleGoalResponse,
         OnGoalRefused, OnGoalAccepted, OnGoalResult, OnCancelResponse,
         vars, controllerVars

(* A recorded frame belongs to a goal the controller accepted, and frames  *)
(* are in the order of their requests, none twice.                         *)
THEOREM FramesWereAcceptedHolds == Spec => []FramesWereAccepted
<1> DEFINE Inv == FramesWereAccepted /\ FramesAnswered
<1>1. Init => Inv
  BY DEF Init, FramesWereAccepted, FramesAnswered
<1>2. /\ TypeOK /\ NodeFieldsAgree /\ Numbering /\ StagedFrameIsActive /\ Inv
      /\ [Next]_vars
      => Inv'
  <2> SUFFICES ASSUME TypeOK, NodeFieldsAgree, Numbering, StagedFrameIsActive,
                      Inv, [Next]_vars
               PROVE  Inv'
    OBVIOUS
  <2>1. CASE frames' = frames /\ answered \subseteq answered'
    BY <2>1, AcceptedIsStable DEF FramesWereAccepted, FramesAnswered
  <2>2. ASSUME NEW r \in Requests, Accepted(r), r = requestSequence,
               r \notin answered, answered' = answered \cup {r},
               frames' = Append(frames, r)
        PROVE  Inv'
    <3>1. \A i \in 1..Len(frames) : frames[i] < r
      <4>1. \A i \in 1..Len(frames) :
              frames[i] \in Requests /\ frames[i] \in answered
        BY DEF FramesWereAccepted, FramesAnswered
      <4>2. \A q \in answered : ~(q > requestSequence)
        BY DEF Numbering, TypeOK, DataOK
      <4> QED BY <2>2, <4>1, <4>2 DEF Requests
    <3>2. /\ Len(frames') = Len(frames) + 1
          /\ \A i \in 1..Len(frames) : frames'[i] = frames[i]
          /\ frames'[Len(frames) + 1] = r
          /\ Len(frames) \in Nat
      BY <2>2 DEF TypeOK, DataOK
    <3>3. FramesAnswered'
      BY <2>2, <3>2 DEF FramesAnswered
    <3>4. ASSUME NEW i \in 1..Len(frames')
          PROVE  /\ frames'[i] \in Requests
                 /\ goal'[frames'[i]] \in {"executing", "canceling", "terminal"}
                 /\ \A j \in 1..(i - 1) : frames'[j] < frames'[i]
      <4>1. CASE i \in 1..Len(frames)
        <5>1. frames'[i] = frames[i]
          BY <3>2, <4>1
        <5>2. frames[i] \in Requests /\ Accepted(frames[i])
          BY <4>1 DEF FramesWereAccepted
        <5>3. \A j \in 1..(i - 1) : frames[j] < frames[i]
          BY <4>1 DEF FramesWereAccepted
        <5>4. \A j \in 1..(i - 1) : frames'[j] = frames[j]
          BY <3>2, <4>1
        <5> QED BY <5>1, <5>2, <5>3, <5>4, AcceptedIsStable DEF Accepted
      <4>2. CASE i = Len(frames) + 1
        BY <2>2, <3>1, <3>2, <4>2, AcceptedIsStable DEF Accepted
      <4> QED BY <3>2, <4>1, <4>2
    <3> QED BY <3>3, <3>4 DEF FramesWereAccepted, Accepted
  <2> QED BY <2>1, <2>2, OnlyAcceptanceRecords
<1> QED BY <1>1, <1>2, TypeCorrect, FieldsAndNumbers, StagedFrameIsActiveHolds,
        PTL DEF Spec

-----------------------------------------------------------------------------
(* No goal runs on unnoticed.                                              *)

(* Every step keeps each goal that moves under somebody's care.            *)
LEMMA NoOrphanInductive ==
  TypeOK /\ NodeFieldsAgree /\ Numbering /\ NoOrphanGoal /\ [Next]_vars
    => NoOrphanGoal'
<1> SUFFICES ASSUME DataOK, NodeFieldsAgree, Numbering, NoOrphanGoal,
                    [Next]_vars
             PROVE  NoOrphanGoal'
  BY DEF TypeOK
<1>1. CASE CancelActiveGoal
  <2> SUFFICES ASSUME NEW r \in Requests, goal[r] = "executing", r \in answered
               PROVE  cancel'[r] # "none" \/ uncertain'
    BY <1>1 DEF NoOrphanGoal, CancelActiveGoal
  <2>1. cancel[r] # "none" => cancel'[r] # "none"
    BY <1>1 DEF CancelActiveGoal, DataOK
  <2>2. uncertain => uncertain'
    BY <1>1 DEF CancelActiveGoal
  <2>3. CASE r # activeRequest
    BY <2>1, <2>2, <2>3 DEF NoOrphanGoal
  <2>4. CASE r = activeRequest
    <3>1. goalHandle = r /\ r # NoRequest
      BY <2>4 DEF Numbering, Requests, NoRequest
    <3> QED BY <1>1, <3>1 DEF CancelActiveGoal, DataOK
  <2> QED BY <2>3, <2>4
<1>2. CASE KeyJog
  <2>1. activeRequest = NoRequest
    BY <1>2 DEF KeyJog, JogAllowed, NodeFieldsAgree
  <2>2. \A r \in Requests : goal'[r] = "executing" => goal[r] = "executing"
    BY <1>2 DEF KeyJog, DataOK
  <2>3. UNCHANGED <<answered, cancel>> /\ (uncertain => uncertain')
    BY <1>2 DEF KeyJog
  <2> QED BY <2>1, <2>2, <2>3 DEF NoOrphanGoal, Requests, NoRequest
<1>3. CASE UNCHANGED <<goal, answered, cancel, activeRequest, uncertain>>
  BY <1>3 DEF NoOrphanGoal
<1>4. ASSUME NEW r \in Requests, Callbacks(r) PROVE NoOrphanGoal'
  <2>1. goal' = goal /\ (uncertain => uncertain')
    BY <1>4 DEF Callbacks, OnStaleGoalResponse, OnGoalRefused, OnGoalAccepted,
         OnGoalResult, OnCancelResponse, TrackGoalResponse, CancelLateGoal
  <2>2. ASSUME NEW q \in Requests
        PROVE  /\ cancel[q] # "none" => cancel'[q] # "none"
               /\ q # r => (q \in answered' => q \in answered)
               /\ q # r /\ q # activeRequest' => q # activeRequest
    BY <1>4, <2>2 DEF DataOK, Requests, Callbacks, OnStaleGoalResponse,
         OnGoalRefused, OnGoalAccepted, OnGoalResult, OnCancelResponse,
         CancelLateGoal, nodeVars
  <2>3. \/ goal[r] # "executing"
        \/ r = activeRequest'
        \/ cancel'[r] # "none"
        \/ uncertain'
        \/ UNCHANGED <<activeRequest, answered>>
    <3>1. CASE OnStaleGoalResponse(r)
      BY <3>1 DEF OnStaleGoalResponse, CancelLateGoal, DataOK
    <3>2. CASE OnGoalRefused(r)
      BY <3>2 DEF OnGoalRefused
    <3>3. CASE OnGoalAccepted(r)
      BY <3>3 DEF OnGoalAccepted, CancelLateGoal, DataOK
    <3>4. CASE OnGoalResult(r)
      BY <3>4 DEF OnGoalResult
    <3>5. CASE OnCancelResponse(r)
      BY <3>5 DEF OnCancelResponse, nodeVars
    <3> QED BY <1>4, <3>1, <3>2, <3>3, <3>4, <3>5 DEF Callbacks
  <2> QED BY <2>1, <2>2, <2>3 DEF NoOrphanGoal
<1>5. ASSUME NEW r \in Requests, Controller(r) PROVE NoOrphanGoal'
  <2>1. UNCHANGED <<answered, activeRequest, uncertain>>
    BY <1>5 DEF Controller, ControllerAnswers, ControllerFinishes,
         ControllerCancels, nonControllerVars, nodeVars, trackerVars
  <2>2. \A q \in Requests : cancel[q] # "none" => cancel'[q] # "none"
    BY <1>5 DEF DataOK, Controller, ControllerAnswers, ControllerFinishes,
         ControllerCancels
  <2>3. \A q \in Requests :
          goal'[q] = "executing" => goal[q] \in {"requested", "executing"}
    BY <1>5 DEF DataOK, Controller, ControllerAnswers, ControllerFinishes,
         ControllerCancels
  <2> QED BY <2>1, <2>2, <2>3 DEF NoOrphanGoal, Numbering
<1> QED
  BY <1>1, <1>2, <1>3, <1>4, <1>5
     DEF Next, Keys, PollDeadman, KeySpace, KeyStop, KeyAbort, KeyEnterReview,
         KeyResume, KeyAccept, KeyReject, SafetyStop, Stop, DeadmanTimeout,
         JointFeedback, vars, controllerVars, nodeVars, trackerVars

(* An executing goal the node no longer calls its own is being cancelled,  *)
(* or will be when its acceptance arrives, unless the tracker recorded     *)
(* that it lost track.                                                     *)
THEOREM NoOrphanGoalHolds == Spec => []NoOrphanGoal
<1>1. Init => NoOrphanGoal
  BY DEF Init, NoOrphanGoal
<1> QED BY <1>1, NoOrphanInductive, TypeCorrect, FieldsAndNumbers, PTL DEF Spec

-----------------------------------------------------------------------------
(* Every answer finds the tracker prepared.                                *)

(* What EveryAnswerIsExpected needs besides itself: only an answered       *)
(* request is ever cancelled, and an answer is entered when it comes.      *)
AnswersEntered ==
  /\ \A r \in Requests : cancel[r] # "none" => r \in answered
  /\ ~uncertain => \A r \in answered : outstanding[r] # "submitted"

(* Every step keeps it.                                                    *)
LEMMA AnswersEnteredInductive ==
  TypeOK /\ NodeFieldsAgree /\ Numbering /\ AnswersEntered /\ [Next]_vars
    => AnswersEntered'
<1> SUFFICES ASSUME DataOK, NodeFieldsAgree, Numbering, AnswersEntered,
                    [Next]_vars
             PROVE  AnswersEntered'
  BY DEF TypeOK
<1>1. CASE CancelActiveGoal
  <2>1. goalHandle # NoRequest => goalHandle \in answered
    BY DEF Numbering
  <2>2. \A r \in Requests : cancel'[r] # cancel[r] => r = goalHandle /\ r # NoRequest
    BY <1>1 DEF CancelActiveGoal, DataOK, Requests, NoRequest
  <2>3. UNCHANGED <<answered, outstanding>> /\ (uncertain => uncertain')
    BY <1>1 DEF CancelActiveGoal
  <2> QED BY <2>1, <2>2, <2>3 DEF AnswersEntered
<1>2. CASE KeyJog
  <2>1. requestSequence' = requestSequence + 1 /\ requestSequence' \in Requests
    BY <1>2, MaxRequestsAssumption DEF DataOK, Requests, KeyJog
  <2>2. requestSequence' \notin answered
    BY <2>1 DEF Numbering, DataOK
  <2>3. UNCHANGED <<answered, cancel>> /\ (uncertain => uncertain')
    BY <1>2 DEF KeyJog
  <2>4. \A r \in Requests : r # requestSequence' => outstanding'[r] = outstanding[r]
    BY <1>2 DEF KeyJog, DataOK
  <2> QED BY <2>2, <2>3, <2>4 DEF AnswersEntered, DataOK
<1>3. CASE UNCHANGED <<answered, cancel, outstanding, uncertain>>
  BY <1>3 DEF AnswersEntered
<1>4. ASSUME NEW r \in Requests, Callbacks(r) PROVE AnswersEntered'
  <2>1. /\ uncertain => uncertain'
        /\ answered' \in {answered, answered \cup {r}}
    BY <1>4 DEF Callbacks, OnStaleGoalResponse, OnGoalRefused, OnGoalAccepted,
         OnGoalResult, OnCancelResponse, TrackGoalResponse, CancelLateGoal
  <2>2. ASSUME NEW q \in Requests, q # r
        PROVE  cancel'[q] = cancel[q] /\ outstanding'[q] = outstanding[q]
    BY <1>4, <2>2 DEF DataOK, Callbacks, OnStaleGoalResponse, OnGoalRefused,
         OnGoalAccepted, OnGoalResult, OnCancelResponse, TrackGoalResponse,
         CancelLateGoal
  <2>3. cancel'[r] # "none" => r \in answered'
    BY <1>4 DEF AnswersEntered, DataOK, Callbacks, OnStaleGoalResponse,
         OnGoalRefused, OnGoalAccepted, OnGoalResult, OnCancelResponse,
         CancelLateGoal
  <2>4. ~uncertain' /\ r \in answered' => outstanding'[r] # "submitted"
    <3>1. CASE OnStaleGoalResponse(r)
      BY <3>1 DEF OnStaleGoalResponse, TrackGoalResponse, CancelLateGoal, DataOK
    <3>2. CASE OnGoalRefused(r)
      BY <3>2 DEF OnGoalRefused, TrackGoalResponse, DataOK
    <3>3. CASE OnGoalAccepted(r)
      BY <3>3 DEF OnGoalAccepted, TrackGoalResponse, CancelLateGoal, DataOK
    <3>4. CASE OnGoalResult(r)
      BY <3>4 DEF OnGoalResult, DataOK, AnswersEntered
    <3>5. CASE OnCancelResponse(r)
      BY <3>5 DEF OnCancelResponse, AnswersEntered
    <3> QED BY <1>4, <3>1, <3>2, <3>3, <3>4, <3>5 DEF Callbacks
  <2> QED BY <2>1, <2>2, <2>3, <2>4 DEF AnswersEntered, DataOK
<1>5. ASSUME NEW r \in Requests, Controller(r) PROVE AnswersEntered'
  <2>1. UNCHANGED <<answered, outstanding, uncertain>>
    BY <1>5 DEF Controller, ControllerAnswers, ControllerFinishes,
         ControllerCancels, nonControllerVars, trackerVars
  <2>2. \A q \in Requests : cancel'[q] # "none" => cancel[q] # "none"
    BY <1>5 DEF DataOK, Controller, ControllerAnswers, ControllerFinishes,
         ControllerCancels
  <2> QED BY <2>1, <2>2 DEF AnswersEntered
<1> QED
  BY <1>1, <1>2, <1>3, <1>4, <1>5
     DEF Next, Keys, PollDeadman, KeySpace, KeyStop, KeyAbort, KeyEnterReview,
         KeyResume, KeyAccept, KeyReject, SafetyStop, Stop, DeadmanTimeout,
         JointFeedback, vars, controllerVars, trackerVars

(* And with it every step keeps the property.                              *)
LEMMA EveryAnswerInductive ==
  /\ TypeOK /\ NodeFieldsAgree /\ Numbering /\ AnswersEntered
  /\ EveryAnswerIsExpected /\ [Next]_vars
  => EveryAnswerIsExpected'
<1> SUFFICES ASSUME DataOK, NodeFieldsAgree, Numbering, AnswersEntered,
                    EveryAnswerIsExpected, [Next]_vars, ~uncertain',
                    NEW r \in Requests
             PROVE  /\ goal'[r] # "none" /\ r \notin answered' =>
                         outstanding'[r] = "submitted"
                    /\ r \in watched' => outstanding'[r] = "active"
                    /\ cancel'[r] \in {"sent", "accepted", "refused"} =>
                         r \in cancelRequests' /\ outstanding'[r] # "submitted"
  BY DEF TypeOK, EveryAnswerIsExpected
<1>0. ~uncertain =>
        /\ goal[r] # "none" /\ r \notin answered => outstanding[r] = "submitted"
        /\ r \in watched => outstanding[r] = "active"
        /\ cancel[r] \in {"sent", "accepted", "refused"} =>
             r \in cancelRequests /\ outstanding[r] # "submitted"
  BY DEF EveryAnswerIsExpected
<1>1. CASE CancelActiveGoal
  <2>1. /\ UNCHANGED <<goal, answered, watched, outstanding>> /\ ~uncertain
        /\ cancelRequests \subseteq cancelRequests'
    BY <1>1 DEF CancelActiveGoal
  <2>2. CASE cancel'[r] = cancel[r]
    BY <1>0, <2>1, <2>2
  <2>3. CASE cancel'[r] # cancel[r]
    <3>1. r = goalHandle /\ r = activeRequest /\ r # NoRequest
      BY <1>1, <2>3 DEF CancelActiveGoal, DataOK, Requests, NoRequest, NodeFieldsAgree
    <3>2. r \in answered
      BY <3>1 DEF Numbering
    <3>3. outstanding[r] # "none" /\ r \in cancelRequests'
      BY <1>1, <3>1 DEF CancelActiveGoal
    <3>4. outstanding[r] # "submitted"
      BY <2>1, <3>2 DEF AnswersEntered
    <3> QED BY <1>0, <2>1, <3>2, <3>3, <3>4
  <2> QED BY <2>2, <2>3
<1>2. CASE KeyJog
  <2>1. requestSequence' = requestSequence + 1 /\ requestSequence' \in Requests
    BY <1>2, MaxRequestsAssumption DEF DataOK, Requests, KeyJog
  <2>2. UNCHANGED <<answered, watched, cancel, cancelRequests>> /\ ~uncertain
    BY <1>2 DEF KeyJog
  <2>3. CASE r = requestSequence'
    <3>1. r \notin answered
      BY <2>1, <2>3 DEF Numbering, DataOK
    <3>2. r \notin watched /\ cancel[r] = "none"
      BY <3>1 DEF Numbering, AnswersEntered
    <3>3. outstanding'[r] = "submitted"
      BY <1>2, <2>3 DEF KeyJog, DataOK
    <3> QED BY <2>2, <3>2, <3>3
  <2>4. CASE r # requestSequence'
    <3>1. goal'[r] = goal[r] /\ outstanding'[r] = outstanding[r]
      BY <1>2, <2>4 DEF KeyJog, DataOK
    <3> QED BY <1>0, <2>2, <3>1
  <2> QED BY <2>3, <2>4
<1>3. CASE UNCHANGED <<controllerVars, trackerVars>>
  BY <1>0, <1>3 DEF controllerVars, trackerVars
<1>4. ASSUME NEW q \in Requests, Callbacks(q)
      PROVE  /\ goal'[r] # "none" /\ r \notin answered' =>
                  outstanding'[r] = "submitted"
             /\ r \in watched' => outstanding'[r] = "active"
             /\ cancel'[r] \in {"sent", "accepted", "refused"} =>
                  r \in cancelRequests' /\ outstanding'[r] # "submitted"
  <2>1. goal' = goal /\ cancelRequests \subseteq cancelRequests' /\ ~uncertain
    BY <1>4 DEF Callbacks, OnStaleGoalResponse, OnGoalRefused, OnGoalAccepted,
         OnGoalResult, OnCancelResponse, TrackGoalResponse, CancelLateGoal
  <2>2. CASE q # r
    <3>1. /\ cancel'[r] = cancel[r] /\ outstanding'[r] = outstanding[r]
          /\ r \in answered' <=> r \in answered
          /\ r \in watched' <=> r \in watched
      BY <1>4, <2>2 DEF DataOK, Callbacks, OnStaleGoalResponse, OnGoalRefused,
           OnGoalAccepted, OnGoalResult, OnCancelResponse, TrackGoalResponse,
           CancelLateGoal
    <3> QED BY <1>0, <2>1, <3>1
  <2>3. CASE q = r
    <3> USE <2>3
    <3>0. r \notin answered => r \notin watched /\ cancel[r] = "none"
      BY DEF Numbering, AnswersEntered
    <3>1. CASE OnStaleGoalResponse(q)
      <4>1. r \notin answered /\ r \in answered'
        BY <3>1 DEF OnStaleGoalResponse
      <4>2. CASE TrackGoalResponse(r, FALSE) /\ UNCHANGED <<watched, cancel>>
        BY <3>0, <4>1, <4>2
      <4>3. CASE CancelLateGoal(r)
        BY <4>1, <4>3 DEF CancelLateGoal, DataOK
      <4> QED BY <3>1, <4>2, <4>3 DEF OnStaleGoalResponse
    <3>2. CASE OnGoalRefused(q)
      BY <3>0, <3>2 DEF OnGoalRefused
    <3>3. CASE OnGoalAccepted(q)
      <4>1. r \notin answered /\ r \in answered'
        BY <3>3 DEF OnGoalAccepted
      <4>2. CASE TrackGoalResponse(r, TRUE) /\ UNCHANGED cancel
        BY <3>0, <4>1, <4>2 DEF TrackGoalResponse, DataOK
      <4>3. CASE CancelLateGoal(r)
        BY <4>1, <4>3 DEF CancelLateGoal, DataOK
      <4> QED BY <3>3, <4>2, <4>3 DEF OnGoalAccepted
    <3>4. CASE OnGoalResult(q)
      <4>1. r \in answered /\ r \notin watched' /\ cancel' = cancel
        BY <3>4 DEF OnGoalResult, Numbering
      <4>2. answered' = answered /\ outstanding'[r] \in {"none", outstanding[r]}
        BY <3>4 DEF OnGoalResult, DataOK
      <4> QED BY <1>0, <2>1, <4>1, <4>2
    <3>5. CASE OnCancelResponse(q)
      <4>1. cancel'[r] = "replied" /\ UNCHANGED <<answered, watched, outstanding>>
        BY <3>5 DEF OnCancelResponse, DataOK
      <4> QED BY <1>0, <2>1, <4>1
    <3> QED BY <1>4, <3>1, <3>2, <3>3, <3>4, <3>5 DEF Callbacks
  <2> QED BY <2>2, <2>3
<1>5. ASSUME NEW q \in Requests, Controller(q)
      PROVE  /\ goal'[r] # "none" /\ r \notin answered' =>
                  outstanding'[r] = "submitted"
             /\ r \in watched' => outstanding'[r] = "active"
             /\ cancel'[r] \in {"sent", "accepted", "refused"} =>
                  r \in cancelRequests' /\ outstanding'[r] # "submitted"
  <2>1. UNCHANGED <<answered, watched, outstanding, cancelRequests, uncertain>>
    BY <1>5 DEF Controller, ControllerAnswers, ControllerFinishes,
         ControllerCancels, nonControllerVars, trackerVars
  <2>2. goal'[r] # "none" => goal[r] # "none"
    BY <1>5 DEF DataOK, Controller, ControllerAnswers, ControllerFinishes,
         ControllerCancels
  <2>3. cancel'[r] # cancel[r] => cancel[r] = "sent"
    BY <1>5 DEF DataOK, Controller, ControllerAnswers, ControllerFinishes,
         ControllerCancels
  <2> QED BY <1>0, <2>1, <2>2, <2>3
<1> QED
  BY <1>1, <1>2, <1>3, <1>4, <1>5
     DEF Next, Keys, PollDeadman, KeySpace, KeyStop, KeyAbort, KeyEnterReview,
         KeyResume, KeyAccept, KeyReject, SafetyStop, Stop, DeadmanTimeout,
         JointFeedback, vars

(* Unless it has recorded that it lost track, the tracker takes every      *)
(* answer that may still come, whatever the order in which they do.        *)
THEOREM EveryAnswerIsExpectedHolds == Spec => []EveryAnswerIsExpected
<1>1. Init => AnswersEntered /\ EveryAnswerIsExpected
  BY DEF Init, AnswersEntered, EveryAnswerIsExpected
<1> QED BY <1>1, AnswersEnteredInductive, EveryAnswerInductive, TypeCorrect,
        FieldsAndNumbers, PTL DEF Spec
=============================================================================
