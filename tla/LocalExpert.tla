---------------------------- MODULE LocalExpert ----------------------------
(***************************************************************************)
(* The local insertion expert node (local_insertion_expert.py) and the     *)
(* buffer of its demonstration (ExpertFrameBuffer and                      *)
(* write_expert_frame_capture in scripted_demo_collection.py).             *)
(*                                                                         *)
(* While armed the node looks at the task on a timer.  It fails, it        *)
(* completes, or it sends the arm's controller one more short trajectory;  *)
(* a command becomes a frame of the demonstration when the controller      *)
(* accepts it.  Completing or aborting is final and writes the frames to   *)
(* the capture file.                                                       *)
(*                                                                         *)
(* Kinematics and the control law are abstracted to the outcome of a tick; *)
(* ExpertInsertion adds them.  A tick that commands nothing (no server, no *)
(* motion wanted, preview mode) leaves the state as it is and is no action *)
(* here.                                                                   *)
(***************************************************************************)
EXTENDS Naturals, Sequences

CONSTANTS
  MaxGoals,  \* bound on the trajectories sent
  Faults     \* what may go wrong (see FaultKinds)

(* "feedback"  a joint, controller or wrench sample is not finite          *)
(* "submit"    send_goal_async raises                                      *)
(* "refuse"    the controller rejects a goal                               *)
(* "response"  the goal response cannot be read                            *)
(* "result"    a trajectory ends in failure, or its result cannot be read  *)
(* "write"     the capture raises before os.link                           *)
(* "unlink"    the temporary file cannot be removed, after os.link         *)
FaultKinds == {"feedback", "submit", "refuse", "response", "result", "write",
               "unlink"}

ASSUME MaxGoalsAssumption == MaxGoals \in Nat
ASSUME FaultsAssumption == Faults \subseteq FaultKinds

Goals == 1..MaxGoals
None == 0

VARIABLES
  config,     \* the parameters: command_enabled, start_armed and whether
              \* expert_capture_path is set; they never change
  armed,      \* _armed
  terminal,   \* _terminal
  status,     \* the last status published
  fed,        \* all the feedback a tick needs has been received
  inFlight,   \* _goal_in_flight
  handle,     \* _goal_handle
  overdue,    \* _goal_timed_out, while a goal is in flight
  frames,     \* the buffer's _frames, by the goal each was sent as
  pending,    \* the buffer's _pending_frame
  label,      \* the outcome marked on the last frame
  capture,    \* the capture file
  sent,       \* how many goals were sent: 1..sent
  server,     \* server[g]: goal g at the controller
  replied,    \* the goals whose response the node has handled
  awaited,    \* the goals whose result the node waits for
  cancelled   \* the goals it asked to cancel

controlVars == <<armed, terminal, status, fed>>
goalVars == <<inFlight, handle, overdue>>
bufferVars == <<frames, pending, label>>
serverVars == <<sent, server, replied, awaited, cancelled>>
vars == <<config, controlVars, goalVars, bufferVars, capture, serverVars>>

Configs == [commands : BOOLEAN, startArmed : BOOLEAN, captures : BOOLEAN]
Labels == {"open", "success", "failure"}
NoFile == [frames |-> <<>>, label |-> "no file"]
EmptyFile == [frames |-> <<>>, label |-> "open"]

TypeOK ==
  /\ config \in Configs
  /\ armed \in BOOLEAN
  /\ terminal \in BOOLEAN
  /\ status \in {"disarmed", "running", "success", "failed"}
  /\ fed \in BOOLEAN
  /\ inFlight \in BOOLEAN
  /\ handle \in Goals \cup {None}
  /\ overdue \in BOOLEAN
  /\ frames \in Seq(Goals)
  /\ pending \in Goals \cup {None}
  /\ label \in Labels
  /\ capture \in [frames : Seq(Goals), label : Labels \cup {"no file"}]
  /\ sent \in 0..MaxGoals
  /\ server \in [Goals -> {"unsent", "requested", "refused", "active", "ended"}]
  /\ replied \subseteq 1..sent
  /\ awaited \subseteq replied
  /\ cancelled \subseteq replied

(* The path may hold the capture of an earlier run: here, one in which     *)
(* nothing was recorded.                                                   *)
Init ==
  /\ config \in Configs
  /\ armed = config.startArmed
  /\ terminal = FALSE
  /\ status = IF config.startArmed THEN "running" ELSE "disarmed"
  /\ fed = FALSE
  /\ inFlight = FALSE
  /\ handle = None
  /\ overdue = FALSE
  /\ frames = <<>>
  /\ pending = None
  /\ label = "open"
  /\ capture \in {NoFile, EmptyFile}
  /\ sent = 0
  /\ server = [g \in Goals |-> "unsent"]
  /\ replied = {}
  /\ awaited = {}
  /\ cancelled = {}

-----------------------------------------------------------------------------
(* Ending.                                                                 *)

(* mark_terminal labels the last frame, if there is one.                   *)
Marked(outcome) == IF frames = <<>> THEN "open" ELSE outcome

(* _persist_expert_capture: the file is created, never replaced; one with  *)
(* the very same content will do.                                          *)
Persists(content, ok) ==
  \/ /\ ~config.captures
     /\ ok
     /\ UNCHANGED capture
  \/ /\ config.captures
     /\ capture = NoFile
     /\ capture' = content
     /\ ok \/ "unlink" \in Faults
  \/ /\ config.captures
     /\ capture = content
     /\ ok \/ "unlink" \in Faults
     /\ UNCHANGED capture
  \/ /\ config.captures
     /\ capture \notin {NoFile, content} \/ "write" \in Faults
     /\ ~ok
     /\ UNCHANGED capture

(* _abort, h being the handle the node holds: whether the capture could be *)
(* written only shows in the reason.                                       *)
Abort(h) ==
  /\ label' = IF config.captures THEN Marked("failure") ELSE label
  /\ \E ok \in BOOLEAN : Persists([frames |-> frames, label |-> label'], ok)
  /\ terminal' = TRUE
  /\ status' = "failed"
  /\ cancelled' = cancelled \cup ({h} \ {None})
  /\ UNCHANGED <<config, armed, fed, frames>>

MutantCompleteUnwritten ==
  IF config.captures /\ frames = <<>>
  THEN Abort(handle)
  ELSE /\ label' = IF config.captures THEN "success" ELSE label
       /\ \E ok \in BOOLEAN : Persists([frames |-> frames, label |-> label'], ok)
       /\ status' = "success"
       /\ terminal' = TRUE
       /\ UNCHANGED <<config, armed, fed, frames, cancelled>>

(* _complete: a success needs frames, and the capture to be written.       *)
Complete ==
  IF config.captures /\ frames = <<>>
  THEN Abort(handle)
  ELSE /\ label' = IF config.captures THEN "success" ELSE label
       /\ \E ok \in BOOLEAN :
            /\ Persists([frames |-> frames, label |-> label'], ok)
            /\ status' = IF ok THEN "success" ELSE "failed"
       /\ terminal' = TRUE
       /\ UNCHANGED <<config, armed, fed, frames, cancelled>>

-----------------------------------------------------------------------------
(* Callbacks.                                                              *)

MutantSetArmedAnyTime(requested, granted) ==
  /\ granted = ~terminal
  /\ IF granted
     THEN /\ armed' = requested
          /\ status' = IF requested THEN "running" ELSE "disarmed"
     ELSE UNCHANGED <<armed, status>>
  /\ UNCHANGED <<config, terminal, fed, goalVars, bufferVars, capture, serverVars>>

(* The set_armed service; granted is what it answers.                      *)
SetArmed(requested, granted) ==
  /\ granted = (~terminal /\ (requested \/ ~inFlight))
  /\ IF granted
     THEN /\ armed' = requested
          /\ status' = IF requested THEN "running" ELSE "disarmed"
     ELSE UNCHANGED <<armed, status>>
  /\ UNCHANGED <<config, terminal, fed, goalVars, bufferVars, capture, serverVars>>

FeedbackArrives ==
  /\ ~fed
  /\ fed' = TRUE
  /\ UNCHANGED <<config, armed, terminal, status, goalVars, bufferVars, capture,
                 serverVars>>

(* A sample that is not finite aborts, armed or not.                       *)
FeedbackNotFinite ==
  /\ "feedback" \in Faults
  /\ ~terminal
  /\ Abort(handle)
  /\ UNCHANGED <<goalVars, pending, sent, server, replied, awaited>>

(* The goal in flight reaches its age limit.                               *)
GoalAges ==
  /\ inFlight
  /\ ~overdue
  /\ overdue' = TRUE
  /\ UNCHANGED <<config, controlVars, inFlight, handle, bufferVars, capture,
                 serverVars>>

-----------------------------------------------------------------------------
(* The control tick.                                                       *)

Ticks == armed /\ ~terminal

TickTimesOut ==
  /\ Ticks
  /\ inFlight /\ overdue
  /\ Abort(handle)
  /\ UNCHANGED <<goalVars, pending, sent, server, replied, awaited>>

Evaluates == Ticks /\ ~(inFlight /\ overdue) /\ fed

(* The task failed, or the control law raised (a lateral force, numbers    *)
(* that are not finite).                                                   *)
TickFails ==
  /\ Evaluates
  /\ Abort(handle)
  /\ UNCHANGED <<goalVars, pending, sent, server, replied, awaited>>

TickSucceeds ==
  /\ Evaluates
  /\ Complete
  /\ UNCHANGED <<goalVars, pending, sent, server, replied, awaited>>

Commands == Evaluates /\ config.commands /\ ~inFlight

(* The command is staged, then discarded when it could not be sent.        *)
TickCannotSubmit ==
  /\ "submit" \in Faults
  /\ Commands
  /\ pending = None
  /\ Abort(handle)
  /\ UNCHANGED <<goalVars, pending, sent, server, replied, awaited>>

MutantTickCommandsAgain ==
  /\ Evaluates /\ config.commands
  /\ pending = None
  /\ sent < MaxGoals
  /\ sent' = sent + 1
  /\ server' = [server EXCEPT ![sent'] = "requested"]
  /\ pending' = IF config.captures THEN sent' ELSE None
  /\ inFlight' = TRUE
  /\ overdue' = FALSE
  /\ UNCHANGED <<config, controlVars, handle, frames, label, capture, replied,
                 awaited, cancelled>>

MutantTickRecordsAtOnce ==
  /\ Commands
  /\ pending = None
  /\ sent < MaxGoals
  /\ sent' = sent + 1
  /\ server' = [server EXCEPT ![sent'] = "requested"]
  /\ frames' = IF config.captures THEN Append(frames, sent') ELSE frames
  /\ inFlight' = TRUE
  /\ overdue' = FALSE
  /\ UNCHANGED <<config, controlVars, handle, pending, label, capture, replied,
                 awaited, cancelled>>

TickCommands ==
  /\ Commands
  /\ pending = None
  /\ sent < MaxGoals
  /\ sent' = sent + 1
  /\ server' = [server EXCEPT ![sent'] = "requested"]
  /\ pending' = IF config.captures THEN sent' ELSE None
  /\ inFlight' = TRUE
  /\ overdue' = FALSE
  /\ UNCHANGED <<config, controlVars, handle, frames, label, capture, replied,
                 awaited, cancelled>>

-----------------------------------------------------------------------------
(* The goal's callbacks.                                                   *)

Unanswered(g) ==
  /\ server[g] \in {"refused", "active", "ended"}
  /\ g \notin replied

(* After the end nothing is tracked: neither the result nor the handle of  *)
(* a goal accepted late.                                                   *)
OnLateGoalResponse(g) ==
  /\ terminal
  /\ Unanswered(g)
  /\ replied' = replied \cup {g}
  /\ inFlight' = FALSE
  /\ pending' = None
  /\ UNCHANGED <<config, controlVars, handle, overdue, frames, label, capture,
                 sent, server, awaited, cancelled>>

OnGoalRefused(g) ==
  /\ ~terminal
  /\ Unanswered(g)
  /\ server[g] = "refused" \/ "response" \in Faults
  /\ replied' = replied \cup {g}
  /\ inFlight' = FALSE
  /\ pending' = None
  /\ Abort(handle)
  /\ UNCHANGED <<handle, overdue, sent, server, awaited>>

OnGoalAccepted(g) ==
  /\ ~terminal
  /\ Unanswered(g)
  /\ server[g] # "refused"
  /\ replied' = replied \cup {g}
  /\ awaited' = awaited \cup {g}
  /\ handle' = g
  /\ frames' = IF config.captures THEN Append(frames, pending) ELSE frames
  /\ pending' = None
  /\ UNCHANGED <<config, controlVars, inFlight, overdue, label, capture, sent,
                 server, cancelled>>

OnGoalResult(g) ==
  /\ g \in awaited
  /\ server[g] = "ended"
  /\ awaited' = awaited \ {g}
  /\ inFlight' = FALSE
  /\ overdue' = FALSE
  /\ handle' = None
  /\ \/ UNCHANGED <<config, controlVars, bufferVars, capture, cancelled>>
     \/ /\ "result" \in Faults
        /\ ~terminal
        /\ Abort(None)
        /\ UNCHANGED pending
  /\ UNCHANGED <<sent, server, replied>>

-----------------------------------------------------------------------------
(* The controller of the arm.                                              *)

ControllerAnswers(g) ==
  /\ server[g] = "requested"
  /\ \/ server' = [server EXCEPT ![g] = "active"]
     \/ "refuse" \in Faults /\ server' = [server EXCEPT ![g] = "refused"]
  /\ UNCHANGED <<config, controlVars, goalVars, bufferVars, capture, sent,
                 replied, awaited, cancelled>>

(* A trajectory ends of itself, or because it was cancelled.               *)
ControllerEnds(g) ==
  /\ server[g] = "active"
  /\ server' = [server EXCEPT ![g] = "ended"]
  /\ UNCHANGED <<config, controlVars, goalVars, bufferVars, capture, sent,
                 replied, awaited, cancelled>>

(* All but the service, whose caller is somebody else.                     *)
OwnNext ==
  \/ FeedbackArrives \/ FeedbackNotFinite
  \/ GoalAges
  \/ TickTimesOut \/ TickFails \/ TickSucceeds
  \/ TickCannotSubmit \/ TickCommands
  \/ \E g \in Goals :
       \/ OnLateGoalResponse(g) \/ OnGoalRefused(g) \/ OnGoalAccepted(g)
       \/ OnGoalResult(g)
       \/ ControllerAnswers(g) \/ ControllerEnds(g)

Next ==
  \/ OwnNext
  \/ \E requested, granted \in BOOLEAN : SetArmed(requested, granted)

Spec == Init /\ [][Next]_vars

-----------------------------------------------------------------------------
(* Properties.                                                             *)

Live(g) == server[g] \in {"requested", "active"}

(* At no time does the controller hold two trajectories of the expert, not *)
(* even around the end or a late answer.                                   *)
OneGoalAtATime == \A g, h \in Goals : Live(g) /\ Live(h) => g = h

(* Disarmed, the expert has nothing at the controller: nobody can disarm   *)
(* it while the arm is still moving for it.                                *)
DisarmedIsQuiet == ~armed => \A g \in Goals : ~Live(g)

(* docs/week11_scripted_collection.md: "The expert action represents a     *)
(* controller-accepted joint target": the frames are, in order and without *)
(* a gap, the goals accepted before the end.                               *)
FramesWereAccepted ==
  /\ \A i \in DOMAIN frames :
       frames[i] \in replied /\ server[frames[i]] \in {"active", "ended"}
  /\ config.captures /\ ~terminal =>
       /\ frames = [i \in 1..Len(frames) |-> i]
       /\ \A g \in replied : server[g] # "refused" => g <= Len(frames)

(* The buffer never raises, which would abort a healthy run or end the     *)
(* process: while a goal's answer is due its command is staged, and a      *)
(* command is staged only then.                                            *)
StagedWhileUnanswered ==
  config.captures /\ ~terminal =>
    IF inFlight /\ handle = None
    THEN pending = sent /\ sent \notin replied
    ELSE pending = None

(* What the node published last is its outcome for ever, and the capture   *)
(* is not touched again: late answers, results and requests to arm change  *)
(* neither.                                                                *)
EndIsFinal ==
  [][terminal => UNCHANGED <<terminal, status, armed, frames, label, capture>>]_vars
=============================================================================
