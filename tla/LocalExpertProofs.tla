------------------------- MODULE LocalExpertProofs -------------------------
(***************************************************************************)
(* Safety of the local insertion expert, for any number of trajectories,   *)
(* any configuration and any set of faults.                                *)
(***************************************************************************)
EXTENDS ExpertInsertion, TLAPS

(* Before the end, whatever the controller still has to do or the node has *)
(* yet to hear of is the last goal sent, and the node knows that it is in  *)
(* flight.  After the end the node forgets; but nothing is sent any more.  *)
LastGoalOnly ==
  ~terminal =>
    /\ \A g \in Goals : Live(g) => inFlight /\ g = sent
    /\ \A g \in Goals : server[g] # "unsent" /\ g \notin replied => inFlight /\ g = sent
    /\ \A g \in awaited : inFlight /\ g = sent
    /\ ~inFlight => handle = None
    /\ handle # None => handle = sent

HandleReplied == handle = None \/ handle \in replied

OnlySent == \A g \in Goals : server[g] # "unsent" => g \in 1..sent

Inv ==
  /\ TypeOK
  /\ HandleReplied
  /\ OnlySent
  /\ LastGoalOnly
  /\ StagedWhileUnanswered
  /\ OneGoalAtATime
  /\ DisarmedIsQuiet

(* The invariant holds at the start.                                       *)
LEMMA InitInv == Init => Inv
<1> SUFFICES ASSUME Init PROVE Inv
  OBVIOUS
<1> USE DEF Init
<1>0. <<>> \in Seq(Goals)
  OBVIOUS
<1>6. NoFile \in [frames : Seq(Goals), label : Labels \cup {"no file"}]
  BY <1>0 DEF NoFile
<1>7. EmptyFile \in [frames : Seq(Goals), label : Labels \cup {"no file"}]
  BY <1>0 DEF EmptyFile, Labels
<1>3. capture \in [frames : Seq(Goals), label : Labels \cup {"no file"}]
  BY <1>6, <1>7
<1>4. status \in {"disarmed", "running", "success", "failed"} /\ armed \in BOOLEAN
  BY DEF Configs
<1>5. sent \in 0..MaxGoals
  BY MaxGoalsAssumption
<1>1. TypeOK
  BY <1>0, <1>3, <1>4, <1>5 DEF TypeOK, Labels, None
<1>2. \A g \in Goals : server[g] = "unsent"
  OBVIOUS
<1> QED
  BY <1>1, <1>2 DEF Inv, HandleReplied, OnlySent, LastGoalOnly, StagedWhileUnanswered,
     OneGoalAtATime, DisarmedIsQuiet, Live, Goals

(* What writing the capture leaves is a capture.                           *)
LEMMA PersistsTyped ==
  ASSUME TypeOK, NEW l \in Labels, NEW ok \in BOOLEAN,
         Persists([frames |-> frames, label |-> l], ok)
  PROVE  capture' \in [frames : Seq(Goals), label : Labels \cup {"no file"}]
<1>1. [frames |-> frames, label |-> l] \in
        [frames : Seq(Goals), label : Labels \cup {"no file"}]
  BY DEF TypeOK
<1> QED BY <1>1 DEF Persists, TypeOK

(* Aborting keeps the types of all that it assigns.                        *)
LEMMA AbortTyped ==
  ASSUME TypeOK, NEW h \in Goals \cup {None}, h = None \/ h \in replied, Abort(h)
  PROVE  /\ terminal' = TRUE
         /\ status' = "failed"
         /\ label' \in Labels
         /\ capture' \in [frames : Seq(Goals), label : Labels \cup {"no file"}]
         /\ cancelled' \subseteq replied
         /\ config' = config /\ armed' = armed /\ fed' = fed /\ frames' = frames
<1>1. label' \in Labels
  BY DEF Abort, Marked, Labels, TypeOK
<1>2. PICK ok \in BOOLEAN : Persists([frames |-> frames, label |-> label'], ok)
  BY DEF Abort
<1>3. capture' \in [frames : Seq(Goals), label : Labels \cup {"no file"}]
  BY <1>1, <1>2, PersistsTyped
<1> QED BY <1>1, <1>3 DEF Abort, TypeOK

(* So does completing, which may turn into aborting.                       *)
LEMMA CompleteTyped ==
  ASSUME TypeOK, HandleReplied, Complete
  PROVE  /\ terminal' = TRUE
         /\ status' \in {"success", "failed"}
         /\ label' \in Labels
         /\ capture' \in [frames : Seq(Goals), label : Labels \cup {"no file"}]
         /\ cancelled' \subseteq replied
         /\ config' = config /\ armed' = armed /\ fed' = fed /\ frames' = frames
<1>1. CASE config.captures /\ frames = <<>>
  BY <1>1, AbortTyped DEF Complete, TypeOK, HandleReplied
<1>2. CASE ~(config.captures /\ frames = <<>>)
  <2>1. label' \in Labels
    BY <1>2 DEF Complete, Labels, TypeOK
  <2>2. PICK ok \in BOOLEAN : Persists([frames |-> frames, label |-> label'], ok)
    BY <1>2 DEF Complete
  <2>3. capture' \in [frames : Seq(Goals), label : Labels \cup {"no file"}]
    BY <2>1, <2>2, PersistsTyped
  <2>4. status' \in {"success", "failed"}
    BY <1>2 DEF Complete
  <2> QED BY <1>2, <2>1, <2>3, <2>4 DEF Complete, TypeOK
<1> QED BY <1>1, <1>2

(* An end that sends nothing, hears of nothing and forgets no goal keeps   *)
(* the invariant.                                                          *)
LEMMA EndKeepsInv ==
  ASSUME Inv,
         terminal' = TRUE,
         status' \in {"success", "failed"},
         label' \in Labels,
         capture' \in [frames : Seq(Goals), label : Labels \cup {"no file"}],
         cancelled' \subseteq replied,
         config' = config, armed' = armed, fed' = fed, frames' = frames,
         UNCHANGED <<inFlight, handle, overdue, pending, sent, server, replied, awaited>>
  PROVE  Inv'
<1>1. TypeOK'
  BY DEF Inv, TypeOK
<1> QED
  BY <1>1 DEF Inv, HandleReplied, OnlySent, LastGoalOnly, StagedWhileUnanswered,
     OneGoalAtATime, DisarmedIsQuiet, Live

(* An accepted goal becomes the tracked one.                               *)
LEMMA AcceptedKeepsInv ==
  ASSUME Inv, NEW g \in Goals, OnGoalAccepted(g)
  PROVE  Inv'
<1> USE DEF Inv, OnGoalAccepted, Unanswered
<1>1. inFlight /\ g = sent
  BY DEF LastGoalOnly
<1>2. handle = None
  BY <1>1 DEF LastGoalOnly, HandleReplied
<1>3. config.captures => pending = sent
  BY <1>1, <1>2 DEF StagedWhileUnanswered
<1>4. frames' \in Seq(Goals)
  <2>1. CASE config.captures
    <3>1. pending = g
      BY <1>1, <1>3, <2>1
    <3>3. pending \in Goals
      BY <3>1
    <3>4. frames \in Seq(Goals)
      BY DEF TypeOK
    <3>2. frames' = Append(frames, pending)
      BY <2>1
    <3> QED BY <3>2, <3>3, <3>4
  <2>2. CASE ~config.captures
    BY <2>2 DEF TypeOK
  <2> QED BY <2>1, <2>2
<1>5. g \in 1..sent /\ g # None
  BY <1>1, MaxGoalsAssumption DEF Goals, None
<1>6. TypeOK'
  BY <1>4, <1>5 DEF TypeOK, controlVars
<1>7. HandleReplied' /\ OnlySent' /\ LastGoalOnly'
  BY <1>1, <1>5 DEF HandleReplied, OnlySent, LastGoalOnly, Live, controlVars, TypeOK
<1>8. StagedWhileUnanswered'
  BY <1>5 DEF StagedWhileUnanswered, controlVars
<1>9. OneGoalAtATime' /\ DisarmedIsQuiet'
  BY DEF OneGoalAtATime, DisarmedIsQuiet, Live, controlVars
<1> QED BY <1>6, <1>7, <1>8, <1>9

(* A goal that the controller refused leaves nothing behind.               *)
LEMMA RefusedKeepsInv ==
  ASSUME Inv, NEW g \in Goals, OnGoalRefused(g)
  PROVE  Inv'
<1> USE DEF Inv, OnGoalRefused, Unanswered
<1>1. g = sent
  BY DEF LastGoalOnly
<1>2. g \in 1..sent
  BY <1>1, MaxGoalsAssumption DEF Goals
<1>3. /\ terminal' = TRUE
      /\ status' = "failed"
      /\ label' \in Labels
      /\ capture' \in [frames : Seq(Goals), label : Labels \cup {"no file"}]
      /\ cancelled' \subseteq replied
      /\ config' = config /\ armed' = armed /\ fed' = fed /\ frames' = frames
  BY AbortTyped DEF TypeOK, HandleReplied
<1>5. replied' = replied \cup {g} /\ inFlight' = FALSE /\ pending' = None
  OBVIOUS
<1>6. UNCHANGED <<handle, overdue, sent, server, awaited>>
  OBVIOUS
<1>7. TypeOK
  OBVIOUS
<1>4. TypeOK'
  <2> HIDE DEF Inv, OnGoalRefused, Unanswered
  <2> QED BY <1>2, <1>3, <1>5, <1>6, <1>7 DEF TypeOK
<1> QED
  BY <1>3, <1>4 DEF HandleReplied, OnlySent, LastGoalOnly, StagedWhileUnanswered,
     OneGoalAtATime, DisarmedIsQuiet, Live

(* The result of the goal clears it, of another goal changes nothing.      *)
LEMMA ResultKeepsInv ==
  ASSUME Inv, NEW g \in Goals, OnGoalResult(g)
  PROVE  Inv'
<1> USE DEF Inv, OnGoalResult
<1>1. CASE UNCHANGED <<config, controlVars, bufferVars, capture, cancelled>>
  <2> USE <1>1 DEF controlVars, bufferVars
  <2>1. TypeOK'
    BY DEF TypeOK
  <2>2. ~terminal => g = sent /\ g \in replied
    BY DEF LastGoalOnly, TypeOK
  <2>3. LastGoalOnly' /\ HandleReplied' /\ OnlySent'
    BY <2>2 DEF LastGoalOnly, HandleReplied, OnlySent, Live
  <2>4. StagedWhileUnanswered'
    BY <2>2 DEF StagedWhileUnanswered, LastGoalOnly
  <2> QED
    BY <2>1, <2>3, <2>4 DEF OneGoalAtATime, DisarmedIsQuiet, Live
<1>2. CASE ~terminal /\ Abort(None) /\ UNCHANGED pending
  <2>1. /\ terminal' = TRUE
        /\ status' = "failed"
        /\ label' \in Labels
        /\ capture' \in [frames : Seq(Goals), label : Labels \cup {"no file"}]
        /\ cancelled' \subseteq replied
        /\ config' = config /\ armed' = armed /\ fed' = fed /\ frames' = frames
    BY <1>2, AbortTyped DEF None
  <2>2. TypeOK'
    BY <1>2, <2>1 DEF TypeOK
  <2> QED
    BY <2>1, <2>2 DEF HandleReplied, OnlySent, LastGoalOnly, StagedWhileUnanswered,
       OneGoalAtATime, DisarmedIsQuiet, Live
<1> QED BY <1>1, <1>2

(* A new command finds no earlier goal of the expert at the controller.    *)
LEMMA CommandKeepsInv ==
  ASSUME Inv, TickCommands
  PROVE  Inv'
<1>1. TypeOK
  BY DEF Inv
<1>2. sent < MaxGoals /\ sent' = sent + 1
  BY DEF TickCommands
<1>3. sent \in 0..MaxGoals /\ MaxGoals \in Nat /\ replied \subseteq 1..sent
  BY <1>1, MaxGoalsAssumption DEF TypeOK
<1>4. sent' \in 1..MaxGoals /\ sent' \in 0..MaxGoals /\ sent' \notin replied /\ sent' # 0
  BY <1>2, <1>3
<1>5. sent' \in Goals /\ sent' \notin replied /\ sent' # None
  BY <1>4 DEF Goals, None
<1>6. replied \subseteq 1..sent'
  BY <1>2, <1>3
<1> USE DEF Inv, TickCommands, Commands, Evaluates, Ticks, controlVars
<1>7. server' = [server EXCEPT ![sent'] = "requested"] /\ server \in
        [Goals -> {"unsent", "requested", "refused", "active", "ended"}]
  BY DEF TypeOK
<1>8. server' \in [Goals -> {"unsent", "requested", "refused", "active", "ended"}]
  BY <1>5, <1>7
<1>9. pending' \in Goals \cup {None}
  BY <1>5
<1>10. /\ inFlight' = TRUE /\ overdue' = FALSE
      /\ UNCHANGED <<config, armed, terminal, status, fed, handle, frames, label,
                     capture, replied, awaited, cancelled>>
  OBVIOUS
<1>11. TypeOK'
  <2> HIDE DEF Inv, TickCommands, Commands, Evaluates, Ticks, controlVars
  <2> QED BY <1>1, <1>4, <1>6, <1>8, <1>9, <1>10 DEF TypeOK
<1>12. \A g \in Goals : g # sent' => server'[g] = server[g] /\ ~Live(g)
  BY <1>5, <1>7 DEF LastGoalOnly
<1>13. handle = None /\ awaited = {}
  BY DEF LastGoalOnly
<1>14. \A g \in Goals : g # sent' /\ server'[g] # "unsent" => g \in replied
  BY <1>12 DEF LastGoalOnly
<1>15. HandleReplied' /\ LastGoalOnly'
  BY <1>5, <1>12, <1>13, <1>14 DEF HandleReplied, LastGoalOnly, Live
<1>16. sent' \in 1..sent'
  BY <1>4
<1>17. OnlySent'
  BY <1>6, <1>14, <1>16 DEF OnlySent
<1>18. StagedWhileUnanswered'
  BY <1>5, <1>13 DEF StagedWhileUnanswered
<1>19. OneGoalAtATime' /\ DisarmedIsQuiet'
  BY <1>12 DEF OneGoalAtATime, DisarmedIsQuiet, Live
<1> QED BY <1>11, <1>15, <1>18, <1>19, <1>17

(* Every step keeps the invariant.                                         *)
LEMMA NextInv == Inv /\ [Next]_vars => Inv'
<1> SUFFICES ASSUME Inv, [Next]_vars PROVE Inv'
  OBVIOUS
<1>1. CASE FeedbackArrives
  BY <1>1 DEF FeedbackArrives, Inv, TypeOK, HandleReplied, OnlySent, LastGoalOnly,
     StagedWhileUnanswered, OneGoalAtATime, DisarmedIsQuiet, Live, goalVars,
     bufferVars, serverVars
<1>2. CASE FeedbackNotFinite \/ TickTimesOut \/ TickFails \/ TickCannotSubmit
  <2>1. Abort(handle) /\ UNCHANGED <<goalVars, pending, sent, server, replied, awaited>>
    BY <1>2 DEF FeedbackNotFinite, TickTimesOut, TickFails, TickCannotSubmit
  <2>2. /\ terminal' = TRUE
        /\ status' = "failed"
        /\ label' \in Labels
        /\ capture' \in [frames : Seq(Goals), label : Labels \cup {"no file"}]
        /\ cancelled' \subseteq replied
        /\ config' = config /\ armed' = armed /\ fed' = fed /\ frames' = frames
    BY <2>1, AbortTyped DEF Inv, TypeOK, HandleReplied
  <2> QED BY <2>1, <2>2, EndKeepsInv DEF goalVars
<1>3. CASE TickSucceeds
  <2>1. Complete /\ UNCHANGED <<goalVars, pending, sent, server, replied, awaited>>
    BY <1>3 DEF TickSucceeds
  <2>2. /\ terminal' = TRUE
        /\ status' \in {"success", "failed"}
        /\ label' \in Labels
        /\ capture' \in [frames : Seq(Goals), label : Labels \cup {"no file"}]
        /\ cancelled' \subseteq replied
        /\ config' = config /\ armed' = armed /\ fed' = fed /\ frames' = frames
    BY <2>1, CompleteTyped DEF Inv
  <2> QED BY <2>1, <2>2, EndKeepsInv DEF goalVars
<1>4. CASE GoalAges
  BY <1>4 DEF GoalAges, Inv, TypeOK, HandleReplied, OnlySent, LastGoalOnly,
     StagedWhileUnanswered, OneGoalAtATime, DisarmedIsQuiet, Live, controlVars,
     bufferVars, serverVars
<1>5. CASE TickCommands
  BY <1>5, CommandKeepsInv
<1>6. ASSUME NEW g \in Goals, OnLateGoalResponse(g) PROVE Inv'
  <2>1. g \in 1..sent
    BY <1>6 DEF OnLateGoalResponse, Unanswered, Inv, OnlySent
  <2> QED
    BY <1>6, <2>1 DEF OnLateGoalResponse, Inv, TypeOK, HandleReplied, OnlySent, LastGoalOnly,
       StagedWhileUnanswered, OneGoalAtATime, DisarmedIsQuiet, Live, controlVars
<1>7. ASSUME NEW g \in Goals, OnGoalRefused(g) PROVE Inv'
  BY <1>7, RefusedKeepsInv
<1>8. ASSUME NEW g \in Goals, OnGoalAccepted(g) PROVE Inv'
  BY <1>8, AcceptedKeepsInv
<1>9. ASSUME NEW g \in Goals, OnGoalResult(g) PROVE Inv'
  BY <1>9, ResultKeepsInv
<1>10. ASSUME NEW g \in Goals, ControllerAnswers(g) \/ ControllerEnds(g) PROVE Inv'
  <2>1. Live(g) /\ server' \in { [server EXCEPT ![g] = "active"],
                                 [server EXCEPT ![g] = "refused"],
                                 [server EXCEPT ![g] = "ended"] }
    BY <1>10 DEF ControllerAnswers, ControllerEnds, Live
  <2>2. UNCHANGED <<config, controlVars, goalVars, bufferVars, capture, sent,
                    replied, awaited, cancelled>>
    BY <1>10 DEF ControllerAnswers, ControllerEnds
  <2>3. \A h \in Goals : Live(h)' => Live(h)
    BY <2>1 DEF Live, Inv, TypeOK
  <2>4. \A h \in Goals : server'[h] # "unsent" => server[h] # "unsent"
    BY <2>1 DEF Inv, TypeOK, Live
  <2>5. TypeOK'
    BY <2>1, <2>2 DEF Inv, TypeOK, controlVars, goalVars, bufferVars
  <2> QED
    BY <2>2, <2>3, <2>4, <2>5 DEF Inv, HandleReplied, OnlySent, LastGoalOnly,
       StagedWhileUnanswered, OneGoalAtATime, DisarmedIsQuiet, controlVars, goalVars,
       bufferVars
<1>11. ASSUME NEW requested \in BOOLEAN, NEW granted \in BOOLEAN,
              SetArmed(requested, granted)
       PROVE  Inv'
  <2>1. UNCHANGED <<config, terminal, fed, goalVars, bufferVars, capture, serverVars>>
    BY <1>11 DEF SetArmed
  <2>2. TypeOK'
    BY <1>11, <2>1 DEF SetArmed, Inv, TypeOK, goalVars, bufferVars, serverVars
  <2>3. ~armed' => ~armed \/ (~terminal /\ ~inFlight)
    <3>1. armed \in BOOLEAN /\ armed' \in BOOLEAN
      BY <2>2 DEF Inv, TypeOK
    <3>2. CASE granted
      BY <1>11, <3>1, <3>2 DEF SetArmed
    <3>3. CASE ~granted
      BY <1>11, <3>1, <3>3 DEF SetArmed
    <3> QED BY <3>2, <3>3
  <2>4. DisarmedIsQuiet'
    BY <2>1, <2>3 DEF Inv, LastGoalOnly, DisarmedIsQuiet, Live, serverVars
  <2> QED
    BY <2>1, <2>2, <2>4 DEF Inv, HandleReplied, OnlySent, LastGoalOnly, StagedWhileUnanswered,
       OneGoalAtATime, Live, goalVars, bufferVars, serverVars
<1>12. CASE UNCHANGED vars
  <2>1. TypeOK'
    BY <1>12 DEF vars, Inv, TypeOK, controlVars, goalVars, bufferVars, serverVars
  <2>2. (HandleReplied /\ OnlySent /\ LastGoalOnly)'
    BY <1>12 DEF vars, Inv, HandleReplied, OnlySent, LastGoalOnly, Live, controlVars,
       goalVars, serverVars
  <2>3. (StagedWhileUnanswered /\ OneGoalAtATime /\ DisarmedIsQuiet)'
    BY <1>12 DEF vars, Inv, StagedWhileUnanswered, OneGoalAtATime, DisarmedIsQuiet, Live,
       controlVars, goalVars, bufferVars, serverVars
  <2> QED BY <2>1, <2>2, <2>3 DEF Inv
<1> QED
  BY <1>1, <1>2, <1>3, <1>4, <1>5, <1>6, <1>7, <1>8, <1>9, <1>10, <1>11, <1>12
  DEF Next, OwnNext

(* The invariant holds throughout.                                         *)
LEMMA AlwaysInv == Spec => []Inv
BY InitInv, NextInv, PTL DEF Spec

(* Every variable keeps its type; the node waits only for goals whose      *)
(* response it has handled.                                                *)
THEOREM TypeCorrect == Spec => []TypeOK
<1>1. Inv => TypeOK
  BY DEF Inv
<1> QED BY AlwaysInv, <1>1, PTL

(* At no time does the controller hold two trajectories of the expert.     *)
THEOREM OneGoalAtATimeHolds == Spec => []OneGoalAtATime
<1>1. Inv => OneGoalAtATime
  BY DEF Inv
<1> QED BY AlwaysInv, <1>1, PTL

(* Disarmed, the expert has nothing at the controller.                     *)
THEOREM DisarmedIsQuietHolds == Spec => []DisarmedIsQuiet
<1>1. Inv => DisarmedIsQuiet
  BY DEF Inv
<1> QED BY AlwaysInv, <1>1, PTL

(* A command is staged exactly while the answer to its goal is due: the    *)
(* buffer never raises.                                                    *)
THEOREM StagedWhileUnansweredHolds == Spec => []StagedWhileUnanswered
<1>1. Inv => StagedWhileUnanswered
  BY DEF Inv
<1> QED BY AlwaysInv, <1>1, PTL

(* What the node published last is its outcome for ever: every action      *)
(* that could change it, or the capture, needs the run not to be over.     *)
THEOREM EndIsFinalHolds == Spec => EndIsFinal
<1>1. [Next]_vars =>
        [terminal => UNCHANGED <<terminal, status, armed, frames, label, capture>>]_vars
  <2> SUFFICES ASSUME Next, terminal
               PROVE  UNCHANGED <<terminal, status, armed, frames, label, capture>>
    OBVIOUS
  <2> USE DEF controlVars, bufferVars, serverVars, goalVars
  <2>1. CASE OwnNext
    BY <2>1 DEF OwnNext, FeedbackArrives, FeedbackNotFinite, GoalAges, TickTimesOut,
       TickFails, TickSucceeds, TickCannotSubmit, TickCommands, Commands, Evaluates,
       Ticks, OnLateGoalResponse, OnGoalRefused, OnGoalAccepted, OnGoalResult,
       ControllerAnswers, ControllerEnds
  <2>2. ASSUME NEW requested \in BOOLEAN, NEW granted \in BOOLEAN,
               SetArmed(requested, granted)
        PROVE  UNCHANGED <<terminal, status, armed, frames, label, capture>>
    BY <2>2 DEF SetArmed
  <2> QED BY <2>1, <2>2 DEF Next
<1> QED BY <1>1, PTL DEF Spec, EndIsFinal

-----------------------------------------------------------------------------
(* The frames.                                                             *)

(* What has been accepted before the end are the goals sent so far, except *)
(* the last while its answer is due.                                       *)
FramesFollow ==
  /\ \A g \in 1..sent : server[g] # "unsent"
  /\ \A i \in DOMAIN frames :
       frames[i] \in replied /\ server[frames[i]] \in {"active", "ended"}
  /\ config.captures /\ ~terminal =>
       /\ frames = [i \in 1..Len(frames) |-> i]
       /\ Len(frames) = IF sent \in replied \cup {0} THEN sent ELSE sent - 1

(* Of the invariant, the kinds of what the frames are about.               *)
LEMMA FrameTypes ==
  Inv => /\ sent \in Nat /\ sent <= MaxGoals
         /\ frames \in Seq(Goals)
         /\ \A i \in DOMAIN frames : frames[i] \in Goals
         /\ replied \subseteq 1..sent
         /\ \A h \in 1..sent : h \in Goals
         /\ DOMAIN server = Goals
         /\ server = [g \in Goals |-> server[g]]
<1> SUFFICES ASSUME TypeOK
             PROVE  /\ sent \in Nat /\ sent <= MaxGoals
                    /\ frames \in Seq(Goals)
                    /\ \A i \in DOMAIN frames : frames[i] \in Goals
                    /\ replied \subseteq 1..sent
                    /\ \A h \in 1..sent : h \in Goals
                    /\ DOMAIN server = Goals
                    /\ server = [g \in Goals |-> server[g]]
  BY DEF Inv
<1>1. frames \in Seq(Goals) /\ sent \in 0..MaxGoals /\ replied \subseteq 1..sent
  BY DEF TypeOK
<1>2. DOMAIN server = Goals /\ server = [g \in Goals |-> server[g]]
  BY DEF TypeOK
<1>3. \A i \in DOMAIN frames : frames[i] \in Goals
  BY <1>1
<1>4. sent \in Nat /\ sent <= MaxGoals /\ \A h \in 1..sent : h \in Goals
  BY <1>1, MaxGoalsAssumption DEF Goals
<1> QED BY <1>1, <1>2, <1>3, <1>4

LEMMA InitFramesFollow == Init => FramesFollow
<1> SUFFICES ASSUME Init PROVE FramesFollow
  OBVIOUS
<1>1. frames = <<>> /\ sent = 0
  BY DEF Init
<1>2. <<>> = [i \in 1..0 |-> i]
  OBVIOUS
<1> QED BY <1>1, <1>2 DEF FramesFollow

(* An end leaves the frames alone, and after it nothing more is asked.     *)
LEMMA EndKeepsFrames ==
  ASSUME FramesFollow, terminal', UNCHANGED <<frames, sent, server>>,
         replied \subseteq replied'
  PROVE  FramesFollow'
BY DEF FramesFollow

(* An accepted goal is the next frame.                                     *)
LEMMA AcceptedKeepsFrames ==
  ASSUME Inv, FramesFollow, NEW g \in Goals, OnGoalAccepted(g)
  PROVE  FramesFollow'
<1> USE DEF OnGoalAccepted, controlVars
<1>1. /\ ~terminal /\ ~terminal' /\ g \notin replied /\ server[g] \in {"active", "ended"}
      /\ UNCHANGED <<config, sent, server>> /\ replied' = replied \cup {g}
  BY DEF Unanswered
<1>2. g = sent /\ inFlight
  BY <1>1 DEF Inv, LastGoalOnly
<1>3. \A h \in 1..sent : server'[h] # "unsent"
  BY <1>1 DEF FramesFollow
<1>4. frames \in Seq(Goals) /\ sent \in Goals /\ sent \in Nat \ {0}
  BY <1>2, FrameTypes, MaxGoalsAssumption DEF Goals
<1>5. CASE config.captures
  <2>1. handle = None
    BY <1>1, <1>2 DEF Inv, LastGoalOnly, HandleReplied
  <2>2. pending = g
    BY <1>1, <1>2, <1>5, <2>1 DEF Inv, StagedWhileUnanswered
  <2>3. frames' = Append(frames, g)
    BY <1>5, <2>2
  <2>4. Len(frames) = sent - 1 /\ frames = [i \in 1..Len(frames) |-> i]
    BY <1>1, <1>2, <1>4, <1>5 DEF FramesFollow
  <2>5. frames' = [i \in 1..sent |-> i] /\ Len(frames') = sent
    BY <1>2, <1>4, <2>3, <2>4 DEF Goals
  <2>6. \A i \in DOMAIN frames' :
          (i \in DOMAIN frames /\ frames'[i] = frames[i]) \/ frames'[i] = g
    BY <1>2, <1>4, <2>4, <2>5 DEF Goals
  <2>7. \A i \in DOMAIN frames' :
          frames'[i] \in replied' /\ server'[frames'[i]] \in {"active", "ended"}
    BY <1>1, <2>6 DEF FramesFollow
  <2> QED BY <1>1, <1>2, <1>3, <2>5, <2>7 DEF FramesFollow
<1>6. CASE ~config.captures
  BY <1>1, <1>3, <1>6 DEF FramesFollow
<1> QED BY <1>5, <1>6

(* A goal is sent only when those before it have been answered.            *)
LEMMA CommandKeepsFrames ==
  ASSUME Inv, FramesFollow, TickCommands
  PROVE  FramesFollow'
<1> USE DEF TickCommands, controlVars
<1>1. /\ ~inFlight /\ ~terminal /\ sent < MaxGoals /\ sent' = sent + 1
      /\ server' = [server EXCEPT ![sent'] = "requested"]
      /\ UNCHANGED <<config, terminal, frames, replied>>
  BY DEF Commands, Evaluates, Ticks
<1>2. sent \in Nat /\ DOMAIN server = Goals /\ replied \subseteq 1..sent
  BY FrameTypes
<1>3. sent \in replied \cup {0}
  <2> SUFFICES ASSUME sent # 0, sent \notin replied PROVE FALSE
    OBVIOUS
  <2>1. sent \in Goals /\ server[sent] # "unsent"
    BY <1>2, FrameTypes DEF FramesFollow
  <2> QED BY <1>1, <2>1 DEF Inv, LastGoalOnly
<1>4. sent' \notin replied' \cup {0}
  BY <1>1, <1>2
<1>5. \A h \in 1..sent' : server'[h] # "unsent"
  BY <1>1, <1>2, MaxGoalsAssumption DEF FramesFollow, Goals
<1>6. \A i \in DOMAIN frames :
        frames[i] \in replied /\ server'[frames[i]] \in {"active", "ended"}
  BY <1>1, <1>2, FrameTypes DEF FramesFollow
<1> QED BY <1>1, <1>2, <1>3, <1>4, <1>5, <1>6 DEF FramesFollow

LEMMA NextFramesFollow == Inv /\ FramesFollow /\ [Next]_vars => FramesFollow'
<1> SUFFICES ASSUME Inv, FramesFollow, [Next]_vars PROVE FramesFollow'
  OBVIOUS
<1> USE DEF controlVars, goalVars, bufferVars, serverVars
<1>1. CASE FeedbackNotFinite \/ TickTimesOut \/ TickFails \/ TickCannotSubmit
  BY <1>1, EndKeepsFrames DEF FeedbackNotFinite, TickTimesOut, TickFails,
     TickCannotSubmit, Abort
<1>2. CASE TickSucceeds
  BY <1>2, EndKeepsFrames DEF TickSucceeds, Complete, Abort
<1>3. CASE TickCommands
  BY <1>3, CommandKeepsFrames
<1>4. ASSUME NEW g \in Goals, OnGoalAccepted(g) PROVE FramesFollow'
  BY <1>4, AcceptedKeepsFrames
<1>5. ASSUME NEW g \in Goals, OnLateGoalResponse(g) PROVE FramesFollow'
  BY <1>5, EndKeepsFrames DEF OnLateGoalResponse
<1>6. ASSUME NEW g \in Goals, OnGoalRefused(g) PROVE FramesFollow'
  BY <1>6, EndKeepsFrames DEF OnGoalRefused, Abort
<1>7. ASSUME NEW g \in Goals, OnGoalResult(g) PROVE FramesFollow'
  <2>1. UNCHANGED <<config, frames, sent, server, replied>>
    BY <1>7 DEF OnGoalResult, Abort
  <2>2. UNCHANGED terminal \/ terminal'
    BY <1>7 DEF OnGoalResult, Abort
  <2> QED BY <2>1, <2>2 DEF FramesFollow
<1>8. ASSUME NEW g \in Goals, ControllerAnswers(g) \/ ControllerEnds(g)
      PROVE  FramesFollow'
  <2>1. /\ UNCHANGED <<config, terminal, frames, sent, replied>>
        /\ \/ server[g] = "requested" /\ \E a \in {"active", "refused"} :
                server' = [server EXCEPT ![g] = a]
           \/ server[g] = "active" /\ server' = [server EXCEPT ![g] = "ended"]
    BY <1>8 DEF ControllerAnswers, ControllerEnds
  <2>2. DOMAIN server = Goals /\ \A h \in 1..sent : h \in Goals
    BY FrameTypes
  <2>3. \A h \in 1..sent : server'[h] # "unsent"
    BY <2>1, <2>2 DEF FramesFollow
  <2>4. \A i \in DOMAIN frames : frames[i] \in Goals
    BY FrameTypes
  <2>5. \A i \in DOMAIN frames : server'[frames[i]] \in {"active", "ended"}
    BY <2>1, <2>2, <2>4 DEF FramesFollow
  <2> QED BY <2>1, <2>3, <2>5 DEF FramesFollow
<1>9. CASE FeedbackArrives \/ GoalAges
  BY <1>9 DEF FeedbackArrives, GoalAges, FramesFollow
<1>10. ASSUME NEW requested \in BOOLEAN, NEW granted \in BOOLEAN,
              SetArmed(requested, granted)
       PROVE  FramesFollow'
  BY <1>10 DEF SetArmed, FramesFollow
<1>11. CASE UNCHANGED vars
  BY <1>11 DEF vars, FramesFollow
<1> QED
  BY <1>1, <1>2, <1>3, <1>4, <1>5, <1>6, <1>7, <1>8, <1>9, <1>10, <1>11
  DEF Next, OwnNext

(* The frames of the demonstration are the goals accepted before the end,  *)
(* in order and without a gap.                                             *)
THEOREM FramesWereAcceptedHolds == Spec => []FramesWereAccepted
<1>1. Inv /\ FramesFollow => FramesWereAccepted
  <2> SUFFICES ASSUME Inv, FramesFollow, config.captures, ~terminal, NEW g \in replied
               PROVE  g <= Len(frames)
    BY DEF FramesFollow, FramesWereAccepted
  <2>1. g \in 1..sent /\ sent \in Nat
    BY FrameTypes
  <2>2. Len(frames) = IF sent \in replied \cup {0} THEN sent ELSE sent - 1
    BY DEF FramesFollow
  <2>3. CASE sent \in replied
    BY <2>1, <2>2, <2>3
  <2>4. CASE sent \notin replied
    BY <2>1, <2>2, <2>4
  <2> QED BY <2>3, <2>4
<1>2. Init => Inv /\ FramesFollow
  BY InitInv, InitFramesFollow
<1>3. Inv /\ FramesFollow /\ [Next]_vars => (Inv /\ FramesFollow)'
  BY NextInv, NextFramesFollow
<1> QED BY <1>1, <1>2, <1>3, PTL DEF Spec

-----------------------------------------------------------------------------
(* The expert with its control law.                                        *)

(* Whatever the control law decides, the node at work is the node of       *)
(* LocalExpert, so that all of the above is true of it.                    *)
THEOREM InsertionIsLocalExpert == InsertionSpec => Spec
<1>1. InsertionInit => Init
  BY DEF InsertionInit
<1>2. [InsertionNext]_allVars => [Next]_vars
  <2> SUFFICES ASSUME [InsertionNext]_allVars PROVE [Next]_vars
    OBVIOUS
  <2>1. CASE TickAborts \/ TickRaises \/ TickCompletes
    BY <2>1 DEF TickAborts, TickRaises, TickCompletes, Next, OwnNext
  <2>2. CASE TickMoves \/ TickCannotMove \/ TickGivesUp
    BY <2>2 DEF TickMoves, TickCannotMove, TickGivesUp, Next, OwnNext
  <2>3. CASE Observe \/ PegMoves \/ Disturb \/ ServerComesOrGoes
    BY <2>3 DEF Observe, PegMoves, Disturb, ServerComesOrGoes, Next, OwnNext
  <2>4. ASSUME NEW g \in Goals, TrajectoryEnds(g) PROVE [Next]_vars
    BY <2>4 DEF TrajectoryEnds, Next, OwnNext
  <2>5. CASE Elsewhere
    BY <2>5 DEF Elsewhere, Next, OwnNext
  <2>6. CASE UNCHANGED allVars
    BY <2>6 DEF allVars
  <2> QED BY <2>1, <2>2, <2>3, <2>4, <2>5, <2>6 DEF InsertionNext
<1> QED BY <1>1, <1>2, PTL DEF InsertionSpec, Spec
=============================================================================
