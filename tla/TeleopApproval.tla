--------------------------- MODULE TeleopApproval ---------------------------
(***************************************************************************)
(* What becomes of a reviewed teleoperation recording: the operator's      *)
(* decision (keyboard_teleop.py), the exclusive write of the episode       *)
(* (teleop_demo_collection.py) and the collection summary, a history of    *)
(* attempts kept in a file of its own (teleop_summary_history.py,          *)
(* teleop_collection_summary.py).                                          *)
(*                                                                         *)
(* An attempt is one run of the node.  Attempts follow each other (the     *)
(* summary supports one collection writer at a time); each may be killed   *)
(* at any point.  The episode directory is shared with the scripted        *)
(* collector, which may create a file at any moment but, like the node,    *)
(* never replaces one.  Frames are abstracted to how many there are: they  *)
(* only ever grow at the end, so within one attempt the number tells them  *)
(* apart.  Whether the arm is still enough to decide is in TeleopGoals.    *)
(***************************************************************************)
EXTENDS Naturals

CONSTANTS
  MaxAttempts,  \* how many times the node is run
  MaxFrames,    \* bound on the frames of a recording
  Paths,        \* the episode files the configured identities name
  PathOf,       \* PathOf[a]: the file of attempt a's episode
  HasReason,    \* HasReason[a]: attempt a was given a failure reason
  Faults        \* which operations on the disk may fail (see FaultKinds)

(* "write"    creating the episode raises before os.link                   *)
(* "unlink"   removing the temporary file raises, after os.link            *)
(* "summary"  reading or replacing the summary raises                      *)
(* "crash"    the process is killed                                        *)
FaultKinds == {"write", "unlink", "summary", "crash"}

Attempts == 1..MaxAttempts

ASSUME BoundsAssumption == MaxAttempts \in Nat /\ MaxFrames \in Nat
ASSUME PathOfAssumption == PathOf \in [Attempts -> Paths]
ASSUME HasReasonAssumption == HasReason \in [Attempts -> BOOLEAN]
ASSUME FaultsAssumption == Faults \subseteq FaultKinds

Decisions == {"accept_success", "accept_failure"}
NoDecision == "no decision"

VARIABLES
  \* on disk
  episodes,         \* episodes[p]: the file at p
  history,          \* history[a]: attempt a's entry in the summary
  \* the run
  attempt,          \* the current, or the last, attempt
  running,          \* its process is alive
  \* the process
  step,             \* how far _approve_reviewed_recording has got
  decision,         \* the decision it works on
  reviewing,        \* _review_mode
  status,           \* the session's _status
  frames,           \* how many _frames the session has
  pendingApproval,  \* _teleop_pending_approval, by its decision
  pendingSummary    \* _teleop_pending_summary, by its outcome

diskVars == <<episodes, history>>
processVars == <<step, decision, reviewing, status, frames, pendingApproval,
                 pendingSummary>>
vars == <<diskVars, attempt, running, processVars>>

Other == 0                                     \* the scripted collector
Absent == MaxAttempts + 1
Owners == 0..(MaxAttempts + 1)
NoEpisode == [owner |-> Absent, decision |-> NoDecision, frames |-> 0]

SavedOutcomes == {"accepted_success", "accepted_failure"}
FinalOutcomes == SavedOutcomes \cup {"rejected", "aborted"}
NoOutcome == "no outcome"
NoEntry == [outcome |-> NoOutcome, frames |-> 0]

OutcomeOf(d) ==
  IF d = "accept_success" THEN "accepted_success" ELSE "accepted_failure"

TypeOK ==
  /\ episodes \in [Paths -> [owner : Owners,
                             decision : Decisions \cup {NoDecision},
                             frames : 0..MaxFrames]]
  /\ history \in
       [Attempts ->
          [outcome : FinalOutcomes \cup {"persistence_failed", NoOutcome},
           frames : 0..MaxFrames]]
  /\ attempt \in 0..MaxAttempts
  /\ running \in BOOLEAN
  /\ running => attempt \in Attempts
  /\ step \in {"poll", "link", "unlink", "report", "failed"}
  /\ decision \in Decisions \cup {NoDecision}
  /\ reviewing \in BOOLEAN
  /\ status \in {"recording", "accepted", "rejected", "aborted"}
  /\ frames \in 0..MaxFrames
  /\ pendingApproval \in Decisions \cup {NoDecision}
  /\ pendingSummary \in SavedOutcomes \cup {"rejected", NoOutcome}

Init ==
  /\ episodes = [p \in Paths |-> NoEpisode]
  /\ history = [a \in Attempts |-> NoEntry]
  /\ attempt = 0
  /\ running = FALSE
  /\ step = "poll"
  /\ decision = NoDecision
  /\ reviewing = FALSE
  /\ status = "recording"
  /\ frames = 0
  /\ pendingApproval = NoDecision
  /\ pendingSummary = NoOutcome

(* A run of the node begins: everything but the disk is fresh.             *)
StartAttempt ==
  /\ ~running
  /\ attempt < MaxAttempts
  /\ attempt' = attempt + 1
  /\ running' = TRUE
  /\ step' = "poll"
  /\ decision' = NoDecision
  /\ reviewing' = FALSE
  /\ status' = "recording"
  /\ frames' = 0
  /\ pendingApproval' = NoDecision
  /\ pendingSummary' = NoOutcome
  /\ UNCHANGED diskVars

-----------------------------------------------------------------------------
(* The summary.                                                            *)

Episode == episodes[PathOf[attempt]]
Entry == history[attempt]

(* summarize_teleop_attempt: a saved outcome must be that of the file the  *)
(* dataset holds, an unsaved one that of the session.                      *)
Summarizes(outcome, st) ==
  \/ /\ outcome \in SavedOutcomes
     /\ st = "accepted"
     /\ Episode.owner = attempt
     /\ OutcomeOf(Episode.decision) = outcome
     /\ Episode.frames = frames
  \/ outcome \in {"rejected", "aborted"} /\ st = outcome
  \/ outcome = "persistence_failed" /\ st \in {"recording", "accepted"}

(* update_teleop_summary_history: a new attempt is appended; an attempt    *)
(* already there must have the same recording, and only a failed write may *)
(* change.                                                                 *)
Updates(outcome) ==
  \/ Entry.outcome = NoOutcome
  \/ /\ Entry.frames = frames
     /\ Entry.outcome = outcome \/ Entry.outcome = "persistence_failed"

(* Mutants stand before the definition they replace.                       *)
MutantRecordsOverFailures(outcome, st) ==
  /\ Summarizes(outcome, st)
  /\ Updates(outcome)
  /\ history' = [a \in Attempts |->
       IF a = attempt \/ history[a].outcome = "persistence_failed"
       THEN [outcome |-> outcome, frames |-> frames]
       ELSE history[a]]

(* _record_collection_outcome, when it returns and when it raises; st is   *)
(* the session's status at the time.                                       *)
Records(outcome, st) ==
  /\ Summarizes(outcome, st)
  /\ Updates(outcome)
  /\ history' = [history EXCEPT ![attempt] =
                   [outcome |-> outcome, frames |-> frames]]

FailsToRecord(outcome, st) ==
  /\ \/ ~(Summarizes(outcome, st) /\ Updates(outcome))
     \/ "summary" \in Faults
  /\ UNCHANGED history

-----------------------------------------------------------------------------
(* Keys.                                                                   *)

Polling == running /\ step = "poll"

(* A jog the controller accepts adds a frame (see TeleopGoals).            *)
RecordFrame ==
  /\ Polling
  /\ ~reviewing
  /\ status = "recording"
  /\ frames < MaxFrames
  /\ frames' = frames + 1
  /\ UNCHANGED <<diskVars, attempt, running, step, decision, reviewing, status,
                 pendingApproval, pendingSummary>>

EnterReview ==
  /\ Polling
  /\ ~reviewing
  /\ status = "recording"
  /\ reviewing' = TRUE
  /\ UNCHANGED <<diskVars, attempt, running, step, decision, status, frames,
                 pendingApproval, pendingSummary>>

Resume ==
  /\ Polling
  /\ reviewing
  /\ status = "recording"
  /\ reviewing' = FALSE
  /\ UNCHANGED <<diskVars, attempt, running, step, decision, status, frames,
                 pendingApproval, pendingSummary>>

(* 1 and 2, while recording: the metadata is built, the target path is     *)
(* checked and the session finalised before anything is written.           *)
Accept(d) ==
  /\ Polling
  /\ reviewing
  /\ status = "recording"
  /\ frames > 0
  /\ d = "accept_failure" => HasReason[attempt]
  /\ decision' = d
  /\ \/ /\ Episode = NoEpisode
        /\ status' = "accepted"
        /\ step' = "link"
     \/ /\ Episode # NoEpisode
        /\ status' = status
        /\ step' = "failed"
  /\ UNCHANGED <<diskVars, attempt, running, reviewing, frames,
                 pendingApproval, pendingSummary>>

(* 1 and 2 again, after a failed write.                                    *)
Retry(d) ==
  /\ Polling
  /\ reviewing
  /\ status = "accepted"
  /\ pendingApproval = d
  /\ decision' = d
  /\ step' = "link"
  /\ UNCHANGED <<diskVars, attempt, running, reviewing, status, frames,
                 pendingApproval, pendingSummary>>

(* 3 *)
Reject ==
  /\ Polling
  /\ reviewing
  /\ status = "recording"
  /\ status' = "rejected"
  /\ \/ Records("rejected", "rejected") /\ UNCHANGED pendingSummary
     \/ /\ FailsToRecord("rejected", "rejected")
        /\ pendingSummary' = "rejected"
  /\ UNCHANGED <<episodes, attempt, running, step, decision, reviewing, frames,
                 pendingApproval>>

(* s *)
RetrySummary ==
  /\ Polling
  /\ reviewing
  /\ pendingSummary # NoOutcome
  /\ \/ Records(pendingSummary, status) /\ pendingSummary' = NoOutcome
     \/ FailsToRecord(pendingSummary, status) /\ UNCHANGED pendingSummary
  /\ UNCHANGED <<episodes, attempt, running, step, decision, reviewing, status,
                 frames, pendingApproval>>

(* Esc; a failing report never prevents it.                                *)
Abort ==
  /\ Polling
  /\ running' = FALSE
  /\ IF status = "recording"
     THEN /\ status' = "aborted"
          /\ Records("aborted", "aborted") \/ FailsToRecord("aborted", "aborted")
     ELSE UNCHANGED <<status, history>>
  /\ UNCHANGED <<episodes, attempt, step, decision, reviewing, frames,
                 pendingApproval, pendingSummary>>

-----------------------------------------------------------------------------
(* Persisting: the steps of one handler between which the process may die  *)
(* and other programs may create files.                                    *)

MutantReplaceEpisode ==
  /\ running
  /\ step = "link"
  /\ episodes' = [episodes EXCEPT ![PathOf[attempt]] =
       [owner |-> attempt, decision |-> decision, frames |-> frames]]
  /\ step' = "unlink"
  /\ UNCHANGED <<history, attempt, running, decision, reviewing, status, frames,
                 pendingApproval, pendingSummary>>

MutantExistingIsSaved ==
  /\ running
  /\ step = "link"
  /\ episodes' =
       [episodes EXCEPT ![PathOf[attempt]] =
          IF @ = NoEpisode
          THEN [owner |-> attempt, decision |-> decision, frames |-> frames]
          ELSE @]
  /\ step' = "unlink"
  /\ UNCHANGED <<history, attempt, running, decision, reviewing, status, frames,
                 pendingApproval, pendingSummary>>

(* os.link: creates the episode under its name, or raises when the name is *)
(* taken.                                                                  *)
LinkEpisode ==
  /\ running
  /\ step = "link"
  /\ \/ /\ Episode = NoEpisode
        /\ episodes' =
             [episodes EXCEPT ![PathOf[attempt]] =
                [owner |-> attempt, decision |-> decision, frames |-> frames]]
        /\ step' = "unlink"
     \/ /\ Episode # NoEpisode \/ "write" \in Faults
        /\ UNCHANGED episodes
        /\ step' = "failed"
  /\ UNCHANGED <<history, attempt, running, decision, reviewing, status, frames,
                 pendingApproval, pendingSummary>>

(* finally: an exception raised here replaces the return of the path.      *)
UnlinkTemporary ==
  /\ running
  /\ step = "unlink"
  /\ \/ step' = "report"
     \/ "unlink" \in Faults /\ step' = "failed"
  /\ UNCHANGED <<diskVars, attempt, running, decision, reviewing, status, frames,
                 pendingApproval, pendingSummary>>

MutantReportFailureKeepsDecision ==
  /\ running
  /\ step = "failed"
  /\ step' = "poll"
  /\ pendingApproval' = decision
  /\ \/ Records("persistence_failed", status)
     \/ FailsToRecord("persistence_failed", status)
  /\ UNCHANGED <<episodes, attempt, running, decision, reviewing, status, frames,
                 pendingSummary>>

(* The except clause: a finalised session keeps its decision for a retry.  *)
ReportFailure ==
  /\ running
  /\ step = "failed"
  /\ step' = "poll"
  /\ pendingApproval' = IF status = "accepted" THEN decision ELSE NoDecision
  /\ \/ Records("persistence_failed", status)
     \/ FailsToRecord("persistence_failed", status)
  /\ UNCHANGED <<episodes, attempt, running, decision, reviewing, status, frames,
                 pendingSummary>>

ReportSaved ==
  /\ running
  /\ step = "report"
  /\ step' = "poll"
  /\ pendingApproval' = NoDecision
  /\ \/ Records(OutcomeOf(decision), status) /\ pendingSummary' = NoOutcome
     \/ /\ FailsToRecord(OutcomeOf(decision), status)
        /\ pendingSummary' = OutcomeOf(decision)
  /\ UNCHANGED <<episodes, attempt, running, decision, reviewing, status, frames>>

Crash ==
  /\ "crash" \in Faults
  /\ running
  /\ running' = FALSE
  /\ UNCHANGED <<diskVars, attempt, processVars>>

OtherCreates(p) ==
  /\ episodes[p] = NoEpisode
  /\ episodes' = [episodes EXCEPT ![p] =
       [owner |-> Other, decision |-> NoDecision, frames |-> 0]]
  /\ UNCHANGED <<history, attempt, running, processVars>>

Next ==
  \/ StartAttempt
  \/ RecordFrame \/ EnterReview \/ Resume
  \/ \E d \in Decisions : Accept(d) \/ Retry(d)
  \/ Reject \/ RetrySummary \/ Abort
  \/ LinkEpisode \/ UnlinkTemporary \/ ReportFailure \/ ReportSaved
  \/ Crash
  \/ \E p \in Paths : OtherCreates(p)

Spec == Init /\ [][Next]_vars

-----------------------------------------------------------------------------
(* Properties.                                                             *)

LabelOf(d) == IF d = "accept_success" THEN "success" ELSE "failure"

(* The two records as their readers see them.                              *)
DatasetView ==
  [p \in Paths |->
     [owner |-> IF episodes[p].owner \in Attempts THEN episodes[p].owner ELSE Other,
      label |-> CASE episodes[p].owner = Absent -> "absent"
                  [] episodes[p].owner = Other -> "foreign"
                  [] episodes[p].owner \in Attempts -> LabelOf(episodes[p].decision),
      frames |-> episodes[p].frames]]

SummaryView ==
  [a \in Attempts |->
     [outcome |-> CASE history[a].outcome = NoOutcome -> "unreported"
                    [] history[a].outcome = "accepted_success" -> "success"
                    [] history[a].outcome = "accepted_failure" -> "failure"
                    [] history[a].outcome = "persistence_failed" -> "failed"
                    [] OTHER -> "unsaved",
      frames |-> history[a].frames]]

Ledger ==
  INSTANCE ReviewLedger WITH Nobody <- Other, dataset <- DatasetView,
                             summary <- SummaryView

(* Whatever fails, whenever the process is killed and whoever else writes, *)
(* each step of the program is one of ReviewLedger or shows in neither     *)
(* record: no episode is ever replaced or removed, an attempt that was     *)
(* reported as unsaved is not saved later, and what was reported of one    *)
(* only changes from a failed write to what became of that recording.      *)
KeepsTheLedger == Ledger!LedgerSpec

(* An attempt that the summary counts as saved has its episode in the      *)
(* dataset, with the label and the frames the summary gives.               *)
SavedMeansInDataset ==
  \A a \in Attempts :
    history[a].outcome \in SavedOutcomes =>
      LET e == episodes[PathOf[a]]
      IN  /\ e.owner = a
          /\ OutcomeOf(e.decision) = history[a].outcome
          /\ e.frames = history[a].frames

(* When a saved episode's summary update failed, pressing s can still      *)
(* record it: the recording has stayed what was saved.                     *)
SavedSummaryIsRecoverable ==
  running /\ pendingSummary \in SavedOutcomes =>
    Summarizes(pendingSummary, status) /\ Updates(pendingSummary)

(* A failed write that may be retried keeps the decision it was given, and *)
(* the episode, if it did get written, has that decision.                  *)
RetryKeepsDecision ==
  running /\ pendingApproval # NoDecision =>
    /\ status = "accepted"
    /\ Episode.owner = attempt => Episode.decision = pendingApproval

=============================================================================
