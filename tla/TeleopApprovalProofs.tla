------------------------ MODULE TeleopApprovalProofs ------------------------
(***************************************************************************)
(* Proofs about the review of demonstrations: for any number of attempts,  *)
(* paths and frames, and whatever fails, the program implements            *)
(* ReviewLedger, the summary counts nothing as saved that is not in the    *)
(* dataset, and what was saved can be reported.                            *)
(***************************************************************************)
EXTENDS TeleopApproval, TLAPS

OwnedBy(a) == episodes[PathOf[a]].owner = a
FailedWith(n) == [outcome |-> "persistence_failed", frames |-> n]

(* A file is whole, and an attempt's file has its name.                    *)
FilesAreWhole ==
  \A p \in Paths :
    \/ episodes[p] = NoEpisode
    \/ episodes[p] = [owner |-> Other, decision |-> NoDecision, frames |-> 0]
    \/ /\ episodes[p].owner \in 1..attempt
       /\ PathOf[episodes[p].owner] = p
       /\ episodes[p].decision \in Decisions

(* Attempts follow each other.                                             *)
FutureIsOpen ==
  \A a \in Attempts : history[a].outcome = NoOutcome \/ a > attempt => history[a] = NoEntry

(* Where a handler is, and what it has done by then.                       *)
StepsAreOrdered ==
  running =>
    /\ step # "poll" => decision \in Decisions /\ status \in {"recording", "accepted"}
    /\ step = "link" => status = "accepted"
    /\ step = "failed" /\ status = "recording" => Episode # NoEpisode
    /\ step \in {"unlink", "report"} => OwnedBy(attempt)
    /\ step # "poll" => pendingApproval \in {NoDecision, decision}

(* Only an accepted recording is saved, and it stays what was saved.       *)
SessionIsSaved ==
  running =>
    /\ OwnedBy(attempt) =>
         /\ status = "accepted"
         /\ Episode.frames = frames
         /\ step # "poll" => Episode.decision = decision
         /\ pendingApproval # NoDecision => Episode.decision = pendingApproval
    /\ pendingApproval # NoDecision => status = "accepted"
    /\ pendingSummary \in SavedOutcomes =>
         OwnedBy(attempt) /\ OutcomeOf(Episode.decision) = pendingSummary

(* What the summary has of the attempt at work.                            *)
EntryFollows ==
  running =>
    /\ status = "recording" =>
         Entry = NoEntry \/ (Entry.outcome = "persistence_failed" /\ Episode # NoEpisode)
    /\ status = "accepted" =>
         \/ Entry = NoEntry
         \/ Entry = FailedWith(frames)
         \/ /\ OwnedBy(attempt)
            /\ Entry = [outcome |-> OutcomeOf(Episode.decision), frames |-> frames]

Inv ==
  /\ TypeOK
  /\ FilesAreWhole /\ FutureIsOpen
  /\ StepsAreOrdered /\ SessionIsSaved /\ EntryFollows
  /\ SavedMeansInDataset

-----------------------------------------------------------------------------
(* Values.                                                                 *)

LEMMA AttemptNumbers ==
  /\ Other \notin Attempts /\ Absent \notin Attempts /\ Other # Absent
  /\ Attempts \subseteq Owners /\ Other \in Owners /\ Absent \in Owners
  /\ \A a \in Attempts : PathOf[a] \in Paths
BY BoundsAssumption, PathOfAssumption DEF Other, Absent, Attempts, Owners

Files ==
  [owner : Owners, decision : Decisions \cup {NoDecision}, frames : 0..MaxFrames]
Entries ==
  [outcome : FinalOutcomes \cup {"persistence_failed", NoOutcome}, frames : 0..MaxFrames]

LEMMA NoFileNoEntry == NoEpisode \in Files /\ NoEntry \in Entries
BY AttemptNumbers, BoundsAssumption DEF NoEpisode, NoEntry, Files, Entries

(* What the reports of a running attempt are made of.                      *)
Outcomes == FinalOutcomes \cup {"persistence_failed"}

LEMMA OutcomesDiffer ==
  /\ \A d \in Decisions : OutcomeOf(d) \in SavedOutcomes
  /\ \A d, e \in Decisions : OutcomeOf(d) = OutcomeOf(e) => d = e
  /\ NoDecision \notin Decisions /\ NoOutcome \notin Outcomes
  /\ SavedOutcomes \subseteq Outcomes
BY DEF OutcomeOf, Decisions, NoDecision, SavedOutcomes, FinalOutcomes, Outcomes, NoOutcome

LEMMA RecordsTyped ==
  ASSUME TypeOK, running, NEW outcome \in Outcomes, NEW st, Records(outcome, st)
  PROVE  /\ history' \in [Attempts -> Entries]
         /\ history' = [history EXCEPT ![attempt] =
                          [outcome |-> outcome, frames |-> frames]]
         /\ attempt \in Attempts
BY DEF TypeOK, Records, Outcomes, Entries

LEMMA InitInv == Init => Inv
<1> SUFFICES ASSUME Init PROVE Inv
  OBVIOUS
<1>1. TypeOK
  <2>1. episodes \in [Paths -> Files] /\ history \in [Attempts -> Entries]
    BY NoFileNoEntry DEF Init
  <2>2. attempt \in 0..MaxAttempts /\ frames \in 0..MaxFrames
    BY BoundsAssumption DEF Init
  <2> QED BY <2>1, <2>2 DEF Init, TypeOK, Files, Entries
<1>2. FilesAreWhole /\ FutureIsOpen
  BY DEF Init, FilesAreWhole, FutureIsOpen
<1>3. StepsAreOrdered /\ SessionIsSaved /\ EntryFollows
  BY DEF Init, StepsAreOrdered, SessionIsSaved, EntryFollows
<1>4. SavedMeansInDataset
  BY DEF Init, SavedMeansInDataset, NoEntry, NoOutcome, SavedOutcomes
<1> QED BY <1>1, <1>2, <1>3, <1>4 DEF Inv

LEMMA NextType == TypeOK /\ [Next]_vars => TypeOK'
<1> SUFFICES ASSUME TypeOK, [Next]_vars PROVE TypeOK'
  OBVIOUS
<1> USE DEF diskVars, processVars
<1>0. running => attempt \in Attempts /\ PathOf[attempt] \in Paths
  BY AttemptNumbers DEF TypeOK
<1>1. CASE StartAttempt
  <2>1. attempt' \in 0..MaxAttempts /\ attempt' \in Attempts /\ frames' \in 0..MaxFrames
    BY <1>1, BoundsAssumption DEF StartAttempt, TypeOK, Attempts
  <2> QED BY <1>1, <2>1 DEF StartAttempt, TypeOK
<1>2. CASE RecordFrame
  BY <1>2, BoundsAssumption DEF RecordFrame, Polling, TypeOK
<1>3. CASE EnterReview \/ Resume
  BY <1>3 DEF EnterReview, Resume, Polling, TypeOK
<1>4. ASSUME NEW d \in Decisions, Accept(d) PROVE TypeOK'
  BY <1>4 DEF Accept, Polling, TypeOK
<1>5. ASSUME NEW d \in Decisions, Retry(d) PROVE TypeOK'
  BY <1>5 DEF Retry, Polling, TypeOK
<1>6. CASE Reject
  <2>1. history' \in [Attempts -> Entries]
    BY <1>6, RecordsTyped DEF Reject, Polling, FailsToRecord, TypeOK, Entries, Outcomes,
       FinalOutcomes
  <2> QED BY <1>6, <2>1 DEF Reject, Polling, TypeOK, Entries
<1>7. CASE RetrySummary
  <2>1. pendingSummary \in Outcomes
    BY <1>7 DEF RetrySummary, TypeOK, Outcomes, FinalOutcomes, NoOutcome
  <2>2. history' \in [Attempts -> Entries]
    BY <1>7, <2>1, RecordsTyped DEF RetrySummary, Polling, FailsToRecord, TypeOK, Entries
  <2> QED BY <1>7, <2>2 DEF RetrySummary, Polling, TypeOK, Entries
<1>8. CASE Abort
  <2>1. history' \in [Attempts -> Entries]
    BY <1>8, RecordsTyped DEF Abort, Polling, FailsToRecord, TypeOK, Entries, Outcomes,
       FinalOutcomes
  <2> QED BY <1>8, <2>1 DEF Abort, Polling, TypeOK, Entries
<1>9. CASE LinkEpisode
  <2>1. episodes' \in [Paths -> Files]
    <3>1. [owner |-> attempt, decision |-> decision, frames |-> frames] \in Files
      BY <1>0, <1>9, AttemptNumbers DEF LinkEpisode, TypeOK, Files
    <3> QED BY <1>0, <1>9, <3>1 DEF LinkEpisode, TypeOK, Files
  <2> QED BY <1>9, <2>1 DEF LinkEpisode, TypeOK, Files
<1>10. CASE UnlinkTemporary
  BY <1>10 DEF UnlinkTemporary, TypeOK
<1>11. CASE ReportFailure
  <2>1. history' \in [Attempts -> Entries]
    BY <1>11, RecordsTyped DEF ReportFailure, FailsToRecord, TypeOK, Entries, Outcomes
  <2> QED BY <1>11, <2>1 DEF ReportFailure, TypeOK, Entries
<1>12. CASE ReportSaved
  <2>1. OutcomeOf(decision) \in SavedOutcomes
    BY DEF OutcomeOf, SavedOutcomes
  <2>2. history' \in [Attempts -> Entries]
    BY <1>12, <2>1, OutcomesDiffer, RecordsTyped
    DEF ReportSaved, FailsToRecord, TypeOK, Entries
  <2> QED BY <1>12, <2>1, <2>2 DEF ReportSaved, TypeOK, Entries
<1>13. CASE Crash
  BY <1>13 DEF Crash, TypeOK
<1>14. ASSUME NEW p \in Paths, OtherCreates(p) PROVE TypeOK'
  <2>1. [owner |-> Other, decision |-> NoDecision, frames |-> 0] \in Files
    BY AttemptNumbers, BoundsAssumption DEF Files
  <2> QED BY <1>14, <2>1 DEF OtherCreates, TypeOK, Files
<1>15. CASE UNCHANGED vars
  BY <1>15 DEF vars, TypeOK
<1> QED
  BY <1>1, <1>2, <1>3, <1>4, <1>5, <1>6, <1>7, <1>8, <1>9, <1>10, <1>11, <1>12, <1>13,
     <1>14, <1>15
  DEF Next

-----------------------------------------------------------------------------
(* The invariant.                                                          *)

Session == StepsAreOrdered /\ SessionIsSaved /\ EntryFollows
Disk == FilesAreWhole /\ FutureIsOpen /\ SavedMeansInDataset

(* A dead process has no session.                                          *)
LEMMA DeadHasNoSession == ASSUME ~running' PROVE Session'
BY DEF Session, StepsAreOrdered, SessionIsSaved, EntryFollows

(* The disk as it was is as good for an attempt that has come as far.      *)
LEMMA DiskStays == ASSUME Inv, UNCHANGED diskVars, attempt' = attempt PROVE Disk'
BY DEF Inv, Disk, diskVars, FilesAreWhole, FutureIsOpen, SavedMeansInDataset

(* A step that only takes the session on.                                  *)
LEMMA KeysKeepSession ==
  ASSUME Inv, RecordFrame \/ EnterReview \/ Resume
  PROVE  Session'
<1>1. /\ running /\ step = "poll" /\ status = "recording"
      /\ UNCHANGED <<diskVars, attempt, running, step, decision, status,
                     pendingApproval, pendingSummary>>
  BY DEF RecordFrame, EnterReview, Resume, Polling
<1>2. UNCHANGED <<Episode, Entry, OwnedBy(attempt)>>
  BY <1>1 DEF diskVars, Episode, Entry, OwnedBy
<1>3. ~OwnedBy(attempt)
  BY <1>1 DEF Inv, SessionIsSaved
<1> QED BY <1>1, <1>2, <1>3 DEF Inv, Session, StepsAreOrdered, SessionIsSaved, EntryFollows

LEMMA AcceptKeepsSession == ASSUME Inv, NEW d \in Decisions, Accept(d) PROVE Session'
<1>1. /\ running /\ step = "poll" /\ status = "recording" /\ decision' = d
      /\ UNCHANGED <<diskVars, attempt, running, frames, pendingApproval, pendingSummary>>
      /\ \/ Episode = NoEpisode /\ status' = "accepted" /\ step' = "link"
         \/ Episode # NoEpisode /\ status' = status /\ step' = "failed"
  BY DEF Accept, Polling
<1>2. UNCHANGED <<Episode, Entry, OwnedBy(attempt)>>
  BY <1>1 DEF diskVars, Episode, Entry, OwnedBy
<1>3. ~OwnedBy(attempt) /\ pendingApproval = NoDecision
  BY <1>1 DEF Inv, SessionIsSaved
<1>4. StepsAreOrdered'
  BY <1>1, <1>2, <1>3 DEF StepsAreOrdered
<1>5. SessionIsSaved' /\ EntryFollows'
  BY <1>1, <1>2, <1>3 DEF Inv, SessionIsSaved, EntryFollows
<1> QED BY <1>4, <1>5 DEF Session

LEMMA RetryKeepsSession == ASSUME Inv, NEW d \in Decisions, Retry(d) PROVE Session'
<1>1. /\ running /\ step = "poll" /\ status = "accepted" /\ step' = "link"
      /\ pendingApproval = d /\ decision' = d
      /\ UNCHANGED <<diskVars, attempt, running, status, frames, pendingApproval,
                     pendingSummary>>
  BY DEF Retry, Polling
<1>2. UNCHANGED <<Episode, Entry, OwnedBy(attempt)>>
  BY <1>1 DEF diskVars, Episode, Entry, OwnedBy
<1>3. d # NoDecision
  BY OutcomesDiffer
<1>4. StepsAreOrdered'
  BY <1>1, <1>2 DEF StepsAreOrdered
<1>5. SessionIsSaved' /\ EntryFollows'
  BY <1>1, <1>2, <1>3 DEF Inv, SessionIsSaved, EntryFollows, FailedWith
<1> QED BY <1>4, <1>5 DEF Session

-----------------------------------------------------------------------------
(* Reports.                                                                *)

(* A report of a saved recording, or of none that claims to be.            *)
LEMMA RecordsKeepDisk ==
  ASSUME Inv, running, NEW outcome \in Outcomes, NEW st, Records(outcome, st),
         UNCHANGED <<episodes, attempt>>
  PROVE  /\ Disk'
         /\ Entry' = [outcome |-> outcome, frames |-> frames]
<1>1. /\ history' = [history EXCEPT ![attempt] =
                        [outcome |-> outcome, frames |-> frames]]
      /\ attempt \in Attempts
  BY RecordsTyped DEF Inv
<1>2. DOMAIN history = Attempts
  BY DEF Inv, TypeOK
<1>3. Entry' = [outcome |-> outcome, frames |-> frames]
  BY <1>1, <1>2 DEF Entry
<1>4. \A a \in Attempts :
        history'[a] = IF a = attempt THEN [outcome |-> outcome, frames |-> frames]
                      ELSE history[a]
  BY <1>1, <1>2
<1>5. FutureIsOpen'
  <2>1. attempt \in Nat
    BY BoundsAssumption DEF Inv, TypeOK
  <2> QED BY <1>4, <2>1, OutcomesDiffer DEF Inv, FutureIsOpen
<1>6. FilesAreWhole'
  BY DEF Inv, FilesAreWhole
<1>7. SavedMeansInDataset'
  <2> SUFFICES ASSUME NEW a \in Attempts, history'[a].outcome \in SavedOutcomes
               PROVE  /\ episodes[PathOf[a]].owner = a
                      /\ OutcomeOf(episodes[PathOf[a]].decision) = history'[a].outcome
                      /\ episodes[PathOf[a]].frames = history'[a].frames
    BY DEF SavedMeansInDataset
  <2>1. CASE a = attempt
    <3>1. outcome \in SavedOutcomes
      BY <1>4, <2>1
    <3>2. outcome \notin {"rejected", "aborted", "persistence_failed"}
      BY <3>1 DEF SavedOutcomes
    <3> QED BY <1>4, <2>1, <3>2 DEF Records, Summarizes, Episode
  <2>2. CASE a # attempt
    BY <1>4, <2>2 DEF Inv, SavedMeansInDataset
  <2> QED BY <2>1, <2>2
<1> QED BY <1>3, <1>5, <1>6, <1>7 DEF Disk

LEMMA FailsToRecordKeepsDisk ==
  ASSUME Inv, NEW outcome, NEW st, FailsToRecord(outcome, st),
         UNCHANGED <<episodes, attempt>>
  PROVE  Disk' /\ Entry' = Entry
BY DiskStays DEF FailsToRecord, diskVars, Entry

LEMMA RejectKeeps == ASSUME Inv, Reject PROVE Session' /\ Disk'
<1>1. /\ running /\ step = "poll" /\ status = "recording" /\ status' = "rejected"
      /\ UNCHANGED <<episodes, attempt, running, step, decision, frames, pendingApproval>>
      /\ pendingSummary' \in {pendingSummary, "rejected"}
  BY DEF Reject, Polling
<1>2. Disk'
  BY <1>1, RecordsKeepDisk, FailsToRecordKeepsDisk DEF Reject, Outcomes, FinalOutcomes
<1>3. UNCHANGED <<Episode, OwnedBy(attempt)>>
  BY <1>1 DEF Episode, OwnedBy
<1>4. ~OwnedBy(attempt) /\ pendingApproval = NoDecision
  BY <1>1 DEF Inv, SessionIsSaved
<1>5. pendingSummary' \notin SavedOutcomes
  BY <1>1, <1>4 DEF Inv, SessionIsSaved, SavedOutcomes
<1>6. Session'
  BY <1>1, <1>3, <1>4, <1>5 DEF Session, StepsAreOrdered, SessionIsSaved, EntryFollows
<1> QED BY <1>2, <1>6

LEMMA RetrySummaryKeeps == ASSUME Inv, RetrySummary PROVE Session' /\ Disk'
<1>1. /\ running /\ step = "poll" /\ pendingSummary # NoOutcome
      /\ UNCHANGED <<episodes, attempt, running, step, decision, status, frames,
                     pendingApproval>>
      /\ pendingSummary' \in {pendingSummary, NoOutcome}
  BY DEF RetrySummary, Polling
<1>2. pendingSummary \in Outcomes /\ pendingSummary \in SavedOutcomes \cup {"rejected"}
  BY <1>1 DEF Inv, TypeOK, Outcomes, FinalOutcomes, NoOutcome
<1>3. UNCHANGED <<Episode, OwnedBy(attempt)>>
  BY <1>1 DEF Episode, OwnedBy
<1>4. CASE Records(pendingSummary, status)
  <2>1. Disk' /\ Entry' = [outcome |-> pendingSummary, frames |-> frames]
    BY <1>1, <1>2, <1>4, RecordsKeepDisk
  <2>2. CASE pendingSummary = "rejected"
    <3>1. status = "rejected"
      BY <1>4, <2>2 DEF Records, Summarizes, SavedOutcomes
    <3> QED BY <1>1, <1>3, <2>1, <2>2, <3>1, OutcomesDiffer
        DEF Inv, Session, StepsAreOrdered, SessionIsSaved, EntryFollows, SavedOutcomes,
            NoOutcome
  <2>3. CASE pendingSummary \in SavedOutcomes
    <3>1. OwnedBy(attempt) /\ OutcomeOf(Episode.decision) = pendingSummary
          /\ status = "accepted"
      BY <1>1, <2>3 DEF Inv, SessionIsSaved
    <3> QED BY <1>1, <1>3, <2>1, <3>1
        DEF Inv, Session, StepsAreOrdered, SessionIsSaved, EntryFollows, SavedOutcomes,
            NoOutcome
  <2> QED BY <1>2, <2>2, <2>3
<1>5. CASE FailsToRecord(pendingSummary, status)
  <2>1. Disk' /\ Entry' = Entry
    BY <1>1, <1>5, FailsToRecordKeepsDisk
  <2> QED BY <1>1, <1>3, <2>1
      DEF Inv, Session, StepsAreOrdered, SessionIsSaved, EntryFollows, FailedWith,
          SavedOutcomes, NoOutcome
<1> QED BY <1>4, <1>5 DEF RetrySummary

LEMMA AbortKeeps == ASSUME Inv, Abort PROVE Session' /\ Disk'
<1>1. Session'
  BY DeadHasNoSession DEF Abort
<1>2. Disk'
  BY RecordsKeepDisk, FailsToRecordKeepsDisk, DiskStays
  DEF Abort, Polling, Outcomes, FinalOutcomes, diskVars
<1> QED BY <1>1, <1>2

-----------------------------------------------------------------------------
(* Writing.                                                                *)

LEMMA LinkKeeps == ASSUME Inv, LinkEpisode PROVE Session' /\ Disk'
<1>1. /\ running /\ step = "link" /\ status = "accepted" /\ decision \in Decisions
      /\ pendingApproval \in {NoDecision, decision}
      /\ UNCHANGED <<history, attempt, running, decision, status, frames,
                     pendingApproval, pendingSummary>>
  BY DEF LinkEpisode, Inv, StepsAreOrdered
<1>2. attempt \in Attempts /\ PathOf[attempt] \in Paths /\ attempt \in 1..attempt
  BY <1>1, AttemptNumbers, BoundsAssumption DEF Inv, TypeOK, Attempts
<1>3. Entry' = Entry
  BY <1>1 DEF Entry
<1>4. CASE /\ Episode = NoEpisode /\ step' = "unlink"
           /\ episodes' = [episodes EXCEPT ![PathOf[attempt]] =
                [owner |-> attempt, decision |-> decision, frames |-> frames]]
  <2>1. DOMAIN episodes = Paths
    BY DEF Inv, TypeOK
  <2>2. \A p \in Paths :
          episodes'[p] = IF p = PathOf[attempt]
                         THEN [owner |-> attempt, decision |-> decision, frames |-> frames]
                         ELSE episodes[p]
    BY <1>4, <2>1
  <2>3. Episode' = [owner |-> attempt, decision |-> decision, frames |-> frames]
    BY <1>1, <1>2, <2>2 DEF Episode
  <2>4. OwnedBy(attempt)'
    BY <1>1, <2>3 DEF OwnedBy, Episode
  <2>5. ~OwnedBy(attempt)
    BY <1>2, <1>4, AttemptNumbers DEF OwnedBy, Episode, NoEpisode
  <2>6. StepsAreOrdered'
    BY <1>1, <1>4, <2>4 DEF StepsAreOrdered
  <2>7. SessionIsSaved'
    BY <1>1, <2>3, <2>5 DEF Inv, SessionIsSaved
  <2>8. EntryFollows'
    BY <1>1, <1>3, <2>5 DEF Inv, EntryFollows, FailedWith
  <2>9. FilesAreWhole'
    BY <1>1, <1>2, <2>2 DEF Inv, FilesAreWhole
  <2>10. FutureIsOpen'
    BY <1>1 DEF Inv, FutureIsOpen
  <2>11. SavedMeansInDataset'
    <3> SUFFICES ASSUME NEW a \in Attempts, history[a].outcome \in SavedOutcomes
                 PROVE  episodes'[PathOf[a]] = episodes[PathOf[a]]
      BY <1>1 DEF Inv, SavedMeansInDataset
    <3>1. episodes[PathOf[a]] # NoEpisode
      BY AttemptNumbers DEF Inv, SavedMeansInDataset, NoEpisode
    <3> QED BY <1>4, <2>2, <3>1, AttemptNumbers DEF Episode
  <2> QED BY <2>6, <2>7, <2>8, <2>9, <2>10, <2>11 DEF Session, Disk
<1>5. CASE UNCHANGED episodes /\ step' = "failed"
  <2>1. UNCHANGED <<Episode, OwnedBy(attempt)>>
    BY <1>1, <1>5 DEF Episode, OwnedBy
  <2>2. StepsAreOrdered'
    BY <1>1, <1>5, <2>1 DEF StepsAreOrdered
  <2>3. SessionIsSaved' /\ EntryFollows'
    BY <1>1, <1>3, <1>5, <2>1 DEF Inv, SessionIsSaved, EntryFollows, FailedWith
  <2> QED BY <1>1, <1>5, <2>2, <2>3, DiskStays DEF Session, diskVars
<1> QED BY <1>4, <1>5 DEF LinkEpisode

LEMMA UnlinkKeeps == ASSUME Inv, UnlinkTemporary PROVE Session' /\ Disk'
<1>1. /\ running /\ step = "unlink" /\ step' \in {"report", "failed"}
      /\ UNCHANGED <<diskVars, attempt, running, decision, status, frames,
                     pendingApproval, pendingSummary>>
  BY DEF UnlinkTemporary
<1>2. UNCHANGED <<Episode, Entry, OwnedBy(attempt)>>
  BY <1>1 DEF diskVars, Episode, Entry, OwnedBy
<1>3. OwnedBy(attempt) /\ status = "accepted"
  BY <1>1 DEF Inv, StepsAreOrdered, SessionIsSaved
<1>4. StepsAreOrdered'
  BY <1>1, <1>2, <1>3 DEF Inv, StepsAreOrdered
<1>5. SessionIsSaved' /\ EntryFollows'
  BY <1>1, <1>2 DEF Inv, SessionIsSaved, EntryFollows, FailedWith
<1> QED BY <1>1, <1>4, <1>5, DiskStays DEF Session

LEMMA ReportFailureKeeps == ASSUME Inv, ReportFailure PROVE Session' /\ Disk'
<1>1. /\ running /\ step = "failed" /\ step' = "poll"
      /\ pendingApproval' = (IF status = "accepted" THEN decision ELSE NoDecision)
      /\ UNCHANGED <<episodes, attempt, running, decision, status, frames,
                     pendingSummary>>
  BY DEF ReportFailure
<1>2. /\ UNCHANGED <<Episode, OwnedBy(attempt)>>
      /\ status = "recording" => Episode # NoEpisode
  BY <1>1 DEF Episode, OwnedBy, Inv, StepsAreOrdered
<1>3. Disk' /\ Entry' \in {Entry, FailedWith(frames)}
  BY <1>1, RecordsKeepDisk, FailsToRecordKeepsDisk DEF ReportFailure, Outcomes, FailedWith
<1>4. StepsAreOrdered' /\ SessionIsSaved'
  BY <1>1, <1>2 DEF Inv, StepsAreOrdered, SessionIsSaved
<1>5. EntryFollows'
  BY <1>1, <1>2, <1>3 DEF Inv, EntryFollows, FailedWith
<1> QED BY <1>3, <1>4, <1>5 DEF Session

LEMMA ReportSavedKeeps == ASSUME Inv, ReportSaved PROVE Session' /\ Disk'
<1>1. /\ running /\ step = "report" /\ step' = "poll" /\ pendingApproval' = NoDecision
      /\ UNCHANGED <<episodes, attempt, running, decision, status, frames>>
      /\ pendingSummary' \in {NoOutcome, OutcomeOf(decision)}
  BY DEF ReportSaved
<1>2. UNCHANGED <<Episode, OwnedBy(attempt)>>
  BY <1>1 DEF Episode, OwnedBy
<1>3. OwnedBy(attempt) /\ Episode.decision = decision /\ status = "accepted"
      /\ OutcomeOf(decision) \in Outcomes
  BY <1>1, OutcomesDiffer DEF Inv, StepsAreOrdered, SessionIsSaved
<1>4. /\ Disk'
      /\ Entry' \in {Entry, [outcome |-> OutcomeOf(Episode.decision), frames |-> frames]}
  BY <1>1, <1>3, RecordsKeepDisk, FailsToRecordKeepsDisk DEF ReportSaved
<1>5. StepsAreOrdered'
  BY <1>1 DEF StepsAreOrdered
<1>6. SessionIsSaved'
  BY <1>1, <1>2, <1>3 DEF Inv, SessionIsSaved, SavedOutcomes, NoOutcome
<1>7. EntryFollows'
  BY <1>1, <1>2, <1>3, <1>4 DEF Inv, EntryFollows, FailedWith
<1> QED BY <1>4, <1>5, <1>6, <1>7 DEF Session

-----------------------------------------------------------------------------
(* Attempts come, and others write.                                        *)

LEMMA StartKeeps == ASSUME Inv, StartAttempt PROVE Session' /\ Disk'
<1>1. /\ attempt' = attempt + 1 /\ attempt' \in Attempts /\ attempt \in Nat
      /\ UNCHANGED diskVars
  BY BoundsAssumption DEF StartAttempt, Inv, TypeOK, Attempts
<1>2. ~OwnedBy(attempt)'
  <2>1. PathOf[attempt'] \in Paths /\ attempt' \notin {Other, Absent}
    BY <1>1, AttemptNumbers
  <2>2. episodes[PathOf[attempt']].owner # attempt'
    BY <1>1, <2>1 DEF Inv, FilesAreWhole, NoEpisode
  <2> QED BY <1>1, <2>2 DEF OwnedBy, diskVars
<1>3. Entry' = NoEntry
  BY <1>1 DEF Inv, FutureIsOpen, Entry, diskVars
<1>4. Session'
  BY <1>2, <1>3, OutcomesDiffer DEF StartAttempt, Session, StepsAreOrdered,
     SessionIsSaved, EntryFollows, SavedOutcomes, NoOutcome
<1>5. FilesAreWhole'
  BY <1>1 DEF Inv, FilesAreWhole, diskVars
<1>6. FutureIsOpen' /\ SavedMeansInDataset'
  BY <1>1, BoundsAssumption
  DEF Inv, FutureIsOpen, SavedMeansInDataset, diskVars, Attempts
<1> QED BY <1>4, <1>5, <1>6 DEF Disk

LEMMA OtherKeeps == ASSUME Inv, NEW p \in Paths, OtherCreates(p) PROVE Session' /\ Disk'
<1>1. episodes[p] = NoEpisode /\ UNCHANGED <<history, attempt, running, processVars>>
  BY DEF OtherCreates
<1>2. \A q \in Paths :
        episodes'[q] = IF q = p
                       THEN [owner |-> Other, decision |-> NoDecision, frames |-> 0]
                       ELSE episodes[q]
  BY DEF OtherCreates, Inv, TypeOK
<1>3. \A a \in Attempts :
        /\ episodes[PathOf[a]].owner = a => episodes'[PathOf[a]] = episodes[PathOf[a]]
        /\ episodes'[PathOf[a]].owner = a => episodes[PathOf[a]].owner = a
        /\ episodes[PathOf[a]] # NoEpisode => episodes'[PathOf[a]] # NoEpisode
  BY <1>1, <1>2, AttemptNumbers DEF NoEpisode
<1>4. running => attempt \in Attempts
  BY DEF Inv, TypeOK
<1>5. running =>
        /\ Entry' = Entry
        /\ OwnedBy(attempt)' <=> OwnedBy(attempt)
        /\ OwnedBy(attempt) => Episode' = Episode
        /\ Episode # NoEpisode => Episode' # NoEpisode
  BY <1>1, <1>3, <1>4 DEF Entry, Episode, OwnedBy
<1>6. StepsAreOrdered'
  BY <1>1, <1>5 DEF Inv, StepsAreOrdered, processVars
<1>7. SessionIsSaved' /\ EntryFollows'
  BY <1>1, <1>5 DEF Inv, SessionIsSaved, EntryFollows, FailedWith, processVars
<1>8. FilesAreWhole' /\ FutureIsOpen'
  BY <1>1, <1>2 DEF Inv, FilesAreWhole, FutureIsOpen
<1>9. SavedMeansInDataset'
  BY <1>1, <1>3 DEF Inv, SavedMeansInDataset
<1> QED BY <1>6, <1>7, <1>8, <1>9 DEF Session, Disk

LEMMA StutterKeeps == ASSUME Inv, UNCHANGED vars PROVE Session' /\ Disk'
<1>1. UNCHANGED <<Episode, Entry, OwnedBy(attempt)>>
  BY DEF vars, diskVars, Episode, Entry, OwnedBy
<1>2. StepsAreOrdered' /\ SessionIsSaved' /\ EntryFollows'
  BY <1>1 DEF vars, processVars, Inv, StepsAreOrdered, SessionIsSaved, EntryFollows,
     FailedWith
<1> QED BY <1>2, DiskStays DEF vars, Session

LEMMA NextInv == Inv /\ [Next]_vars => Inv'
<1> SUFFICES ASSUME Inv, [Next]_vars PROVE Session' /\ Disk'
  BY NextType DEF Inv, Session, Disk
<1>1. CASE StartAttempt
  BY <1>1, StartKeeps
<1>2. CASE RecordFrame \/ EnterReview \/ Resume
  BY <1>2, KeysKeepSession, DiskStays DEF RecordFrame, EnterReview, Resume
<1>3. ASSUME NEW d \in Decisions, Accept(d) PROVE Session' /\ Disk'
  BY <1>3, AcceptKeepsSession, DiskStays DEF Accept
<1>4. ASSUME NEW d \in Decisions, Retry(d) PROVE Session' /\ Disk'
  BY <1>4, RetryKeepsSession, DiskStays DEF Retry
<1>5. CASE Reject \/ RetrySummary \/ Abort
  BY <1>5, RejectKeeps, RetrySummaryKeeps, AbortKeeps
<1>6. CASE LinkEpisode \/ UnlinkTemporary
  BY <1>6, LinkKeeps, UnlinkKeeps
<1>7. CASE ReportFailure \/ ReportSaved
  BY <1>7, ReportFailureKeeps, ReportSavedKeeps
<1>8. CASE Crash
  BY <1>8, DeadHasNoSession, DiskStays DEF Crash
<1>9. ASSUME NEW p \in Paths, OtherCreates(p) PROVE Session' /\ Disk'
  BY <1>9, OtherKeeps
<1>10. CASE UNCHANGED vars
  BY <1>10, StutterKeeps
<1> QED BY <1>1, <1>2, <1>3, <1>4, <1>5, <1>6, <1>7, <1>8, <1>9, <1>10 DEF Next

LEMMA Invariance == Spec => []Inv
BY InitInv, NextInv, PTL DEF Spec

-----------------------------------------------------------------------------
(* The ledger.                                                             *)

(* How a file looks to its readers.                                        *)
LEMMA OwnerView ==
  ASSUME NEW p \in Paths
  PROVE  DatasetView[p].owner =
           IF episodes[p].owner \in Attempts THEN episodes[p].owner ELSE Other
BY DEF DatasetView

(* A file that stays looks the same, a new one as what was written.        *)
LEMMA NextViews ==
  ASSUME NEW p \in Paths
  PROVE  /\ episodes'[p] = episodes[p] => DatasetView'[p] = DatasetView[p]
         /\ \A a \in Attempts : \A d, n :
              episodes'[p] = [owner |-> a, decision |-> d, frames |-> n] =>
                DatasetView'[p] = [owner |-> a, label |-> LabelOf(d), frames |-> n]
         /\ episodes'[p] = [owner |-> Other, decision |-> NoDecision, frames |-> 0] =>
              DatasetView'[p] = Ledger!Foreign
<1>1. episodes'[p] = episodes[p] => DatasetView'[p] = DatasetView[p]
  BY DEF DatasetView
<1>2. ASSUME NEW a \in Attempts, NEW d, NEW n,
             episodes'[p] = [owner |-> a, decision |-> d, frames |-> n]
      PROVE  DatasetView'[p] = [owner |-> a, label |-> LabelOf(d), frames |-> n]
  <2>1. episodes'[p].owner = a /\ episodes'[p].decision = d /\ episodes'[p].frames = n
    BY <1>2
  <2> QED BY <2>1, AttemptNumbers DEF DatasetView
<1>3. ASSUME episodes'[p] = [owner |-> Other, decision |-> NoDecision, frames |-> 0]
      PROVE  DatasetView'[p] = Ledger!Foreign
  <2>1. episodes'[p].owner = Other /\ episodes'[p].frames = 0
    BY <1>3
  <2> QED BY <2>1, AttemptNumbers DEF DatasetView, Ledger!Foreign
<1> QED BY <1>1, <1>2, <1>3

LEMMA FileViews ==
  ASSUME NEW p \in Paths
  PROVE  /\ episodes[p] = NoEpisode => DatasetView[p] = Ledger!Nothing
         /\ episodes[p].owner \in Attempts =>
              DatasetView[p] = [owner |-> episodes[p].owner,
                                label |-> LabelOf(episodes[p].decision),
                                frames |-> episodes[p].frames]
<1>1. ASSUME episodes[p] = NoEpisode PROVE DatasetView[p] = Ledger!Nothing
  <2>1. episodes[p].owner = Absent /\ episodes[p].frames = 0
    BY <1>1 DEF NoEpisode
  <2> QED BY <2>1, AttemptNumbers DEF DatasetView, Ledger!Nothing
<1>2. ASSUME episodes[p].owner \in Attempts
      PROVE  DatasetView[p] = [owner |-> episodes[p].owner,
                               label |-> LabelOf(episodes[p].decision),
                               frames |-> episodes[p].frames]
  BY <1>2, AttemptNumbers DEF DatasetView
<1> QED BY <1>1, <1>2

(* How an entry does.                                                      *)
OutcomeView(o) ==
  CASE o = NoOutcome -> "unreported"
    [] o = "accepted_success" -> "success"
    [] o = "accepted_failure" -> "failure"
    [] o = "persistence_failed" -> "failed"
    [] OTHER -> "unsaved"

LEMMA SummaryViews ==
  ASSUME NEW a \in Attempts
  PROVE  SummaryView[a] = [outcome |-> OutcomeView(history[a].outcome),
                           frames |-> history[a].frames]
BY DEF SummaryView, OutcomeView

LEMMA OutcomeViews ==
  /\ OutcomeView(NoOutcome) = "unreported"
  /\ OutcomeView("persistence_failed") = "failed"
  /\ OutcomeView("rejected") = "unsaved" /\ OutcomeView("aborted") = "unsaved"
  /\ \A d \in Decisions : OutcomeView(OutcomeOf(d)) = LabelOf(d)
  /\ \A d \in Decisions : LabelOf(d) \in Ledger!Labels
BY DEF OutcomeView, NoOutcome, Decisions, OutcomeOf, LabelOf, Ledger!Labels

(* An entry that may be replaced looks unsettled.                          *)
LEMMA UnsettledViews ==
  ASSUME NEW a \in Attempts, NEW n, history[a] = NoEntry \/ history[a] = FailedWith(n)
  PROVE  Ledger!Unsettled(a, n)
<1>1. CASE history[a] = NoEntry
  <2>1. SummaryView[a] = Ledger!Unreported
    BY <1>1, SummaryViews, OutcomeViews DEF NoEntry, Ledger!Unreported
  <2> QED BY <2>1 DEF Ledger!Unsettled
<1>2. CASE history[a] = FailedWith(n)
  <2>1. SummaryView[a] = [outcome |-> "failed", frames |-> n]
    BY <1>2, SummaryViews, OutcomeViews DEF FailedWith
  <2> QED BY <2>1 DEF Ledger!Unsettled
<1> QED BY <1>1, <1>2

(* The views are functions, each determined by its values.                 *)
LEMMA ViewsExtend ==
  /\ \A p \in Paths : \A x :
       (\A q \in Paths : DatasetView'[q] = IF q = p THEN x ELSE DatasetView[q])
         => DatasetView' = [DatasetView EXCEPT ![p] = x]
  /\ \A a \in Attempts : \A x :
       (\A b \in Attempts : SummaryView'[b] = IF b = a THEN x ELSE SummaryView[b])
         => SummaryView' = [SummaryView EXCEPT ![a] = x]
<1> DEFINE D == DatasetView
           E == DatasetView'
           S == SummaryView
           T == SummaryView'
<1>1. DOMAIN D = Paths /\ DOMAIN E = Paths
      /\ D = [p \in Paths |-> D[p]] /\ E = [p \in Paths |-> E[p]]
  BY DEF DatasetView
<1>2. DOMAIN S = Attempts /\ DOMAIN T = Attempts
      /\ S = [a \in Attempts |-> S[a]] /\ T = [a \in Attempts |-> T[a]]
  BY DEF SummaryView
<1> HIDE DEF D, E, S, T
<1>3. \A p \in Paths : \A x :
        (\A q \in Paths : E[q] = IF q = p THEN x ELSE D[q]) => E = [D EXCEPT ![p] = x]
  BY <1>1
<1>4. \A a \in Attempts : \A x :
        (\A b \in Attempts : T[b] = IF b = a THEN x ELSE S[b]) => T = [S EXCEPT ![a] = x]
  BY <1>2
<1> QED BY <1>3, <1>4 DEF D, E, S, T

LEMMA DatasetStays == ASSUME UNCHANGED episodes PROVE UNCHANGED DatasetView
BY DEF DatasetView

LEMMA SummaryStays == ASSUME UNCHANGED history PROVE UNCHANGED SummaryView
BY DEF SummaryView

LEMMA InitLedger == Init => Ledger!LedgerInit
<1> SUFFICES ASSUME Init PROVE Ledger!LedgerInit
  OBVIOUS
<1>1. DatasetView = [p \in Paths |-> Ledger!Nothing]
  BY AttemptNumbers DEF Init, DatasetView, NoEpisode, Ledger!Nothing
<1>2. SummaryView = [a \in Attempts |-> Ledger!Unreported]
  BY DEF Init, SummaryView, NoEntry, NoOutcome, Ledger!Unreported
<1> QED BY <1>1, <1>2 DEF Ledger!LedgerInit

LEMMA LinkIsSave ==
  ASSUME Inv, Inv', LinkEpisode
  PROVE  Ledger!LedgerNext \/ UNCHANGED Ledger!ledgerVars
<1>1. /\ running /\ status = "accepted" /\ decision \in Decisions
      /\ UNCHANGED history
      /\ attempt \in Attempts /\ PathOf[attempt] \in Paths /\ frames \in 0..MaxFrames
  BY AttemptNumbers DEF LinkEpisode, Inv, StepsAreOrdered, TypeOK
<1>2. CASE UNCHANGED episodes
  BY <1>1, <1>2, DatasetStays, SummaryStays DEF Ledger!ledgerVars
<1>3. CASE /\ Episode = NoEpisode
           /\ episodes' = [episodes EXCEPT ![PathOf[attempt]] =
                [owner |-> attempt, decision |-> decision, frames |-> frames]]
  <2>1. \A p \in Paths :
          episodes'[p] = IF p = PathOf[attempt]
                         THEN [owner |-> attempt, decision |-> decision, frames |-> frames]
                         ELSE episodes[p]
    BY <1>3 DEF Inv, TypeOK
  <2>2. \A p \in Paths :
          DatasetView'[p] =
            IF p = PathOf[attempt]
            THEN [owner |-> attempt, label |-> LabelOf(decision), frames |-> frames]
            ELSE DatasetView[p]
    BY <1>1, <2>1, NextViews
  <2>3. DatasetView' =
          [DatasetView EXCEPT ![PathOf[attempt]] =
             [owner |-> attempt, label |-> LabelOf(decision), frames |-> frames]]
    BY <1>1, <2>2, ViewsExtend
  <2>4. DatasetView[PathOf[attempt]] = Ledger!Nothing
    BY <1>1, <1>3, FileViews DEF Episode
  <2>5. Entry = NoEntry \/ Entry = FailedWith(frames)
    <3>1. ~OwnedBy(attempt)
      BY <1>1, <1>3, AttemptNumbers DEF OwnedBy, Episode, NoEpisode
    <3> QED BY <1>1, <3>1 DEF Inv, EntryFollows
  <2>6. Ledger!Unsettled(attempt, frames)
    BY <1>1, <2>5, UnsettledViews DEF Entry
  <2>7. Ledger!Save(attempt, LabelOf(decision), frames)
    BY <1>1, <2>3, <2>4, <2>6, SummaryStays DEF Ledger!Save
  <2> QED BY <1>1, <2>7, OutcomeViews DEF Ledger!LedgerNext, Ledger!Sizes
<1> QED BY <1>2, <1>3 DEF LinkEpisode

LEMMA OtherIsOtherSaves ==
  ASSUME Inv, NEW p \in Paths, OtherCreates(p)
  PROVE  Ledger!LedgerNext
<1>1. \A q \in Paths :
        episodes'[q] = IF q = p
                       THEN [owner |-> Other, decision |-> NoDecision, frames |-> 0]
                       ELSE episodes[q]
  BY DEF OtherCreates, Inv, TypeOK
<1>2. \A q \in Paths :
        DatasetView'[q] = IF q = p THEN Ledger!Foreign ELSE DatasetView[q]
  BY <1>1, NextViews
<1>3. DatasetView' = [DatasetView EXCEPT ![p] = Ledger!Foreign]
  BY <1>2, ViewsExtend
<1>4. DatasetView[p] = Ledger!Nothing /\ UNCHANGED SummaryView
  BY FileViews, SummaryStays DEF OtherCreates
<1> QED BY <1>3, <1>4 DEF Ledger!LedgerNext, Ledger!OtherSaves

LEMMA RecordsIsReport ==
  ASSUME Inv, running, NEW outcome \in Outcomes, Records(outcome, status'),
         UNCHANGED <<episodes, attempt>>,
         status' \in {status, "rejected", "aborted"},
         status' # status => status = "recording"
  PROVE  Ledger!LedgerNext \/ UNCHANGED Ledger!ledgerVars
<1>1. /\ attempt \in Attempts /\ PathOf[attempt] \in Paths /\ frames \in 0..MaxFrames
      /\ history' = [history EXCEPT ![attempt] =
                       [outcome |-> outcome, frames |-> frames]]
      /\ history \in [Attempts -> Entries]
  BY RecordsTyped, AttemptNumbers DEF Inv, TypeOK, Entries
<1>2. UNCHANGED DatasetView
  BY DatasetStays
<1>3. SummaryView' = [SummaryView EXCEPT ![attempt] =
                        [outcome |-> OutcomeView(outcome), frames |-> frames]]
  <2>1. \A a \in Attempts :
          history'[a] = IF a = attempt THEN [outcome |-> outcome, frames |-> frames]
                        ELSE history[a]
    BY <1>1
  <2>2. \A a \in Attempts :
          SummaryView'[a] =
            IF a = attempt THEN [outcome |-> OutcomeView(outcome), frames |-> frames]
            ELSE SummaryView[a]
    BY <2>1 DEF SummaryView, OutcomeView
  <2> QED BY <1>1, <2>2, ViewsExtend
<1>4. CASE Entry.outcome = outcome /\ Entry.frames = frames
  <2>1. history[attempt] = [outcome |-> outcome, frames |-> frames]
    BY <1>1, <1>4 DEF Entry, Entries
  <2>2. UNCHANGED history
    BY <1>1, <2>1
  <2> QED BY <1>2, <2>2, SummaryStays DEF Ledger!ledgerVars
<1>5. CASE ~(Entry.outcome = outcome /\ Entry.frames = frames)
  <2>1. Entry = NoEntry \/ Entry = FailedWith(frames)
    <3>1. CASE Entry.outcome = NoOutcome
      BY <1>1, <3>1 DEF Inv, FutureIsOpen, Entry
    <3>2. CASE Entry.outcome = "persistence_failed" /\ Entry.frames = frames
      BY <1>1, <3>2 DEF Entry, Entries, FailedWith
    <3> QED BY <1>5, <3>1, <3>2 DEF Records, Updates
  <2>2. Ledger!Unsettled(attempt, frames)
    BY <1>1, <2>1, UnsettledViews DEF Entry
  <2>3. Ledger!Report(attempt, OutcomeView(outcome), frames)
    BY <1>2, <1>3, <2>2 DEF Ledger!Report
  <2>4. CASE outcome = "persistence_failed"
    BY <1>1, <2>3, <2>4, OutcomeViews
    DEF Ledger!LedgerNext, Ledger!ReportFailure, Ledger!Sizes
  <2>5. CASE outcome \in {"rejected", "aborted"}
    <3>1. ~OwnedBy(attempt)
      <4>1. status \in {"recording", "rejected", "aborted"}
        BY <2>5 DEF Records, Summarizes, SavedOutcomes
      <4> QED BY <4>1 DEF Inv, SessionIsSaved
    <3>2. DatasetView[PathOf[attempt]].owner # attempt
      BY <1>1, <3>1, OwnerView, AttemptNumbers DEF OwnedBy
    <3> QED BY <1>1, <2>3, <2>5, <3>2, OutcomeViews
        DEF Ledger!LedgerNext, Ledger!ReportUnsaved, Ledger!Sizes
  <2>6. CASE outcome \in SavedOutcomes
    <3>1. /\ Episode.owner = attempt /\ OutcomeOf(Episode.decision) = outcome
          /\ Episode.frames = frames
      BY <2>6 DEF Records, Summarizes, SavedOutcomes
    <3>2. Episode.decision \in Decisions
      BY <1>1, <3>1, AttemptNumbers DEF Inv, FilesAreWhole, Episode, NoEpisode
    <3>3. DatasetView[PathOf[attempt]] =
            [owner |-> attempt, label |-> OutcomeView(outcome), frames |-> frames]
      BY <1>1, <3>1, <3>2, FileViews, OutcomeViews DEF Episode
    <3>4. OutcomeView(outcome) \in Ledger!Labels
      BY <3>1, <3>2, OutcomeViews
    <3> QED BY <1>1, <2>3, <3>3, <3>4
        DEF Ledger!LedgerNext, Ledger!ReportSaved, Ledger!Sizes
  <2> QED BY <2>4, <2>5, <2>6 DEF Outcomes, FinalOutcomes
<1> QED BY <1>4, <1>5

LEMMA StepLedger ==
  Inv /\ Inv' /\ [Next]_vars => [Ledger!LedgerNext]_(Ledger!ledgerVars)
<1> SUFFICES ASSUME Inv, Inv', [Next]_vars
             PROVE  Ledger!LedgerNext \/ UNCHANGED Ledger!ledgerVars
  OBVIOUS
<1>1. CASE UNCHANGED diskVars
  BY <1>1, DatasetStays, SummaryStays DEF diskVars, Ledger!ledgerVars
<1>2. CASE LinkEpisode
  BY <1>2, LinkIsSave
<1>3. ASSUME NEW p \in Paths, OtherCreates(p)
      PROVE  Ledger!LedgerNext \/ UNCHANGED Ledger!ledgerVars
  BY <1>3, OtherIsOtherSaves
<1>4. ASSUME running, UNCHANGED <<episodes, attempt>>, NEW outcome \in Outcomes,
             Records(outcome, status') \/ FailsToRecord(outcome, status'),
             status' \in {status, "rejected", "aborted"},
             status' # status => status = "recording"
      PROVE  Ledger!LedgerNext \/ UNCHANGED Ledger!ledgerVars
  BY <1>1, <1>4, RecordsIsReport DEF FailsToRecord, diskVars
<1>5. CASE Reject
  BY <1>4, <1>5 DEF Reject, Polling, Outcomes, FinalOutcomes
<1>6. CASE RetrySummary
  <2>1. pendingSummary \in Outcomes
    BY <1>6 DEF RetrySummary, Inv, TypeOK, Outcomes, FinalOutcomes, NoOutcome
  <2> QED BY <1>4, <1>6, <2>1 DEF RetrySummary, Polling
<1>7. CASE Abort
  BY <1>1, <1>4, <1>7 DEF Abort, Polling, Outcomes, FinalOutcomes, diskVars
<1>8. CASE ReportFailure
  BY <1>4, <1>8 DEF ReportFailure, Outcomes
<1>9. CASE ReportSaved
  <2>1. OutcomeOf(decision) \in Outcomes
    BY DEF OutcomeOf, Outcomes, FinalOutcomes, SavedOutcomes
  <2> QED BY <1>4, <1>9, <2>1 DEF ReportSaved
<1>10. CASE StartAttempt \/ RecordFrame \/ EnterReview \/ Resume \/ UnlinkTemporary \/ Crash
  BY <1>1, <1>10 DEF StartAttempt, RecordFrame, EnterReview, Resume, UnlinkTemporary,
     Crash
<1>11. ASSUME NEW d \in Decisions, Accept(d) \/ Retry(d) PROVE UNCHANGED diskVars
  BY <1>11 DEF Accept, Retry
<1>12. CASE UNCHANGED vars
  BY <1>1, <1>12 DEF vars
<1> QED
  BY <1>1, <1>2, <1>3, <1>5, <1>6, <1>7, <1>8, <1>9, <1>10, <1>11, <1>12 DEF Next

-----------------------------------------------------------------------------
(* Theorems.                                                               *)

(* Every variable of the review keeps its type.                            *)
THEOREM TypeCorrect == Spec => []TypeOK
<1>1. Inv => TypeOK
  BY DEF Inv
<1> QED BY <1>1, Invariance, PTL

(* What the summary counts as saved is in the dataset, with the label and  *)
(* the frames that the summary gives.                                      *)
THEOREM SavedMeansInDatasetHolds == Spec => []SavedMeansInDataset
<1>1. Inv => SavedMeansInDataset
  BY DEF Inv
<1> QED BY <1>1, Invariance, PTL

(* A saved episode whose summary update failed can still be reported.      *)
THEOREM SavedSummaryIsRecoverableHolds == Spec => []SavedSummaryIsRecoverable
<1>1. Inv => SavedSummaryIsRecoverable
  <2> SUFFICES ASSUME Inv, running, pendingSummary \in SavedOutcomes
               PROVE  Summarizes(pendingSummary, status) /\ Updates(pendingSummary)
    BY DEF SavedSummaryIsRecoverable
  <2>1. /\ OwnedBy(attempt) /\ status = "accepted" /\ Episode.frames = frames
        /\ OutcomeOf(Episode.decision) = pendingSummary
    BY DEF Inv, SessionIsSaved
  <2>2. \/ Entry = NoEntry \/ Entry = FailedWith(frames)
        \/ Entry = [outcome |-> pendingSummary, frames |-> frames]
    BY <2>1 DEF Inv, EntryFollows
  <2>3. Updates(pendingSummary)
    BY <2>2 DEF Updates, NoEntry, FailedWith
  <2> QED BY <2>1, <2>3 DEF Summarizes, OwnedBy, Episode
<1> QED BY <1>1, Invariance, PTL

(* A failed write that may be retried keeps the decision it was given.     *)
THEOREM RetryKeepsDecisionHolds == Spec => []RetryKeepsDecision
<1>1. Inv => RetryKeepsDecision
  BY DEF Inv, SessionIsSaved, OwnedBy, Episode, RetryKeepsDecision
<1> QED BY <1>1, Invariance, PTL

(* The program implements ReviewLedger, under the two views of the disk.   *)
THEOREM KeepsTheLedgerHolds == Spec => KeepsTheLedger
BY InitLedger, StepLedger, Invariance, PTL
   DEF Spec, KeepsTheLedger, Ledger!LedgerSpec
=============================================================================
