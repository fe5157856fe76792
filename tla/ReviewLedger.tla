----------------------------- MODULE ReviewLedger -----------------------------
(***************************************************************************)
(* What the review of demonstrations promises to whoever reads its two     *)
(* records, the dataset and the collection summary.  A file appears in the *)
(* dataset with its final content and stays.  The summary tells once what  *)
(* became of an attempt: that it was saved, of a file that is there; that  *)
(* it was not, of one that is not and will not be; or that saving failed,  *)
(* of a recording that may still be settled either way, as it is.          *)
(***************************************************************************)
EXTENDS Naturals

CONSTANTS
  Attempts,
  Nobody,     \* no attempt
  Paths,      \* the names of the files
  PathOf,     \* PathOf[a]: the one that attempt a may create
  MaxFrames   \* bound on the frames of a recording

VARIABLES
  dataset,    \* dataset[p]: what the file at p contains
  summary     \* summary[a]: what was reported of attempt a

ledgerVars == <<dataset, summary>>

Labels == {"success", "failure"}
Sizes == 0..MaxFrames

Nothing == [owner |-> Nobody, label |-> "absent", frames |-> 0]
Foreign == [owner |-> Nobody, label |-> "foreign", frames |-> 0]
Unreported == [outcome |-> "unreported", frames |-> 0]

LedgerInit ==
  /\ dataset = [p \in Paths |-> Nothing]
  /\ summary = [a \in Attempts |-> Unreported]

-----------------------------------------------------------------------------
(* The dataset.                                                            *)

(* What a report may still change: n being the frames of the recording.    *)
Unsettled(a, n) ==
  summary[a] = Unreported \/ summary[a] = [outcome |-> "failed", frames |-> n]

Save(a, label, n) ==
  /\ dataset[PathOf[a]] = Nothing
  /\ Unsettled(a, n)
  /\ dataset' = [dataset EXCEPT ![PathOf[a]] =
                   [owner |-> a, label |-> label, frames |-> n]]
  /\ UNCHANGED summary

OtherSaves(p) ==
  /\ dataset[p] = Nothing
  /\ dataset' = [dataset EXCEPT ![p] = Foreign]
  /\ UNCHANGED summary

-----------------------------------------------------------------------------
(* The summary.                                                            *)

Report(a, outcome, n) ==
  /\ Unsettled(a, n)
  /\ summary' = [summary EXCEPT ![a] = [outcome |-> outcome, frames |-> n]]
  /\ UNCHANGED dataset

ReportSaved(a, label, n) ==
  /\ dataset[PathOf[a]] = [owner |-> a, label |-> label, frames |-> n]
  /\ Report(a, label, n)

ReportUnsaved(a, n) ==
  /\ dataset[PathOf[a]].owner # a
  /\ Report(a, "unsaved", n)

ReportFailure(a, n) == Report(a, "failed", n)

LedgerNext ==
  \/ \E a \in Attempts, n \in Sizes :
       \/ \E label \in Labels : Save(a, label, n) \/ ReportSaved(a, label, n)
       \/ ReportUnsaved(a, n) \/ ReportFailure(a, n)
  \/ \E p \in Paths : OtherSaves(p)

LedgerSpec == LedgerInit /\ [][LedgerNext]_ledgerVars
=============================================================================
