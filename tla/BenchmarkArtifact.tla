------------------------- MODULE BenchmarkArtifact -------------------------
(***************************************************************************)
(* The benchmark of tools/run_week10_benchmark.py and the file it leaves.  *)
(* A run takes its seeds one by one, appends a record for each, and after  *)
(* each replaces the output by a checkpoint (write_benchmark_checkpoint);  *)
(* at its end it writes the report, or the artifact of a smoke run, over   *)
(* the last checkpoint.  It may die between any two steps: Ctrl-C, an      *)
(* exception, a kill.  A later run has the same output; it starts over.    *)
(*                                                                         *)
(* Of an episode's record only its result is kept; EpisodeRuns says where  *)
(* results come from.  The summary in the report is a function of the      *)
(* records and is left out.                                                *)
(***************************************************************************)
EXTENDS Naturals, Sequences, SequencesExt

CONSTANTS
  EpisodeCount,       \* BENCHMARK_EPISODE_COUNT
  FailureCategories,  \* of failures
  MaxRuns             \* (bound) runs with the same output

ASSUME EpisodeCountAssumption == EpisodeCount \in Nat \ {0}
ASSUME MaxRunsAssumption == MaxRuns \in Nat

VARIABLES
  main,       \* where main() is
  runs,       \* how many there have been
  limit,      \* --limit, or none
  records,    \* the episodes of the last run
  temporary,  \* the file .<output>.tmp
  output      \* the file

benchmarkVars == <<main, runs, limit, records, temporary, output>>

NoLimit == 0
Results == FailureCategories \cup {"success"}
Records == [run : 1..MaxRuns, episode : 1..EpisodeCount, result : Results]

NoFile == [mode |-> "none"]
Torn == [mode |-> "torn"]
Partial == {"checkpoint", "smoke"}  \* these say how many were requested
Readable == Partial \cup {"report"}


BenchmarkTypeOK ==
  /\ main \in {"off", "episode", "checkpoint", "write", "replace",
               "artifact", "rewrite"}
  /\ runs \in 0..MaxRuns
  /\ limit \in 0..EpisodeCount
  /\ records \in Seq(Records)
  /\ \A file \in {temporary, output} :
       \/ file \in {NoFile, Torn}
       \/ file.mode \in Readable /\ file.records \in Seq(Records)

BenchmarkInit ==
  /\ main = "off"
  /\ runs = 0
  /\ limit = NoLimit
  /\ records = <<>>
  /\ temporary = NoFile
  /\ output = NoFile

-----------------------------------------------------------------------------

Requested == IF limit = NoLimit THEN EpisodeCount ELSE limit

(* The three files of a run.  Only the report has no mode and does not say *)
(* how many episodes were requested.                                       *)
PartialArtifact(mode) ==
  [mode |-> mode, requested |-> Requested, records |-> records]
Report == [mode |-> "report", records |-> records]

(* main() with its arguments; the records of the runs before are not read. *)
MutantStart(count) ==
  /\ main = "off" /\ runs < MaxRuns
  /\ runs' = runs + 1
  /\ limit' = count
  /\ records' = IF "records" \in DOMAIN output THEN output.records ELSE <<>>
  /\ main' = "episode"
  /\ UNCHANGED <<temporary, output>>

Start(count) ==
  /\ main = "off" /\ runs < MaxRuns
  /\ runs' = runs + 1
  /\ limit' = count
  /\ records' = <<>>
  /\ main' = "episode"
  /\ UNCHANGED <<temporary, output>>

(* run_episode: whatever the launch test did becomes a record.             *)
RunEpisode(result) ==
  /\ main = "episode"
  /\ Len(records) < Requested
  /\ records' = Append(records, [run |-> runs, episode |-> Len(records) + 1,
                                 result |-> result])
  /\ main' = "checkpoint"
  /\ UNCHANGED <<runs, limit, temporary, output>>

(* write_benchmark_checkpoint, up to the truncated file.  Records that it  *)
(* refuses leave nothing to do but die.                                    *)
OpenTemporary ==
  /\ main = "checkpoint"
  /\ Len(records) <= Requested
  /\ \A i \in DOMAIN records : records[i].episode = i
  /\ temporary' = Torn
  /\ main' = "write"
  /\ UNCHANGED <<runs, limit, records, output>>

MutantWriteOutput ==
  /\ main = "write"
  /\ temporary' = PartialArtifact("checkpoint")
  /\ output' = Torn
  /\ main' = "replace"
  /\ UNCHANGED <<runs, limit, records>>

WriteTemporary ==
  /\ main = "write"
  /\ temporary' = PartialArtifact("checkpoint")
  /\ main' = "replace"
  /\ UNCHANGED <<runs, limit, records, output>>

(* The loop of main(): an episode and its checkpoint at a time.            *)
AfterCheckpoint == IF Len(records) < Requested THEN "episode" ELSE "artifact"

(* os.replace.                                                             *)
Replace ==
  /\ main = "replace"
  /\ output' = temporary
  /\ temporary' = NoFile
  /\ main' = AfterCheckpoint
  /\ UNCHANGED <<runs, limit, records>>

(* Only a run without --limit reports, even if the limit was no limit.     *)
LastArtifact == IF limit = NoLimit THEN Report ELSE PartialArtifact("smoke")

(* What summarize_benchmark and BenchmarkReport ask of the records, or     *)
(* they raise.                                                             *)
Reportable ==
  /\ Len(records) = EpisodeCount
  /\ \A i \in DOMAIN records : records[i].episode = i

(* The last write is no replacement: write_text truncates the checkpoint.  *)
OpenArtifact ==
  /\ main = "artifact"
  /\ limit = NoLimit => Reportable
  /\ output' = Torn
  /\ main' = "rewrite"
  /\ UNCHANGED <<runs, limit, records, temporary>>

WriteArtifact ==
  /\ main = "rewrite"
  /\ output' = LastArtifact
  /\ main' = "off"
  /\ UNCHANGED <<runs, limit, records, temporary>>

(* What is in a file stays there.                                          *)
Die ==
  /\ main # "off"
  /\ main' = "off"
  /\ UNCHANGED <<runs, limit, records, temporary, output>>

BenchmarkNext ==
  \/ \E count \in 0..EpisodeCount : Start(count)
  \/ \E result \in Results : RunEpisode(result)
  \/ OpenTemporary \/ WriteTemporary \/ Replace
  \/ OpenArtifact \/ WriteArtifact
  \/ Die

BenchmarkSpec == BenchmarkInit /\ [][BenchmarkNext]_benchmarkVars

-----------------------------------------------------------------------------
(* Properties.                                                             *)

(* What can be read in the output is the beginning of one run, in order    *)
(* and without gaps, whatever was left there, or in the temporary file, by *)
(* runs that died.  A report is of all the episodes, a smoke artifact of   *)
(* as many as it says were requested, and a checkpoint of no more.         *)
ArtifactIsOneRun ==
  output.mode \in Readable =>
    /\ \A i \in DOMAIN output.records :
         /\ output.records[i].episode = i
         /\ output.records[i].run = output.records[1].run
    /\ output.mode = "report" => Len(output.records) = EpisodeCount
    /\ output.mode = "smoke" => Len(output.records) = output.requested
    /\ output.mode = "checkpoint" => Len(output.records) <= output.requested

(* Of the episodes that the last run finished, a death costs at most the   *)
(* one whose checkpoint was not yet made; or else all of them, but then    *)
(* none was left to run and the final write had begun.                     *)
FinishedEpisodesAreKept ==
  Len(records) > 1 =>
    \/ output.mode \in Readable /\ output.records \in {records, Front(records)}
    \/ output.mode = "torn" /\ Len(records) = Requested /\ temporary = NoFile
=============================================================================
