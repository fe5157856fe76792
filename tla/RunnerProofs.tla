---------------------------- MODULE RunnerProofs ----------------------------
(***************************************************************************)
(* Safety of the two programs that run episodes one after the other: the   *)
(* episode manager, for plans of any length and any number of ROS domains, *)
(* and the benchmark, for any number of episodes, categories and runs.     *)
(***************************************************************************)
EXTENDS EpisodeRuns, BenchmarkArtifact, SequenceTheorems, TLAPS

-----------------------------------------------------------------------------
(* The episode manager.                                                    *)

Signals == {"sigint", "sigterm", "sigkill"}

(* What has not been run yet has no process; of what has, only the current *)
(* launch test is up, and its recorder may run on.                         *)
ProcessesFollow ==
  /\ Len(results) = episode - 1
  /\ step # "next" => episode \in Episodes
  /\ \A e \in Episodes :
       /\ (e > episode \/ (e = episode /\ step \in {"next", "reset", "start"})) =>
            nodes[e] = "none" /\ recorder[e] = "none"
       /\ nodes[e] = "up" => e = episode /\ step = "run"

(* The outcome that is about to become the result: a success has no nodes  *)
(* any more, and a recorder that still runs at the end makes it unknown.   *)
OutcomeFollows ==
  /\ step \in Signals \cup {"end"} /\ outcome = "success" =>
       nodes[episode] = "gone"
  /\ step \in Signals => outcome \in Outcomes \cup {"interrupt"}
  /\ step = "end" =>
       /\ outcome \in Outcomes
       /\ recorder[episode] = "running" => outcome = "unknown"

Inv ==
  /\ TypeOK
  /\ ProcessesFollow
  /\ OutcomeFollows
  /\ SuccessLeavesNothing
  /\ LostRecorderIsReported

(* The invariant holds before the first episode.                           *)
LEMMA InitInv == Init => Inv
<1> SUFFICES ASSUME Init PROVE Inv
  OBVIOUS
<1>1. NEpisodes \in Nat \ {0}
  BY NEpisodesAssumption
<1>2. results = <<>> /\ results \in Seq(Outcomes) /\ Len(results) = 0
  BY DEF Init
<1> QED BY <1>1, <1>2 DEF Init, Inv, TypeOK, ProcessesFollow, OutcomeFollows, Signals,
       SuccessLeavesNothing, LostRecorderIsReported, Episodes

(* A report is classified as a success only if the test passed, and as one *)
(* of the outcomes in any case.                                            *)
LEMMA ClassifiedOutcome ==
  ASSUME NEW report \in Reports
  PROVE  /\ Classified(report) \in Outcomes
         /\ Classified(report) = "success" => report.passed
BY DEF Classified, PhaseCategory, Reports, Outcomes, Categories

(* What the end of a launch test leaves to be done: its recorder is        *)
(* stopped if it runs.                                                     *)
LEMMA StopFollows ==
  ASSUME Inv, step = "run",
         NEW result \in Outcomes \cup {"interrupt"}, Stop(result),
         NEW left \in {"left", "gone"}, nodes' = [nodes EXCEPT ![episode] = left],
         result = "success" => left = "gone",
         UNCHANGED <<logging, episode, results, recorder>>
  PROVE  Inv'
<1>1. episode \in Episodes /\ episode \in Nat /\ Len(results) = episode - 1
  BY DEF Inv, TypeOK, ProcessesFollow, Episodes
<1>2. /\ nodes' \in [Episodes -> {"none", "up", "left", "gone"}]
      /\ nodes'[episode] = left
      /\ \A e \in Episodes \ {episode} : nodes'[e] = nodes[e]
  BY <1>1 DEF Inv, TypeOK
<1>3. step' \in {"sigint", "end", "gone"} /\ outcome' = result
  BY DEF Stop
<1>4. TypeOK'
  BY <1>1, <1>2, <1>3 DEF Inv, TypeOK
<1>5. ProcessesFollow'
  BY <1>1, <1>2, <1>3 DEF Inv, ProcessesFollow
<1>6. OutcomeFollows'
  BY <1>1, <1>2, <1>3 DEF OutcomeFollows, Stop, Recording, Signals
<1>7. SuccessLeavesNothing' /\ LostRecorderIsReported'
  <2>1. \A e \in 1..Len(results) : e \in Episodes \ {episode}
    BY <1>1, NEpisodesAssumption DEF Episodes
  <2> QED BY <1>2, <2>1 DEF Inv, SuccessLeavesNothing, LostRecorderIsReported
<1> QED BY <1>4, <1>5, <1>6, <1>7 DEF Inv

(* A step that leaves the processes and the results as they are.           *)
LEMMA ManagerStepFollows ==
  ASSUME Inv, TypeOK', UNCHANGED <<logging, episode, results, recorder, nodes>>,
         \/ step' \in {"reset", "start"} /\ step \in {"next", "reset"}
                                      /\ episode \in Episodes
         \/ step' = "end" /\ step = "reset" /\ outcome' \in Outcomes \ {"success"}
         \/ step \in Signals /\ step' \in Signals /\ outcome' = outcome
         \/ step \in Signals /\ step' = "gone"
         \/ step \in Signals /\ step' = "end" /\ outcome' = outcome
              /\ outcome # "interrupt" /\ ~Recording
         \/ step \in Signals /\ step' = "end" /\ outcome' = "unknown"
  PROVE  Inv'
<1>1. ProcessesFollow'
  BY DEF Inv, ProcessesFollow, Signals
<1>2. OutcomeFollows'
  BY DEF Inv, OutcomeFollows, ProcessesFollow, Signals, Recording, Outcomes, Categories
<1>3. SuccessLeavesNothing' /\ LostRecorderIsReported'
  BY DEF Inv, SuccessLeavesNothing, LostRecorderIsReported
<1> QED BY <1>1, <1>2, <1>3 DEF Inv

(* Every step keeps the invariant.                                         *)
LEMMA NextInv == Inv /\ [Next]_vars => Inv'
<1> SUFFICES ASSUME Inv, [Next]_vars PROVE Inv'
  OBVIOUS
<1>a. /\ episode \in 1..(NEpisodes + 1) /\ NEpisodes \in Nat \ {0}
      /\ Len(results) = episode - 1 /\ results \in Seq(Outcomes)
      /\ step # "next" => episode \in Episodes
  BY NEpisodesAssumption DEF Inv, TypeOK, ProcessesFollow
<1>b. \A e \in 1..Len(results) : e \in Episodes /\ e # episode
  BY <1>a DEF Episodes
<1>1. CASE Begin
  <2>1. TypeOK'
    BY <1>1 DEF Begin, To, Inv, TypeOK
  <2> QED BY <1>1, <2>1, ManagerStepFollows DEF Begin, To
<1>2. ASSUME NEW result \in Categories, ResetFails(result) PROVE Inv'
  <2>1. result \in Outcomes \ {"success"}
    BY <1>2 DEF ResetFails, Outcomes, Categories
  <2>2. TypeOK'
    BY <1>2, <2>1 DEF ResetFails, Ends, Inv, TypeOK
  <2> QED BY <1>2, <2>1, <2>2, ManagerStepFollows DEF ResetFails, Ends
<1>3. CASE Execute /\ logging
  <2>1. TypeOK'
    BY <1>3 DEF Execute, To, Inv, TypeOK
  <2> QED BY <1>3, <1>a, <2>1, ManagerStepFollows DEF Execute, To
<1>4. CASE (Execute /\ ~logging) \/ StartRecorder
  <2>1. /\ episode \in Episodes /\ step' = "run" /\ step \in {"reset", "start"}
        /\ UNCHANGED <<logging, episode, results, outcome>>
        /\ nodes' = [nodes EXCEPT ![episode] = "up"]
        /\ recorder' \in {recorder, [recorder EXCEPT ![episode] = "running"]}
    BY <1>4, <1>a DEF Execute, StartRecorder, To
  <2>2. /\ TypeOK'
        /\ \A e \in Episodes \ {episode} : nodes'[e] = nodes[e] /\ recorder'[e] = recorder[e]
        /\ nodes'[episode] = "up"
    BY <2>1 DEF Inv, TypeOK
  <2>3. ProcessesFollow'
    BY <1>a, <2>1, <2>2 DEF Inv, ProcessesFollow
  <2>4. OutcomeFollows'
    BY <2>1 DEF OutcomeFollows, Signals
  <2>5. SuccessLeavesNothing' /\ LostRecorderIsReported'
    BY <1>b, <2>1, <2>2 DEF Inv, SuccessLeavesNothing, LostRecorderIsReported
  <2> QED BY <2>2, <2>3, <2>4, <2>5 DEF Inv
<1>5. CASE FailToRecord
  <2>1. /\ episode \in Episodes /\ step' = "end" /\ step = "start"
        /\ outcome' = "unknown" /\ UNCHANGED <<logging, episode, results, nodes>>
        /\ recorder' \in {recorder, [recorder EXCEPT ![episode] = "dead"]}
    BY <1>5, <1>a DEF FailToRecord, Ends
  <2>2. /\ TypeOK'
        /\ \A e \in Episodes \ {episode} : recorder'[e] = recorder[e]
    BY <2>1 DEF Inv, TypeOK, Outcomes, Categories
  <2>3. ProcessesFollow'
    BY <1>a, <2>1, <2>2 DEF Inv, ProcessesFollow
  <2>4. OutcomeFollows'
    BY <2>1 DEF OutcomeFollows, Signals, Outcomes, Categories
  <2>5. SuccessLeavesNothing' /\ LostRecorderIsReported'
    BY <1>b, <2>1, <2>2 DEF Inv, SuccessLeavesNothing, LostRecorderIsReported
  <2> QED BY <2>2, <2>3, <2>4, <2>5 DEF Inv
<1>6. ASSUME NEW report \in Reports, NEW left \in BOOLEAN, TestExits(report, left)
      PROVE  Inv'
  <2> DEFINE n == IF left THEN "left" ELSE "gone"
  <2>1. /\ step = "run" /\ nodes' = [nodes EXCEPT ![episode] = n]
        /\ Stop(Classified(report)) /\ n \in {"left", "gone"}
        /\ UNCHANGED <<logging, episode, results, recorder>>
    BY <1>6 DEF TestExits
  <2>2. Classified(report) \in Outcomes
    BY ClassifiedOutcome
  <2>3. Classified(report) = "success" => n = "gone"
    BY <1>6, ClassifiedOutcome DEF TestExits
  <2> HIDE DEF n
  <2> QED BY <2>1, <2>2, <2>3, StopFollows
<1>7. CASE RunTimesOut
  <2>1. "timeout" \in Outcomes
    BY DEF Outcomes, Categories
  <2> QED BY <1>7, <2>1, StopFollows DEF RunTimesOut
<1>8. ASSUME NEW result \in Categories, Raises(result) PROVE Inv'
  <2>1. result \in Outcomes
    BY DEF Outcomes
  <2> QED BY <1>8, <2>1, StopFollows DEF Raises
<1>9. CASE Interrupt
  BY <1>9, StopFollows DEF Interrupt
<1>10. CASE InterruptStop
  <2>1. TypeOK'
    BY <1>10 DEF InterruptStop, Inv, TypeOK
  <2> QED BY <1>10, <2>1, ManagerStepFollows DEF InterruptStop, Signals
<1>11. CASE Stopped
  <2>1. TypeOK'
    BY <1>11 DEF Stopped, To, Inv, TypeOK
  <2> QED BY <1>11, <2>1, ManagerStepFollows DEF Stopped, To, Signals
<1>12. CASE Escalate
  <2>1. TypeOK'
    BY <1>12 DEF Escalate, To, Inv, TypeOK
  <2> QED BY <1>12, <2>1, ManagerStepFollows DEF Escalate, To, Signals
<1>13. CASE GiveUp
  <2>1. TypeOK'
    BY <1>13 DEF GiveUp, Ends, Inv, TypeOK, Outcomes, Categories
  <2> QED BY <1>13, <2>1, ManagerStepFollows DEF GiveUp, Ends, Signals
<1>14. CASE Finish
  <2>1. /\ step = "end" /\ episode \in Episodes /\ outcome \in Outcomes
        /\ results' = Append(results, outcome)
        /\ episode' = episode + 1 /\ step' = "next" /\ outcome' = "none"
        /\ UNCHANGED <<logging, recorder, nodes>>
    BY <1>14, <1>a DEF Finish, Inv, OutcomeFollows
  <2>2. /\ results' \in Seq(Outcomes) /\ Len(results') = episode
        /\ \A e \in 1..Len(results) : results'[e] = results[e]
        /\ results'[episode] = outcome
    BY <1>a, <2>1
  <2>3. TypeOK'
    BY <1>a, <2>1, <2>2 DEF Inv, TypeOK, Episodes
  <2>4. ProcessesFollow'
    BY <1>a, <2>1, <2>2 DEF Inv, ProcessesFollow, Episodes
  <2>5. OutcomeFollows'
    BY <2>1 DEF OutcomeFollows, Signals
  <2>6. \A e \in 1..Len(results') : e \in 1..Len(results) \/ e = episode
    BY <1>a, <2>2
  <2>7. SuccessLeavesNothing' /\ LostRecorderIsReported'
    BY <2>1, <2>2, <2>6
       DEF Inv, SuccessLeavesNothing, LostRecorderIsReported, OutcomeFollows
  <2> QED BY <2>3, <2>4, <2>5, <2>7 DEF Inv
<1>15. ASSUME NEW e \in Episodes, RecorderExits(e) PROVE Inv'
  <2>1. /\ UNCHANGED <<logging, episode, step, outcome, results, nodes>>
        /\ TypeOK' /\ recorder[e] = "running"
        /\ \A f \in Episodes : recorder'[f] = IF f = e THEN "dead" ELSE recorder[f]
    BY <1>15 DEF RecorderExits, Inv, TypeOK
  <2>2. ProcessesFollow' /\ OutcomeFollows'
    BY <1>a, <2>1 DEF Inv, ProcessesFollow, OutcomeFollows, Signals
  <2>3. SuccessLeavesNothing' /\ LostRecorderIsReported'
    BY <1>b, <2>1 DEF Inv, SuccessLeavesNothing, LostRecorderIsReported
  <2> QED BY <2>1, <2>2, <2>3 DEF Inv
<1>16. ASSUME NEW e \in Episodes, NodesExit(e) PROVE Inv'
  <2>1. /\ UNCHANGED <<logging, episode, step, outcome, results, recorder>>
        /\ TypeOK' /\ nodes[e] = "left"
        /\ \A f \in Episodes : nodes'[f] = IF f = e THEN "gone" ELSE nodes[f]
    BY <1>16 DEF NodesExit, Inv, TypeOK
  <2>2. ProcessesFollow' /\ OutcomeFollows'
    BY <1>a, <2>1 DEF Inv, ProcessesFollow, OutcomeFollows, Signals
  <2>3. SuccessLeavesNothing' /\ LostRecorderIsReported'
    BY <1>b, <2>1 DEF Inv, SuccessLeavesNothing, LostRecorderIsReported
  <2> QED BY <2>1, <2>2, <2>3 DEF Inv
<1>17. CASE UNCHANGED vars
  BY <1>17 DEF vars, Inv, TypeOK, ProcessesFollow, OutcomeFollows,
       SuccessLeavesNothing, LostRecorderIsReported
<1> QED BY <1>1, <1>2, <1>3, <1>4, <1>5, <1>6, <1>7, <1>8, <1>9, <1>10, <1>11, <1>12,
           <1>13, <1>14, <1>15, <1>16, <1>17 DEF Next, Manager

(* The invariant holds throughout.                                         *)
LEMMA AlwaysInv == Spec => []Inv
BY InitInv, NextInv, PTL DEF Spec

(* Every variable keeps its type.                                          *)
THEOREM TypeCorrect == Spec => []TypeOK
<1>1. Inv => TypeOK
  BY DEF Inv
<1> QED BY AlwaysInv, <1>1, PTL

(* An episode reported as a success has left no node and no recorder, in a *)
(* plan of any length.                                                     *)
THEOREM SuccessLeavesNothingHolds == Spec => []SuccessLeavesNothing
<1>1. Inv => SuccessLeavesNothing
  BY DEF Inv
<1> QED BY AlwaysInv, <1>1, PTL

(* A recorder that outlived all the signals it was sent, and its episode,  *)
(* has made the result of that an unknown failure.                         *)
THEOREM LostRecorderIsReportedHolds == Spec => []LostRecorderIsReported
<1>1. Inv => LostRecorderIsReported
  BY DEF Inv
<1> QED BY AlwaysInv, <1>1, PTL

(* Two numbers with the same remainder are the divisor apart, or equal.    *)
LEMMA SameRemainder ==
  ASSUME NEW p \in Nat \ {0}, NEW a \in Nat, NEW b \in Nat, a < b, a % p = b % p
  PROVE  a + p <= b
<1> DEFINE m == a \div p
           n == b \div p
<1>1. /\ m \in Int /\ n \in Int
      /\ a = (p * m) + (a % p) /\ b = (p * n) + (b % p)
      /\ a % p \in Nat
  OBVIOUS
<1> HIDE DEF m, n
<1>2. b - a = p * (n - m)
  BY <1>1
<1>3. n - m >= 1
  <2> SUFFICES ASSUME n - m <= 0 PROVE FALSE
    BY <1>1
  <2>1. p * (n - m) <= 0
    BY <1>1
  <2> QED BY <1>2, <2>1
<1>4. p * (n - m) >= p
  BY <1>1, <1>3
<1> QED BY <1>2, <1>4

(* Whose nodes share the ROS domain of the episode that runs: at the       *)
(* earliest those of the episode that had the domain before, and its       *)
(* result was no success.                                                  *)
THEOREM StrangersWereReportedHolds == Spec => []StrangersWereReported
<1>1. Inv => StrangersWereReported
  <2> SUFFICES ASSUME Inv, step = "run", NEW e \in Episodes \ {episode},
                      nodes[e] \in {"up", "left"}, DomainOf(e) = DomainOf(episode)
               PROVE  e + DomainPool <= episode /\ results[e] # "success"
    BY DEF StrangersWereReported
  <2>1. /\ NEpisodes \in Nat \ {0} /\ DomainPool \in Nat \ {0}
        /\ episode \in 1..(NEpisodes + 1) /\ Len(results) = episode - 1
    BY NEpisodesAssumption, DomainPoolAssumption DEF Inv, TypeOK, ProcessesFollow
  <2>2. e < episode /\ e \in 1..Len(results)
    BY <2>1 DEF Inv, ProcessesFollow, Episodes
  <2>3. results[e] # "success"
    BY <2>2 DEF Inv, SuccessLeavesNothing
  <2>4. (e - 1) + DomainPool <= episode - 1
    <3>1. e - 1 \in Nat /\ episode - 1 \in Nat /\ e - 1 < episode - 1
      BY <2>1, <2>2
    <3> QED BY <2>1, <3>1, SameRemainder DEF DomainOf
  <2> QED BY <2>1, <2>2, <2>3, <2>4
<1> QED BY AlwaysInv, <1>1, PTL

-----------------------------------------------------------------------------
(* The benchmark and its artifact.                                         *)

(* The records of the run are in order, and as many as it may have.        *)
RunIsInOrder ==
  /\ main # "off" => runs \in 1..MaxRuns
  /\ Len(records) <= Requested
  /\ \A i \in 1..Len(records) : records[i].episode = i /\ records[i].run = runs

(* What may be read in a file is the beginning of one run.                 *)
IsOneRun(file) ==
  file.mode \in Readable =>
    /\ \A i \in DOMAIN file.records :
         /\ file.records[i].episode = i
         /\ file.records[i].run = file.records[1].run
    /\ file.mode = "report" => Len(file.records) = EpisodeCount
    /\ file.mode = "smoke" => Len(file.records) = file.requested
    /\ file.mode = "checkpoint" => Len(file.records) <= file.requested

Holds(rs) == output.mode \in Readable /\ output.records = rs

(* How much of the run is in the output, by what is done next.             *)
OutputFollows ==
  /\ main = "episode" /\ Len(records) > 0 => Holds(records)
  /\ main \in {"checkpoint", "write", "replace"} =>
       Len(records) > 0 /\ (Len(records) > 1 => Holds(Front(records)))
  /\ main = "replace" => temporary = PartialArtifact("checkpoint")
  /\ main \in {"artifact", "rewrite"} =>
       Len(records) = Requested /\ temporary = NoFile
  /\ main = "artifact" => Holds(records)
  /\ main = "rewrite" => output = Torn

BenchmarkInv ==
  /\ BenchmarkTypeOK
  /\ RunIsInOrder
  /\ IsOneRun(output) /\ temporary.mode # "report"
  /\ OutputFollows
  /\ FinishedEpisodesAreKept

(* The invariant holds before the first run.                               *)
LEMMA InitBenchmarkInv == BenchmarkInit => BenchmarkInv
<1> SUFFICES ASSUME BenchmarkInit PROVE BenchmarkInv
  OBVIOUS
<1>1. records = <<>> /\ records \in Seq(Records) /\ Len(records) = 0
  BY DEF BenchmarkInit
<1> QED
  BY <1>1, EpisodeCountAssumption, MaxRunsAssumption
     DEF BenchmarkInit, BenchmarkInv, BenchmarkTypeOK, RunIsInOrder, IsOneRun,
     OutputFollows, FinishedEpisodesAreKept, NoFile, Readable, Partial, Requested,
     NoLimit

(* The records of a run in order, by what they are in.                     *)
LEMMA ArtifactInOrder ==
  ASSUME BenchmarkInv
  PROVE  /\ IsOneRun(PartialArtifact("checkpoint"))
         /\ Len(records) = Requested => IsOneRun(PartialArtifact("smoke"))
         /\ Len(records) = EpisodeCount => IsOneRun(Report)
<1>1. DOMAIN records = 1..Len(records) /\ Len(records) <= Requested
  BY DEF BenchmarkInv, BenchmarkTypeOK, RunIsInOrder
<1>2. \A i \in 1..Len(records) :
        records[i].episode = i /\ records[i].run = records[1].run
  BY DEF BenchmarkInv, BenchmarkTypeOK, RunIsInOrder
<1>3. \A mode \in Partial :
        /\ PartialArtifact(mode).mode = mode
        /\ PartialArtifact(mode).requested = Requested
        /\ PartialArtifact(mode).records = records
  BY DEF PartialArtifact
<1>4. Report.mode = "report" /\ Report.records = records
  BY DEF Report
<1>5. "checkpoint" \in Partial /\ "smoke" \in Partial
  BY DEF Partial
<1>6. IsOneRun(PartialArtifact("checkpoint"))
  BY <1>1, <1>2, <1>3, <1>5 DEF IsOneRun
<1>7. Len(records) = Requested => IsOneRun(PartialArtifact("smoke"))
  BY <1>1, <1>2, <1>3, <1>5 DEF IsOneRun
<1>8. Len(records) = EpisodeCount => IsOneRun(Report)
  BY <1>1, <1>2, <1>4 DEF IsOneRun
<1> QED BY <1>6, <1>7, <1>8

(* The new record is that of the next episode.                             *)
LEMMA RecordInOrder ==
  ASSUME BenchmarkInv,
         NEW result \in Results, RunEpisode(result)
  PROVE  BenchmarkInv'
<1> DEFINE r == [run |-> runs, episode |-> Len(records) + 1, result |-> result]
<1>1. /\ main = "episode" /\ main' = "checkpoint" /\ Len(records) < Requested
      /\ records' = Append(records, r)
      /\ UNCHANGED <<runs, limit, temporary, output>>
  BY DEF RunEpisode
<1>2. /\ records \in Seq(Records) /\ Len(records) \in Nat
      /\ limit \in 0..EpisodeCount /\ runs \in 1..MaxRuns
  BY <1>1 DEF BenchmarkInv, BenchmarkTypeOK, RunIsInOrder
<1>3. Requested \in 0..EpisodeCount /\ Requested' = Requested
  BY <1>1, <1>2, EpisodeCountAssumption DEF Requested, NoLimit
<1>4. r \in Records
  BY <1>1, <1>2, <1>3, EpisodeCountAssumption DEF Records
<1>5. r.run = runs /\ r.episode = Len(records) + 1
  OBVIOUS
<1> HIDE DEF r
<1>6. /\ records' \in Seq(Records) /\ Len(records') = Len(records) + 1
      /\ \A i \in 1..Len(records) : records'[i] = records[i]
      /\ records'[Len(records) + 1] = r
  BY <1>1, <1>2, <1>4
<1>7. Front(records') = records
  <2>1. /\ Front(records') = SubSeq(records', 1, Len(records') - 1)
        /\ Len(records') - 1 = Len(records)
    BY <1>2, <1>6 DEF Front
  <2>2. SubSeq(records', 1, Len(records)) = records
    BY <1>1, <1>2, <1>4, AppendProperties
  <2> QED BY <2>1, <2>2
<1>8. BenchmarkTypeOK'
  BY <1>1, <1>6 DEF BenchmarkInv, BenchmarkTypeOK
<1>9. RunIsInOrder'
  <2>1. \A i \in 1..Len(records') : i \in 1..Len(records) \/ i = Len(records) + 1
    BY <1>2, <1>6
  <2> QED BY <1>1, <1>2, <1>3, <1>5, <1>6, <2>1 DEF BenchmarkInv, RunIsInOrder
<1>10. IsOneRun(output)' /\ temporary'.mode # "report"
  BY <1>1 DEF BenchmarkInv, IsOneRun
<1>11. Len(records) > 0 => Holds(records)
  BY <1>1 DEF BenchmarkInv, OutputFollows
<1>12. /\ Len(records') > 0
       /\ Len(records') > 1 =>
            /\ output'.mode \in Readable
            /\ output'.records = Front(records')
  BY <1>1, <1>2, <1>6, <1>7, <1>11 DEF Holds
<1>13. OutputFollows'
  BY <1>1, <1>12 DEF OutputFollows, Holds
<1>14. FinishedEpisodesAreKept'
  BY <1>12 DEF FinishedEpisodesAreKept
<1> QED BY <1>8, <1>9, <1>10, <1>13, <1>14 DEF BenchmarkInv

(* What all the others leave alone keeps its part of the invariant.        *)
LEMMA SameRun ==
  ASSUME BenchmarkInv, main # "off", UNCHANGED <<runs, limit, records>>
  PROVE  /\ RunIsInOrder'
         /\ Requested' = Requested
         /\ \A mode : PartialArtifact(mode)' = PartialArtifact(mode)
BY DEF BenchmarkInv, RunIsInOrder, Requested, PartialArtifact

LEMMA SameFile ==
  ASSUME IsOneRun(output), output' = output
  PROVE  IsOneRun(output)'
BY DEF IsOneRun

(* Every step keeps the invariant.                                         *)
LEMMA NextBenchmarkInv == BenchmarkInv /\ [BenchmarkNext]_benchmarkVars => BenchmarkInv'
<1> SUFFICES ASSUME BenchmarkInv, [BenchmarkNext]_benchmarkVars
             PROVE  BenchmarkInv'
  OBVIOUS
<1>a. /\ BenchmarkTypeOK /\ records \in Seq(Records)
      /\ Len(records) \in Nat /\ limit \in 0..EpisodeCount /\ runs \in 0..MaxRuns
      /\ Requested \in 0..EpisodeCount
      /\ Len(records) <= Requested
      /\ IsOneRun(output) /\ temporary.mode # "report"
      /\ FinishedEpisodesAreKept
  BY EpisodeCountAssumption
     DEF BenchmarkInv, BenchmarkTypeOK, Requested, NoLimit, RunIsInOrder
<1>1. ASSUME NEW count \in 0..EpisodeCount, Start(count)
      PROVE  BenchmarkInv'
  <2>1. /\ runs' = runs + 1 /\ runs < MaxRuns /\ limit' = count /\ records' = <<>>
        /\ main' = "episode" /\ UNCHANGED <<temporary, output>>
    BY <1>1 DEF Start
  <2>2. records' \in Seq(Records) /\ Len(records') = 0
    BY <2>1
  <2>3. BenchmarkTypeOK'
    BY <1>a, <2>1, <2>2, MaxRunsAssumption DEF BenchmarkTypeOK
  <2>4. RunIsInOrder'
    BY <1>a, <2>1, <2>2, EpisodeCountAssumption, MaxRunsAssumption
       DEF RunIsInOrder, Requested, NoLimit
  <2>5. OutputFollows' /\ FinishedEpisodesAreKept'
    BY <2>1, <2>2 DEF OutputFollows, FinishedEpisodesAreKept
  <2> QED BY <1>a, <2>1, <2>3, <2>4, <2>5, SameFile DEF BenchmarkInv
<1>2. ASSUME NEW result \in Results, RunEpisode(result)
      PROVE  BenchmarkInv'
  BY <1>2, RecordInOrder
<1>3. CASE OpenTemporary
  <2>1. /\ main = "checkpoint" /\ main' = "write" /\ temporary' = Torn
        /\ UNCHANGED <<runs, limit, records, output>>
    BY <1>3 DEF OpenTemporary
  <2>2. BenchmarkTypeOK' /\ temporary'.mode # "report"
    BY <1>a, <2>1 DEF BenchmarkTypeOK, Torn
  <2>3. OutputFollows'
    BY <2>1 DEF BenchmarkInv, OutputFollows, Holds
  <2>4. FinishedEpisodesAreKept'
    BY <2>1 DEF BenchmarkInv, OutputFollows, Holds, FinishedEpisodesAreKept
  <2> QED BY <1>a, <2>1, <2>2, <2>3, <2>4, SameRun, SameFile DEF BenchmarkInv
<1>4. CASE WriteTemporary
  <2>1. /\ main = "write" /\ main' = "replace"
        /\ temporary' = PartialArtifact("checkpoint")
        /\ UNCHANGED <<runs, limit, records, output>>
    BY <1>4 DEF WriteTemporary
  <2>2. BenchmarkTypeOK' /\ temporary'.mode # "report"
    BY <1>a, <2>1 DEF BenchmarkTypeOK, PartialArtifact, Readable, Partial
  <2>3. OutputFollows'
    BY <2>1, SameRun DEF BenchmarkInv, OutputFollows, Holds
  <2>4. FinishedEpisodesAreKept'
    BY <2>1 DEF BenchmarkInv, OutputFollows, Holds, FinishedEpisodesAreKept
  <2> QED BY <1>a, <2>1, <2>2, <2>3, <2>4, SameRun, SameFile DEF BenchmarkInv
<1>5. CASE Replace
  <2>1. /\ main = "replace" /\ output' = temporary /\ temporary' = NoFile
        /\ main' = IF Len(records) < Requested THEN "episode" ELSE "artifact"
        /\ UNCHANGED <<runs, limit, records>>
    BY <1>5 DEF Replace, AfterCheckpoint
  <2>2. temporary = PartialArtifact("checkpoint")
    BY <2>1 DEF BenchmarkInv, OutputFollows
  <2>3. BenchmarkTypeOK' /\ temporary'.mode # "report"
    BY <1>a, <2>1 DEF BenchmarkTypeOK, NoFile
  <2>4. IsOneRun(output)'
    <3>1. IsOneRun(temporary)
      BY <2>2, ArtifactInOrder
    <3> QED BY <2>1, <3>1 DEF IsOneRun
  <2>5. output'.mode \in Readable /\ output'.records = records'
    BY <2>1, <2>2 DEF PartialArtifact, Readable, Partial
  <2>6. OutputFollows'
    BY <1>a, <2>1, <2>5, SameRun DEF OutputFollows, Holds
  <2>7. FinishedEpisodesAreKept'
    BY <2>5 DEF FinishedEpisodesAreKept
  <2> QED BY <2>1, <2>3, <2>4, <2>6, <2>7, SameRun DEF BenchmarkInv
<1>6. CASE OpenArtifact
  <2>1. /\ main = "artifact" /\ main' = "rewrite" /\ output' = Torn
        /\ UNCHANGED <<runs, limit, records, temporary>>
    BY <1>6 DEF OpenArtifact
  <2>2. BenchmarkTypeOK'
    BY <1>a, <2>1 DEF BenchmarkTypeOK
  <2>3. IsOneRun(output)'
    BY <2>1 DEF IsOneRun, Torn, Readable, Partial
  <2>4. OutputFollows'
    BY <2>1, SameRun DEF BenchmarkInv, OutputFollows
  <2>5. FinishedEpisodesAreKept'
    BY <2>1, SameRun DEF BenchmarkInv, OutputFollows, FinishedEpisodesAreKept,
       Torn
  <2> QED BY <1>a, <2>1, <2>2, <2>3, <2>4, <2>5, SameRun DEF BenchmarkInv
<1>7. CASE WriteArtifact
  <2>1. /\ main = "rewrite" /\ main' = "off"
        /\ output' = LastArtifact
        /\ UNCHANGED <<runs, limit, records, temporary>>
    BY <1>7 DEF WriteArtifact
  <2>2. /\ Len(records) = Requested
        /\ limit = NoLimit => Len(records) = EpisodeCount
    BY <2>1 DEF BenchmarkInv, OutputFollows, Requested
  <2>3. /\ output'.mode \in Readable
        /\ output'.records = records'
    BY <2>1 DEF LastArtifact, Report, PartialArtifact, Readable, Partial
  <2>4. BenchmarkTypeOK'
    BY <1>a, <2>1, <2>3 DEF BenchmarkTypeOK
  <2>5. IsOneRun(output)'
    <3>1. IsOneRun(LastArtifact)
      BY <2>2, ArtifactInOrder DEF LastArtifact
    <3> QED BY <2>1, <3>1 DEF IsOneRun
  <2>6. OutputFollows'
    BY <2>1 DEF OutputFollows
  <2>7. FinishedEpisodesAreKept'
    BY <2>3 DEF FinishedEpisodesAreKept
  <2> QED BY <1>a, <2>1, <2>4, <2>5, <2>6, <2>7, SameRun DEF BenchmarkInv
<1>8. CASE Die
  <2>1. /\ main # "off" /\ main' = "off"
        /\ UNCHANGED <<runs, limit, records, temporary, output>>
    BY <1>8 DEF Die
  <2>2. BenchmarkTypeOK'
    BY <1>a, <2>1 DEF BenchmarkTypeOK
  <2>3. OutputFollows'
    BY <2>1 DEF OutputFollows
  <2>4. FinishedEpisodesAreKept'
    BY <1>a, <2>1, SameRun DEF FinishedEpisodesAreKept
  <2> QED BY <1>a, <2>1, <2>2, <2>3, <2>4, SameRun, SameFile DEF BenchmarkInv
<1>9. CASE UNCHANGED benchmarkVars
  <2>1. UNCHANGED <<main, runs, limit, records, temporary, output>>
    BY <1>9 DEF benchmarkVars
  <2>2. BenchmarkTypeOK' /\ FinishedEpisodesAreKept'
    BY <1>a, <2>1 DEF BenchmarkTypeOK, FinishedEpisodesAreKept,
       Requested
  <2>3. RunIsInOrder' /\ OutputFollows'
    BY <2>1 DEF BenchmarkInv, RunIsInOrder, OutputFollows, Holds, Requested,
       PartialArtifact
  <2> QED BY <1>a, <2>1, <2>2, <2>3, SameFile DEF BenchmarkInv
<1> QED BY <1>1, <1>2, <1>3, <1>4, <1>5, <1>6, <1>7, <1>8, <1>9 DEF BenchmarkNext

(* The invariant holds throughout.                                         *)
LEMMA AlwaysBenchmarkInv == BenchmarkSpec => []BenchmarkInv
BY InitBenchmarkInv, NextBenchmarkInv, PTL DEF BenchmarkSpec

(* Whatever a run that died has left, what can be read in the output is    *)
(* the beginning of one run, and a file that is whole has as many episodes *)
(* as it should.                                                           *)
THEOREM ArtifactIsOneRunHolds == BenchmarkSpec => []ArtifactIsOneRun
<1>1. BenchmarkInv => ArtifactIsOneRun
  BY DEF BenchmarkInv, IsOneRun, ArtifactIsOneRun
<1> QED BY AlwaysBenchmarkInv, <1>1, PTL

(* A death costs at most the episode whose checkpoint was not yet made, or *)
(* strikes the final write.                                                *)
THEOREM FinishedEpisodesAreKeptHolds == BenchmarkSpec => []FinishedEpisodesAreKept
<1>1. BenchmarkInv => FinishedEpisodesAreKept
  BY DEF BenchmarkInv
<1> QED BY AlwaysBenchmarkInv, <1>1, PTL
=============================================================================
