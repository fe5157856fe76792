---------------------------- MODULE EpisodeRuns ----------------------------
(***************************************************************************)
(* The episode manager (episode_manager.py) that runs a plan of episodes   *)
(* one after the other.  Each is one launch test of its own, run by        *)
(* run_scenario in the ROS domain of the episode, with an MCAP recorder    *)
(* around it (LoggedEpisodeBackend and McapRecorder in mcap_logging.py).   *)
(* The processes live their own lives: the test may exit with any report,  *)
(* hang, or leave nodes behind; the recorder may exit at any moment or     *)
(* ignore the signals it is sent.                                          *)
(***************************************************************************)
EXTENDS Naturals, Sequences

CONSTANTS
  NEpisodes,   \* episodes in the plan
  DomainPool   \* ROS domains they share

ASSUME NEpisodesAssumption == NEpisodes \in Nat \ {0}
ASSUME DomainPoolAssumption == DomainPool \in Nat \ {0}

VARIABLES
  logging,   \* config.enabled
  episode,   \* the episode that is run
  step,      \* what the manager is doing
  outcome,   \* what will be its result
  results,
  recorder,  \* each episode's recorder process
  nodes      \* the processes of each episode's launch test

vars == <<logging, episode, step, outcome, results, recorder, nodes>>

Episodes == 1..NEpisodes

MutantDomainOf(e) == 0

DomainOf(e) == (e - 1) % DomainPool

Categories == {"planning", "execution", "handoff", "expert", "timeout",
               "task", "launch", "unknown"}
Outcomes == Categories \cup {"success"}

TypeOK ==
  /\ logging \in BOOLEAN
  /\ episode \in 1..(NEpisodes + 1)
  /\ step \in {"next", "reset", "start", "run", "sigint", "sigterm",
               "sigkill", "end", "gone"}
  /\ outcome \in Outcomes \cup {"none", "interrupt"}
  /\ results \in Seq(Outcomes) /\ Len(results) <= NEpisodes
  /\ recorder \in [Episodes -> {"none", "running", "dead"}]
  /\ nodes \in [Episodes -> {"none", "up", "left", "gone"}]

Init ==
  /\ logging \in BOOLEAN
  /\ episode = 1
  /\ step = "next"
  /\ outcome = "none"
  /\ results = <<>>
  /\ recorder = [e \in Episodes |-> "none"]
  /\ nodes = [e \in Episodes |-> "none"]

-----------------------------------------------------------------------------
(* What a launch test that exited says of itself.  "reached" is the last   *)
(* of the coordinator's phases in its output.                              *)

Phases == <<"planning", "executing", "verifying_handoff", "arming_expert",
            "waiting_for_expert">>

Reports ==
  [passed : BOOLEAN, reached : 0..Len(Phases), failed : BOOLEAN,
   expertFailed : BOOLEAN, probeFailed : BOOLEAN]

(* The failure of the coordinator is laid to the phase it was in.          *)
PhaseCategory(reached) ==
  CASE reached = 1 -> "planning"
    [] reached = 2 -> "execution"
    [] reached = 3 -> "handoff"
    [] reached = 5 -> "expert"
    [] OTHER -> "unknown"

Classified(report) ==
  CASE report.passed -> "success"
    [] ~report.passed /\ report.failed -> PhaseCategory(report.reached)
    [] ~report.passed /\ ~report.failed /\ report.expertFailed -> "expert"
    [] ~report.passed /\ ~report.failed /\ ~report.expertFailed ->
         IF report.probeFailed THEN "task" ELSE "launch"

-----------------------------------------------------------------------------
(* The manager and what it calls.                                          *)

Recording == recorder[episode] = "running"
To(next) == step' = next /\ UNCHANGED outcome
Ends(result) == outcome' = result /\ step' = "end"

Begin ==
  /\ step = "next" /\ episode \in Episodes
  /\ To("reset")
  /\ UNCHANGED <<logging, episode, results, recorder, nodes>>

(* What reset may raise.  The manager knows a TimeoutError from any other  *)
(* Exception.                                                              *)
ResetFails(result) ==
  /\ step = "reset" /\ result \in {"timeout", "unknown"}
  /\ Ends(result)
  /\ UNCHANGED <<logging, episode, results, recorder, nodes>>

(* A logged execution starts its recorder before anything else.            *)
Execute ==
  /\ step = "reset"
  /\ IF logging
       THEN To("start") /\ UNCHANGED nodes
       ELSE To("run") /\ nodes' = [nodes EXCEPT ![episode] = "up"]
  /\ UNCHANGED <<logging, episode, results, recorder>>

StartRecorder ==
  /\ step = "start"
  /\ recorder' = [recorder EXCEPT ![episode] = "running"]
  /\ nodes' = [nodes EXCEPT ![episode] = "up"]
  /\ To("run")
  /\ UNCHANGED <<logging, episode, results>>

(* It cannot be started, or poll finds that it has exited already.         *)
FailToRecord ==
  /\ step = "start"
  /\ recorder' \in {recorder, [recorder EXCEPT ![episode] = "dead"]}
  /\ Ends("unknown")
  /\ UNCHANGED <<logging, episode, results, nodes>>

(* The "finally" of a logged execution: stop polls, then sends SIGINT.     *)
Stop(result) ==
  /\ outcome' = result
  /\ step' = IF Recording THEN "sigint"
             ELSE IF result = "interrupt" THEN "gone" ELSE "end"

(* A launch test that passed has shut its nodes down; one that failed may  *)
(* have failed at that, too.                                               *)
TestExits(report, left) ==
  /\ step = "run"
  /\ left => ~report.passed
  /\ nodes' = [nodes EXCEPT ![episode] = IF left THEN "left" ELSE "gone"]
  /\ Stop(Classified(report))
  /\ UNCHANGED <<logging, episode, results, recorder>>

MutantTimesOutWithResult ==
  /\ step = "run"
  /\ nodes' = [nodes EXCEPT ![episode] = "left"]
  /\ \E report \in Reports : Stop(Classified(report))
  /\ UNCHANGED <<logging, episode, results, recorder>>

(* subprocess.run kills the launch test, and nothing that it launched.     *)
RunTimesOut ==
  /\ step = "run"
  /\ nodes' = [nodes EXCEPT ![episode] = "left"]
  /\ Stop("timeout")
  /\ UNCHANGED <<logging, episode, results, recorder>>

(* The backend raises instead: the test cannot be found or run.            *)
Raises(result) ==
  /\ step = "run" /\ result \in {"timeout", "unknown"}
  /\ nodes' = [nodes EXCEPT ![episode] = "gone"]
  /\ Stop(result)
  /\ UNCHANGED <<logging, episode, results, recorder>>

(* Ctrl-C is no Exception: run_one lets it pass, but for the "finally".    *)
Interrupt ==
  /\ step = "run"
  /\ nodes' \in {[nodes EXCEPT ![episode] = n] : n \in {"left", "gone"}}
  /\ Stop("interrupt")
  /\ UNCHANGED <<logging, episode, results, recorder>>

InterruptStop ==
  /\ step \in {"sigint", "sigterm", "sigkill"}
  /\ outcome' = "interrupt" /\ step' = "gone"
  /\ UNCHANGED <<logging, episode, results, recorder, nodes>>

Stopped ==
  /\ step \in {"sigint", "sigterm", "sigkill"} /\ ~Recording
  /\ To(IF outcome = "interrupt" THEN "gone" ELSE "end")
  /\ UNCHANGED <<logging, episode, results, recorder, nodes>>

MutantWaitForSigterm ==
  /\ step = "sigint" /\ Recording
  /\ To("sigterm")
  /\ UNCHANGED <<logging, episode, results, recorder, nodes>>

Escalate ==
  /\ step \in {"sigint", "sigterm"} /\ Recording
  /\ To(IF step = "sigint" THEN "sigterm" ELSE "sigkill")
  /\ UNCHANGED <<logging, episode, results, recorder, nodes>>

MutantGiveUpQuietly ==
  /\ step = "sigkill" /\ Recording
  /\ To("end")
  /\ UNCHANGED <<logging, episode, results, recorder, nodes>>

(* The last wait is over too: its TimeoutExpired, which is no              *)
(* TimeoutError, replaces what was about to be returned or raised.         *)
GiveUp ==
  /\ step = "sigkill" /\ Recording
  /\ Ends("unknown")
  /\ UNCHANGED <<logging, episode, results, recorder, nodes>>

Finish ==
  /\ step = "end"
  /\ results' = Append(results, outcome)
  /\ episode' = episode + 1
  /\ step' = "next" /\ outcome' = "none"
  /\ UNCHANGED <<logging, recorder, nodes>>

-----------------------------------------------------------------------------
(* The other processes.                                                    *)

RecorderExits(e) ==
  /\ recorder[e] = "running"
  /\ recorder' = [recorder EXCEPT ![e] = "dead"]
  /\ UNCHANGED <<logging, episode, step, outcome, results, nodes>>

NodesExit(e) ==
  /\ nodes[e] = "left"
  /\ nodes' = [nodes EXCEPT ![e] = "gone"]
  /\ UNCHANGED <<logging, episode, step, outcome, results, recorder>>

(* What the manager does by itself, a wait that times out included.        *)
Manager ==
  \/ Begin \/ Execute \/ StartRecorder \/ RunTimesOut \/ Stopped \/ Escalate
  \/ GiveUp \/ Finish

Next ==
  \/ Manager \/ FailToRecord \/ Interrupt \/ InterruptStop
  \/ \E report \in Reports, left \in BOOLEAN : TestExits(report, left)
  \/ \E result \in Categories : ResetFails(result) \/ Raises(result)
  \/ \E e \in Episodes : RecorderExits(e) \/ NodesExit(e)

Spec == Init /\ [][Next]_vars

(* Nobody owes the manager an answer: only its own steps are fair.         *)
FairSpec == Spec /\ WF_vars(Manager)

-----------------------------------------------------------------------------
(* Properties.                                                             *)

(* An episode that is reported as a success has left nothing running: its  *)
(* launch test ended by itself and in time, and its recorder is closed.    *)
SuccessLeavesNothing ==
  \A e \in 1..Len(results) :
    results[e] = "success" => nodes[e] = "gone" /\ recorder[e] # "running"

(* "Stop rosbag2 cleanly, escalating only if necessary": a recorder that   *)
(* outlives its episode, whatever ended the episode, has made its result   *)
(* an unknown failure.                                                     *)
LostRecorderIsReported ==
  \A e \in 1..Len(results) : recorder[e] = "running" => results[e] = "unknown"

(* "One failure [does not block] the rest": every episode of the plan gets *)
(* its result, unless the user interrupts, whatever hangs.                 *)
EveryEpisodeEnds == <>(Len(results) = NEpisodes \/ step = "gone")


(* An episode is not alone in its ROS domain only if an episode that ran   *)
(* the whole pool of domains before it left its nodes there, and then that *)
(* one's result is no success.                                             *)
StrangersWereReported ==
  step = "run" =>
    \A e \in Episodes \ {episode} :
      nodes[e] \in {"up", "left"} /\ DomainOf(e) = DomainOf(episode) =>
        /\ e + DomainPool <= episode
        /\ results[e] # "success"
=============================================================================
