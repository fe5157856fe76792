------------------------- MODULE ScriptedCollection -------------------------
(***************************************************************************)
(* The collection of scripted demonstrations (collect_scripted_demos.py,   *)
(* scripted_demo_collection.py): a batch runs the requested episodes in    *)
(* order, skips those the dataset has, and saves its summary after each.   *)
(* An episode is a simulation of its own, started by run_scenario          *)
(* (run_week9_acceptance.py), whose expert (see LocalExpert) writes a      *)
(* capture that the collector turns into an episode file.                  *)
(*                                                                         *)
(* The collector may be killed between any two steps and started again.    *)
(* A simulation that timed out, or whose collector was killed, is not      *)
(* stopped by anybody: its expert lives on and may still write, and what   *)
(* is simulated next in the same ROS domain hears it.                      *)
(***************************************************************************)
EXTENDS Naturals

CONSTANTS
  NumSpecs,     \* the episodes requested: 1..NumSpecs
  MaxRuns,      \* how many times the collector is run
  RevisionOf,   \* RevisionOf[r]: the commit and configuration of run r
  Faults        \* what may go wrong (see FaultKinds)

(* "kill"     the collector is killed                                      *)
(* "capture"  the expert cannot write its capture                          *)
(* "write"    the episode cannot be written: an exception before os.link   *)
(* "unlink"   the temporary file cannot be removed, after os.link          *)
(* "summary"  the summary cannot be replaced                               *)
FaultKinds == {"kill", "capture", "write", "unlink", "summary"}

Specs == 1..NumSpecs
Runs == 1..MaxRuns

ASSUME BoundsAssumption == NumSpecs \in Nat \ {0} /\ MaxRuns \in Nat
ASSUME RevisionOfAssumption == DOMAIN RevisionOf = Runs
ASSUME FaultsAssumption == Faults \subseteq FaultKinds

VARIABLES
  dataset,  \* dataset[s]: the episode file of s
  capture,  \* capture[s]: the capture file of s
  summary,  \* the summary file: the run that wrote it and its entries
  experts,  \* experts[r][s]: the expert of the simulation of s in run r
  run,      \* the current, or the last, run
  running,  \* its collector is alive
  spec,     \* the episode it works on
  step,     \* how far it has got with it
  success,  \* the result of the simulation
  episode,  \* the episode it assembled
  entries,  \* entries[s]: the status it has noted
  careful,  \* (history) no run was started over the simulations of another
  pool      \* --domain-pool-size, the same for every run; it never changes

fileVars == <<dataset, capture, summary>>
workVars == <<spec, step, success, episode, entries>>
vars == <<fileVars, experts, run, running, workVars, careful, pool>>

(* The frames of a file, by the outcome that labels the last one ("none"   *)
(* when there are no frames) and the run whose expert recorded them.       *)
Labels == {"none", "success", "failure"}
Frames == [label : Labels, by : Runs]
NoCapture == [label |-> "none", by |-> 0]

Episodes == [success : BOOLEAN, source : {"expert"}, frames : Frames \cup {NoCapture},
             run : Runs]
NoEpisode == [success |-> FALSE, source |-> "none", frames |-> NoCapture, run |-> 0]

Statuses == {"skipped", "success", "failure", "error"}
NoEntries == [s \in Specs |-> "none"]

TypeOK ==
  /\ dataset \in [Specs -> Episodes \cup {NoEpisode}]
  /\ capture \in [Specs -> Frames \cup {NoCapture}]
  /\ summary \in [run : 0..MaxRuns, entries : [Specs -> Statuses \cup {"none"}]]
  /\ experts \in [Runs -> [Specs -> {"none", "alive", "success", "failed", "stopped"}]]
  /\ run \in 0..MaxRuns
  /\ running \in BOOLEAN
  /\ spec \in Specs
  /\ step \in {"look", "simulate", "assemble", "link", "unlink", "note", "save",
               "raise"}
  /\ success \in BOOLEAN
  /\ episode \in Episodes \cup {NoEpisode}
  /\ entries \in [Specs -> Statuses \cup {"none"}]
  /\ careful \in BOOLEAN
  /\ pool \in 1..NumSpecs
  /\ running /\ step = "link" => episode # NoEpisode /\ episode.run = run

Init ==
  /\ dataset = [s \in Specs |-> NoEpisode]
  /\ capture = [s \in Specs |-> NoCapture]
  /\ summary = [run |-> 0, entries |-> NoEntries]
  /\ experts = [r \in Runs |-> [s \in Specs |-> "none"]]
  /\ run = 0
  /\ running = FALSE
  /\ spec = 1
  /\ step = "look"
  /\ success = FALSE
  /\ episode = NoEpisode
  /\ entries = NoEntries
  /\ careful = TRUE
  /\ pool \in 1..NumSpecs

-----------------------------------------------------------------------------
(* The operator.                                                           *)

(* An expert that has ended is still there, with the last status it        *)
(* published, until its simulation is taken down.                          *)
Stopped == [r \in Runs |-> [s \in Specs |->
              IF experts[r][s] = "none" THEN "none" ELSE "stopped"]]

(* The operator may have stopped what earlier runs left, or not.           *)
StartRun ==
  /\ ~running
  /\ run < MaxRuns
  /\ run' = run + 1
  /\ running' = TRUE
  /\ experts' \in {experts, Stopped}
  /\ careful' = (careful /\ experts' = Stopped)
  /\ spec' = 1
  /\ step' = "look"
  /\ success' = FALSE
  /\ episode' = NoEpisode
  /\ entries' = NoEntries
  /\ UNCHANGED <<fileVars, pool>>

(* The documented recovery from a capture without an episode: the          *)
(* simulations are stopped and the capture is moved away.                  *)
ArchiveCapture(s) ==
  /\ ~running
  /\ capture[s] # NoCapture
  /\ dataset[s] = NoEpisode
  /\ capture' = [capture EXCEPT ![s] = NoCapture]
  /\ experts' = Stopped
  /\ UNCHANGED <<dataset, summary, run, running, workVars, careful, pool>>

Kill ==
  /\ "kill" \in Faults
  /\ running
  /\ running' = FALSE
  /\ UNCHANGED <<fileVars, experts, run, workVars, careful, pool>>

-----------------------------------------------------------------------------
(* A simulation.                                                           *)

MutantExpertReplaces(r, s) ==
  /\ experts[r][s] = "alive"
  /\ \E label \in Labels :
       /\ capture' = [capture EXCEPT ![s] = [label |-> label, by |-> r]]
       /\ experts' = [experts EXCEPT ![r][s] =
                        IF label = "success" THEN "success" ELSE "failed"]
  /\ UNCHANGED <<dataset, summary, run, running, workVars, careful, pool>>

(* The expert ends and writes its capture, unless there is one already;    *)
(* without a capture it cannot succeed.  (Two captures are never equal:    *)
(* frames carry their times.)                                              *)
ExpertEnds(r, s) ==
  /\ experts[r][s] = "alive"
  /\ \/ /\ capture[s] = NoCapture
        /\ \E label \in Labels :
             /\ capture' = [capture EXCEPT ![s] = [label |-> label, by |-> r]]
             /\ experts' = [experts EXCEPT ![r][s] =
                              IF label = "success" THEN "success" ELSE "failed"]
     \/ /\ capture[s] # NoCapture \/ "capture" \in Faults
        /\ experts' = [experts EXCEPT ![r][s] = "failed"]
        /\ UNCHANGED capture
  /\ UNCHANGED <<dataset, summary, run, running, workVars, careful, pool>>

Working(s) == running /\ step = s

(* ROS domains are given out again when there are fewer than episodes.     *)
Domain(s) == s % pool

(* The launch test listens to the status of an expert by its name: to that *)
(* of any expert in its domain, also one that was left there by an earlier *)
(* run or an earlier episode.  The status is latched.                      *)
Heard == \E r \in Runs, s \in Specs :
           Domain(s) = Domain(spec) /\ experts[r][s] = "success"

(* The launch test ends and takes its own nodes with it.  It reports a     *)
(* success only on that of an expert, but may fail for reasons of its own. *)
SimulationReturns ==
  /\ Working("simulate")
  /\ success' \in BOOLEAN
  /\ success' => Heard
  /\ experts' = [experts EXCEPT ![run][spec] = "stopped"]
  /\ step' = "assemble"
  /\ UNCHANGED <<fileVars, run, running, spec, episode, entries, careful, pool>>

MutantTimesOutWhenSettled ==
  /\ Working("simulate")
  /\ experts[run][spec] # "alive"
  /\ success' = FALSE
  /\ step' = "assemble"
  /\ UNCHANGED <<fileVars, experts, run, running, spec, episode, entries, careful, pool>>

(* subprocess.run kills the launch test, not what that has started.        *)
SimulationTimesOut ==
  /\ Working("simulate")
  /\ success' = FALSE
  /\ step' = "assemble"
  /\ UNCHANGED <<fileVars, experts, run, running, spec, episode, entries, careful, pool>>

-----------------------------------------------------------------------------
(* The collector.                                                          *)

Note(status) == entries' = [entries EXCEPT ![spec] = status]

(* An exception is noted, saved, and ends the batch.                       *)
Raise == Note("error") /\ step' = "raise"

MutantSkipWhatever ==
  /\ Working("look")
  /\ dataset[spec] # NoEpisode
  /\ Note("skipped") /\ step' = "save"
  /\ UNCHANGED <<fileVars, experts, run, running, spec, success, episode, careful, pool>>

(* An episode already there must come from the same commit and             *)
(* configuration.                                                          *)
Skip ==
  /\ Working("look")
  /\ dataset[spec] # NoEpisode
  /\ IF RevisionOf[dataset[spec].run] = RevisionOf[run]
     THEN Note("skipped") /\ step' = "save"
     ELSE Raise
  /\ UNCHANGED <<fileVars, experts, run, running, spec, success, episode, careful, pool>>

MutantSimulateOverCapture ==
  /\ Working("look")
  /\ dataset[spec] = NoEpisode
  /\ experts' = [experts EXCEPT ![run][spec] = "alive"]
  /\ step' = "simulate"
  /\ UNCHANGED <<fileVars, run, running, spec, success, episode, entries, careful, pool>>

(* A capture without an episode is what an interrupted run leaves.         *)
Simulate ==
  /\ Working("look")
  /\ dataset[spec] = NoEpisode
  /\ IF capture[spec] = NoCapture
     THEN /\ experts' = [experts EXCEPT ![run][spec] = "alive"]
          /\ step' = "simulate"
          /\ UNCHANGED entries
     ELSE Raise /\ UNCHANGED experts
  /\ UNCHANGED <<fileVars, run, running, spec, success, episode, careful, pool>>

(* assemble_scripted_expert_episode: a failed attempt may have no frames.  *)
(* The outcome is that of the launch test; what the frames are labelled    *)
(* with is not looked at.                                                  *)
Assemble ==
  /\ Working("assemble")
  /\ IF success /\ capture[spec].label = "none"
     THEN Raise /\ UNCHANGED episode
     ELSE /\ episode' = [success |-> success, source |-> "expert",
                         frames |-> capture[spec], run |-> run]
          /\ step' = "link"
          /\ UNCHANGED entries
  /\ UNCHANGED <<fileVars, experts, run, running, spec, success, careful, pool>>

(* persist_scripted_expert_episode: os.link, then the temporary file.      *)
LinkEpisode ==
  /\ Working("link")
  /\ \/ /\ dataset[spec] = NoEpisode
        /\ dataset' = [dataset EXCEPT ![spec] = episode]
        /\ step' = "unlink"
        /\ UNCHANGED entries
     \/ /\ dataset[spec] # NoEpisode \/ "write" \in Faults
        /\ Raise
        /\ UNCHANGED dataset
  /\ UNCHANGED <<capture, summary, experts, run, running, spec, success, episode,
                 careful, pool>>

UnlinkTemporary ==
  /\ Working("unlink")
  /\ \/ step' = "note" /\ UNCHANGED entries
     \/ "unlink" \in Faults /\ Raise
  /\ UNCHANGED <<fileVars, experts, run, running, spec, success, episode, careful, pool>>

NoteOutcome ==
  /\ Working("note")
  /\ Note(IF episode.success THEN "success" ELSE "failure")
  /\ step' = "save"
  /\ UNCHANGED <<fileVars, experts, run, running, spec, success, episode, careful, pool>>

(* _save_summary, after each episode and, unchanged, at the end.           *)
SaveSummary ==
  /\ running
  /\ step \in {"save", "raise"}
  /\ summary' = [run |-> run, entries |-> entries]
  /\ IF step = "save" /\ spec < NumSpecs
     THEN spec' = spec + 1 /\ step' = "look" /\ UNCHANGED running
     ELSE running' = FALSE /\ UNCHANGED <<spec, step>>
  /\ UNCHANGED <<dataset, capture, experts, run, success, episode, entries, careful, pool>>

SaveFails ==
  /\ "summary" \in Faults
  /\ running
  /\ step \in {"save", "raise"}
  /\ running' = FALSE
  /\ UNCHANGED <<fileVars, experts, run, workVars, careful, pool>>

Collect ==
  \/ Skip \/ Simulate
  \/ Assemble \/ LinkEpisode \/ UnlinkTemporary \/ NoteOutcome
  \/ SaveSummary \/ SaveFails

Next ==
  \/ StartRun \/ Kill
  \/ Collect \/ SimulationReturns \/ SimulationTimesOut
  \/ \E s \in Specs :
       \/ ArchiveCapture(s)
       \/ \E r \in Runs : ExpertEnds(r, s)

Spec == Init /\ [][Next]_vars

(* The collector is one thread of straight code, and its only wait, for    *)
(* the simulation, has a time limit.                                       *)
Fairness == WF_vars(Collect) /\ WF_vars(SimulationTimesOut)

FairSpec == Spec /\ Fairness

-----------------------------------------------------------------------------
(* The validator of training data (dataset_validation.py).                 *)

Sources == {"scripted", "teleop"}

(* _load_episode                                                           *)
Loads(e) ==
  /\ e.source \in Sources
  /\ e.frames.label # "none"
  /\ e.frames.label = IF e.success THEN "success" ELSE "failure"

-----------------------------------------------------------------------------
(* Properties.                                                             *)

Stored == {s \in Specs : dataset[s] # NoEpisode}

AloneInDomain(s) == \A t \in Specs : Domain(t) = Domain(s) => t = s

(* docs/week11_scripted_collection.md asks of successful demonstrations "A *)
(* valid final terminal success label" and "Matching raw capture and       *)
(* persisted dataset frames".  Of an episode that has its ROS domain to    *)
(* itself, a success in the dataset is the capture on disk, and the expert *)
(* that recorded it ended in success; even if the success reported was not *)
(* that of its own expert, but of one an earlier run of the episode left.  *)
SuccessIsBacked ==
  \A s \in Stored : dataset[s].success /\ AloneInDomain(s) =>
    dataset[s].frames = capture[s] /\ capture[s].label = "success"

(* No episode holds the frames of another run, if the operator sees to it  *)
(* that no simulation of one lives on.                                     *)
FramesAreOwn ==
  careful => \A s \in Stored : dataset[s].frames.by \in {0, dataset[s].run}

(* The summary on disk, whichever run left it and however it ended, never  *)
(* counts an episode that the dataset does not have, with that outcome and *)
(* that provenance.                                                        *)
SummaryIsTrue ==
  \A s \in Specs : summary.entries[s] \in {"success", "failure", "skipped"} =>
    /\ s \in Stored
    /\ RevisionOf[dataset[s].run] = RevisionOf[summary.run]
    /\ summary.entries[s] = "success" => dataset[s].success
    /\ summary.entries[s] = "failure" => ~dataset[s].success

(* A batch ends, whether or not its simulations do.                        *)
BatchEnds == running ~> ~running

(* docs/week11_dataset_validation.md: "The tool supports scripted expert   *)
(* and reviewed teleoperation episodes": a successful demonstration that   *)
(* the collector stored is one the validator loads.                        *)
CollectedIsSupported == \A s \in Stored : dataset[s].success => Loads(dataset[s])
=============================================================================
