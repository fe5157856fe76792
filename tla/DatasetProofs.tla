---------------------------- MODULE DatasetProofs ----------------------------
(***************************************************************************)
(* Safety of what makes the dataset: the collection of scripted            *)
(* demonstrations, the splits, and the groups they keep together; for any  *)
(* number of episodes, runs, commits, files, groups, scenarios and starts, *)
(* and whatever goes wrong.                                                *)
(***************************************************************************)
EXTENDS
  ScriptedCollection, DatasetSplits, EpisodeGroups,
  FiniteSetTheorems, WellFoundedInduction, TLAPS

-----------------------------------------------------------------------------
(* The collection.                                                         *)

ExpertStates == {"none", "alive", "success", "failed", "stopped"}
Counted == {"success", "failure", "skipped"}

(* What an entry of run r says of episode s is so.                         *)
EntryIsTrue(status, r, s) ==
  status \in Counted =>
    /\ dataset[s] # NoEpisode
    /\ RevisionOf[dataset[s].run] = RevisionOf[r]
    /\ status = "success" => dataset[s].success
    /\ status = "failure" => ~dataset[s].success

(* No run has been simulated before its time, and what an expert that is   *)
(* still there published as a success is on disk, whose ever it is.        *)
ExpertsFollow ==
  /\ running => run \in Runs
  /\ \A r \in Runs, s \in Specs : r > run => experts[r][s] = "none"
  /\ \A r \in Runs, s \in Specs :
       experts[r][s] = "success" => capture[s].label = "success"

(* What the collector has in its hands, by the step it is at.              *)
WorkFollows ==
  running =>
    /\ step = "assemble" /\ success /\ AloneInDomain(spec) =>
         capture[spec].label = "success"
    /\ step \in {"link", "unlink", "note"} => episode \in Episodes /\ episode.run = run
    /\ step = "link" /\ episode.success /\ AloneInDomain(spec) =>
         episode.frames = capture[spec] /\ capture[spec].label = "success"
    /\ step \in {"unlink", "note"} => dataset[spec] = episode
    /\ \A s \in Specs : EntryIsTrue(entries[s], run, s)

(* Whose frames these are, if no simulation of another run lives on.       *)
FramesFollow ==
  careful =>
    /\ \A r \in Runs \ {run}, s \in Specs : experts[r][s] # "alive"
    /\ running /\ step \in {"simulate", "assemble"} => capture[spec].by \in {0, run}
    /\ running /\ step = "link" => episode.frames.by \in {0, run}

CollectionInv ==
  /\ TypeOK
  /\ ExpertsFollow
  /\ WorkFollows
  /\ FramesFollow
  /\ SuccessIsBacked
  /\ FramesAreOwn
  /\ SummaryIsTrue

(* The invariant holds before the first run.                               *)
LEMMA InitCollectionInv == Init => CollectionInv
<1> SUFFICES ASSUME Init PROVE CollectionInv
  OBVIOUS
<1>1. 1 \in Specs /\ 0 \in 0..MaxRuns
  BY BoundsAssumption DEF Specs
<1>2. TypeOK
  BY <1>1 DEF Init, TypeOK, NoEntries
<1>3. ExpertsFollow /\ WorkFollows /\ FramesFollow
  BY DEF Init, ExpertsFollow, WorkFollows, FramesFollow
<1>4. SuccessIsBacked /\ FramesAreOwn /\ SummaryIsTrue
  BY DEF Init, SuccessIsBacked, FramesAreOwn, SummaryIsTrue, Stored, NoEntries
<1> QED BY <1>2, <1>3, <1>4 DEF CollectionInv

(* A collected episode is told from none by its source, and a capture from *)
(* none by the run that wrote it.                                          *)
LEMMA FilesAreTold ==
  /\ \A e \in Episodes : e # NoEpisode
  /\ \A e \in Episodes : e.run \in Runs /\ e.success \in BOOLEAN
                           /\ e.frames \in Frames \cup {NoCapture}
  /\ \A f \in Frames : f # NoCapture /\ f.by \in Runs /\ f.label \in Labels
  /\ NoCapture.by = 0 /\ NoCapture.label = "none"
<1>1. \A e \in Episodes : e.source = "expert"
  BY DEF Episodes
<1>2. NoEpisode.source = "none"
  BY DEF NoEpisode
<1>3. \A f \in Frames : f.by \in Runs
  BY DEF Frames
<1>4. NoCapture.by = 0 /\ 0 \notin Runs /\ NoCapture.label = "none"
  BY DEF NoCapture, Runs
<1> QED BY <1>1, <1>2, <1>3, <1>4 DEF Episodes, Frames

(* Domains stay as they are; in a domain of its own, an episode hears only *)
(* experts of its own.                                                     *)
LEMMA SameDomains ==
  ASSUME UNCHANGED pool
  PROVE  \A s \in Specs : AloneInDomain(s)' <=> AloneInDomain(s)
BY DEF AloneInDomain, Domain

LEMMA HeardAlone ==
  ASSUME Heard, AloneInDomain(spec)
  PROVE  \E r \in Runs : experts[r][spec] = "success"
BY DEF Heard, AloneInDomain

(* A change of one expert.                                                 *)
LEMMA OneExpert ==
  ASSUME TypeOK, NEW r \in Runs, NEW s \in Specs, NEW v \in ExpertStates,
         experts' = [experts EXCEPT ![r][s] = v]
  PROVE  /\ experts' \in [Runs -> [Specs -> ExpertStates]]
         /\ \A q \in Runs, t \in Specs :
              experts'[q][t] = IF q = r /\ t = s THEN v ELSE experts[q][t]
BY DEF TypeOK, ExpertStates

(* The operator stops all that is there and nothing else.                  *)
LEMMA StoppedExperts ==
  ASSUME TypeOK
  PROVE  /\ Stopped \in [Runs -> [Specs -> ExpertStates]]
         /\ \A r \in Runs, s \in Specs :
              /\ Stopped[r][s] \in {"none", "stopped"}
              /\ experts[r][s] = "none" => Stopped[r][s] = "none"
BY DEF TypeOK, Stopped, ExpertStates

(* The files, and what they promise, are left alone.                       *)
LEMMA SameFiles ==
  ASSUME CollectionInv, UNCHANGED <<dataset, capture, summary, pool>>
  PROVE  /\ SuccessIsBacked' /\ SummaryIsTrue'
         /\ careful' = careful => FramesAreOwn'
<1>1. \A s \in Specs : AloneInDomain(s)' <=> AloneInDomain(s)
  BY SameDomains
<1> QED BY <1>1 DEF CollectionInv, SuccessIsBacked, SummaryIsTrue, FramesAreOwn, Stored

(* So are the experts: what remains is the collector's own work.           *)
LEMMA SameExperts ==
  ASSUME CollectionInv, UNCHANGED <<capture, experts, run, careful>>,
         running' => running,
         running' /\ step' \in {"simulate", "assemble"} =>
           spec' = spec /\ step \in {"simulate", "assemble"},
         running' /\ step' = "link" => episode'.frames.by \in {0, run} \/ ~careful
  PROVE  ExpertsFollow' /\ FramesFollow'
BY DEF CollectionInv, ExpertsFollow, FramesFollow

(* A run starts.                                                           *)
LEMMA StartRunKeeps ==
  ASSUME CollectionInv, StartRun
  PROVE  CollectionInv'
<1>1. /\ ~running /\ running' /\ run < MaxRuns /\ run' = run + 1
      /\ experts' \in {experts, Stopped} /\ careful' = (careful /\ experts' = Stopped)
      /\ spec' = 1 /\ step' = "look" /\ success' = FALSE /\ episode' = NoEpisode
      /\ entries' = NoEntries /\ UNCHANGED <<dataset, capture, summary, pool>>
  BY DEF StartRun, fileVars
<1>2. /\ run \in 0..MaxRuns /\ MaxRuns \in Nat /\ run' \in Runs /\ 1 \in Specs
      /\ run' \in 0..MaxRuns /\ careful \in BOOLEAN /\ careful' \in BOOLEAN /\ TypeOK
  BY <1>1, BoundsAssumption DEF CollectionInv, TypeOK, Runs, Specs
<1>3. /\ experts' \in [Runs -> [Specs -> ExpertStates]]
      /\ \A r \in Runs, s \in Specs : r > run => experts'[r][s] = "none"
      /\ careful' => \A r \in Runs, s \in Specs : experts'[r][s] # "alive"
      /\ \A r \in Runs, s \in Specs :
           experts'[r][s] = "success" => experts[r][s] = "success"
  <2>1. \A r \in Runs, s \in Specs : r > run => experts[r][s] = "none"
    BY DEF CollectionInv, ExpertsFollow
  <2>2. experts \in [Runs -> [Specs -> ExpertStates]]
    BY <1>2 DEF TypeOK, ExpertStates
  <2> QED BY <1>1, <1>2, <2>1, <2>2, StoppedExperts
<1>4. TypeOK'
  BY <1>1, <1>2, <1>3 DEF TypeOK, NoEntries, Statuses, ExpertStates
<1>5. ExpertsFollow'
  BY <1>1, <1>2, <1>3 DEF CollectionInv, ExpertsFollow, Runs
<1>6. WorkFollows'
  BY <1>1 DEF WorkFollows, EntryIsTrue, NoEntries, Counted
<1>7. FramesFollow'
  BY <1>1, <1>3 DEF FramesFollow
<1>8. FramesAreOwn'
  BY <1>1 DEF CollectionInv, FramesAreOwn, Stored
<1> QED BY <1>1, <1>4, <1>5, <1>6, <1>7, <1>8, SameFiles DEF CollectionInv

(* A capture that has no episode is moved away.                            *)
LEMMA ArchiveKeeps ==
  ASSUME CollectionInv, NEW s \in Specs, ArchiveCapture(s)
  PROVE  CollectionInv'
<1>1. /\ ~running /\ dataset[s] = NoEpisode /\ experts' = Stopped
      /\ capture' = [capture EXCEPT ![s] = NoCapture]
      /\ UNCHANGED <<dataset, summary, run, running, spec, step, success, episode,
                     entries, careful, pool>>
  BY DEF ArchiveCapture, workVars
<1>2. /\ TypeOK /\ capture' \in [Specs -> Frames \cup {NoCapture}]
      /\ \A t \in Specs \ {s} : capture'[t] = capture[t]
  BY <1>1 DEF CollectionInv, TypeOK
<1>3. TypeOK'
  BY <1>1, <1>2, StoppedExperts DEF TypeOK, ExpertStates
<1>4. ExpertsFollow'
  BY <1>1, <1>2, StoppedExperts DEF CollectionInv, ExpertsFollow
<1>5. WorkFollows' /\ FramesFollow'
  BY <1>1, <1>2, StoppedExperts DEF CollectionInv, WorkFollows, FramesFollow
<1>6. SuccessIsBacked'
  BY <1>1, <1>2, SameDomains DEF CollectionInv, SuccessIsBacked, Stored
<1>7. FramesAreOwn' /\ SummaryIsTrue'
  BY <1>1 DEF CollectionInv, FramesAreOwn, SummaryIsTrue, Stored
<1> QED BY <1>3, <1>4, <1>5, <1>6, <1>7 DEF CollectionInv

(* An expert ends.  A capture that is there stays.                         *)
LEMMA ExpertEndsKeeps ==
  ASSUME CollectionInv, NEW r \in Runs, NEW s \in Specs, ExpertEnds(r, s)
  PROVE  CollectionInv'
<1>1. /\ experts[r][s] = "alive"
      /\ UNCHANGED <<dataset, summary, run, running, spec, step, success, episode,
                     entries, careful, pool>>
  BY DEF ExpertEnds, workVars
<1>2. PICK v \in {"success", "failed"} :
        /\ experts' = [experts EXCEPT ![r][s] = v]
        /\ \/ /\ capture[s] = NoCapture
              /\ \E label \in Labels :
                   /\ capture' = [capture EXCEPT ![s] = [label |-> label, by |-> r]]
                   /\ v = "success" => label = "success"
           \/ capture' = capture /\ v = "failed"
  BY DEF ExpertEnds
<1>3. /\ TypeOK /\ v \in ExpertStates
  BY DEF CollectionInv, ExpertStates
<1>4. /\ experts' \in [Runs -> [Specs -> ExpertStates]]
      /\ \A q \in Runs, t \in Specs :
           experts'[q][t] = IF q = r /\ t = s THEN v ELSE experts[q][t]
  BY <1>2, <1>3, OneExpert
<1>5. /\ capture' \in [Specs -> Frames \cup {NoCapture}]
      /\ \A t \in Specs : capture[t] # NoCapture => capture'[t] = capture[t]
      /\ \A t \in Specs \ {s} : capture'[t] = capture[t]
      /\ capture'[s] = capture[s] \/ capture'[s].by = r
      /\ v = "success" => capture'[s].label = "success"
  <2>1. CASE capture' = capture /\ v = "failed"
    BY <2>1, <1>3 DEF TypeOK
  <2>2. ASSUME NEW label \in Labels, capture[s] = NoCapture,
               capture' = [capture EXCEPT ![s] = [label |-> label, by |-> r]],
               v = "success" => label = "success"
        PROVE  /\ capture' \in [Specs -> Frames \cup {NoCapture}]
               /\ \A t \in Specs \ {s} : capture'[t] = capture[t]
               /\ capture'[s].by = r
               /\ v = "success" => capture'[s].label = "success"
    <3>1. [label |-> label, by |-> r] \in Frames
      BY DEF Frames
    <3> QED BY <2>2, <3>1, <1>3 DEF TypeOK
  <2> QED BY <1>2, <2>1, <2>2
<1>6. \A t \in Specs : capture[t].label = "success" =>
        capture'[t] = capture[t] /\ capture[t] # NoCapture
  BY <1>5 DEF NoCapture
<1>7. TypeOK'
  BY <1>1, <1>3, <1>4, <1>5 DEF TypeOK, ExpertStates
<1>8. ExpertsFollow'
  <2>1. r <= run
    BY <1>1 DEF CollectionInv, ExpertsFollow, TypeOK, Runs
  <2>2. \A q \in Runs, t \in Specs : q > run => experts'[q][t] = "none"
    BY <1>1, <1>4, <2>1 DEF CollectionInv, ExpertsFollow, TypeOK, Runs
  <2>3. ASSUME NEW q \in Runs, NEW t \in Specs, experts'[q][t] = "success"
        PROVE  capture'[t].label = "success"
    <3>1. CASE q = r /\ t = s
      BY <1>4, <1>5, <2>3, <3>1
    <3>2. CASE ~(q = r /\ t = s)
      <4>1. capture[t].label = "success"
        BY <1>4, <2>3, <3>2 DEF CollectionInv, ExpertsFollow
      <4> QED BY <1>6, <4>1
    <3> QED BY <3>1, <3>2
  <2> QED BY <1>1, <2>2, <2>3 DEF CollectionInv, ExpertsFollow
<1>9. WorkFollows'
  BY <1>1, <1>3, <1>6, SameDomains DEF CollectionInv, WorkFollows, EntryIsTrue, TypeOK
<1>10. FramesFollow'
  <2>1. careful => r = run
    BY <1>1 DEF CollectionInv, FramesFollow
  <2>2. careful => \A q \in Runs \ {run}, t \in Specs : experts'[q][t] # "alive"
    BY <1>2, <1>4 DEF CollectionInv, FramesFollow
  <2>3. spec \in Specs
    BY <1>3 DEF TypeOK
  <2> QED BY <1>1, <1>5, <2>1, <2>2, <2>3 DEF CollectionInv, FramesFollow
<1>11. SuccessIsBacked'
  BY <1>1, <1>6, SameDomains DEF CollectionInv, SuccessIsBacked, Stored
<1>12. FramesAreOwn' /\ SummaryIsTrue'
  BY <1>1 DEF CollectionInv, FramesAreOwn, SummaryIsTrue, Stored
<1> QED BY <1>7, <1>8, <1>9, <1>10, <1>11, <1>12 DEF CollectionInv

(* The simulation returns, or its time is over.                            *)
LEMMA SimulationKeeps ==
  ASSUME CollectionInv, SimulationReturns \/ SimulationTimesOut
  PROVE  CollectionInv'
<1>1. /\ running /\ step = "simulate" /\ step' = "assemble" /\ success' \in BOOLEAN
      /\ success' => Heard
      /\ \/ experts' = experts
         \/ experts' = [experts EXCEPT ![run][spec] = "stopped"]
      /\ UNCHANGED <<dataset, capture, summary, run, running, spec, episode, entries,
                     careful, pool>>
  BY DEF SimulationReturns, SimulationTimesOut, Working, fileVars
<1>2. /\ TypeOK /\ run \in Runs /\ spec \in Specs
  BY <1>1 DEF CollectionInv, ExpertsFollow, TypeOK
<1>3. /\ experts' \in [Runs -> [Specs -> ExpertStates]]
      /\ \A q \in Runs, t \in Specs :
           /\ experts'[q][t] \in {"alive", "success"} => experts'[q][t] = experts[q][t]
           /\ q > run => experts'[q][t] = experts[q][t]
  <2>1. CASE experts' = experts
    BY <1>2, <2>1 DEF TypeOK, ExpertStates
  <2>2. CASE experts' = [experts EXCEPT ![run][spec] = "stopped"]
    <3>1. "stopped" \in ExpertStates
      BY DEF ExpertStates
    <3>2. /\ experts' \in [Runs -> [Specs -> ExpertStates]]
          /\ \A q \in Runs, t \in Specs : experts'[q][t] =
               IF q = run /\ t = spec THEN "stopped" ELSE experts[q][t]
      BY <1>2, <2>2, <3>1, OneExpert
    <3>3. \A q \in Runs : q > run => q # run
      BY <1>2 DEF Runs
    <3> QED BY <3>2, <3>3
  <2> QED BY <1>1, <2>1, <2>2
<1>4. TypeOK'
  BY <1>1, <1>2, <1>3 DEF TypeOK, ExpertStates
<1>5. ExpertsFollow'
  BY <1>1, <1>2, <1>3 DEF CollectionInv, ExpertsFollow
<1>6. WorkFollows'
  <2>1. success' /\ AloneInDomain(spec) => capture[spec].label = "success"
    BY <1>1, <1>2, HeardAlone DEF CollectionInv, ExpertsFollow
  <2> QED BY <1>1, <1>2, <2>1, SameDomains DEF CollectionInv, WorkFollows, EntryIsTrue
<1>7. FramesFollow'
  BY <1>1, <1>2, <1>3 DEF CollectionInv, FramesFollow
<1> QED BY <1>1, <1>4, <1>5, <1>6, <1>7, SameFiles DEF CollectionInv

(* What is noted of an episode is so.                                      *)
LEMMA NoteKeeps ==
  ASSUME CollectionInv, running, NEW status \in Statuses, Note(status),
         EntryIsTrue(status, run, spec), UNCHANGED <<dataset, run>>
  PROVE  /\ entries' \in [Specs -> Statuses \cup {"none"}]
         /\ \A s \in Specs : EntryIsTrue(entries[s], run, s)'
<1>1. /\ entries \in [Specs -> Statuses \cup {"none"}] /\ spec \in Specs
      /\ entries' = [entries EXCEPT ![spec] = status]
      /\ \A s \in Specs : EntryIsTrue(entries[s], run, s)
  BY DEF CollectionInv, TypeOK, WorkFollows, Note
<1>2. /\ entries' \in [Specs -> Statuses \cup {"none"}]
      /\ \A s \in Specs : entries'[s] = IF s = spec THEN status ELSE entries[s]
  BY <1>1
<1> QED BY <1>1, <1>2 DEF EntryIsTrue

(* An error counts for nothing.                                            *)
LEMMA ErrorIsTrue == \A r, s : EntryIsTrue("error", r, s)
BY DEF EntryIsTrue, Counted

(* The collector looks whether the dataset has the episode.                *)
LEMMA LookKeeps ==
  ASSUME CollectionInv, Skip \/ Simulate
  PROVE  CollectionInv'
<1>1. /\ running /\ step = "look" /\ running'
      /\ UNCHANGED <<dataset, capture, summary, run, running, spec, success, episode,
                     careful, pool>>
  BY DEF Skip, Simulate, Working, fileVars
<1>2. /\ TypeOK /\ run \in Runs /\ spec \in Specs
  BY <1>1 DEF CollectionInv, ExpertsFollow, TypeOK
<1>3. CASE UNCHANGED experts /\ step' \in {"save", "raise"}
           /\ \E status \in {"skipped", "error"} :
                Note(status) /\ EntryIsTrue(status, run, spec)
  <2>1. /\ entries' \in [Specs -> Statuses \cup {"none"}]
        /\ \A s \in Specs : EntryIsTrue(entries[s], run, s)'
    BY <1>1, <1>3, NoteKeeps DEF Statuses
  <2>2. TypeOK'
    BY <1>1, <1>2, <1>3, <2>1 DEF TypeOK
  <2>3. WorkFollows'
    BY <1>1, <1>3, <2>1 DEF WorkFollows
  <2>4. ExpertsFollow' /\ FramesFollow'
    BY <1>1, <1>3, SameExperts
  <2> QED BY <1>1, <2>2, <2>3, <2>4, SameFiles DEF CollectionInv
<1>4. CASE /\ capture[spec] = NoCapture /\ step' = "simulate"
           /\ experts' = [experts EXCEPT ![run][spec] = "alive"]
           /\ UNCHANGED entries
  <2>1. /\ experts' \in [Runs -> [Specs -> ExpertStates]]
        /\ \A q \in Runs, t \in Specs :
             experts'[q][t] = IF q = run /\ t = spec THEN "alive" ELSE experts[q][t]
    <3>1. "alive" \in ExpertStates
      BY DEF ExpertStates
    <3> QED BY <1>2, <1>4, <3>1, OneExpert
  <2>2. TypeOK'
    BY <1>1, <1>2, <1>4, <2>1 DEF TypeOK, ExpertStates
  <2>3. ExpertsFollow'
    BY <1>1, <1>2, <2>1 DEF CollectionInv, ExpertsFollow, Runs
  <2>4. WorkFollows'
    BY <1>1, <1>4 DEF CollectionInv, WorkFollows, EntryIsTrue
  <2>5. FramesFollow'
    BY <1>1, <1>2, <1>4, <2>1, FilesAreTold DEF CollectionInv, FramesFollow
  <2> QED BY <1>1, <2>2, <2>3, <2>4, <2>5, SameFiles DEF CollectionInv
<1>5. CASE Skip
  <2>2. CASE RevisionOf[dataset[spec].run] = RevisionOf[run]
    BY <1>3, <1>5, <2>2 DEF Skip, EntryIsTrue
  <2>3. CASE RevisionOf[dataset[spec].run] # RevisionOf[run]
    BY <1>3, <1>5, <2>3, ErrorIsTrue DEF Skip, Raise
  <2> QED BY <2>2, <2>3
<1>6. CASE Simulate
  <2>1. CASE capture[spec] = NoCapture
    BY <1>4, <1>6, <2>1 DEF Simulate
  <2>2. CASE capture[spec] # NoCapture
    BY <1>3, <1>6, <2>2, ErrorIsTrue DEF Simulate, Raise
  <2> QED BY <2>1, <2>2
<1> QED BY <1>5, <1>6

(* The collector assembles an episode of the capture and its run.          *)
LEMMA AssembleKeeps ==
  ASSUME CollectionInv, Assemble
  PROVE  CollectionInv'
<1>1. /\ running /\ step = "assemble" /\ running'
      /\ UNCHANGED <<dataset, capture, summary, experts, run, running, spec, success,
                     careful, pool>>
  BY DEF Assemble, Working, fileVars
<1>2. /\ TypeOK /\ run \in Runs /\ spec \in Specs /\ success \in BOOLEAN
      /\ capture[spec] \in Frames \cup {NoCapture}
  BY <1>1 DEF CollectionInv, ExpertsFollow, TypeOK
<1>3. CASE Raise /\ UNCHANGED episode
  <2>1. /\ entries' \in [Specs -> Statuses \cup {"none"}] /\ step' = "raise"
        /\ \A s \in Specs : EntryIsTrue(entries[s], run, s)'
    BY <1>1, <1>3, NoteKeeps, ErrorIsTrue DEF Raise, Statuses
  <2>2. TypeOK' /\ WorkFollows'
    BY <1>1, <1>2, <1>3, <2>1 DEF TypeOK, WorkFollows
  <2>3. ExpertsFollow' /\ FramesFollow'
    BY <1>1, <2>1, SameExperts
  <2> QED BY <1>1, <2>2, <2>3, SameFiles DEF CollectionInv
<1>4. CASE ~(Raise /\ UNCHANGED episode)
  <2> DEFINE e == [success |-> success, source |-> "expert",
                   frames |-> capture[spec], run |-> run]
  <2>1. /\ episode' = e /\ step' = "link" /\ UNCHANGED entries
        /\ success => capture[spec].label # "none"
    BY <1>4 DEF Assemble
  <2>2. e \in Episodes
    BY <1>2 DEF Episodes
  <2>3. e.run = run /\ e.success = success /\ e.frames = capture[spec]
    OBVIOUS
  <2> HIDE DEF e
  <2>4. e # NoEpisode
    BY <2>2, FilesAreTold
  <2>5. TypeOK'
    BY <1>1, <1>2, <2>1, <2>2, <2>3, <2>4 DEF TypeOK
  <2>6. WorkFollows'
    BY <1>1, <1>2, <2>1, <2>2, <2>3, SameDomains DEF CollectionInv, WorkFollows, EntryIsTrue
  <2>7. ExpertsFollow' /\ FramesFollow'
    BY <1>1, <2>1, <2>3 DEF CollectionInv, ExpertsFollow, FramesFollow
  <2> QED BY <1>1, <2>5, <2>6, <2>7, SameFiles DEF CollectionInv
<1> QED BY <1>3, <1>4

(* The episode comes into the dataset, or not.                             *)
LEMMA LinkKeeps ==
  ASSUME CollectionInv, LinkEpisode
  PROVE  CollectionInv'
<1>1. /\ running /\ step = "link" /\ running'
      /\ UNCHANGED <<capture, summary, experts, run, running, spec, success, episode,
                     careful, pool>>
  BY DEF LinkEpisode, Working
<1>2. /\ TypeOK /\ run \in Runs /\ spec \in Specs
      /\ episode \in Episodes /\ episode.run = run /\ episode # NoEpisode
      /\ episode.success /\ AloneInDomain(spec) =>
           episode.frames = capture[spec] /\ capture[spec].label = "success"
  BY <1>1 DEF CollectionInv, ExpertsFollow, WorkFollows, TypeOK
<1>3. CASE Raise /\ UNCHANGED dataset
  <2>1. /\ entries' \in [Specs -> Statuses \cup {"none"}] /\ step' = "raise"
        /\ \A s \in Specs : EntryIsTrue(entries[s], run, s)'
    BY <1>1, <1>3, NoteKeeps, ErrorIsTrue DEF Raise, Statuses
  <2>2. TypeOK' /\ WorkFollows'
    BY <1>1, <1>2, <1>3, <2>1 DEF TypeOK, WorkFollows
  <2>3. ExpertsFollow' /\ FramesFollow'
    BY <1>1, <2>1, SameExperts
  <2> QED BY <1>1, <1>3, <2>2, <2>3, SameFiles DEF CollectionInv
<1>4. CASE /\ dataset[spec] = NoEpisode /\ step' = "unlink" /\ UNCHANGED entries
           /\ dataset' = [dataset EXCEPT ![spec] = episode]
  <2>1. /\ dataset' \in [Specs -> Episodes \cup {NoEpisode}]
        /\ \A s \in Specs : dataset'[s] = IF s = spec THEN episode ELSE dataset[s]
    BY <1>2, <1>4 DEF TypeOK
  <2>2. TypeOK'
    BY <1>1, <1>2, <1>4, <2>1 DEF TypeOK
  <2>3. ExpertsFollow' /\ FramesFollow'
    BY <1>1, <1>4, SameExperts
  <2>5. WorkFollows'
    <3>1. \A s \in Specs : EntryIsTrue(entries[s], run, s)'
      BY <1>1, <1>4, <2>1 DEF CollectionInv, WorkFollows, EntryIsTrue
    <3> QED BY <1>1, <1>2, <1>4, <2>1, <3>1 DEF WorkFollows
  <2>6. SuccessIsBacked'
    BY <1>1, <1>2, <2>1, SameDomains DEF CollectionInv, SuccessIsBacked, Stored
  <2>7. FramesAreOwn'
    BY <1>1, <1>2, <2>1 DEF CollectionInv, FramesFollow, FramesAreOwn, Stored
  <2>8. SummaryIsTrue'
    BY <1>1, <1>4, <2>1 DEF CollectionInv, SummaryIsTrue, Stored
  <2> QED BY <2>2, <2>3, <2>5, <2>6, <2>7, <2>8 DEF CollectionInv
<1> QED BY <1>3, <1>4 DEF LinkEpisode

(* Its temporary file is removed, or not; the outcome is noted.            *)
LEMMA NotingKeeps ==
  ASSUME CollectionInv, UnlinkTemporary \/ NoteOutcome
  PROVE  CollectionInv'
<1>1. /\ running /\ step \in {"unlink", "note"} /\ running'
      /\ UNCHANGED <<dataset, capture, summary, experts, run, running, spec, success,
                     episode, careful, pool>>
  BY DEF UnlinkTemporary, NoteOutcome, Working, fileVars
<1>2. /\ TypeOK /\ episode \in Episodes /\ episode.run = run /\ dataset[spec] = episode
      /\ episode # NoEpisode
  BY <1>1, FilesAreTold DEF CollectionInv, WorkFollows
<1>3. CASE step' = "note" /\ UNCHANGED entries
  <2>1. TypeOK' /\ WorkFollows'
    BY <1>1, <1>2, <1>3 DEF CollectionInv, TypeOK, WorkFollows, EntryIsTrue
  <2>2. ExpertsFollow' /\ FramesFollow'
    BY <1>1, <1>3, SameExperts
  <2> QED BY <1>1, <2>1, <2>2, SameFiles DEF CollectionInv
<1>4. ASSUME NEW status \in Statuses, Note(status), EntryIsTrue(status, run, spec),
             step' \in {"save", "raise"}
      PROVE  CollectionInv'
  <2>1. /\ entries' \in [Specs -> Statuses \cup {"none"}]
        /\ \A s \in Specs : EntryIsTrue(entries[s], run, s)'
    BY <1>1, <1>4, NoteKeeps
  <2>2. TypeOK' /\ WorkFollows'
    BY <1>1, <1>2, <1>4, <2>1 DEF TypeOK, WorkFollows
  <2>3. ExpertsFollow' /\ FramesFollow'
    BY <1>1, <1>4, SameExperts
  <2> QED BY <1>1, <2>2, <2>3, SameFiles DEF CollectionInv
<1>5. CASE UnlinkTemporary
  BY <1>3, <1>4, <1>5, ErrorIsTrue DEF UnlinkTemporary, Raise, Statuses
<1>6. CASE NoteOutcome
  <2> DEFINE status == IF episode.success THEN "success" ELSE "failure"
  <2>1. Note(status) /\ step' = "save" /\ status \in Statuses
    BY <1>6 DEF NoteOutcome, Statuses
  <2>2. EntryIsTrue(status, run, spec)
    BY <1>2 DEF EntryIsTrue
  <2> HIDE DEF status
  <2> QED BY <1>4, <2>1, <2>2
<1> QED BY <1>5, <1>6

(* The summary is saved, or the collector ends without.                    *)
LEMMA SaveKeeps ==
  ASSUME CollectionInv, SaveSummary \/ SaveFails \/ Kill
  PROVE  CollectionInv'
<1>1. /\ running
      /\ UNCHANGED <<dataset, capture, experts, run, success, episode, entries, careful, pool>>
      /\ \/ UNCHANGED <<spec, step>> /\ running' = FALSE
         \/ /\ step' = "look" /\ spec' = spec + 1 /\ spec < NumSpecs /\ running' = running
  BY DEF SaveSummary, SaveFails, Kill, fileVars, workVars
<1>2. summary' = summary \/ summary' = [run |-> run, entries |-> entries]
  BY DEF SaveSummary, SaveFails, Kill, fileVars
<1>3. TypeOK /\ run \in Runs /\ NumSpecs \in Nat \ {0}
  BY <1>1, BoundsAssumption DEF CollectionInv, ExpertsFollow
<1>4. spec' \in Specs
  <2>1. spec \in Specs /\ (spec' = spec \/ (spec' = spec + 1 /\ spec < NumSpecs))
    BY <1>1, <1>3 DEF TypeOK
  <2> QED BY <1>3, <2>1 DEF Specs
<1>5. /\ summary' \in [run : 0..MaxRuns, entries : [Specs -> Statuses \cup {"none"}]]
      /\ \/ summary'.run = summary.run /\ summary'.entries = summary.entries
         \/ summary'.run = run /\ summary'.entries = entries
  BY <1>2, <1>3 DEF TypeOK
<1>6. TypeOK'
  BY <1>1, <1>3, <1>4, <1>5 DEF TypeOK
<1>7. WorkFollows'
  BY <1>1 DEF CollectionInv, WorkFollows, EntryIsTrue
<1>8. ExpertsFollow' /\ FramesFollow'
  BY <1>1, SameExperts
<1>9. SuccessIsBacked' /\ FramesAreOwn'
  BY <1>1, SameDomains DEF CollectionInv, SuccessIsBacked, FramesAreOwn, Stored
<1>10. SummaryIsTrue'
  BY <1>1, <1>5 DEF CollectionInv, WorkFollows, EntryIsTrue, Counted, SummaryIsTrue, Stored
<1> QED BY <1>6, <1>7, <1>8, <1>9, <1>10 DEF CollectionInv

(* Every step keeps the invariant.                                         *)
LEMMA NextCollectionInv == CollectionInv /\ [Next]_vars => CollectionInv'
<1> SUFFICES ASSUME CollectionInv, [Next]_vars PROVE CollectionInv'
  OBVIOUS
<1>1. CASE Collect \/ Kill
  BY <1>1, LookKeeps, AssembleKeeps, LinkKeeps, NotingKeeps, SaveKeeps DEF Collect
<1>2. CASE StartRun \/ SimulationReturns \/ SimulationTimesOut
  BY <1>2, StartRunKeeps, SimulationKeeps
<1>3. ASSUME NEW s \in Specs, ArchiveCapture(s) \/ \E r \in Runs : ExpertEnds(r, s)
      PROVE  CollectionInv'
  BY <1>3, ArchiveKeeps, ExpertEndsKeeps
<1>4. CASE UNCHANGED vars
  BY <1>4 DEF vars, fileVars, workVars, CollectionInv, TypeOK, ExpertsFollow, WorkFollows,
     EntryIsTrue, FramesFollow, SuccessIsBacked, FramesAreOwn, SummaryIsTrue, Stored,
     AloneInDomain, Domain
<1> QED BY <1>1, <1>2, <1>3, <1>4 DEF Next

(* The invariant holds throughout.                                         *)
LEMMA AlwaysCollectionInv == Spec => []CollectionInv
BY InitCollectionInv, NextCollectionInv, PTL DEF Spec

(* Every variable keeps its type, and an episode is only linked when it is *)
(* one, of the run that links it.                                          *)
THEOREM CollectionTypeCorrect == Spec => []TypeOK
<1>1. CollectionInv => TypeOK
  BY DEF CollectionInv
<1> QED BY AlwaysCollectionInv, <1>1, PTL

(* In the dataset the success of an episode that has its domain to itself  *)
(* is the capture on disk, recorded by an expert that ended in success.    *)
THEOREM SuccessIsBackedHolds == Spec => []SuccessIsBacked
<1>1. CollectionInv => SuccessIsBacked
  BY DEF CollectionInv
<1> QED BY AlwaysCollectionInv, <1>1, PTL

(* With a careful operator no episode holds the frames of another run.     *)
THEOREM FramesAreOwnHolds == Spec => []FramesAreOwn
<1>1. CollectionInv => FramesAreOwn
  BY DEF CollectionInv
<1> QED BY AlwaysCollectionInv, <1>1, PTL

(* The summary on disk never counts an episode that the dataset does not   *)
(* have, with that outcome and that provenance.                            *)
THEOREM SummaryIsTrueHolds == Spec => []SummaryIsTrue
<1>1. CollectionInv => SummaryIsTrue
  BY DEF CollectionInv
<1> QED BY AlwaysCollectionInv, <1>1, PTL

-----------------------------------------------------------------------------
(* The splits.                                                             *)

GroupsListed == {groupOf[f] : f \in episodes}
AssignedGroups == UNION {assigned[n] : n \in Splits}

(* While it runs, --check holds the manifest that is on disk.              *)
GivenFollows == check => given = manifest /\ manifest \notin Unread

(* What is assigned is assigned once, to groups of the listed episodes, of *)
(* which there is one for each index, and there are groups left for the    *)
(* splits that are still empty.                                            *)
AssignedFollows ==
  /\ progress \notin {"assign", "write"} => assigned = Nothing
  /\ progress \in {"assign", "write"} =>
       /\ paths \subseteq Readable
       /\ \A f \in paths : \E k \in episodes :
            {g \in episodes : IdOf[g] = IdOf[f]} = {k}
       /\ \A n, m \in Splits : assigned[n] \cap assigned[m] # {} => n = m
       /\ AssignedGroups \subseteq GroupsListed
       /\ Cardinality(Empty) <= Cardinality(Left)
  /\ progress = "write" => Left = {} /\ Complete

SplitsInv ==
  /\ SplitsTypeOK
  /\ GivenFollows
  /\ AssignedFollows
  /\ SplitsPartition

-----------------------------------------------------------------------------
(* Of the files with one index the last is kept.                           *)

(* A finite set of numbers that is not empty has a greatest member.        *)
LEMMA FiniteHasGreatest ==
  ASSUME NEW S, S \subseteq Nat, IsFiniteSet(S), S # {}
  PROVE  \E k \in S : \A x \in S : x <= k
<1> DEFINE
  Greatest(T) == \E k \in T : \A x \in T : x <= k
  Bad == {T \in FiniteSubsetsOf(S) : T # {} /\ ~Greatest(T)}
<1> SUFFICES ASSUME ~Greatest(S) PROVE FALSE
  OBVIOUS
<1>1. S \in Bad
  BY DEF FiniteSubsetsOf
<1>2. Bad \subseteq FiniteSubsetsOf(S) /\ Bad # {}
  BY <1>1
<1>3. PICK T \in Bad : \A U \in Bad : <<U, T>> \notin StrictSubsetOrdering(S)
  <2> HIDE DEF Bad
  <2> QED
    BY <1>2, FS_StrictSubsetOrderingWellFounded, WFMin, Zenon
<1>4. T \subseteq S /\ T # {} /\ IsFiniteSet(T) /\ ~Greatest(T)
  BY <1>3 DEF FiniteSubsetsOf
<1>5. PICK x \in T : TRUE
  BY <1>4
<1>6. x \in Nat
  BY <1>4, <1>5
<1> DEFINE U == T \ {x}
<1>7. U \subseteq S /\ U # T /\ U \subseteq T
  BY <1>4, <1>5
<1>8. IsFiniteSet(U)
  BY <1>4, FS_RemoveElement
<1>9. <<U, T>> \in StrictSubsetOrdering(S)
  BY <1>4, <1>7 DEF StrictSubsetOrdering
<1>10. U \notin Bad
  BY <1>3, <1>9
<1>11. U = {} \/ Greatest(U)
  BY <1>7, <1>8, <1>10 DEF FiniteSubsetsOf
<1>12. CASE U = {}
  <2>1. \A y \in T : y = x
    BY <1>12
  <2> QED
    BY <2>1, <1>4, <1>5, <1>6
<1>13. CASE Greatest(U)
  <2>1. PICK k \in U : \A y \in U : y <= k
    BY <1>13
  <2>2. k \in T /\ k \in Nat
    BY <2>1, <1>4
  <2>3. \A y \in T : y \in Nat /\ (y = x \/ y <= k)
    BY <2>1, <1>4
  <2>4. CASE x <= k
    BY <2>2, <2>3, <2>4, <1>4
  <2>5. CASE ~(x <= k)
    <3>1. \A y \in T : y <= x
      BY <2>2, <2>3, <2>5, <1>6
    <3> QED
      BY <3>1, <1>4, <1>5
  <2> QED
    BY <2>4, <2>5
<1> QED
  BY <1>11, <1>12, <1>13

(* Kept has one file for each index in the directory.                      *)
LEMMA KeptHasOneOfEach ==
  ASSUME SplitsTypeOK, NEW f \in directory
  PROVE  \E k \in Kept : {g \in Kept : IdOf[g] = IdOf[f]} = {k}
<1> DEFINE Same == {g \in directory : IdOf[g] = IdOf[f]}
<1>1. Same \subseteq Nat /\ Same \subseteq Files /\ Same # {}
  BY FilesAssumption DEF SplitsTypeOK
<1>2. IsFiniteSet(Same)
  BY <1>1, FilesAssumption, FS_Subset
<1>3. PICK k \in Same : \A x \in Same : x <= k
  <2> HIDE DEF Same
  <2> QED
    BY <1>1, <1>2, FiniteHasGreatest
<1>4. k \in directory /\ IdOf[k] = IdOf[f] /\ k \in Nat
  BY <1>1, <1>3
<1>5. ASSUME NEW g \in directory, IdOf[g] = IdOf[k] PROVE g \in Nat /\ g <= k
  BY <1>1, <1>3, <1>4, <1>5
<1>6. k \in Kept
  BY <1>4, <1>5 DEF Kept
<1>7. ASSUME NEW g \in Kept, IdOf[g] = IdOf[f] PROVE g = k
  <2>1. g \in directory /\ ~(k > g)
    BY <1>4, <1>7 DEF Kept
  <2>2. g \in Nat /\ g <= k
    BY <2>1, <1>4, <1>5, <1>7
  <2> QED
    BY <2>1, <2>2, <1>4
<1> QED
  BY <1>4, <1>6, <1>7

-----------------------------------------------------------------------------
(* The steps of the tool.                                                  *)

(* There are three splits.                                                 *)
LEMMA SplitsFinite == IsFiniteSet(Splits) /\ IsFiniteSet(Empty)
<1>1. IsFiniteSet({"train"}) /\ IsFiniteSet({"validation"}) /\ IsFiniteSet({"test"})
  BY FS_Singleton
<1>2. IsFiniteSet({"train"} \cup {"validation"})
  BY <1>1, FS_Union
<1>3. IsFiniteSet(({"train"} \cup {"validation"}) \cup {"test"})
  BY <1>1, <1>2, FS_Union
<1>4. Splits = ({"train"} \cup {"validation"}) \cup {"test"}
  BY DEF Splits
<1>5. IsFiniteSet(Splits)
  BY <1>3, <1>4
<1>6. Empty \subseteq Splits
  BY DEF Empty
<1> QED
  BY <1>5, <1>6, FS_Subset

(* Finitely many files have finitely many groups.                          *)
LEMMA GroupsFinite ==
  ASSUME NEW S, S \subseteq Files
  PROVE  IsFiniteSet({groupOf[f] : f \in S})
<1> DEFINE T == {groupOf[f] : f \in S}
           m == [f \in S |-> groupOf[f]]
<1>1. IsFiniteSet(S)
  BY FilesAssumption, FS_Subset
<1>2. m \in [S -> T]
  OBVIOUS
<1>3. \A t \in T : \E s \in S : m[s] = t
  OBVIOUS
<1>4. m \in Surjection(S, T)
  BY <1>2, <1>3 DEF Surjection
<1>5. IsFiniteSet(T)
  <2> HIDE DEF m, T
  <2> QED
    BY <1>1, <1>4, FS_Surjection
<1> QED
  BY <1>5

(* There are finitely many groups left.                                    *)
LEMMA LeftFinite ==
  ASSUME SplitsTypeOK PROVE IsFiniteSet(Left)
<1>1. IsFiniteSet(GroupsListed)
  BY GroupsFinite DEF SplitsTypeOK, GroupsListed
<1>2. Left \subseteq GroupsListed
  BY DEF Left, GroupsListed
<1> QED
  BY <1>1, <1>2, FS_Subset

(* The invariant holds before the tool is first run.                       *)
LEMMA InitSplitsInv == SplitsInit => SplitsInv
<1> SUFFICES ASSUME SplitsInit PROVE SplitsInv
  OBVIOUS
<1>1. SplitsTypeOK
  BY DEF SplitsInit, SplitsTypeOK, Nothing, Unread
<1>2. GivenFollows /\ AssignedFollows
  BY DEF SplitsInit, GivenFollows, AssignedFollows
<1>3. SplitsPartition
  BY DEF SplitsInit, SplitsPartition, Whole, Unread
<1> QED
  BY <1>1, <1>2, <1>3 DEF SplitsInv

(* A step that ends the process and leaves the manifest alone.             *)
LEMMA EndKeepsInv ==
  ASSUME SplitsInv, NEW result \in {"generated", "passed", "error", "killed"},
         End(result), UNCHANGED <<groupOf, directory, manifest>>
  PROVE  SplitsInv'
<1>1. SplitsTypeOK'
  BY DEF SplitsInv, SplitsTypeOK, End, Nothing, Unread
<1>2. GivenFollows' /\ AssignedFollows'
  BY DEF End, GivenFollows, AssignedFollows, Nothing
<1>3. SplitsPartition'
  BY DEF SplitsInv, SplitsPartition, Whole, Unread, Missing, Torn, Unwritten, Nothing
<1> QED
  BY <1>1, <1>2, <1>3 DEF SplitsInv

(* What a step that does not write needs to keep the partition.            *)
LEMMA SameManifest ==
  ASSUME SplitsInv, UNCHANGED <<groupOf, manifest>>
  PROVE  SplitsPartition'
BY DEF SplitsInv, SplitsPartition, Whole, Unread, Missing, Torn, Unwritten, Nothing

(* What --check reads is the manifest, which nobody else replaces.         *)
LEMMA CheckKeepsInv ==
  ASSUME SplitsInv, Check PROVE SplitsInv'
<1>1. CASE manifest \in Unread
  <2>1. End("error") /\ UNCHANGED <<groupOf, directory, manifest>>
    BY <1>1 DEF Check
  <2> QED
    BY <2>1, EndKeepsInv
<1>2. CASE manifest \notin Unread
  <2>1. /\ progress = "idle" /\ progress' = "validate"
        /\ check' = TRUE /\ given' = manifest
        /\ UNCHANGED <<groupOf, directory, manifest>>
        /\ UNCHANGED <<paths, episodes, assigned, outcome>>
    BY <1>2 DEF Check, To
  <2>2. SplitsTypeOK'
    BY <2>1 DEF SplitsInv, SplitsTypeOK
  <2>3. GivenFollows'
    BY <1>2, <2>1 DEF GivenFollows, Unread, Missing, Torn, Unwritten, Nothing
  <2>4. AssignedFollows'
    BY <2>1 DEF SplitsInv, AssignedFollows, Nothing
  <2> QED
    BY <2>1, <2>2, <2>3, <2>4, SameManifest DEF SplitsInv
<1> QED
  BY <1>1, <1>2

(* At the start of the assignment all the splits are empty, and there are  *)
(* as many groups left as splits, or more.                                 *)
LEMMA ListKeepsInv ==
  ASSUME SplitsInv, List PROVE SplitsInv'
<1> DEFINE Listed == {groupOf[f] : f \in Kept}
<1>1. CASE ~(directory \subseteq Readable) \/ Cardinality(Listed) < Cardinality(Splits)
  <2>1. End("error") /\ UNCHANGED <<groupOf, directory, manifest>>
    BY <1>1 DEF List
  <2> QED
    BY <2>1, EndKeepsInv
<1>2. CASE directory \subseteq Readable /\ ~(Cardinality(Listed) < Cardinality(Splits))
  <2>1. /\ progress = "list" /\ progress' = "assign"
        /\ paths' = directory /\ episodes' = Kept
        /\ UNCHANGED <<groupOf, directory, manifest, check, given, assigned, outcome>>
    BY <1>2 DEF List, To
  <2>2. assigned = Nothing
    BY <2>1 DEF SplitsInv, AssignedFollows
  <2>3. Kept \subseteq directory
    BY DEF Kept
  <2>4. SplitsTypeOK'
    BY <2>1, <2>3 DEF SplitsInv, SplitsTypeOK
  <2>5. GivenFollows'
    BY <2>1 DEF SplitsInv, GivenFollows, Unread, Missing, Torn, Unwritten, Nothing
  <2>6. \A f \in directory : \E k \in Kept : {g \in Kept : IdOf[g] = IdOf[f]} = {k}
    BY KeptHasOneOfEach DEF SplitsInv
  <2>7. \A n \in Splits : assigned'[n] = {}
    BY <2>1, <2>2 DEF Nothing
  <2>8. Empty' = Splits
    BY <2>7 DEF Empty
  <2>9. AssignedGroups' = {}
    BY <2>7 DEF AssignedGroups
  <2>10. GroupsListed' = Listed /\ Left' = Listed
    BY <2>1, <2>9 DEF GroupsListed, Left, AssignedGroups
  <2>11. Cardinality(Empty') <= Cardinality(Left')
    <3>1. Cardinality(Splits) \in Nat
      BY SplitsFinite, FS_CardinalityType
    <3>2. IsFiniteSet(Listed)
      BY <2>3, GroupsFinite DEF SplitsInv, SplitsTypeOK
    <3>3. Cardinality(Listed) \in Nat
      BY <3>2, FS_CardinalityType
    <3> QED
      BY <1>2, <2>8, <2>10, <3>1, <3>3
  <2>12. AssignedFollows'
    <3>1. \A f \in paths' : \E k \in episodes' :
            {g \in episodes' : IdOf[g] = IdOf[f]} = {k}
      BY <2>1, <2>6
    <3>2. paths' \subseteq Readable
      BY <1>2, <2>1
    <3>3. \A n, m \in Splits : assigned'[n] \cap assigned'[m] # {} => n = m
      BY <2>7
    <3> QED
      BY <2>1, <2>9, <2>11, <3>1, <3>2, <3>3 DEF AssignedFollows, Readable
  <2> QED
    BY <2>1, <2>4, <2>5, <2>12, SameManifest DEF SplitsInv
<1> QED
  BY <1>1, <1>2

(* A group is taken from those left. If there are only as many of those    *)
(* as there are empty splits, it goes to one of these.                     *)
LEMMA AssignKeepsInv ==
  ASSUME SplitsInv, NEW g \in Groups, NEW n \in Splits, Assign(g, n)
  PROVE  SplitsInv'
<1>1. /\ progress = "assign" /\ g \in Left /\ n \in Candidates
      /\ assigned' = [assigned EXCEPT ![n] = @ \cup {g}]
      /\ UNCHANGED <<groupOf, directory, manifest, check, given, paths, episodes>>
      /\ UNCHANGED <<progress, outcome>>
  BY DEF Assign, Largest
<1>2. SplitsTypeOK
  BY DEF SplitsInv
<1>3. /\ paths \subseteq Readable
      /\ \A f \in paths : \E k \in episodes :
            {h \in episodes : IdOf[h] = IdOf[f]} = {k}
      /\ \A i, j \in Splits : assigned[i] \cap assigned[j] # {} => i = j
      /\ AssignedGroups \subseteq GroupsListed
      /\ Cardinality(Empty) <= Cardinality(Left)
  BY <1>1 DEF SplitsInv, AssignedFollows
<1>4. SplitsTypeOK'
  BY <1>1, <1>2 DEF SplitsTypeOK
<1>5. GivenFollows'
  BY <1>1 DEF SplitsInv, GivenFollows, Unread, Missing, Torn, Unwritten, Nothing
<1>6. g \in GroupsListed /\ g \notin AssignedGroups
  BY <1>1 DEF Left, GroupsListed, AssignedGroups
<1>7. /\ assigned'[n] = assigned[n] \cup {g}
      /\ \A m \in Splits : m # n => assigned'[m] = assigned[m]
  BY <1>1, <1>2 DEF SplitsTypeOK
<1>8. AssignedGroups' = AssignedGroups \cup {g}
  BY <1>7 DEF AssignedGroups
<1>9. GroupsListed' = GroupsListed
  BY <1>1 DEF GroupsListed
<1>10. Left' = Left \ {g}
  BY <1>8, <1>9 DEF Left, GroupsListed, AssignedGroups
<1>11. Empty' = Empty \ {n}
  BY <1>7 DEF Empty
<1>12. IsFiniteSet(Left) /\ IsFiniteSet(Empty)
  BY <1>2, LeftFinite, SplitsFinite
<1>13. /\ Cardinality(Left') = Cardinality(Left) - 1
       /\ Cardinality(Empty') = IF n \in Empty THEN Cardinality(Empty) - 1
                                               ELSE Cardinality(Empty)
       /\ Cardinality(Left) \in Nat /\ Cardinality(Empty) \in Nat
  BY <1>1, <1>10, <1>11, <1>12, FS_RemoveElement, FS_CardinalityType
<1>14. Cardinality(Empty') <= Cardinality(Left')
  <2>1. CASE Cardinality(Empty) = Cardinality(Left)
    <3>1. n \in Empty
      BY <1>1, <2>1 DEF Candidates
    <3> QED
      BY <1>13, <2>1, <3>1
  <2>2. CASE Cardinality(Empty) # Cardinality(Left)
    BY <1>3, <1>13, <2>2
  <2> QED
    BY <2>1, <2>2
<1>15. \A i, j \in Splits : assigned'[i] \cap assigned'[j] # {} => i = j
  <2>1. \A m \in Splits : g \notin assigned[m]
    BY <1>6 DEF AssignedGroups
  <2> QED
    BY <1>3, <1>7, <2>1
<1>16. AssignedFollows'
  <2>1. AssignedGroups' \subseteq GroupsListed'
    BY <1>3, <1>6, <1>8, <1>9
  <2>2. progress' = "assign" /\ paths' = paths /\ episodes' = episodes
    BY <1>1
  <2>3. \A f \in paths' : \E k \in episodes' :
          {h \in episodes' : IdOf[h] = IdOf[f]} = {k}
    BY <1>3, <2>2
  <2> QED
    BY <1>3, <1>14, <1>15, <2>1, <2>2, <2>3 DEF AssignedFollows, Readable
<1> QED
  BY <1>1, <1>4, <1>5, <1>16, SameManifest DEF SplitsInv

(* The new file is torn.                                                   *)
LEMMA CreateKeepsInv ==
  ASSUME SplitsInv, Create PROVE SplitsInv'
<1>1. /\ progress = "assign" /\ progress' = "write" /\ Left = {} /\ Complete
      /\ ~check /\ manifest' = Torn
      /\ UNCHANGED <<groupOf, directory, toolVars, outcome>>
  BY DEF Create, To
<1>2. SplitsTypeOK'
  BY <1>1 DEF SplitsInv, SplitsTypeOK, Unread, toolVars
<1>3. GivenFollows'
  BY <1>1 DEF GivenFollows, toolVars
<1>4. SplitsPartition'
  BY <1>1 DEF SplitsPartition, Whole, Unread
<1>5. Left' = Left /\ Empty' = Empty /\ Complete' /\ GroupsListed' = GroupsListed
      /\ AssignedGroups' = AssignedGroups
  BY <1>1 DEF Left, Empty, Complete, EpisodesIn, GroupsListed, AssignedGroups, toolVars
<1>6. AssignedFollows'
  BY <1>1, <1>5 DEF SplitsInv, AssignedFollows, toolVars, Readable
<1> QED
  BY <1>2, <1>3, <1>4, <1>6 DEF SplitsInv

(* What is written is a partition, by what was built up.                   *)
LEMMA WriteKeepsInv ==
  ASSUME SplitsInv, Write PROVE SplitsInv'
<1>1. /\ progress = "write" /\ manifest' = Built /\ End("generated")
      /\ UNCHANGED <<groupOf, directory>>
  BY DEF Write
<1>2. SplitsTypeOK
  BY DEF SplitsInv
<1>3. /\ \A f \in paths : \E k \in episodes :
            {h \in episodes : IdOf[h] = IdOf[f]} = {k}
      /\ \A i, j \in Splits : assigned[i] \cap assigned[j] # {} => i = j
      /\ AssignedGroups \subseteq GroupsListed
      /\ Cardinality(Empty) <= Cardinality(Left)
      /\ Left = {} /\ Complete
  BY <1>1 DEF SplitsInv, AssignedFollows
<1>4. Built \in Manifests
  BY <1>2 DEF Built, Manifests, EpisodesIn, SplitsTypeOK
<1>5. SplitsTypeOK'
  BY <1>1, <1>2, <1>4 DEF SplitsTypeOK, End, Nothing, Unread
<1>6. GivenFollows' /\ AssignedFollows'
  BY <1>1 DEF End, GivenFollows, AssignedFollows, Nothing
<1>7. /\ manifest'.files = paths
      /\ \A n \in Splits : manifest'.splits[n] = EpisodesIn(n)
  BY <1>1 DEF Built
<1>8. \A n \in Splits : assigned[n] # {}
  <2>1. Cardinality(Left) = 0 /\ Cardinality(Empty) \in Nat
    BY <1>3, SplitsFinite, FS_EmptySet, FS_CardinalityType
  <2>2. Cardinality(Empty) = 0
    BY <1>3, <2>1
  <2>3. Empty = {}
    BY <2>2, SplitsFinite, FS_EmptySet
  <2> QED
    BY <2>3 DEF Empty
<1>9. \A n \in Splits : EpisodesIn(n) # {}
  <2> SUFFICES ASSUME NEW n \in Splits PROVE EpisodesIn(n) # {}
    OBVIOUS
  <2>1. PICK g \in assigned[n] : TRUE
    BY <1>8
  <2>2. g \in GroupsListed
    BY <1>3, <2>1 DEF AssignedGroups
  <2> QED
    BY <2>1, <2>2 DEF GroupsListed, EpisodesIn
<1>10. \A n, m \in Splits : \A f \in EpisodesIn(n), g \in EpisodesIn(m) :
         groupOf[f] = groupOf[g] => n = m
  BY <1>3 DEF EpisodesIn
<1>11. UNION {EpisodesIn(n) : n \in Splits} = episodes
  BY <1>3 DEF Complete
<1>12. \A f \in paths :
         Cardinality({g \in episodes : IdOf[g] = IdOf[f]}) = 1
  BY <1>3, FS_Singleton
<1>13. UNION {manifest'.splits[n] : n \in Splits} = episodes
  BY <1>7, <1>11
<1>14. SplitsPartition'
  <2>1. \A n \in Splits : manifest'.splits[n] # {}
    BY <1>7, <1>9
  <2>2. \A n, m \in Splits : \A f \in manifest'.splits[n], g \in manifest'.splits[m] :
          groupOf'[f] = groupOf'[g] => n = m
    BY <1>1, <1>7, <1>10
  <2>3. episodes \subseteq manifest'.files
    BY <1>2, <1>7 DEF SplitsTypeOK
  <2>4. \A f \in manifest'.files :
          Cardinality({g \in episodes : IdOf[g] = IdOf[f]}) = 1
    BY <1>7, <1>12
  <2> QED
    BY <1>13, <2>1, <2>2, <2>3, <2>4 DEF SplitsPartition
<1> QED
  BY <1>5, <1>6, <1>14 DEF SplitsInv

(* The validation changes nothing but the progress.                        *)
LEMMA ValidateKeepsInv ==
  ASSUME SplitsInv, Validate PROVE SplitsInv'
<1>1. CASE ~ValidDataset
  <2>1. End("error") /\ UNCHANGED <<groupOf, directory, manifest>>
    BY <1>1 DEF Validate
  <2> QED
    BY <2>1, EndKeepsInv
<1>2. CASE ValidDataset
  <2>1. /\ progress = "validate" /\ progress' = "list"
        /\ UNCHANGED <<groupOf, directory, manifest, toolVars, outcome>>
    BY <1>2 DEF Validate, To
  <2>2. SplitsTypeOK'
    BY <2>1 DEF SplitsInv, SplitsTypeOK, toolVars
  <2>3. GivenFollows'
    BY <2>1 DEF SplitsInv, GivenFollows, toolVars, Unread, Missing, Torn, Unwritten,
                Nothing
  <2>4. AssignedFollows'
    BY <2>1 DEF SplitsInv, AssignedFollows, toolVars, Nothing
  <2> QED
    BY <2>1, <2>2, <2>3, <2>4, SameManifest DEF SplitsInv
<1> QED
  BY <1>1, <1>2

(* A step of the others, or none.                                          *)
LEMMA CollectedKeepsInv ==
  ASSUME SplitsInv, directory' \subseteq Files,
         UNCHANGED <<groupOf, manifest, toolVars, progress, outcome>>
  PROVE  SplitsInv'
<1>1. SplitsTypeOK'
  BY DEF SplitsInv, SplitsTypeOK, toolVars
<1>2. GivenFollows'
  BY DEF SplitsInv, GivenFollows, toolVars, Unread, Missing, Torn, Unwritten, Nothing
<1>3. Left' = Left /\ Empty' = Empty /\ (Complete' <=> Complete)
      /\ GroupsListed' = GroupsListed /\ AssignedGroups' = AssignedGroups
  BY DEF Left, Empty, Complete, EpisodesIn, GroupsListed, AssignedGroups, toolVars
<1>4. AssignedFollows'
  BY <1>3 DEF SplitsInv, AssignedFollows, toolVars, Readable, Nothing
<1> QED
  BY <1>1, <1>2, <1>4, SameManifest DEF SplitsInv

(* Every step keeps the invariant.                                         *)
LEMMA NextSplitsInv == SplitsInv /\ [SplitsNext]_splitsVars => SplitsInv'
<1> SUFFICES ASSUME SplitsInv, [SplitsNext]_splitsVars PROVE SplitsInv'
  OBVIOUS
<1>1. CASE Generate
  <2>1. /\ progress = "idle" /\ progress' = "validate"
        /\ UNCHANGED <<groupOf, directory, manifest, toolVars, outcome>>
    BY <1>1 DEF Generate, To
  <2>2. SplitsTypeOK'
    BY <2>1 DEF SplitsInv, SplitsTypeOK, toolVars
  <2>3. GivenFollows'
    BY <2>1 DEF SplitsInv, GivenFollows, toolVars, Unread, Missing, Torn, Unwritten,
                Nothing
  <2>4. AssignedFollows'
    BY <2>1 DEF SplitsInv, AssignedFollows, toolVars, Nothing
  <2> QED
    BY <2>1, <2>2, <2>3, <2>4, SameManifest DEF SplitsInv
<1>2. CASE Check
  BY <1>2, CheckKeepsInv
<1>3. CASE Validate
  BY <1>3, ValidateKeepsInv
<1>4. CASE List
  BY <1>4, ListKeepsInv
<1>5. CASE Compare
  <2>1. PICK result \in {"generated", "passed", "error", "killed"} : End(result)
    BY <1>5 DEF Compare
  <2> QED
    BY <1>5, <2>1, EndKeepsInv DEF Compare
<1>6. CASE Create
  BY <1>6, CreateKeepsInv
<1>7. CASE Write
  BY <1>7, WriteKeepsInv
<1>8. CASE Killed
  BY <1>8, EndKeepsInv DEF Killed
<1>9. CASE \E g \in Groups, n \in Splits : Assign(g, n)
  BY <1>9, AssignKeepsInv
<1>10. CASE \E f \in Files : Collected(f)
  BY <1>10, CollectedKeepsInv DEF Collected, SplitsInv, SplitsTypeOK
<1>11. CASE UNCHANGED splitsVars
  BY <1>11, CollectedKeepsInv DEF splitsVars, SplitsInv, SplitsTypeOK
<1> QED
  BY <1>1, <1>2, <1>3, <1>4, <1>5, <1>6, <1>7, <1>8, <1>9, <1>10, <1>11 DEF SplitsNext

(* SplitsInv is an invariant of the tool.                                  *)
LEMMA AlwaysSplitsInv == SplitsSpec => []SplitsInv
BY InitSplitsInv, NextSplitsInv, PTL DEF SplitsSpec

(* A manifest has three nonempty splits, no group in two of them, and      *)
(* between them one file of each index that was listed, whatever groups    *)
(* the episodes have and whatever is added to the dataset meanwhile.       *)
THEOREM SplitsPartitionHolds == SplitsSpec => []SplitsPartition
<1>1. SplitsInv => SplitsPartition
  BY DEF SplitsInv
<1> QED BY AlwaysSplitsInv, <1>1, PTL

(* The variables keep their types.                                         *)
THEOREM SplitsTypeCorrect == SplitsSpec => []SplitsTypeOK
<1>1. SplitsInv => SplitsTypeOK
  BY DEF SplitsInv
<1> QED BY AlwaysSplitsInv, <1>1, PTL

(* When the tool reports success, in either mode, the manifest on disk is  *)
(* whole and is of the files it listed.                                    *)
THEOREM SuccessMeansCurrentHolds == SplitsSpec => SuccessMeansCurrent
<1> DEFINE
  Ends ==
    progress # "idle" /\ progress' = "idle" /\ outcome' \in {"generated", "passed"}
<1>1. SplitsInv /\ [SplitsNext]_splitsVars => (Ends => Whole' /\ manifest' = Built)
  <2> SUFFICES ASSUME SplitsInv, [SplitsNext]_splitsVars, Ends
               PROVE  Whole' /\ manifest' = Built
    OBVIOUS
  <2>1. Built \notin Unread
    BY DEF Built, Unread, Missing, Torn, Unwritten
  <2>2. manifest' = Built => Whole'
    <3>1. Unread' = Unread
      BY DEF Unread, Missing, Torn, Unwritten, Nothing
    <3> QED
      BY <2>1, <3>1 DEF Whole
  <2>3. CASE Compare
    BY <2>2, <2>3 DEF Compare, End, SplitsInv, GivenFollows
  <2>4. CASE Write
    BY <2>2, <2>4 DEF Write
  <2>5. CASE Generate \/ Check \/ Create \/ Killed
    BY <2>5 DEF Generate, Check, Create, Killed, To, End
  <2>6. CASE Validate
    BY <2>6 DEF Validate, To, End
  <2>7. CASE List
    BY <2>7 DEF List, To, End
  <2>8. CASE \/ \E g \in Groups, n \in Splits : Assign(g, n)
             \/ \E f \in Files : Collected(f)
             \/ UNCHANGED splitsVars
    BY <2>8 DEF Assign, Collected, splitsVars
  <2> QED
    BY <2>3, <2>4, <2>5, <2>6, <2>7, <2>8 DEF SplitsNext
<1>2. SplitsSpec => [][SplitsNext]_splitsVars
  BY DEF SplitsSpec
<1> QED
  BY AlwaysSplitsInv, <1>1, <1>2, PTL DEF SuccessMeansCurrent

-----------------------------------------------------------------------------
(* The groups.                                                             *)

(* A union of trees of the forest; and two episodes of one tree: those     *)
(* that no such union separates.  It takes no recursion, and a find, which *)
(* halves paths, changes neither.                                          *)
Bunch(S) == \A e \in Indices : e \in S <=> parent[e] \in S
Linked(e, f) == \A S \in SUBSET Indices : Bunch(S) => (e \in S <=> f \in S)

ScenarioOwnerOf(e) == scenarioOwner[scenarioOf[e]]
InitialOwnerOf(e) == initialOwner[startOf[e]]

(* No tree has episodes that are not connected.                            *)
TreesAreConnected == \A S \in SUBSET Indices : Closed(S) => Bunch(S)

OwnersFollow ==
  /\ \A s \in Scenarios : scenarioOwner[s] # None => scenarioOf[scenarioOwner[s]] = s
  /\ \A p \in Starts : initialOwner[p] # None => startOf[initialOwner[p]] = p

(* An episode the first loop is done with is in the tree of the owner of   *)
(* its scenario and in that of the owner of its start.                     *)
LinksFollow ==
  mode = "scenario_initial" => \A e \in Indices \ todo :
    /\ ScenarioOwnerOf(e) # None
    /\ (e # at \/ stage # "scenario") => Linked(e, ScenarioOwnerOf(e))
    /\ Recorded(e) /\ (e # at \/ stage \notin {"scenario", "linked", "initial"}) =>
         InitialOwnerOf(e) # None /\ Linked(e, InitialOwnerOf(e))

(* Where the cursors are.                                                  *)
CursorsFollow ==
  /\ stage \in {"scenario", "linked", "initial"} => at \notin todo
  /\ stage = "scenario" => Linked(first, at) /\ Linked(second, ScenarioOwnerOf(at))
  /\ stage \in {"linked", "initial"} => Recorded(at)
  /\ stage = "initial" =>
       /\ InitialOwnerOf(at) # None
       /\ Linked(first, at) /\ Linked(second, InitialOwnerOf(at))
  /\ stage = "key" => Linked(first, at) /\ todo = {}

KeysFollow ==
  /\ mode # "scenario_initial" =>
       /\ stage = "loop"
       /\ \/ \A e \in Indices : keyOf[e] = NoKey
          \/ keyOf = [e \in Indices |-> GroupKey(e)]
  /\ mode = "scenario_initial" =>
       \A e \in Indices : keyOf[e] # NoKey =>
         /\ todo = {} /\ stage \in {"loop", "key"}
         /\ \E r \in Indices :
              keyOf[e] = <<"scenario_initial", r>> /\ IsRoot(r) /\ Linked(e, r)

GroupsInv ==
  /\ GroupsTypeOK
  /\ TreesAreConnected
  /\ OwnersFollow
  /\ LinksFollow
  /\ CursorsFollow
  /\ KeysFollow

(* There is an episode.                                                    *)
LEMMA AnyoneIsOne == Anyone \in Indices
BY IndicesAssumption DEF Anyone

(* The invariant holds before the loops.                                   *)
LEMMA InitGroupsInv == GroupsInit => GroupsInv
<1> SUFFICES ASSUME GroupsInit PROVE GroupsInv
  OBVIOUS
<1>1. GroupsTypeOK
  BY AnyoneIsOne DEF GroupsInit, GroupsTypeOK, Keys
<1>2. TreesAreConnected
  BY DEF GroupsInit, TreesAreConnected, Bunch
<1>3. OwnersFollow /\ LinksFollow /\ CursorsFollow
  BY DEF GroupsInit, OwnersFollow, LinksFollow, CursorsFollow
<1>4. KeysFollow
  BY DEF GroupsInit, KeysFollow
<1> QED
  BY <1>1, <1>2, <1>3, <1>4 DEF GroupsInv

(* Closed sets depend on the episodes only.                                *)
LEMMA SameCorrelation ==
  ASSUME UNCHANGED dataVars
  PROVE  \A S : Closed(S)' <=> Closed(S)
BY DEF dataVars, Closed, Correlated, Recorded

(* A turn of find keeps the trees: as sets, not as trees.                  *)
LEMMA HalvingKeepsBunches ==
  ASSUME GroupsTypeOK, NEW x \in Indices, ~IsRoot(x),
         parent' = [parent EXCEPT ![x] = parent[parent[x]]]
  PROVE  \A S : Bunch(S)' <=> Bunch(S)
<1> SUFFICES ASSUME NEW S PROVE Bunch(S)' <=> Bunch(S)
  OBVIOUS
<1>1. /\ parent[x] \in Indices /\ parent[x] # x
      /\ parent'[x] = parent[parent[x]]
      /\ \A e \in Indices : e # x => parent'[e] = parent[e]
  BY DEF GroupsTypeOK, IsRoot
<1>2. ASSUME Bunch(S) PROVE Bunch(S)'
  <2>1. x \in S <=> parent[parent[x]] \in S
    BY <1>1, <1>2 DEF Bunch
  <2> QED
    BY <1>1, <1>2, <2>1 DEF Bunch
<1>3. ASSUME Bunch(S)' PROVE Bunch(S)
  <2>1. parent[x] \in S <=> parent[parent[x]] \in S
    BY <1>1, <1>3 DEF Bunch
  <2>2. x \in S <=> parent[parent[x]] \in S
    BY <1>1, <1>3 DEF Bunch
  <2> QED
    BY <1>1, <1>3, <2>1, <2>2 DEF Bunch
<1> QED
  BY <1>2, <1>3

(* A turn of find keeps the invariant, of whichever argument it is.        *)
LEMMA HalveKeepsInv ==
  ASSUME GroupsInv, Finding, NEW x \in Indices, ~IsRoot(x),
         parent' = [parent EXCEPT ![x] = parent[parent[x]]],
         first' = first \/ (x = first /\ first' = parent'[x]),
         second' = second \/ (x = second /\ second' = parent'[x]),
         UNCHANGED <<dataVars, todo, stage, at, ownerVars, keyOf>>
  PROVE  GroupsInv'
<1> USE DEF dataVars, ownerVars
<1>1. GroupsTypeOK
  BY DEF GroupsInv
<1>2. parent'[x] = parent[parent[x]] /\ parent[parent[x]] \in Indices
  BY <1>1 DEF GroupsTypeOK
<1>3. GroupsTypeOK'
  <2>1. parent' \in [Indices -> Indices]
    BY <1>1, <1>2 DEF GroupsTypeOK
  <2> QED
    BY <1>1, <1>2, <2>1 DEF GroupsTypeOK
<1>4. \A S : Bunch(S)' <=> Bunch(S)
  BY <1>1, HalvingKeepsBunches
<1>5. \A S : Bunch(S) => (x \in S <=> parent'[x] \in S)
  BY <1>1, <1>2 DEF Bunch, GroupsTypeOK
<1>6. TreesAreConnected'
  BY <1>4, SameCorrelation DEF GroupsInv, TreesAreConnected
<1>7. OwnersFollow'
  BY DEF GroupsInv, OwnersFollow
<1>8. LinksFollow'
  BY <1>4 DEF GroupsInv, LinksFollow, ScenarioOwnerOf, InitialOwnerOf, Recorded, Linked
<1>9. \A S : Bunch(S) =>
        (first \in S <=> first' \in S) /\ (second \in S <=> second' \in S)
  BY <1>5
<1>10. CursorsFollow'
  BY <1>4, <1>9
     DEF GroupsInv, CursorsFollow, ScenarioOwnerOf, InitialOwnerOf, Recorded, Linked
<1>11. \A r \in Indices : IsRoot(r) => IsRoot(r)'
  BY <1>1 DEF IsRoot, GroupsTypeOK
<1>12. \A e, r \in Indices : Linked(e, r)' <=> Linked(e, r)
  BY <1>4 DEF Linked
<1>13. KeysFollow'
  BY <1>11, <1>12 DEF GroupsInv, KeysFollow, Finding
<1> QED
  BY <1>3, <1>6, <1>7, <1>8, <1>10, <1>13 DEF GroupsInv

(* The end of union joins two trees and leaves the others as they are.     *)
LEMMA LinkingJoinsBunches ==
  ASSUME GroupsTypeOK, IsRoot(first), IsRoot(second),
         parent' = [parent EXCEPT ![Greater(first, second)] = Lesser(first, second)]
  PROVE  \A S : Bunch(S)' <=> Bunch(S) /\ (first \in S <=> second \in S)
<1> SUFFICES ASSUME NEW S
             PROVE  Bunch(S)' <=> Bunch(S) /\ (first \in S <=> second \in S)
  OBVIOUS
<1>1. /\ first \in Indices /\ second \in Indices
      /\ parent[first] = first /\ parent[second] = second
  BY DEF GroupsTypeOK, IsRoot
<1>2. PICK a \in Indices, b \in Indices :
        /\ {a, b} = {first, second}
        /\ parent' = [parent EXCEPT ![a] = b]
  BY <1>1 DEF Greater, Lesser
<1>3. /\ parent'[a] = b
      /\ \A e \in Indices : e # a => parent'[e] = parent[e]
  BY <1>2 DEF GroupsTypeOK
<1>4. (a = first /\ b = second) \/ (a = second /\ b = first)
  BY <1>2
<1>5. Bunch(S)' => (a \in S <=> b \in S)
  BY <1>3 DEF Bunch
<1>6. Bunch(S)' => Bunch(S)
  BY <1>1, <1>3, <1>4 DEF Bunch
<1>7. Bunch(S) /\ (a \in S <=> b \in S) => Bunch(S)'
  BY <1>3 DEF Bunch
<1> QED
  BY <1>4, <1>5, <1>6, <1>7

(* What union joins has a scenario or a start in common.                   *)
LEMMA ArgumentsAreConnected ==
  ASSUME GroupsInv, stage \in {"scenario", "initial"},
         NEW S \in SUBSET Indices, Closed(S)
  PROVE  first \in S <=> second \in S
<1>1. Bunch(S)
  BY DEF GroupsInv, TreesAreConnected
<1>2. mode = "scenario_initial" /\ at \notin todo /\ at \in Indices
  BY DEF GroupsInv, GroupsTypeOK, KeysFollow, CursorsFollow
<1>3. first \in S <=> at \in S
  BY <1>1 DEF GroupsInv, CursorsFollow, Linked
<1>4. CASE stage = "scenario"
  <2> DEFINE o == ScenarioOwnerOf(at)
  <2>1. o # None
    BY <1>2 DEF GroupsInv, LinksFollow
  <2>2. o \in Indices /\ scenarioOf[o] = scenarioOf[at]
    BY <1>2, <2>1 DEF GroupsInv, GroupsTypeOK, OwnersFollow, ScenarioOwnerOf
  <2>3. Correlated(o, at) /\ Correlated(at, o)
    BY <1>2, <2>2 DEF Correlated
  <2>4. o \in S <=> at \in S
    BY <1>2, <2>2, <2>3 DEF Closed
  <2>5. second \in S <=> o \in S
    BY <1>1, <1>4 DEF GroupsInv, CursorsFollow, Linked
  <2> QED
    BY <1>3, <2>4, <2>5
<1>5. CASE stage = "initial"
  <2> DEFINE o == InitialOwnerOf(at)
  <2>1. o # None /\ Recorded(at)
    BY <1>5 DEF GroupsInv, CursorsFollow
  <2>2. startOf[at] \in Starts
    BY <1>2, <2>1 DEF GroupsInv, GroupsTypeOK, Recorded
  <2>3. o \in Indices /\ startOf[o] = startOf[at]
    BY <2>1, <2>2 DEF GroupsInv, GroupsTypeOK, OwnersFollow, InitialOwnerOf
  <2>4. Correlated(o, at) /\ Correlated(at, o)
    BY <1>2, <2>1, <2>3 DEF Correlated, Recorded
  <2>5. o \in S <=> at \in S
    BY <1>2, <2>3, <2>4 DEF Closed
  <2>6. second \in S <=> o \in S
    BY <1>1, <1>5 DEF GroupsInv, CursorsFollow, Linked
  <2> QED
    BY <1>3, <2>5, <2>6
<1> QED
  BY <1>4, <1>5

(* What union was called for holds when it ends: the episode at hand is    *)
(* in the tree of the owner.                                               *)
LEMMA LinkKeepsInv ==
  ASSUME GroupsInv, Link PROVE GroupsInv'
<1> USE DEF dataVars, ownerVars
<1>1. /\ stage \in {"scenario", "initial"} /\ IsRoot(first) /\ IsRoot(second)
      /\ parent' = [parent EXCEPT ![Greater(first, second)] = Lesser(first, second)]
      /\ stage' = IF stage = "scenario" /\ Recorded(at) THEN "linked" ELSE "loop"
      /\ first' = Anyone /\ second' = Anyone
      /\ UNCHANGED <<dataVars, todo, at, ownerVars, keyOf>>
  BY DEF Link, Unite
<1>2. GroupsTypeOK
  BY DEF GroupsInv
<1>3. GroupsTypeOK'
  <2>1. Lesser(first, second) \in Indices
    BY <1>2 DEF Lesser, GroupsTypeOK
  <2>2. parent' \in [Indices -> Indices]
    BY <1>1, <1>2, <2>1 DEF GroupsTypeOK
  <2> QED
    BY <1>1, <1>2, <2>2, AnyoneIsOne DEF GroupsTypeOK
<1>4. \A S : Bunch(S)' <=> Bunch(S) /\ (first \in S <=> second \in S)
  BY <1>1, <1>2, LinkingJoinsBunches
<1>5. TreesAreConnected'
  <2> SUFFICES ASSUME NEW S \in SUBSET Indices, Closed(S)' PROVE Bunch(S)'
    BY DEF TreesAreConnected
  <2>1. Closed(S)
    BY <1>1, SameCorrelation
  <2>2. Bunch(S)
    BY <2>1 DEF GroupsInv, TreesAreConnected
  <2>3. first \in S <=> second \in S
    BY <1>1, <2>1, ArgumentsAreConnected
  <2> QED
    BY <1>4, <2>2, <2>3
<1>6. OwnersFollow'
  BY <1>1 DEF GroupsInv, OwnersFollow
<1>7. mode = "scenario_initial" /\ at \in Indices \ todo
  BY <1>1, <1>2 DEF GroupsInv, GroupsTypeOK, KeysFollow, CursorsFollow
<1>8. \A S \in SUBSET Indices : Bunch(S)' =>
        /\ stage = "scenario" => (at \in S <=> ScenarioOwnerOf(at) \in S)
        /\ stage = "initial" => (at \in S <=> InitialOwnerOf(at) \in S)
  BY <1>4 DEF GroupsInv, CursorsFollow, Linked
<1>9. \A e, f : Linked(e, f) =>
        \A S \in SUBSET Indices : Bunch(S)' => (e \in S <=> f \in S)
  BY <1>4 DEF Linked
<1>10. LinksFollow'
  <2> SUFFICES ASSUME NEW e \in Indices \ todo
               PROVE
        /\ ScenarioOwnerOf(e) # None
        /\ \A S \in SUBSET Indices : Bunch(S)' => (e \in S <=> ScenarioOwnerOf(e) \in S)
        /\ Recorded(e) /\ (e # at \/ stage' # "linked") =>
             /\ InitialOwnerOf(e) # None
             /\ \A S \in SUBSET Indices :
                  Bunch(S)' => (e \in S <=> InitialOwnerOf(e) \in S)
    BY <1>1 DEF LinksFollow, ScenarioOwnerOf, InitialOwnerOf, Recorded, Linked
  <2>1. ScenarioOwnerOf(e) # None
    BY <1>7 DEF GroupsInv, LinksFollow
  <2>2. \A S \in SUBSET Indices : Bunch(S)' => (e \in S <=> ScenarioOwnerOf(e) \in S)
    <3>1. CASE e = at /\ stage = "scenario"
      BY <1>8, <3>1
    <3>2. CASE ~(e = at /\ stage = "scenario")
      <4>1. Linked(e, ScenarioOwnerOf(e))
        BY <1>7, <3>2 DEF GroupsInv, LinksFollow
      <4> QED
        BY <1>9, <4>1
    <3> QED
      BY <3>1, <3>2
  <2>3. ASSUME Recorded(e), e # at \/ stage' # "linked"
        PROVE  /\ InitialOwnerOf(e) # None
               /\ \A S \in SUBSET Indices :
                    Bunch(S)' => (e \in S <=> InitialOwnerOf(e) \in S)
    <3>1. CASE e = at
      <4>1. stage = "initial"
        BY <1>1, <2>3, <3>1
      <4>2. InitialOwnerOf(at) # None
        BY <4>1 DEF GroupsInv, CursorsFollow
      <4> QED
        BY <1>8, <3>1, <4>1, <4>2
    <3>2. CASE e # at
      <4>1. InitialOwnerOf(e) # None /\ Linked(e, InitialOwnerOf(e))
        BY <1>7, <2>3, <3>2 DEF GroupsInv, LinksFollow
      <4> QED
        BY <1>9, <4>1
    <3> QED
      BY <3>1, <3>2
  <2> QED
    BY <2>1, <2>2, <2>3
<1>11. CursorsFollow'
  BY <1>1, <1>7 DEF CursorsFollow, Recorded
<1>12. KeysFollow'
  BY <1>1, <1>7 DEF GroupsInv, KeysFollow
<1> QED
  BY <1>3, <1>5, <1>6, <1>10, <1>11, <1>12 DEF GroupsInv

(* While episodes are left to the first loop no key has been given.        *)
LEMMA NoKeysYet ==
  ASSUME GroupsInv, mode = "scenario_initial",
         todo # {} \/ stage \notin {"loop", "key"}
  PROVE  \A e \in Indices : keyOf[e] = NoKey
BY DEF GroupsInv, KeysFollow

(* Nothing but the parents makes the trees.                                *)
LEMMA SameTrees ==
  ASSUME UNCHANGED <<dataVars, parent>>
  PROVE  /\ \A S : Bunch(S)' <=> Bunch(S)
         /\ TreesAreConnected => TreesAreConnected'
<1>1. \A S : Bunch(S)' <=> Bunch(S)
  BY DEF Bunch
<1> QED
  BY <1>1, SameCorrelation DEF TreesAreConnected

(* An episode that is come to has an owner of its scenario, itself if      *)
(* there was none.                                                         *)
LEMMA UniteScenarioKeepsInv ==
  ASSUME GroupsInv, NEW e \in Indices, UniteScenario(e) PROVE GroupsInv'
<1> DEFINE owner == Owner(scenarioOwner, scenarioOf[e], e)
<1>1. /\ mode = "scenario_initial" /\ stage = "loop" /\ e \in todo
      /\ todo' = todo \ {e} /\ at' = e /\ stage' = "scenario"
      /\ scenarioOwner' = [scenarioOwner EXCEPT ![scenarioOf[e]] = owner]
      /\ first' = e /\ second' = owner
      /\ UNCHANGED <<mode, scenarioOf, startOf, parent, initialOwner, keyOf>>
  BY DEF UniteScenario, Unite, dataVars
<1>2. GroupsTypeOK
  BY DEF GroupsInv
<1>3. /\ scenarioOf[e] \in Scenarios /\ owner \in Indices /\ owner # None
      /\ scenarioOwner[scenarioOf[e]] # None => owner = scenarioOwner[scenarioOf[e]]
      /\ scenarioOwner[scenarioOf[e]] = None => owner = e
  BY <1>2, NoneAssumption DEF GroupsTypeOK, Owner
<1>4. /\ scenarioOwner'[scenarioOf[e]] = owner
      /\ \A s \in Scenarios : s # scenarioOf[e] => scenarioOwner'[s] = scenarioOwner[s]
  BY <1>1, <1>2, <1>3 DEF GroupsTypeOK
<1> HIDE DEF owner
<1>5. GroupsTypeOK'
  <2>1. scenarioOwner' \in [Scenarios -> Indices \cup {None}]
    BY <1>1, <1>2, <1>3 DEF GroupsTypeOK
  <2> QED
    BY <1>1, <1>2, <1>3, <2>1 DEF GroupsTypeOK
<1>6. /\ \A S : Bunch(S)' <=> Bunch(S)
      /\ TreesAreConnected'
  BY <1>1, SameTrees DEF GroupsInv, dataVars
<1>7. OwnersFollow'
  BY <1>1, <1>3, <1>4 DEF GroupsInv, OwnersFollow
<1>8. LinksFollow'
  <2> SUFFICES ASSUME NEW x \in Indices \ todo'
               PROVE
        /\ scenarioOwner'[scenarioOf[x]] # None
        /\ x # e => \A S \in SUBSET Indices : Bunch(S) =>
             (x \in S <=> scenarioOwner'[scenarioOf[x]] \in S)
        /\ Recorded(x) /\ x # e =>
             /\ InitialOwnerOf(x) # None
             /\ \A S \in SUBSET Indices :
                  Bunch(S) => (x \in S <=> InitialOwnerOf(x) \in S)
    BY <1>1, <1>6 DEF LinksFollow, ScenarioOwnerOf, InitialOwnerOf, Recorded, Linked
  <2>1. CASE x = e
    BY <1>3, <1>4, <2>1
  <2>2. CASE x # e
    <3>1. x \in Indices \ todo /\ scenarioOf[x] \in Scenarios
      BY <1>1, <1>2, <2>2 DEF GroupsTypeOK
    <3>2. scenarioOwner[scenarioOf[x]] # None /\ Linked(x, ScenarioOwnerOf(x))
      BY <1>1, <3>1 DEF GroupsInv, LinksFollow, ScenarioOwnerOf
    <3>3. scenarioOwner'[scenarioOf[x]] = ScenarioOwnerOf(x)
      BY <1>3, <1>4, <3>1, <3>2 DEF ScenarioOwnerOf
    <3>4. Recorded(x) => InitialOwnerOf(x) # None /\ Linked(x, InitialOwnerOf(x))
      BY <1>1, <3>1 DEF GroupsInv, LinksFollow
    <3> QED
      BY <3>2, <3>3, <3>4 DEF Linked, ScenarioOwnerOf
  <2> QED
    BY <2>1, <2>2
<1>9. CursorsFollow'
  BY <1>1, <1>4 DEF CursorsFollow, ScenarioOwnerOf, Linked
<1>10. KeysFollow'
  BY <1>1, NoKeysYet DEF KeysFollow, NoKey
<1> QED
  BY <1>5, <1>6, <1>7, <1>8, <1>9, <1>10 DEF GroupsInv

(* The same for its start.                                                 *)
LEMMA UniteInitialKeepsInv ==
  ASSUME GroupsInv, UniteInitial PROVE GroupsInv'
<1> DEFINE owner == Owner(initialOwner, startOf[at], at)
<1>1. /\ stage = "linked" /\ stage' = "initial"
      /\ initialOwner' = [initialOwner EXCEPT ![startOf[at]] = owner]
      /\ first' = at /\ second' = owner
      /\ UNCHANGED <<mode, scenarioOf, startOf, todo, at, parent, scenarioOwner, keyOf>>
  BY DEF UniteInitial, Unite, dataVars
<1>2. GroupsTypeOK
  BY DEF GroupsInv
<1>3. mode = "scenario_initial" /\ at \in Indices \ todo /\ Recorded(at)
  BY <1>1, <1>2 DEF GroupsInv, GroupsTypeOK, KeysFollow, CursorsFollow
<1>4. /\ startOf[at] \in Starts /\ owner \in Indices /\ owner # None
      /\ initialOwner[startOf[at]] # None => owner = initialOwner[startOf[at]]
      /\ initialOwner[startOf[at]] = None => owner = at
  BY <1>2, <1>3, NoneAssumption DEF GroupsTypeOK, Owner, Recorded
<1>5. /\ initialOwner'[startOf[at]] = owner
      /\ \A p \in Starts : p # startOf[at] => initialOwner'[p] = initialOwner[p]
  BY <1>1, <1>2, <1>4 DEF GroupsTypeOK
<1> HIDE DEF owner
<1>6. GroupsTypeOK'
  <2>1. initialOwner' \in [Starts -> Indices \cup {None}]
    BY <1>1, <1>2, <1>4 DEF GroupsTypeOK
  <2> QED
    BY <1>1, <1>2, <1>3, <1>4, <2>1 DEF GroupsTypeOK
<1>7. /\ \A S : Bunch(S)' <=> Bunch(S)
      /\ TreesAreConnected'
  BY <1>1, SameTrees DEF GroupsInv, dataVars
<1>8. OwnersFollow'
  BY <1>1, <1>4, <1>5 DEF GroupsInv, OwnersFollow
<1>9. LinksFollow'
  <2> SUFFICES ASSUME NEW x \in Indices \ todo
               PROVE
        /\ ScenarioOwnerOf(x) # None
        /\ \A S \in SUBSET Indices : Bunch(S) => (x \in S <=> ScenarioOwnerOf(x) \in S)
        /\ Recorded(x) /\ x # at =>
             /\ initialOwner'[startOf[x]] # None
             /\ \A S \in SUBSET Indices : Bunch(S) =>
                  (x \in S <=> initialOwner'[startOf[x]] \in S)
    BY <1>1, <1>7 DEF LinksFollow, ScenarioOwnerOf, InitialOwnerOf, Recorded, Linked
  <2>1. ScenarioOwnerOf(x) # None /\ Linked(x, ScenarioOwnerOf(x))
    BY <1>1, <1>3 DEF GroupsInv, LinksFollow
  <2>2. ASSUME Recorded(x), x # at
        PROVE  /\ initialOwner'[startOf[x]] = InitialOwnerOf(x)
               /\ InitialOwnerOf(x) # None /\ Linked(x, InitialOwnerOf(x))
    <3>1. InitialOwnerOf(x) # None /\ Linked(x, InitialOwnerOf(x))
      BY <1>3, <2>2 DEF GroupsInv, LinksFollow
    <3>2. startOf[x] \in Starts
      BY <1>2, <2>2 DEF GroupsTypeOK, Recorded
    <3>3. initialOwner'[startOf[x]] = InitialOwnerOf(x)
      BY <1>4, <1>5, <3>1, <3>2 DEF InitialOwnerOf
    <3> QED
      BY <3>1, <3>3
  <2> QED
    BY <2>1, <2>2 DEF Linked
<1>10. CursorsFollow'
  BY <1>1, <1>3, <1>4, <1>5 DEF CursorsFollow, InitialOwnerOf, Linked, Recorded
<1>11. KeysFollow'
  BY <1>1, <1>3, NoKeysYet DEF KeysFollow, NoKey
<1> QED
  BY <1>6, <1>7, <1>8, <1>9, <1>10, <1>11 DEF GroupsInv

(* The second loop finds the root of each episode ...                      *)
LEMMA FindKeyKeepsInv ==
  ASSUME GroupsInv, NEW e \in Indices, FindKey(e) PROVE GroupsInv'
<1>1. /\ mode = "scenario_initial" /\ stage = "loop" /\ todo = {}
      /\ at' = e /\ first' = e /\ second' = Anyone /\ stage' = "key"
      /\ UNCHANGED <<mode, scenarioOf, startOf, todo, parent>>
      /\ UNCHANGED <<scenarioOwner, initialOwner, keyOf>>
  BY DEF FindKey, Unite, dataVars, ownerVars
<1>2. GroupsTypeOK'
  BY <1>1, AnyoneIsOne DEF GroupsInv, GroupsTypeOK
<1>3. /\ \A S : Bunch(S)' <=> Bunch(S)
      /\ TreesAreConnected'
  BY <1>1, SameTrees DEF GroupsInv, dataVars
<1>4. OwnersFollow'
  BY <1>1 DEF GroupsInv, OwnersFollow
<1>5. LinksFollow'
  BY <1>1, <1>3
     DEF GroupsInv, LinksFollow, ScenarioOwnerOf, InitialOwnerOf, Recorded, Linked
<1>6. CursorsFollow'
  BY <1>1 DEF CursorsFollow, Linked
<1>7. KeysFollow'
  BY <1>1, <1>3 DEF GroupsInv, KeysFollow, IsRoot, Linked, NoKey
<1> QED
  BY <1>2, <1>3, <1>4, <1>5, <1>6, <1>7 DEF GroupsInv

(* ... and makes it the key.                                               *)
LEMMA GiveRootKeepsInv ==
  ASSUME GroupsInv, GiveRoot PROVE GroupsInv'
<1>1. /\ stage = "key" /\ IsRoot(first) /\ stage' = "loop"
      /\ keyOf' = [keyOf EXCEPT ![at] = <<"scenario_initial", first>>]
      /\ first' = Anyone /\ second' = Anyone
      /\ UNCHANGED <<mode, scenarioOf, startOf, todo, at, parent>>
      /\ UNCHANGED <<scenarioOwner, initialOwner>>
  BY DEF GiveRoot, Unite, dataVars, ownerVars
<1>2. /\ mode = "scenario_initial" /\ todo = {} /\ at \in Indices /\ first \in Indices
      /\ Linked(first, at)
  BY <1>1 DEF GroupsInv, GroupsTypeOK, KeysFollow, CursorsFollow
<1>3. GroupsTypeOK'
  <2>1. <<"scenario_initial", first>> \in Keys
    BY <1>2 DEF Keys
  <2> QED
    BY <1>1, <2>1, AnyoneIsOne DEF GroupsInv, GroupsTypeOK
<1>4. /\ \A S : Bunch(S)' <=> Bunch(S)
      /\ TreesAreConnected'
  BY <1>1, SameTrees DEF GroupsInv, dataVars
<1>5. OwnersFollow'
  BY <1>1 DEF GroupsInv, OwnersFollow
<1>6. LinksFollow'
  BY <1>1, <1>4
     DEF GroupsInv, LinksFollow, ScenarioOwnerOf, InitialOwnerOf, Recorded, Linked
<1>7. CursorsFollow'
  BY <1>1 DEF CursorsFollow
<1>8. KeysFollow'
  <2>1. /\ keyOf'[at] = <<"scenario_initial", first>>
        /\ \A e \in Indices : e # at => keyOf'[e] = keyOf[e]
    BY <1>1, <1>2 DEF GroupsInv, GroupsTypeOK
  <2>2. Linked(at, first)
    BY <1>2 DEF Linked
  <2> SUFFICES ASSUME NEW e \in Indices, keyOf'[e] # NoKey
               PROVE  \E r \in Indices :
                        /\ keyOf'[e] = <<"scenario_initial", r>> /\ parent[r] = r
                        /\ \A S \in SUBSET Indices : Bunch(S) => (e \in S <=> r \in S)
    BY <1>1, <1>2, <1>4 DEF KeysFollow, IsRoot, Linked, NoKey
  <2>3. CASE e = at
    BY <1>1, <1>2, <2>1, <2>2, <2>3 DEF IsRoot, Linked
  <2>4. CASE e # at
    <3>1. keyOf[e] # NoKey
      BY <2>1, <2>4
    <3>2. PICK r \in Indices :
            keyOf[e] = <<"scenario_initial", r>> /\ IsRoot(r) /\ Linked(e, r)
      BY <1>2, <3>1 DEF GroupsInv, KeysFollow
    <3> QED
      BY <2>1, <2>4, <3>2 DEF IsRoot, Linked
  <2> QED
    BY <2>3, <2>4
<1> QED
  BY <1>3, <1>4, <1>5, <1>6, <1>7, <1>8 DEF GroupsInv

(* In the other modes all keys are given at once.                          *)
LEMMA GiveKeysKeepsInv ==
  ASSUME GroupsInv, GiveKeys PROVE GroupsInv'
<1>1. /\ mode # "scenario_initial" /\ todo' = {}
      /\ keyOf' = [e \in Indices |-> GroupKey(e)]
      /\ UNCHANGED <<mode, scenarioOf, startOf, stage, at, first, second>>
      /\ UNCHANGED <<parent, scenarioOwner, initialOwner>>
  BY DEF GiveKeys, dataVars, cursorVars, ownerVars
<1>2. GroupsTypeOK /\ stage = "loop"
  BY <1>1 DEF GroupsInv, KeysFollow
<1>3. \A e \in Indices : GroupKey(e) \in Keys
  BY <1>1, <1>2 DEF GroupsTypeOK, GroupKey, Keys, Modes, Recorded
<1>4. GroupsTypeOK'
  BY <1>1, <1>2, <1>3 DEF GroupsTypeOK
<1>5. TreesAreConnected'
  BY <1>1, SameTrees DEF GroupsInv, dataVars
<1>6. OwnersFollow'
  BY <1>1 DEF GroupsInv, OwnersFollow
<1>7. LinksFollow' /\ CursorsFollow'
  BY <1>1, <1>2 DEF LinksFollow, CursorsFollow
<1>8. KeysFollow'
  BY <1>1, <1>2 DEF KeysFollow, GroupKey, Recorded
<1> QED
  BY <1>4, <1>5, <1>6, <1>7, <1>8 DEF GroupsInv

(* A step that changes nothing.                                            *)
LEMMA SameGroupsInv ==
  ASSUME GroupsInv, UNCHANGED groupsVars PROVE GroupsInv'
<1> USE DEF groupsVars, dataVars, cursorVars, ownerVars
<1>1. GroupsTypeOK' /\ OwnersFollow'
  BY DEF GroupsInv, GroupsTypeOK, OwnersFollow
<1>2. /\ \A S : Bunch(S)' <=> Bunch(S)
      /\ TreesAreConnected'
  BY SameTrees DEF GroupsInv
<1>3. LinksFollow' /\ CursorsFollow'
  BY <1>2 DEF GroupsInv, LinksFollow, CursorsFollow, ScenarioOwnerOf, InitialOwnerOf,
              Recorded, Linked
<1>4. KeysFollow'
  BY <1>2 DEF GroupsInv, KeysFollow, GroupKey, IsRoot, Recorded, Linked, NoKey
<1> QED
  BY <1>1, <1>2, <1>3, <1>4 DEF GroupsInv

(* Every step keeps the invariant.                                         *)
LEMMA NextGroupsInv == GroupsInv /\ [GroupsNext]_groupsVars => GroupsInv'
<1> SUFFICES ASSUME GroupsInv, [GroupsNext]_groupsVars PROVE GroupsInv'
  OBVIOUS
<1>1. first \in Indices /\ second \in Indices
  BY DEF GroupsInv, GroupsTypeOK
<1>2. CASE HalveFirst
  BY <1>1, <1>2, HalveKeepsInv DEF HalveFirst
<1>3. CASE HalveSecond
  BY <1>1, <1>3, HalveKeepsInv DEF HalveSecond
<1>4. CASE \E e \in Indices : UniteScenario(e) \/ FindKey(e)
  BY <1>4, UniteScenarioKeepsInv, FindKeyKeepsInv
<1>5. CASE UniteInitial
  BY <1>5, UniteInitialKeepsInv
<1>6. CASE Link
  BY <1>6, LinkKeepsInv
<1>7. CASE GiveRoot
  BY <1>7, GiveRootKeepsInv
<1>8. CASE GiveKeys
  BY <1>8, GiveKeysKeepsInv
<1>9. CASE UNCHANGED groupsVars
  BY <1>9, SameGroupsInv
<1> QED
  BY <1>2, <1>3, <1>4, <1>5, <1>6, <1>7, <1>8, <1>9 DEF GroupsNext

(* GroupsInv is an invariant of the grouping.                              *)
LEMMA AlwaysGroupsInv == GroupsSpec => []GroupsInv
BY InitGroupsInv, NextGroupsInv, PTL DEF GroupsSpec

(* The tree of a root: the least set that has the root and the children of *)
(* its members.                                                            *)
Hereditary(q, T) == q \in T /\ \A x \in Indices : parent[x] \in T => x \in T
TreeOf(q) == {x \in Indices : \A T \in SUBSET Indices : Hereditary(q, T) => x \in T}

(* It is a bunch, and its members but the root have another for a parent:  *)
(* the set without one that had none would be less.                        *)
LEMMA TreeIsBunch ==
  ASSUME GroupsTypeOK, NEW q \in Indices, IsRoot(q)
  PROVE  /\ q \in TreeOf(q)
         /\ \A x \in TreeOf(q) : x # q => parent[x] \in TreeOf(q) \ {x}
         /\ Bunch(TreeOf(q))
<1> DEFINE Tree == TreeOf(q)
<1>1. Tree \in SUBSET Indices /\ Hereditary(q, Tree)
  <2>1. q \in Tree
    BY DEF TreeOf, Hereditary
  <2>2. ASSUME NEW x \in Indices, parent[x] \in Tree PROVE x \in Tree
    BY <2>2 DEF TreeOf, Hereditary
  <2> QED
    BY <2>1, <2>2 DEF TreeOf, Hereditary
<1>2. ASSUME NEW x \in Tree, x # q, parent[x] \notin Tree \ {x}
      PROVE  FALSE
  <2> DEFINE Rest == Tree \ {x}
  <2>1. q \in Rest
    BY <1>1, <1>2 DEF Hereditary
  <2>2. ASSUME NEW y \in Indices, parent[y] \in Rest PROVE y \in Rest
    <3>1. y \in Tree
      BY <1>1, <2>2 DEF Hereditary
    <3>2. y # x
      BY <1>2, <2>2
    <3> QED
      BY <3>1, <3>2
  <2>3. Rest \in SUBSET Indices /\ Hereditary(q, Rest)
    BY <1>1, <2>1, <2>2 DEF Hereditary
  <2>4. \A T \in SUBSET Indices : Hereditary(q, T) => x \in T
    BY <1>2 DEF TreeOf
  <2>5. x \in Rest
    <3> HIDE DEF Rest
    <3> QED
      BY <2>3, <2>4
  <2> QED
    BY <2>5
<1>3. Bunch(Tree)
  <2> HIDE DEF Tree
  <2> SUFFICES ASSUME NEW x \in Indices, x \in Tree PROVE parent[x] \in Tree
    BY <1>1 DEF Bunch, Hereditary
  <2>1. CASE x = q
    BY <2>1 DEF IsRoot
  <2>2. CASE x # q
    BY <1>2, <2>2
  <2> QED
    BY <2>1, <2>2
<1> QED
  BY <1>1, <1>2, <1>3 DEF Hereditary

(* So no other root is linked to it, ...                                   *)
LEMMA OneRootPerTree ==
  ASSUME GroupsTypeOK, NEW q \in Indices, NEW r \in Indices,
         IsRoot(q), IsRoot(r), Linked(q, r)
  PROVE  q = r
<1>1. TreeOf(q) \in SUBSET Indices
  BY DEF TreeOf
<1>2. r \in TreeOf(q)
  BY <1>1, TreeIsBunch DEF Linked
<1> QED
  BY <1>2, TreeIsBunch DEF IsRoot

(* Parents come before their children.                                     *)
ParentsDescend == \A e \in Indices : parent[e] <= e

(* ... and none of those that are is less.                                 *)
LEMMA RootIsLeast ==
  ASSUME GroupsTypeOK, ParentsDescend, NEW q \in Indices, NEW e \in Indices,
         IsRoot(q), Linked(q, e)
  PROVE  q <= e
<1> DEFINE Above == {x \in Indices : q <= x}
<1>1. Indices \subseteq Nat
  BY IndicesAssumption
<1>2. Above \in SUBSET Indices /\ q \in Above
  BY <1>1
<1>3. ASSUME NEW x \in Indices, parent[x] \in Above PROVE x \in Above
  <2>1. parent[x] <= x /\ parent[x] \in Nat /\ x \in Nat /\ q \in Nat
    BY <1>1 DEF ParentsDescend, GroupsTypeOK
  <2> QED
    BY <1>3, <2>1
<1>4. Hereditary(q, Above)
  BY <1>2, <1>3 DEF Hereditary
<1>5. TreeOf(q) \in SUBSET Indices
  BY DEF TreeOf
<1>6. e \in TreeOf(q)
  BY <1>5, TreeIsBunch DEF Linked
<1>7. e \in Above
  <2> HIDE DEF Above
  <2> QED
    BY <1>2, <1>4, <1>6 DEF TreeOf
<1> QED
  BY <1>7

(* A parent is changed to its own parent, or, a root, to a lesser one.     *)
LEMMA AlwaysParentsDescend == GroupsSpec => []ParentsDescend
<1>1. GroupsInit => ParentsDescend
  BY IndicesAssumption DEF GroupsInit, ParentsDescend
<1>2. GroupsInv /\ ParentsDescend /\ [GroupsNext]_groupsVars => ParentsDescend'
  <2> SUFFICES ASSUME GroupsInv, ParentsDescend, [GroupsNext]_groupsVars
               PROVE  ParentsDescend'
    OBVIOUS
  <2>1. /\ parent \in [Indices -> Indices] /\ Indices \subseteq Nat
        /\ first \in Indices /\ second \in Indices
    BY IndicesAssumption DEF GroupsInv, GroupsTypeOK
  <2>2. \A x \in Indices : parent[parent[x]] <= x
    <3> SUFFICES ASSUME NEW x \in Indices PROVE parent[parent[x]] <= x
      OBVIOUS
    <3>1. parent[x] \in Indices /\ parent[parent[x]] \in Indices
      BY <2>1
    <3>2. parent[x] <= x /\ parent[parent[x]] <= parent[x]
      BY <3>1 DEF ParentsDescend
    <3>3. x \in Nat /\ parent[x] \in Nat /\ parent[parent[x]] \in Nat
      BY <2>1, <3>1
    <3> QED
      BY <3>2, <3>3
  <2>3. CASE HalveFirst
    BY <2>1, <2>2, <2>3 DEF HalveFirst, ParentsDescend
  <2>4. CASE HalveSecond
    BY <2>1, <2>2, <2>4 DEF HalveSecond, ParentsDescend
  <2>5. CASE Link
    <3>1. PICK a \in Indices, b \in Indices :
            b <= a /\ parent' = [parent EXCEPT ![a] = b]
      <4>1. first \in Nat /\ second \in Nat
        BY <2>1
      <4>2. /\ Greater(first, second) \in Indices /\ Lesser(first, second) \in Indices
            /\ Lesser(first, second) <= Greater(first, second)
        BY <2>1, <4>1 DEF Greater, Lesser
      <4> QED
        BY <2>5, <4>2 DEF Link
    <3> QED
      BY <2>1, <3>1 DEF ParentsDescend
  <2>6. CASE UNCHANGED parent
    BY <2>6 DEF ParentsDescend
  <2> QED
    BY <2>3, <2>4, <2>5, <2>6
       DEF GroupsNext, UniteInitial, GiveRoot, GiveKeys, UniteScenario, FindKey, groupsVars
<1> QED
  BY <1>1, <1>2, AlwaysGroupsInv, PTL DEF GroupsSpec

(* When the first loop is done, the unions of trees are the closed sets.   *)
LEMMA BunchesAreClosed ==
  ASSUME GroupsInv, mode = "scenario_initial", todo = {}, stage \in {"loop", "key"},
         NEW S \in SUBSET Indices, Bunch(S)
  PROVE  Closed(S)
<1> SUFFICES ASSUME NEW e \in Indices, NEW f \in Indices, Correlated(e, f), e \in S
             PROVE  f \in S
  BY DEF Closed
<1>1. /\ Linked(e, ScenarioOwnerOf(e)) /\ Linked(f, ScenarioOwnerOf(f))
      /\ Recorded(e) => Linked(e, InitialOwnerOf(e))
      /\ Recorded(f) => Linked(f, InitialOwnerOf(f))
  BY DEF GroupsInv, LinksFollow
<1>2. CASE scenarioOf[e] = scenarioOf[f]
  BY <1>1, <1>2 DEF Linked, ScenarioOwnerOf
<1>3. CASE Recorded(e) /\ startOf[e] = startOf[f]
  BY <1>1, <1>3 DEF Linked, InitialOwnerOf, Recorded
<1> QED
  BY <1>2, <1>3 DEF Correlated

(* Then connected is linked.                                               *)
LEMMA ConnectedIsLinked ==
  ASSUME GroupsInv, mode = "scenario_initial", todo = {}, stage \in {"loop", "key"},
         NEW e \in Indices, NEW f \in Indices
  PROVE  Connected(e, f) <=> Linked(e, f)
<1>1. ASSUME Linked(e, f) PROVE Connected(e, f)
  BY <1>1 DEF Connected, Linked, GroupsInv, TreesAreConnected
<1>2. ASSUME Connected(e, f) PROVE Linked(e, f)
  <2> SUFFICES ASSUME NEW S \in SUBSET Indices, Bunch(S) PROVE e \in S <=> f \in S
    BY DEF Linked
  <2> DEFINE Others == Indices \ S
  <2>1. Bunch(Others)
    BY DEF Bunch, GroupsInv, GroupsTypeOK
  <2>2. Closed(S) /\ Closed(Others)
    <3>1. Others \in SUBSET Indices
      OBVIOUS
    <3> HIDE DEF Others
    <3> QED
      BY <2>1, <3>1, BunchesAreClosed
  <2>3. e \in S => f \in S
    BY <1>2, <2>2 DEF Connected
  <2>4. e \in Others => f \in Others
    <3>1. Others \in SUBSET Indices
      OBVIOUS
    <3> HIDE DEF Others
    <3> QED
      BY <1>2, <2>2, <3>1 DEF Connected
  <2> QED
    BY <2>3, <2>4
<1> QED
  BY <1>1, <1>2

(* In the other modes episodes are correlated or they are not.             *)
LEMMA ConnectedIsCorrelated ==
  ASSUME GroupsTypeOK, mode # "scenario_initial",
         NEW e \in Indices, NEW f \in Indices
  PROVE  Connected(e, f) <=> Correlated(e, f)
<1>1. mode \in {"scenario", "initial_condition", "episode"}
  BY DEF GroupsTypeOK, Modes
<1>2. ASSUME Correlated(e, f) PROVE Connected(e, f)
  BY <1>2 DEF Connected, Closed
<1>3. ASSUME Connected(e, f) PROVE Correlated(e, f)
  <2> DEFINE S == {x \in Indices : Correlated(e, x)}
  <2>1. \A x, y \in Indices : Correlated(x, y) /\ Correlated(e, x) => Correlated(e, y)
    BY <1>1 DEF Correlated, Recorded
  <2>2. S \in SUBSET Indices /\ Closed(S)
    BY <2>1 DEF Closed
  <2>3. e \in S
    BY <1>1 DEF Correlated
  <2> HIDE DEF S
  <2>4. f \in S
    BY <1>3, <2>2, <2>3 DEF Connected
  <2> QED
    BY <2>4 DEF S
<1> QED
  BY <1>2, <1>3

(* And those that are have one key.                                        *)
LEMMA KeyIsCorrelation ==
  ASSUME GroupsTypeOK, mode # "scenario_initial",
         NEW e \in Indices, NEW f \in Indices
  PROVE  GroupKey(e) = GroupKey(f) <=> Correlated(e, f)
<1>1. mode \in {"scenario", "initial_condition", "episode"}
  BY DEF GroupsTypeOK, Modes
<1>2. CASE mode = "episode"
  BY <1>2 DEF GroupKey, Correlated
<1>3. CASE mode = "scenario"
  BY <1>3 DEF GroupKey, Correlated
<1>4. CASE mode = "initial_condition"
  BY <1>4 DEF GroupKey, Correlated, Recorded
<1> QED
  BY <1>1, <1>2, <1>3, <1>4

(* When every episode has its key, two have the same one exactly if they   *)
(* are correlated, directly or through others: for any number of episodes, *)
(* in any mode, with any scenarios and recorded starts.                    *)
THEOREM GroupsAreComponentsHolds == GroupsSpec => []GroupsAreComponents
<1>1. GroupsInv => GroupsAreComponents
  <2> SUFFICES ASSUME GroupsInv, Grouped, NEW e \in Indices, NEW f \in Indices
               PROVE  keyOf[e] = keyOf[f] <=> Connected(e, f)
    BY DEF GroupsAreComponents
  <2>1. GroupsTypeOK /\ keyOf[e] # NoKey /\ keyOf[f] # NoKey
    BY DEF GroupsInv, Grouped
  <2>2. CASE mode # "scenario_initial"
    <3>1. keyOf[e] = GroupKey(e) /\ keyOf[f] = GroupKey(f)
      BY <2>1, <2>2 DEF GroupsInv, KeysFollow
    <3> QED
      BY <2>1, <2>2, <3>1, KeyIsCorrelation, ConnectedIsCorrelated
  <2>3. CASE mode = "scenario_initial"
    <3>1. todo = {} /\ stage \in {"loop", "key"}
      BY <2>1, <2>3 DEF GroupsInv, KeysFollow
    <3>2. PICK q \in Indices :
            keyOf[e] = <<"scenario_initial", q>> /\ IsRoot(q) /\ Linked(e, q)
      BY <2>1, <2>3 DEF GroupsInv, KeysFollow
    <3>3. PICK r \in Indices :
            keyOf[f] = <<"scenario_initial", r>> /\ IsRoot(r) /\ Linked(f, r)
      BY <2>1, <2>3 DEF GroupsInv, KeysFollow
    <3>4. keyOf[e] = keyOf[f] <=> q = r
      BY <3>2, <3>3
    <3>5. Linked(e, f) <=> Linked(q, r)
      BY <3>2, <3>3 DEF Linked
    <3>6. Linked(q, r) <=> q = r
      BY <2>1, <3>2, <3>3, OneRootPerTree DEF Linked
    <3> QED
      BY <2>3, <3>1, <3>4, <3>5, <3>6, ConnectedIsLinked
  <2> QED
    BY <2>2, <2>3
<1> QED BY AlwaysGroupsInv, <1>1, PTL

(* The variables keep their types.                                         *)
THEOREM GroupsTypeCorrect == GroupsSpec => []GroupsTypeOK
<1>1. GroupsInv => GroupsTypeOK
  BY DEF GroupsInv
<1> QED BY AlwaysGroupsInv, <1>1, PTL

(* The key of a group names its least episode, so that keys, and what is   *)
(* ordered by them, do not depend on the order of the files.               *)
THEOREM KeysAreCanonicalHolds == GroupsSpec => []KeysAreCanonical
<1>1. GroupsInv /\ ParentsDescend => KeysAreCanonical
  <2> SUFFICES ASSUME GroupsInv, ParentsDescend, mode = "scenario_initial", Grouped,
                      NEW e \in Indices
               PROVE  \E least \in Indices :
                        /\ keyOf[e] = <<"scenario_initial", least>>
                        /\ Connected(e, least)
                        /\ \A f \in Indices : Connected(e, f) => least <= f
    BY DEF KeysAreCanonical
  <2>1. GroupsTypeOK /\ keyOf[e] # NoKey
    BY DEF GroupsInv, Grouped
  <2>2. todo = {} /\ stage \in {"loop", "key"}
    BY <2>1 DEF GroupsInv, KeysFollow
  <2>3. PICK r \in Indices :
          keyOf[e] = <<"scenario_initial", r>> /\ IsRoot(r) /\ Linked(e, r)
    BY <2>1 DEF GroupsInv, KeysFollow
  <2>4. Connected(e, r)
    BY <2>2, <2>3, ConnectedIsLinked
  <2>5. ASSUME NEW f \in Indices, Connected(e, f) PROVE r <= f
    <3>1. Linked(e, f)
      BY <2>2, <2>5, ConnectedIsLinked
    <3>2. Linked(r, f)
      BY <2>3, <3>1 DEF Linked
    <3> QED
      BY <2>1, <2>3, <3>2, RootIsLeast
  <2> QED
    BY <2>3, <2>4, <2>5
<1> QED BY AlwaysGroupsInv, AlwaysParentsDescend, <1>1, PTL

(* Each turn of find goes to a lesser index, so that it ends.              *)
THEOREM FindDescendsHolds == GroupsSpec => FindDescends
<1> DEFINE
  Descends == /\ HalveFirst => first' < first
              /\ HalveSecond => second' < second
<1>1. ASSUME GroupsTypeOK, ParentsDescend, NEW x \in Indices, ~IsRoot(x)
      PROVE  parent[parent[x]] < x
  <2>1. parent[x] \in Indices /\ parent[parent[x]] \in Indices
    BY <1>1 DEF GroupsTypeOK
  <2>2. parent[x] <= x /\ parent[parent[x]] <= parent[x] /\ parent[x] # x
    BY <1>1, <2>1 DEF ParentsDescend, IsRoot
  <2>3. x \in Nat /\ parent[x] \in Nat /\ parent[parent[x]] \in Nat
    BY <1>1, <2>1, IndicesAssumption
  <2> QED
    BY <2>2, <2>3
<1>2. GroupsInv /\ ParentsDescend => Descends
  <2> SUFFICES ASSUME GroupsInv, ParentsDescend PROVE Descends
    OBVIOUS
  <2>1. GroupsTypeOK /\ first \in Indices /\ second \in Indices
    BY DEF GroupsInv, GroupsTypeOK
  <2>2. HalveFirst => first' < first
    <3> SUFFICES ASSUME HalveFirst PROVE first' < first
      OBVIOUS
    <3>1. first' = parent[parent[first]] /\ ~IsRoot(first)
      BY <2>1 DEF HalveFirst, GroupsTypeOK
    <3> QED
      BY <1>1, <2>1, <3>1
  <2>3. HalveSecond => second' < second
    <3> SUFFICES ASSUME HalveSecond PROVE second' < second
      OBVIOUS
    <3>1. second' = parent[parent[second]] /\ ~IsRoot(second)
      BY <2>1 DEF HalveSecond, GroupsTypeOK
    <3> QED
      BY <1>1, <2>1, <3>1
  <2> QED
    BY <2>2, <2>3
<1> QED
  BY AlwaysGroupsInv, AlwaysParentsDescend, <1>2, PTL DEF FindDescends
=============================================================================
