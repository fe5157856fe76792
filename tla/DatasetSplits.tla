--------------------------- MODULE DatasetSplits ---------------------------
(***************************************************************************)
(* The tool that splits a dataset into train, validation and test          *)
(* (dataset_splits.py): it writes a manifest, or checks one against the    *)
(* dataset as it is now.  It validates the episode files, lists them       *)
(* again, assigns the groups of their episodes to the splits one by one,   *)
(* and writes or compares.  A collector may add files to the dataset       *)
(* between any two of these steps, and the tool may be killed.             *)
(*                                                                         *)
(* Here an episode's group is given: EpisodeGroups finds it.  The score    *)
(* that prefers one split to another is left out, and so is the hash that  *)
(* orders groups of one size: any candidate may be chosen.  The code's     *)
(* choice is one of them, always the same for the same files.              *)
(***************************************************************************)
EXTENDS Naturals, FiniteSets

CONSTANTS
  Files,    \* 1, 2 ... in the order of the file names
  IdOf,     \* the episode index in each file
  KindOf,   \* "valid", "loose" (read_episode takes it, the validator does
            \* not) or "broken" (neither takes it)
  Groups

Splits == {"train", "validation", "test"}

(* Those that have an episode for read_episode.                            *)
Readable == {f \in Files : KindOf[f] # "broken"}

ASSUME FilesAssumption == Files \subseteq Nat /\ IsFiniteSet(Files)
ASSUME KindOfAssumption == KindOf \in [Files -> {"valid", "loose", "broken"}]

VARIABLES
  groupOf,    \* each episode's group, by whatever group_by groups
  directory,  \* the files in the dataset
  manifest,   \* the manifest file
  check,      \* the tool was given --check
  given,      \* the manifest it then read
  progress,   \* how far it has got
  paths,      \* the files it listed
  episodes,   \* those it keeps: of the files with one index, the last
  assigned,   \* the groups it has given to each split
  outcome     \* what it ended with last

toolVars == <<check, given, paths, episodes, assigned>>
splitsVars == <<groupOf, directory, manifest, toolVars, progress, outcome>>

Nothing == [n \in Splits |-> {}]

(* The file, which may not be there, or have no whole manifest in it.      *)
Unwritten(state) == [state |-> state, files |-> {}, splits |-> Nothing]
Missing == Unwritten("missing")
Torn == Unwritten("torn")
Manifests ==
  [state : {"whole"}, files : SUBSET Files, splits : [Splits -> SUBSET Files]]
Unread == {Missing, Torn}

SplitsTypeOK ==
  /\ groupOf \in [Readable -> Groups]
  /\ directory \subseteq Files
  /\ manifest \in Unread \cup Manifests /\ given \in Unread \cup Manifests
  /\ check \in BOOLEAN
  /\ progress \in {"idle", "validate", "list", "assign", "write"}
  /\ paths \subseteq Files /\ episodes \subseteq paths
  /\ assigned \in [Splits -> SUBSET Groups]
  /\ outcome \in {"none", "generated", "passed", "error", "killed"}

SplitsInit ==
  /\ groupOf \in [Readable -> Groups]
  /\ directory = {}
  /\ manifest = Missing /\ given = Missing
  /\ check = FALSE
  /\ progress = "idle"
  /\ paths = {} /\ episodes = {}
  /\ assigned = Nothing
  /\ outcome = "none"

-----------------------------------------------------------------------------
(* The groups and the splits.                                              *)

Members(g) == {f \in episodes : groupOf[f] = g}
Left == {groupOf[f] : f \in episodes} \ UNION {assigned[n] : n \in Splits}
EpisodesIn(n) == {f \in episodes : groupOf[f] \in assigned[n]}

Largest(g) ==
  /\ g \in Left
  /\ \A h \in Left : Cardinality(Members(h)) <= Cardinality(Members(g))

(* Fault: nothing is kept back for the empty splits.                       *)
MutantCandidatesAnyTime == Splits

Empty == {n \in Splits : assigned[n] = {}}
Candidates == IF Cardinality(Empty) = Cardinality(Left) THEN Empty ELSE Splits

Built ==
  [state |-> "whole", files |-> paths, splits |-> [n \in Splits |-> EpisodesIn(n)]]

(* The dictionary by index: a later file replaces an earlier one.          *)
Kept == {f \in directory : ~\E g \in directory : IdOf[g] = IdOf[f] /\ g > f}

-----------------------------------------------------------------------------
(* The tool.                                                               *)

(* The process ends, and its variables with it.                           *)
End(result) ==
  /\ progress' = "idle" /\ outcome' = result
  /\ check' = FALSE /\ given' = Missing
  /\ paths' = {} /\ episodes' = {}
  /\ assigned' = Nothing

To(next) == progress' = next /\ UNCHANGED outcome

Generate ==
  /\ progress = "idle"
  /\ To("validate")
  /\ UNCHANGED <<groupOf, directory, manifest, toolVars>>

(* --check reads the manifest before anything else.                        *)
Check ==
  /\ progress = "idle"
  /\ IF manifest \in Unread
       THEN End("error")
       ELSE /\ To("validate")
            /\ check' = TRUE /\ given' = manifest
            /\ UNCHANGED <<paths, episodes, assigned>>
  /\ UNCHANGED <<groupOf, directory, manifest>>

ValidDataset ==
  /\ directory # {}
  /\ \A f \in directory : KindOf[f] = "valid"
  /\ \A f, g \in directory : IdOf[f] = IdOf[g] => f = g

Validate ==
  /\ progress = "validate"
  /\ IF ValidDataset
       THEN To("list") /\ UNCHANGED toolVars
       ELSE End("error")
  /\ UNCHANGED <<groupOf, directory, manifest>>

List ==
  /\ progress = "list"
  /\ IF \/ ~(directory \subseteq Readable)
        \/ Cardinality({groupOf[f] : f \in Kept}) < Cardinality(Splits)
       THEN End("error")
       ELSE /\ To("assign")
            /\ paths' = directory /\ episodes' = Kept
            /\ UNCHANGED <<check, given, assigned>>
  /\ UNCHANGED <<groupOf, directory, manifest>>

Assign(g, n) ==
  /\ progress = "assign" /\ Largest(g) /\ n \in Candidates
  /\ assigned' = [assigned EXCEPT ![n] = @ \cup {g}]
  /\ UNCHANGED <<groupOf, directory, manifest, check, given, paths, episodes>>
  /\ UNCHANGED <<progress, outcome>>

Complete == UNION {EpisodesIn(n) : n \in Splits} = episodes

(* Fault: what there is already is not compared.                           *)
MutantCompareNothing ==
  /\ progress = "assign" /\ Left = {}
  /\ ~Complete \/ check \/ manifest # Missing
  /\ End(IF ~Complete THEN "error" ELSE IF check THEN "passed" ELSE "generated")
  /\ UNCHANGED <<groupOf, directory, manifest>>

(* The build's own check; then --check compares, and so does a run that    *)
(* finds a manifest.                                                       *)
Compare ==
  /\ progress = "assign" /\ Left = {}
  /\ ~Complete \/ check \/ manifest # Missing
  /\ End(IF Complete /\ Built = (IF check THEN given ELSE manifest)
           THEN IF check THEN "passed" ELSE "generated"
           ELSE "error")
  /\ UNCHANGED <<groupOf, directory, manifest>>

(* open("x").                                                              *)
Create ==
  /\ progress = "assign" /\ Left = {}
  /\ Complete /\ ~check /\ manifest = Missing
  /\ manifest' = Torn
  /\ To("write")
  /\ UNCHANGED <<groupOf, directory, toolVars>>

Write ==
  /\ progress = "write"
  /\ manifest' = Built
  /\ End("generated")
  /\ UNCHANGED <<groupOf, directory>>

-----------------------------------------------------------------------------
(* What happens around it.                                                 *)

Killed ==
  /\ progress # "idle"
  /\ End("killed")
  /\ UNCHANGED <<groupOf, directory, manifest>>

Collected(f) ==
  /\ f \notin directory
  /\ directory' = directory \cup {f}
  /\ UNCHANGED <<groupOf, manifest, toolVars, progress, outcome>>

SplitsNext ==
  \/ Generate \/ Check \/ Validate \/ List \/ Compare \/ Create \/ Write \/ Killed
  \/ \E g \in Groups, n \in Splits : Assign(g, n)
  \/ \E f \in Files : Collected(f)

SplitsSpec == SplitsInit /\ [][SplitsNext]_splitsVars

-----------------------------------------------------------------------------
(* Properties.                                                             *)

Whole == manifest \notin Unread

(* "The grouping is transitive ... a correlated group" is never split, "If *)
(* fewer than three independent groups remain, splitting fails": a         *)
(* manifest has three nonempty splits with no group in two of them, and    *)
(* between them they have one file of each index that was listed, also     *)
(* when a file with a known index appeared after the validation.           *)
SplitsPartition ==
  Whole =>
    LET splits == manifest.splits
        placed == UNION {splits[n] : n \in Splits}
    IN  /\ \A n \in Splits : splits[n] # {}
        /\ \A n, m \in Splits : \A f \in splits[n], g \in splits[m] :
             groupOf[f] = groupOf[g] => n = m
        /\ placed \subseteq manifest.files
        /\ \A f \in manifest.files :
             Cardinality({g \in placed : IdOf[g] = IdOf[f]}) = 1

(* "Verification ... rejects differences in dataset fingerprint, split     *)
(* configuration, or manifest": when the tool reports success, in either   *)
(* mode, the manifest on disk is whole and is of the files it listed.      *)
SuccessMeansCurrent ==
  [][progress # "idle" /\ progress' = "idle"
       /\ outcome' \in {"generated", "passed"}
     => Whole' /\ manifest' = Built]_splitsVars
=============================================================================
