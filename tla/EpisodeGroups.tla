--------------------------- MODULE EpisodeGroups ---------------------------
(***************************************************************************)
(* The grouping of episodes before a dataset is split (_group_key and      *)
(* _group_episodes in dataset_splits.py).  Episodes of one group go to one *)
(* split together.  In the default mode a union-find forest over the       *)
(* episode indices joins, in the order of the files, each episode with the *)
(* first that has its scenario and with the first that has its recorded    *)
(* start; find halves the paths it walks.                                  *)
(***************************************************************************)
EXTENDS Naturals

CONSTANTS
  Indices,    \* the episode indices
  Scenarios,  \* the scenario labels
  Starts,     \* the recorded start configurations
  None        \* no recorded start, or no owner so far

(* A dataset without episodes is refused before it is grouped.             *)
ASSUME IndicesAssumption == Indices \subseteq Nat /\ Indices # {}
ASSUME NoneAssumption == None \notin Starts \cup Indices

VARIABLES
  mode,           \* group_by
  scenarioOf,     \* the episodes' scenario
  startOf,        \* the episodes' start_joint_positions_rad
  todo,           \* the episodes the first loop has not come to
  stage,          \* where the loops are
  at,             \* the episode they are at, or were at last
  first, second,  \* how far the find of each argument of union has come
  parent,
  scenarioOwner, initialOwner,
  keyOf           \* the group each episode was given

dataVars == <<mode, scenarioOf, startOf>>
ownerVars == <<scenarioOwner, initialOwner>>
cursorVars == <<at, first, second>>
groupsVars == <<dataVars, todo, stage, cursorVars, parent, ownerVars, keyOf>>

Modes == {"scenario_initial", "scenario", "initial_condition", "episode"}
Recorded(e) == startOf[e] # None
NoKey == <<"none", None>>
Keys ==
  {NoKey} \cup ({"scenario_initial", "episode"} \X Indices)
    \cup ({"scenario"} \X Scenarios) \cup ({"initial"} \X Starts)

GroupsTypeOK ==
  /\ mode \in Modes
  /\ scenarioOf \in [Indices -> Scenarios]
  /\ startOf \in [Indices -> Starts \cup {None}]
  /\ todo \subseteq Indices
  /\ stage \in {"loop", "scenario", "linked", "initial", "key"}
  /\ at \in Indices /\ first \in Indices /\ second \in Indices
  /\ parent \in [Indices -> Indices]
  /\ scenarioOwner \in [Scenarios -> Indices \cup {None}]
  /\ initialOwner \in [Starts -> Indices \cup {None}]
  /\ keyOf \in [Indices -> Keys]

(* What the cursors are where the program has none.                        *)
Anyone == CHOOSE e \in Indices : TRUE

GroupsInit ==
  /\ mode \in Modes
  /\ scenarioOf \in [Indices -> Scenarios]
  /\ startOf \in [Indices -> Starts \cup {None}]
  /\ todo = Indices
  /\ stage = "loop"
  /\ at = Anyone /\ first = Anyone /\ second = Anyone
  /\ parent = [e \in Indices |-> e]
  /\ scenarioOwner = [s \in Scenarios |-> None]
  /\ initialOwner = [p \in Starts |-> None]
  /\ keyOf = [e \in Indices |-> NoKey]

-----------------------------------------------------------------------------
(* The first loop.                                                         *)

(* dict.setdefault.                                                        *)
Owner(owners, value, e) == IF owners[value] = None THEN e ELSE owners[value]

Unite(e, f) == first' = e /\ second' = f

UniteScenario(e) ==
  /\ mode = "scenario_initial" /\ stage = "loop" /\ e \in todo
  /\ todo' = todo \ {e}
  /\ LET owner == Owner(scenarioOwner, scenarioOf[e], e)
     IN  /\ scenarioOwner' = [scenarioOwner EXCEPT ![scenarioOf[e]] = owner]
         /\ Unite(e, owner)
  /\ at' = e
  /\ stage' = "scenario"
  /\ UNCHANGED <<dataVars, parent, initialOwner, keyOf>>

UniteInitial ==
  /\ stage = "linked"
  /\ LET owner == Owner(initialOwner, startOf[at], at)
     IN  /\ initialOwner' = [initialOwner EXCEPT ![startOf[at]] = owner]
         /\ Unite(at, owner)
  /\ stage' = "initial"
  /\ UNCHANGED <<dataVars, todo, at, parent, scenarioOwner, keyOf>>

IsRoot(e) == parent[e] = e
Finding == stage \in {"scenario", "initial", "key"}

(* One turn of the loop of find.                                           *)
HalveFirst ==
  /\ Finding /\ ~IsRoot(first)
  /\ parent' = [parent EXCEPT ![first] = parent[parent[first]]]
  /\ first' = parent'[first]
  /\ UNCHANGED <<dataVars, todo, stage, at, second, ownerVars, keyOf>>

HalveSecond ==
  /\ Finding /\ IsRoot(first) /\ ~IsRoot(second)
  /\ parent' = [parent EXCEPT ![second] = parent[parent[second]]]
  /\ second' = parent'[second]
  /\ UNCHANGED <<dataVars, todo, stage, at, first, ownerVars, keyOf>>

Greater(e, f) == IF e < f THEN f ELSE e
Lesser(e, f) == IF e < f THEN e ELSE f

(* Fault: the start is not looked at.                                      *)
MutantLinkScenarioOnly ==
  /\ stage \in {"scenario", "initial"} /\ IsRoot(first) /\ IsRoot(second)
  /\ parent' = [parent EXCEPT ![Greater(first, second)] = Lesser(first, second)]
  /\ stage' = "loop"
  /\ Unite(Anyone, Anyone)
  /\ UNCHANGED <<dataVars, todo, at, ownerVars, keyOf>>

(* The end of union; then the episode's start, if it was recorded.         *)
Link ==
  /\ stage \in {"scenario", "initial"} /\ IsRoot(first) /\ IsRoot(second)
  /\ parent' = [parent EXCEPT ![Greater(first, second)] = Lesser(first, second)]
  /\ stage' = IF stage = "scenario" /\ Recorded(at) THEN "linked" ELSE "loop"
  /\ Unite(Anyone, Anyone)
  /\ UNCHANGED <<dataVars, todo, at, ownerVars, keyOf>>

-----------------------------------------------------------------------------
(* The second loop, and the only one of the other modes.                   *)

FindKey(e) ==
  /\ mode = "scenario_initial" /\ stage = "loop" /\ todo = {}
  /\ keyOf[e] = NoKey
  /\ at' = e
  /\ Unite(e, Anyone)
  /\ stage' = "key"
  /\ UNCHANGED <<dataVars, todo, parent, ownerVars, keyOf>>

GiveRoot ==
  /\ stage = "key" /\ IsRoot(first)
  /\ keyOf' = [keyOf EXCEPT ![at] = <<"scenario_initial", first>>]
  /\ stage' = "loop"
  /\ Unite(Anyone, Anyone)
  /\ UNCHANGED <<dataVars, todo, at, parent, ownerVars>>

(* _group_key: an episode without a recorded start falls back on its       *)
(* scenario.                                                               *)
GroupKey(e) ==
  IF mode = "episode" THEN <<"episode", e>>
  ELSE IF mode = "scenario" \/ ~Recorded(e) THEN <<"scenario", scenarioOf[e]>>
  ELSE <<"initial", startOf[e]>>

GiveKeys ==
  /\ mode # "scenario_initial" /\ todo # {}
  /\ todo' = {}
  /\ keyOf' = [e \in Indices |-> GroupKey(e)]
  /\ UNCHANGED <<dataVars, stage, cursorVars, parent, ownerVars>>

GroupsNext ==
  \/ UniteInitial \/ HalveFirst \/ HalveSecond \/ Link \/ GiveRoot \/ GiveKeys
  \/ \E e \in Indices : UniteScenario(e) \/ FindKey(e)

GroupsSpec == GroupsInit /\ [][GroupsNext]_groupsVars

-----------------------------------------------------------------------------
(* Properties.                                                             *)

(* docs/week11_dataset_splits.md, "Available grouping modes".              *)
Correlated(e, f) ==
  CASE mode = "episode" -> e = f
    [] mode = "scenario" -> scenarioOf[e] = scenarioOf[f]
    [] mode = "initial_condition" ->
         /\ startOf[e] = startOf[f]
         /\ ~Recorded(e) => scenarioOf[e] = scenarioOf[f]
    [] mode = "scenario_initial" ->
         scenarioOf[e] = scenarioOf[f] \/ (Recorded(e) /\ startOf[e] = startOf[f])

Closed(S) == \A e, f \in Indices : Correlated(e, f) /\ e \in S => f \in S

(* Correlated, directly or through other episodes.                         *)
Connected(e, f) == \A S \in SUBSET Indices : Closed(S) /\ e \in S => f \in S

Grouped == \A e \in Indices : keyOf[e] # NoKey

(* docs/week11_dataset_splits.md: "The grouping is transitive. Connections *)
(* through other episodes cannot cause a correlated group to be split."    *)
(* Nor does it throw together episodes that have nothing in common.        *)
GroupsAreComponents ==
  Grouped => \A e, f \in Indices : keyOf[e] = keyOf[f] <=> Connected(e, f)

(* dataset_splits.py:195: "Stable seeded ordering, independent of input    *)
(* directory enumeration."  What is ordered are the keys, so that these    *)
(* must not depend on the order of the files: they name the least episode  *)
(* of the group.                                                           *)
KeysAreCanonical ==
  mode = "scenario_initial" /\ Grouped =>
    \A e \in Indices : \E least \in Indices :
      /\ keyOf[e] = <<"scenario_initial", least>>
      /\ Connected(e, least)
      /\ \A f \in Indices : Connected(e, f) => least <= f

(* The loop of find ends: each turn takes it to a lesser index, although   *)
(* the forest changes under it.                                            *)
FindDescends ==
  [][/\ HalveFirst => first' < first
     /\ HalveSecond => second' < second]_groupsVars
=============================================================================
