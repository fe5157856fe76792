# Verification of robustlearn-manip

TLA+ models of the stateful parts of this repository, model-checked with TLC,
and theorems about them checked with TLAPS. Paths are relative to the root of
the repository; `PROJECT.json` gives, for every definition that models code,
the file and the lines it was translated from.

- [The system](#the-system)
- [Modules](#modules)
- [Runs: what TLC checks](#runs-what-tlc-checks)
- [Fairness](#fairness)
- [Theorems: what TLAPS proves](#theorems-what-tlaps-proves)
- [Disagreements between code and documents](#disagreements-between-code-and-documents)
- [Limits](#limits)
- [Plan](#plan)

## The system

The repository trains and evaluates peg insertion with a simulated Panda arm.
Its own logic is in three layers. ROS 2 *nodes* move the arm (a human with a
keyboard, MoveIt under a coordinator, a scripted expert). *Runners* start the
nodes as subprocesses, episode after episode, and record what happened. *Tools*
turn the recorded files into a dataset. The nodes are single-threaded executors
(callbacks run to completion, in any order); the action server, MoveIt, the
parameter service and the recorder are other processes that may answer late,
out of order or never; the runners are sequential programs that may be killed
between any two file operations.

### Components

| component (source) | state | operations | talks to | what is hard | what makes it correct |
|---|---|---|---|---|---|
| keyboard teleoperation, goals (`ros2_ws/src/robustlearn_control/scripts/keyboard_teleop.py`, `robustlearn/teleop_demo_collection.py`) | request counter, active request, goal handle, deadman, review mode, recording session, completion tracker | one key per timer tick, deadman, goal response, result, cancel response | trajectory controller (action) | four callbacks per goal, in any order, after the node has moved on | "settled" means the arm is quiet; one goal at a time; recorded frames were accepted; letting go stops the arm |
| keyboard teleoperation, cartesian interlocks (same file, `robustlearn/cartesian_wrench_safety.py`) | the time each piece of evidence arrived, the pending parameter request, the goal in flight | wrench, controller state, joint state, parameter answer, poll | wrench topic, controller state topic, parameter service | four sources may fall silent at any moment during a motion | motion never outlives its evidence by more than a poll |
| review and approval (same files, `robustlearn/teleop_summary_history.py`) | session status, pending approval, pending summary; episode files and the summary file | accept, reject, abort, retry, summary retry | file system, shared with the scripted collector | failures and kills between link, unlink and summary | the summary counts exactly what is in the dataset |
| review motion guard (`robustlearn/teleop_demo_collection.py`) | time of the last sample, start of the standstill | observe, reset, ready | joint states | gaps, boundaries, samples from before the review | ready means sustained, fresh standstill |
| local insertion expert (`.../scripts/local_insertion_expert.py`) | armed, terminal, goal in flight and handle, staged frame, frames | set_armed, joint feedback, tick, responses, results, timeouts, abort, complete | controller (action), coordinator (service, status topic), capture file | late answers, timeouts, a safety stop during a goal | one goal at a time; frames are the accepted goals; success is on disk |
| hybrid coordinator (`ros2_ws/src/robustlearn_moveit_config/scripts/hybrid_insertion_coordinator.py`) | phase, clocks, last expert status | joint state, scene, plan, execution, arming, status, tick | MoveIt (services, action), expert | any answer may never come; status may precede the arm answer | the expert gets the arm only after MoveIt has put it in place; success or bounded failure |
| scripted collection (`tools/collect_scripted_demos.py`, `robustlearn/scripted_demo_collection.py`) | batch position, episode, entries; captures, episodes, summary on disk | look, simulate, assemble, link, unlink, note, save | subprocess with coordinator and expert, file system | kills, simulations that outlive the run, restarts after a commit | a success in the dataset is the capture on disk, labelled a success; the summary is true |
| dataset splits (`robustlearn/dataset_splits.py`) | union-find forest; listing, assignment, manifest | group, list, assign, write, check | dataset directory | transitive correlation, files added meanwhile, torn manifest | groups are never split; success means the manifest is current |
| episode manager, runner and recorder (`robustlearn/episode_manager.py`, `tools/run_week9_acceptance.py`, `robustlearn/mcap_logging.py`) | episode, outcome, results; recorder and launch processes | reset, record, run, classify, stop (SIGINT, SIGTERM, SIGKILL), next | subprocesses | hangs, leftovers, processes that ignore signals | what is left behind is reported; the plan ends |
| benchmark runner (`tools/run_week10_benchmark.py`, `robustlearn/week10_benchmark.py`) | records; output and temporary file | run, record, checkpoint (temporary + replace), report | file system | death between the writes | the artifact is one run; a death costs at most one episode, or strikes the last write |
| MuJoCo hardware (`ros2_ws/src/robustlearn_mujoco_hardware`) | simulation, last positions and commands, state and command interfaces | init, activate, deactivate, read, write | controller manager, controllers | errors in the middle of a loop over the joints; read, write and the life cycle in any order | a refused write changes nothing; without a command the arm is held where it is; with an arm in its range, sensors that work and no cycle before the first activation, no order of calls makes it fail |
| scripted insertion policy and task (`robustlearn/scripted_insertion.py`, `robustlearn/sim/task.py`) | none: where the peg was seen and what it touches decide | phase, force limits, step, judgement | expert | judged on a joint state that may be late | an insertion that is armed ends |

Not modelled, because they have no interaction to explore: kinematics and
safety geometry (`cartesian_teleop.py`, most of `sim/`), the Gymnasium environment
and evaluation, schemas and JSON validation (`rollout_dataset.py`), the static
joint-mapping check, launch files and models, visualisation. The small C++ nodes
of `robustlearn_control` (status, mode, check) are demonstrations of ROS
interfaces that no other part uses.

### How they interact

The expert is used in two ways: alone (armed by parameter) and under the
coordinator, which arms it through a service and reads a status topic of depth
one. The collector runs coordinator and expert as one simulation and sees only
the result of the launch test and the capture file that the expert wrote. Both
collectors write episodes into one directory, with `os.link` as the exclusive
step. The episode manager runs the same simulations with a recorder around
them. In every simulation the trajectory controller drives the MuJoCo hardware,
cycle by cycle. The splits tool reads the directory at its end. The keyboard node has its
own arm and controller.

## Modules

State variables carry the names of the fields they model where TLA+ allows it;
an action is one handler, one timer branch or one step between two file
operations, and stands for the whole of it.

| module | models | actions ↔ code |
|---|---|---|
| `TeleopGoals` | goals, deadman, recording session and completion tracker of the keyboard node, and the controller | `Key...` are the branches of `_poll_keyboard`; `PollDeadman`; `OnStaleGoalResponse`, `OnGoalRefused`, `OnGoalAccepted` are the three ways through `_on_goal_response`; `OnGoalResult`, `OnCancelResponse`; `Stop`, `CancelActiveGoal`, `ResolvePendingCapture` the helpers of the same names; `Controller...` the action server |
| `CartesianSafety` | the interlocks of its cartesian mode | `Poll`, `PollJog` the timer, `Refresh` `_refresh_cartesian_interpolation`, `On...` the subscriptions and the parameter answer |
| `ReviewMotionGuard` | the guard class, fed with any log of samples | `Observe`, `Reset`, `Ready` |
| `KeyboardEvidence` | the node with either of the two above, as its parameters choose | `Interlocks`, `Guard` say whose step it is |
| `TeleopApproval` | decision, exclusive write, summary and retries | `LinkEpisode`, `UnlinkTemporary`, `ReportSaved`, `ReportFailure` are the steps of one approval between which it may be killed |
| `ReviewLedger` | what the review promises to the readers of dataset and summary | abstract; `TeleopApproval` implements it by `DatasetView` and `SummaryView` |
| `LocalExpert` | the expert node, its frame buffer and the controller | `Tick...` the branches of the timer, `On...` responses and results, `SetArmed`, `Abort`, `Complete` |
| `ScriptedInsertion` | the control law and the judgement of the task | operators: `Phase`, `IsUnsafe`, `Moves`, `Moved`; `Succeeded`, `Failed` |
| `ExpertInsertion` | `LocalExpert` with that control law, and the peg | the branches of the timer by what they see; `Observe` a joint state, `PegMoves`, `TrajectoryEnds`, `Disturb` the world, `ServerComesOrGoes` the action server |
| `HybridCoordinator` | the coordinator, MoveIt and the arm service | one action per callback and per branch of `_tick` |
| `HybridInsertion` | both nodes composed as `hybrid_insertion.launch.py` does | `ExpertStep`, `CoordinatorStep`, the shared `ArmCall` and `StatusDelivered` |
| `ArmControl` | what the composition promises: who holds the arm | abstract; `HybridInsertion` implements it |
| `ScriptedCollection` | the collector, its files and the simulations | the straight-line code of `collect_episodes` cut where a kill makes a difference |
| `EpisodeGroups` | `_group_key` and the union-find of `_group_episodes`, loop by loop | `UniteScenario`, `UniteInitial` the calls of `union`, `HalveFirst`, `HalveSecond` the turns of `find`, `Link` the end of `union`; `FindKey`, `GiveRoot` the second loop; `GiveKeys` the other modes |
| `DatasetSplits` | the split tool against a growing directory | validation, listing, assignment, exclusive write, check |
| `EpisodeRuns` | episode manager, `run_scenario` and recorder | begin, run, time out, stop with escalation, next |
| `BenchmarkArtifact` | runner, checkpoint and report | run, write temporary, replace, write report, death |
| `MuJoCoHardware` | `mujoco_system.cpp` under the controller manager | `OnInit`, `OnActivate`, `OnDeactivate`, `Read`, `Write`, with their errors; `Configure`, `Cleanup`, `Control` are the manager and the controllers |

`MC*` modules only give TLC its constants. `*Proofs` modules extend the modules
they prove about; where one extends several, these name their parts apart
(`SplitsInit`, `GroupsSpec`, `BenchmarkTypeOK`, ...). Definitions named `Mutant...` stand before the definition they
could replace: each is the bug that a property is there to catch, and is used by
nothing else.

Data is abstracted to what the properties tell apart: a request is its number,
a frame the number of the request it was recorded for, a file the run that wrote
it and its outcome, evidence the ticks since it arrived, a plan or a pose
"accepted" or "refused", a place of the peg the interval of the thresholds it is
in, a joint value one that is in the control range, outside, or not finite.

## Runs: what TLC checks

Every run checks all orders of the steps within its bounds. Each property is
violated when its mutant replaces the mapped definition.

| run | instance | states | shows |
|---|---|---|---|
| `goals` | 3 requests, every fault | 199,860 | `SettledIsQuiet`, `OneGoalAtATime`, `FramesWereAccepted`, `NoOrphanGoal`, `EveryAnswerIsExpected`; `ReviewSettles`, `DeadmanHalts` |
| `approval` | 3 attempts, 2 frames, 2 paths | 151,648 | `SavedMeansInDataset`, `SavedSummaryIsRecoverable`, `RetryKeepsDecision`, refinement `KeepsTheLedger` |
| `evidence` | guard: 4 samples in 6 ticks; interlocks: poll 1, feedback 1, verification 2, request 1 ticks | 273,093 | `ReadyMeansSustained`; `MotionIsSupervised`, `ContactStops`; `AsksForEver` |
| `expert` | 4 goals, 2 disturbances, every fault, every configuration | 1,184,948 | `OneGoalAtATime`, `DisarmedIsQuiet`, `FramesWereAccepted`; `InsertionEnds` |
| `hybrid` | 3 goals, every fault | 14,945 | `NoContention`, `CompleteMeansDemonstrated`, `NoLostStatus`, refinement `ControlKept`; `StartedEnds` |
| `collection` | 2 episodes in 1 or 2 domains, 3 runs, a commit between | 371,652 | `SuccessIsBacked`, `FramesAreOwn`, `SummaryIsTrue`; `BatchEnds` |
| `collection_validated` | 2 episodes, 1 run, no fault | – | violated: `CollectedIsSupported` (below) |
| `groups` | 4 episodes, 2 scenarios, 2 starts, 4 modes | 1,095,336 | `GroupsAreComponents` |
| `splits` | 6 files, 4 groups (symmetric) | 1,497,796 | `SplitsPartition`, `SuccessMeansCurrent` |
| `runs` | 3 episodes, 2 domains | 100,166 | `SuccessLeavesNothing`, `LostRecorderIsReported`, `StrangersWereReported`; `EveryEpisodeEnds` |
| `benchmark` | 4 episodes, 2 kinds of failure, 2 runs | 51,863 | `ArtifactIsOneRun`, `FinishedEpisodesAreKept` |
| `hardware` | 2 joints, 2 values in range and 1 outside, 2 steps | 1,075,041 | `RefusedWritesChangeNothing`, `HoldsUntilCommanded`, `GoodUseNeverFails` |

What the properties say is written before each of them in its module.

Why the bounds are enough:

- *Three requests* (`goals`): a late answer concerns the request before the
  active one; a third is needed for a goal that starts while two earlier ones
  still have answers or cancel replies on their way. *Four goals* (`expert`):
  the same, after a frame has been recorded. The theorems hold for any number.
- *Three attempts, two paths* (`approval`): two attempts share an identity, the
  third does not; two frames tell a recording that has grown from one that has
  not.
- *Three runs, two episodes* (`collection`): a run, one over its leftovers with
  another commit, and one over both with the first commit again; an episode that
  is skipped or fails, and one after it, in the same ROS domain or its own.
- *Four episodes* (`groups`): the shortest chain in which correlation by start
  and by scenario alternate, next to a group that stays apart; the order of the
  files is explored by exploring all assignments.
- *Six files in four groups* (`splits`): one more group than splits, files that
  the validator and the reader judge differently, and a repeated index.
- *Three episodes over two domains* (`runs`): the third comes back to the domain
  of the first (40 in the code).
- *Two runs of four* (`benchmark`): the second meets everything the first can
  leave.
- *Two joints, two steps* (`hardware`): a loop over the joints can fail before, at
  and after each of them; with two values in range, a step can go from one to
  another, and the second shows what the first left. The theorems hold for any
  number.
- *Two disturbances* (`expert`): the world can take the peg to where the law has
  nothing to say and take it back, or do so and bring a contact; four goals
  complete an insertion from all but the greatest lateral error, and the property
  excuses a run that has used them up (`Exhausted`).
- *Ticks* (`evidence`): each limit is one or two ticks so that "at the limit"
  and "beyond" differ; the theorems hold for all periods.

Deadlock is not checked where the system may stop: nodes shut down, plans end,
and the bounds on requests, attempts and runs end the others.

## Fairness

Only what the code's own scheduling gives is assumed, never an answer from
somebody else, with one exception that is named.

- `TeleopGoals`: the executor polls the deadman and runs ready callbacks; the
  controller answers goal and cancel requests and lets a *cancelled* goal end
  (the exception). A result is delivered once its goal has ended; no failure is
  ever forced to happen. It need not accept a cancellation, and no trajectory needs to
  end of itself. `ReviewSettles` and `DeadmanHalts` therefore say "or the tracker
  is uncertain, or the node was aborted, or the controller denied the
  cancellation".
- `LocalExpert`, `HybridCoordinator`, `HybridInsertion`: time passes and the
  timers fire. MoveIt, the expert and the controller may stay silent.
- `ScriptedCollection`, `EpisodeRuns`: the runner's own statements and the time
  limits of `subprocess.run` and `Popen.wait`. A simulation or a recorder may
  hang; SIGKILL is delivered by the kernel. A batch that an error ends has ended,
  for `BatchEnds`.
- `ExpertInsertion`: time passes, the control timer fires and, once the feedback
  has been complete, joint states keep arriving. The controller owes nothing: its
  state and the wrench may never be published, its action server may stay away or
  come and go, requests may stay unanswered and trajectories run for ever. A tick
  that finds the server absent sends nothing (`local_insertion_expert.py:622`), so
  `InsertionEnds` excuses an expert that has to wait for it again and again
  (`Waits`). That the capture is written is not needed: the node ends without.
- `KeyboardEvidence`: ticks and polls, and a service that stays available answers.

## Theorems: what TLAPS proves

For every value of the constants (numbers of requests, goals, attempts, joints,
episodes, runs, domains, files, groups and scenarios, all subsets of faults, all
periods), from the named assumptions in the modules:

- bounds are natural numbers; faults are among the fault kinds;
- periods are positive, and the request interval is not above the verification
  timeout; the limits of the review guard are as its constructor checks them;
- every attempt has a path, every run of the collector a commit;
- at least one episode is requested (the runners and the collector refuse an
  empty plan) or grouped (the validation refuses an empty dataset);
- the files of a dataset are finitely many, numbered in the order of their
  names; an episode index is a natural number, which "no owner" is not.

| module | theorems | argument |
|---|---|---|
| `TeleopGoalsProofs` | `TypeCorrect`, `SettledIsQuietHolds`, `OneGoalAtATimeHolds`, `NodeFieldsAgreeHolds`, `StagedFrameIsActiveHolds`, `FramesWereAcceptedHolds`, `NoOrphanGoalHolds`, `EveryAnswerIsExpectedHolds` | `SettledIsQuiet` is not inductive: a callback could settle a goal that the controller still moves. `Tracked` (a moving goal is in the tracker's table unless the tracker says it lost track) is. A jog needs `Settled`, so one goal at a time follows from it. For frames, `NodeFieldsAgree` and `Numbering` (no request is beyond the counter, the handle belongs to an answered request) make a staged frame that of the unanswered active request; only its acceptance commits it. `EveryAnswerIsExpected` needs `AnswersEntered`: only an answered request is ever cancelled, and the tracker has entered every answer |
| `KeyboardEvidenceProofs` | `TypeCorrect`, `MotionIsSupervisedHolds`, `ContactStopsHolds`; `ReadyMeansSustainedHolds` | interlocks: `MotionIsSupervised` is not inductive, since nothing bounds a lapse between polls; `LapseIsYoung` (a lapse is no older than the last poll) is. Guard: `NumbersTellTheLog` says what its two numbers are in terms of the streaks of the log (the last usable sample, the first of the longest streak), for logs of any length; the property compares `Ready` with the log. The lemma `NodeRunsBoth`: a node has the one or the other and leaves the rest alone, so that what is proved of either module holds in the run |
| `TeleopApprovalProofs` | `TypeCorrect`, `SavedMeansInDatasetHolds`, `SavedSummaryIsRecoverableHolds`, `RetryKeepsDecisionHolds`, `KeepsTheLedgerHolds` | none of these is inductive: what a retry may report depends on which step of which decision left the file. `StepsAreOrdered` says what is done at each step, `SessionIsSaved` that an attempt's own file has the frames and the decision that are pending, `EntryFollows` what the summary may have of the attempt at work, `FilesAreWhole` and `FutureIsOpen` the same for the others. For the refinement, `NextViews` and `SummaryViews` compute the views after each step; `LinkEpisode` is `Save`, every report a `Report` |
| `LocalExpertProofs` | `TypeCorrect`, `OneGoalAtATimeHolds`, `DisarmedIsQuietHolds`, `StagedWhileUnansweredHolds`, `EndIsFinalHolds`, `FramesWereAcceptedHolds`, `InsertionIsLocalExpert` | `LastGoalOnly`: only the last goal sent may be live at the controller, and only while the node calls it in flight or has ended; `OnlySent`, `HandleReplied` bound the answers. `FramesFollow`: before the end the frames are exactly the goals sent, without the last one until it is answered. `InsertionIsLocalExpert` maps every step of `ExpertInsertion` to one of `LocalExpert` or a stutter, so that all of it holds of the expert with its control law |
| `HybridInsertionProofs` | coordinator by itself: `CoordinatorTypeCorrect`, `ArmedAfterExecutionHolds`, `CoordinatorLosesNoStatus`, `CompleteMeansArmedHolds`, `OutcomeIsFinalHolds`; both nodes: `ControlKeptHolds`, `NoContentionHolds`, `CompleteMeansDemonstratedHolds`, `NoLostStatusHolds`, `NodesKeepTheirSpecs` | `CallsFollowPhase`: what has been asked of MoveIt and the expert, and what has been answered, follows from the phase. The refinement of `ArmControl`: `Handover` relates the coordinator's phase to the expert's arming; then every step of either node is a step of `ArmControl` or a stutter. What is asked may be granted at any later time, even after the coordinator failed: what counts is that the execution has ended for good. `Untouched` (an expert that was never armed has sent nothing) gives `NoContention`. `Demonstrated` follows a success from the coordinator's phase through the last status it received to the expert's status and its capture file. `NodesKeepTheirSpecs`: composed, each node still behaves as its own module says, so that what was proved of either alone holds of it here |
| `RunnerProofs` | manager: `TypeCorrect`, `SuccessLeavesNothingHolds`, `LostRecorderIsReportedHolds`, `StrangersWereReportedHolds`; benchmark: `ArtifactIsOneRunHolds`, `FinishedEpisodesAreKeptHolds` | manager: `ProcessesFollow` (an episode that has not been run has no process, only the current launch test is up) and `OutcomeFollows` (an outcome "success" on its way to the results has no nodes, and a recorder that still runs at the end makes it "unknown"); strangers in a domain are left from an episode with the same remainder, and that one was no success. Benchmark: `RunIsInOrder` (record i is of episode i and of this run) and `OutputFollows` (how much of it is in the output, by the statement that comes next), for the longer file that replaces the shorter |
| `DatasetProofs` | collection: `CollectionTypeCorrect`, `SuccessIsBackedHolds`, `FramesAreOwnHolds`, `SummaryIsTrueHolds`; splits: `SplitsTypeCorrect`, `SplitsPartitionHolds`, `SuccessMeansCurrentHolds`; groups: `GroupsTypeCorrect`, `GroupsAreComponentsHolds`, `KeysAreCanonicalHolds`, `FindDescendsHolds` | collection: `ExpertsFollow` (no simulation before its run, and an expert whose success can still be heard has its capture, labelled a success, on disk), `WorkFollows` (what the collector has in its hands at each step, and every entry is true), `FramesFollow` (whose frames these are while nobody else's simulation lives). Splits: `AssignedFollows` (groups are assigned once and to one split, no fewer groups are left than splits are empty, and the files that are kept are one for each index: the last one, which exists as they are finitely many); success is a comparison with the manifest that `--check` was given, and `GivenFollows` says it is still the one on disk. Groups: below |
| `MuJoCoHardwareProofs` | `TypeCorrect`, `RefusedWritesChangeNothingHolds`, `HoldsUntilCommandedHolds`, `GoodUseNeverFailsHolds` | `TargetsAreWhole` (an error in the middle of a loop leaves mixed targets only in a hardware that is finalized), `PositionsAreRecent` (what was read is at most one step old, by the turn of the cycle), `CommandsHold` (members and targets until a controller speaks), `OrderlyIsInRange` |

*The groups.* That a union-find computes a transitive closure is usually shown
by induction over paths. Here both sides are stated by sets instead. A `Bunch` is a
set of episodes that has an episode exactly if it has its parent: a union of
trees. Two episodes are `Linked` if no bunch separates them. A turn of `find`
changes the forest and none of its bunches; the end of `union` keeps exactly the
bunches that do not separate its two roots. `TreesAreConnected` (every set closed
under correlation is a bunch) is kept since an episode and the owner it is united
with have the scenario or the start in common; `LinksFollow` (an episode that the
loop is done with is linked to the owners of its scenario and its start) makes
every bunch closed at the end. Then linked and connected are the same, and
`OneRootPerTree` makes the root a key: the least set with a root that has the
children of its members is a bunch, and no other root is in it. As parents come
before their children (`ParentsDescend`), nothing in it is less than its root: the
key names the least episode of the group, whatever the order of the files
(`KeysAreCanonical`, what `dataset_splits.py:195` needs to be "independent of
input directory enumeration"), and each turn of `find` goes to a lesser index
(`FindDescends`).

The inductive invariant of each component is its `Inv` (`CoordinatorInv`,
`BenchmarkInv`, `CollectionInv`, `SplitsInv`, `GroupsInv` where a module has
several), in the module of the proofs. Those of `TeleopApprovalProofs`,
`MuJoCoHardwareProofs`, `RunnerProofs` and `DatasetProofs` were checked by TLC on the
instances of their runs before they were proved.

`NodeFieldsAgree`, `StagedFrameIsActive`, `StagedWhileUnanswered`,
`ArmedAfterExecution`, `CompleteMeansArmed`, `OutcomeIsFinal`, `EndIsFinal`,
`KeysAreCanonical`, `FindDescends` and the type invariants are established by proof and not repeated in the runs (those
of `ExpertInsertion` and of the abstract modules document their variables).

Only model-checked are the liveness properties, which are out of the prover's
reach: `ReviewSettles`, `DeadmanHalts`, `AsksForEver`, `InsertionEnds`,
`StartedEnds`, `BatchEnds` and `EveryEpisodeEnds`. Every safety property of a run
is a theorem. Of termination only what is safety is proved: that each turn of
`find` goes to a lesser index.

## Disagreements between code and documents

- **The validator refuses what the scripted collector writes** (run
  `collection_validated`). `dataset_validation.py:19` knows the sources
  `scripted` and `teleop`; the collector writes, and its writer insists on,
  `expert`. `docs/week11_dataset_validation.md:8` says that scripted expert
  episodes are supported.
- *A failed write may leave its episode.* If removing the temporary file fails
  after `os.link` (`teleop_demo_collection.py:252-254`) the attempt is recorded
  as `persistence_failed` although the episode is in the dataset, and each retry
  meets its own file. `teleop_collection_summary.py:3-5` says that failed-write
  attempts never contribute episodes. The `approval` run contains this
  behaviour; its properties say what still holds.
- *A failed attempt may be stuck.* A preflight failure is recorded while the
  session is still recording; after a resume and another frame, every later
  outcome of the attempt is refused as a different recording
  (`teleop_summary_history.py:154`), while lines 114-115 say that such an attempt
  may advance to a final outcome.
- *Episodes are isolated up to a point.* A scenario that times out has only its
  `launch_test` process killed (`run_week9_acceptance.py:348`); its nodes may
  live on, and their ROS domain is given out again 40 episodes later.
  `StrangersWereReported` is what remains of "isolated"; for the collector it is
  `SuccessIsBacked`, for episodes alone in their domain (see the limits).

## Limits

- `TeleopGoals`: a tick is the deadman check and one key. Esc with a response in
  transit ends the node before it can cancel the goal: `NoOrphanGoal` counts it
  as a response that is due. `_cancel_responses` feeds a report only. The
  branches for a missing request id are not used by any caller. A future whose
  result is `None` occurs only for a cancelled future, which nobody creates.
  What `stationary` means is `ReviewMotionGuard`'s matter.
- `CartesianSafety`: an outage of the parameter service lasts longer than a
  poll; an answer lost while the service stays ready would be waited for without
  end, and `AsksForEver` would fail. A late answer is fresh from its arrival. The
  joint state is looked at only when a jog starts. Kinematics and path check may
  always reject.
- `ReviewMotionGuard`: the clock is `time.monotonic`, which never goes back.
- `KeyboardEvidence`: interlocks and guard share no state, so that a node with
  both is not explored as a product.
- `TeleopApproval`: one collection writer of its own kind at a time, and an
  attempt that was killed may be missing in the summary (both documented in
  `docs/week11_acceptance.md`). `SavedSummaryIsRecoverable` is of a node that is
  alive.
- `LocalExpert`: faults of `send_goal_async` other than the two exceptions it
  handles end the process and are not modelled. Ticks that command nothing
  change nothing. A goal accepted after the expert has ended is not cancelled.
- `ExpertInsertion`: the peg's place is a pair of intervals, and a trajectory that
  is carried out moves it by one interval the way it was meant to; the disturbances
  stand for every other way. `TickRaises` is a free choice (numbers that are not
  finite, a Jacobian that cannot be solved). There are two places where the law
  orders nothing and no timeout runs, so that an armed expert waits there for
  ever: at full depth with a lateral error between success and failure (phase HOLD
  is decided by depth alone, `scripted_insertion.py:99`), and aligned against an
  axial force (`scripted_insertion.py:305-346`). `DeadEnd` names them. It also waits
  without a time limit for feedback that was never complete
  (`local_insertion_expert.py:778`) and while the action server is not ready (line
  622): `Waits`. `InsertionEnds` excuses these four and says that there is no
  other. Success may be reported while a
  goal is in flight, which then is not cancelled.
- `MuJoCoHardware`: `mj_step` may take the arm anywhere. What `on_init` compares
  is reduced to the checks it may fail; velocities share the fate of positions.
  The life cycle, the order of read and write and the finalization after an error
  are those of `ros2_control`, external; `read` and `write` are called inactive,
  too. A hardware whose first cycle comes before its first activation meets
  targets nobody has set, refuses them and is lost; one that is deactivated out
  of the control range holds a position that `write` refuses, and is lost as
  well. `orderly` excludes both (the arm never leaves its range), and broken
  sensors and commands out of range besides; `GoodUseNeverFails` says that
  without these no order of calls makes the hardware fail.
- `HybridCoordinator`: before the first joint state there is no timeout, so
  `StartedEnds` begins there; the clock of waiting for MoveIt runs on while the
  scene is applied. A failing coordinator neither cancels MoveIt nor disarms the
  expert: the launch file ends everything.
- `HybridInsertion`: only the coordinator calls `set_armed`.
- `ScriptedCollection`: the kill of the launch test leaves its nodes as orphans;
  the recovery that the docs describe is `ArchiveCapture`. `careful` is a history
  variable: the operator stopped old simulations before each run. The launch test
  knows experts by the name of their topic only, so that `Heard` is the success of
  any expert in the ROS domain, an orphan's included. `pool`, the number of
  domains, is the same for all runs, and nothing else uses those domains. If
  there are fewer domains than episodes, the orphan of one episode can be taken
  for the expert of another, and a failed demonstration is stored as a success:
  without `AloneInDomain`, TLC finds `SuccessIsBacked` violated after 15 states
  (episode 1 times out; its orphan succeeds while episode 2, whose own expert
  failed, is simulated in the same domain). `SuccessIsBacked` therefore speaks of
  episodes that have a domain to themselves. For these an orphan of the same seed
  may be heard in place of the new expert, and then the capture is the orphan's.
- `ReviewLedger` covers the keyboard node's own entries; the scripted collector
  appears as `OtherSaves`. `rollout_dataset.write_episode` overwrites in place, but
  no collector calls it.
- `EpisodeGroups`: starts are compared as text in the keys and as numbers in the
  union-find; these agree except for the sign of zero.
- `DatasetSplits`: the score of an assignment is a free choice among the
  candidates; files are added, never removed or changed.
- `EpisodeRuns`: if the recorder survives SIGKILL for the length of a wait, the
  exception replaces any outcome, a success and an interrupt included, and the
  plan goes on. Results of a plan that is interrupted are lost. The pipe of the
  recorder's output is never read.
- `BenchmarkArtifact`: a death is that of the process (written data survives);
  two runs at once with one output are not modelled. The final report is written
  over the last checkpoint in place, so a death then costs the artifact:
  `FinishedEpisodesAreKept` permits that, and otherwise the loss of one episode.
  A restart replaces an older artifact by its own first checkpoint. The summary in
  the report is a function of its records and not modelled.

## Plan

Done, the most important behaviour first: the goal lifecycle of the keyboard node;
approval and summary; motion guard; expert; coordinator, composition and
refinement; scripted collection; groups and splits; episode runs; cartesian
interlocks; benchmark artifact; MuJoCo hardware; the insertion policy in place of
the expert's free choice; the ledger that the approval implements. Proved: every
safety property of the runs, the three refinements, and that composed nodes keep
the specifications they have alone.

To come: the numbers behind the other liveness properties (that each loop has a
measure its turns decrease, as `find` has) are safety and could be proved: of the
escalation of signals, of a batch, of the assignment of groups.

Not planned: the system check action (a demonstration, complete in itself), the
numerical validation of episodes, and the generation of perturbed start states,
which have no state to explore.
