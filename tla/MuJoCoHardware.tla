--------------------------- MODULE MuJoCoHardware ---------------------------
(***************************************************************************)
(* The simulated arm as hardware of ros2_control (mujoco_system.cpp): the  *)
(* controller manager calls read, lets the controllers set the command     *)
(* interfaces, and calls write, which steps the simulation once.  Between  *)
(* any two of these calls an operator may activate or deactivate the       *)
(* hardware.  A call that returns an error finalizes it for good.          *)
(*                                                                         *)
(* Joints go through every loop in order, so that an error in the middle   *)
(* leaves what the joints before it have been given.  A value is one of a  *)
(* few in the control range or outside it, or it is not finite; that of a  *)
(* joint's velocity is part of that of its position.                       *)
(***************************************************************************)
EXTENDS Naturals

CONSTANTS
  NumJoints,  \* kRosPandaJointNames, the joints in order
  Allowed,    \* values within actuator_ctrlrange
  Outside,    \* finite values that are not
  MaxSteps    \* bound on the steps of the simulation

ASSUME JointsAssumption == NumJoints \in Nat /\ MaxSteps \in Nat
ASSUME ValuesAssumption == Allowed \subseteq Nat \ {0} /\ Outside \subseteq Nat \ {0}

Joints == 1..NumJoints
NaN == 0
Finite == Allowed \cup Outside
Values == Finite \cup {NaN}
Vectors == [Joints -> Values]
Unset == [j \in Joints |-> NaN]

VARIABLES
  lifecycle,  \* of the hardware component
  turn,       \* the call of the cycle that comes next
  \* mjData
  qpos, ctrl, steps,
  wrench,     \* the wrist sensors are finite
  \* the members
  positions,  \* joint_positions_
  commands,   \* joint_commands_
  \* the interfaces
  states, targets,
  \* history
  before,     \* qpos before the last step
  held,       \* where each joint was when it was last to be held
  spoken,     \* a controller has set targets since
  offered,    \* the last vector that was given to the targets as a whole
  applied,    \* the one of the last write that returned OK, and how many did
  orderly     \* nothing has gone wrong around the hardware

simulation == <<qpos, ctrl, steps, wrench, before>>
members == <<positions, commands>>
interfaces == <<states, targets>>
history == <<held, spoken, offered, applied>>
vars == <<lifecycle, turn, simulation, members, interfaces, history, orderly>>

TypeOK ==
  /\ lifecycle \in {"loading", "rejected", "unconfigured", "inactive", "active",
                    "finalized"}
  /\ turn \in {"read", "write"}
  /\ {qpos, before, targets, states, positions, commands, offered} \subseteq Vectors
  /\ ctrl \in [Joints -> Finite]
  /\ steps \in 0..MaxSteps
  /\ {wrench, spoken, orderly} \subseteq BOOLEAN
  /\ held \in [Joints -> SUBSET Values]
  /\ applied \in [vector : Vectors, count : 0..MaxSteps]

InRange(v) == \A j \in Joints : v[j] \in Allowed

(* Before on_init has built the simulation there is nothing to look at.    *)
Init ==
  /\ lifecycle = "loading"
  /\ turn = "read"
  /\ qpos \in [Joints -> Finite]
  /\ ctrl \in [Joints -> Finite]
  /\ steps = 0
  /\ wrench = TRUE
  /\ before = qpos
  /\ positions = Unset /\ commands = Unset
  /\ states = Unset /\ targets = Unset
  /\ held = [j \in Joints |-> {qpos[j]}]
  /\ spoken = FALSE
  /\ offered = Unset
  /\ applied = [vector |-> ctrl, count |-> 0]
  /\ orderly = InRange(qpos)

-----------------------------------------------------------------------------
(* on_init.  Everything is built in local variables; the members are       *)
(* assigned together at its end.                                           *)

(* The hardware description of the URDF.                                   *)
DescriptionChecks ==
  {"base class", "seven joints", "names", "one position command",
   "position and velocity state", "six wrench interfaces, if any"}

(* The MJCF file and the model compiled of it with the peg and the sensors.*)
ModelChecks ==
  {"library", "absolute path of a file", "parsed", "hand", "peg attached",
   "wrist site", "force sensor", "torque sensor", "compiled", "data"}

(* The keyframe: "home" need not exist, a configured one must.             *)
KeyframeChecks == {"configured keyframe"}

(* Each joint with the actuator that drives it, and where it is.           *)
JointChecks ==
  {"hinge joints", "actuators", "actuator drives the joint", "finite state"}

SensorChecks == {"force and torque sensor", "types", "addresses", "finite wrench"}

Checks ==
  DescriptionChecks \cup ModelChecks \cup KeyframeChecks \cup JointChecks
    \cup SensorChecks

(* The command to begin with is where the arm is, which is not what the    *)
(* keyframe's controls may pull it to.                                     *)
OnInit ==
  /\ lifecycle = "loading"
  /\ lifecycle' = "unconfigured"
  /\ positions' = qpos
  /\ commands' = qpos
  /\ UNCHANGED <<turn, simulation, interfaces, history, orderly>>

OnInitFails ==
  /\ lifecycle = "loading"
  /\ \E check \in Checks : lifecycle' = "rejected"
  /\ UNCHANGED <<turn, simulation, members, interfaces, history, orderly>>

-----------------------------------------------------------------------------
(* The life cycle.                                                         *)

(* new before joint k, old from there on.                                  *)
Before(k, new, old) == [j \in Joints |-> IF j < k THEN new[j] ELSE old[j]]

(* A joint, or the wrench, which some loops leave for the end.             *)
Places == Joints \cup {NumJoints + 1}

(* A loop fails at the first bad joint, or where an interface raises, which *)
(* is not in order.                                                        *)
FailsAt(k, bad) ==
  /\ \A j \in bad : k <= j
  /\ lifecycle' = "finalized"
  /\ orderly' = (orderly /\ k \in bad)

(* Where the one that raises is not the first of a joint, the first is set.  *)
Reached(k, bad) == IF k \in bad THEN {k} ELSE {k, k + 1}

NotFinite(v) == {j \in Joints : v[j] = NaN}

(* on_configure and on_cleanup are those of the base class.                *)
Configure ==
  /\ lifecycle = "unconfigured"
  /\ lifecycle' = "inactive"
  /\ UNCHANGED <<turn, simulation, members, interfaces, history, orderly>>

Cleanup ==
  /\ lifecycle = "inactive"
  /\ lifecycle' = "unconfigured"
  /\ UNCHANGED <<turn, simulation, members, interfaces, history, orderly>>

OnActivate ==
  /\ lifecycle = "inactive"
  /\ \/ /\ NotFinite(positions) \cup NotFinite(commands) = {}
        /\ lifecycle' = "active"
        /\ states' = positions
        /\ targets' = commands
        /\ offered' = commands
        /\ UNCHANGED orderly
     \/ \E k \in Places :
        /\ FailsAt(k, NotFinite(positions) \cup NotFinite(commands))
        /\ \E n \in Reached(k, NotFinite(positions) \cup NotFinite(commands)) :
             states' = Before(n, positions, states)
        /\ targets' = Before(k, commands, targets)
        /\ UNCHANGED offered
  /\ UNCHANGED <<turn, simulation, members, held, spoken, applied>>

Hold == held' = [j \in Joints |-> {qpos[j], before[j]}] /\ spoken' = FALSE

MutantOnDeactivate ==
  /\ lifecycle = "active"
  /\ lifecycle' = "inactive"
  /\ targets' = positions
  /\ offered' = positions
  /\ Hold
  /\ UNCHANGED <<turn, simulation, members, states, applied, orderly>>

MutantOnDeactivateClears ==
  /\ lifecycle = "active"
  /\ lifecycle' = "inactive"
  /\ commands' = Unset
  /\ targets' = Unset
  /\ offered' = Unset
  /\ Hold
  /\ UNCHANGED <<turn, simulation, positions, states, applied, orderly>>

(* The arm is to stay where it was last read to be.  A joint's command is   *)
(* a member before its interface is set, which may raise.                  *)
OnDeactivate ==
  /\ lifecycle = "active"
  /\ \/ /\ NotFinite(positions) = {}
        /\ lifecycle' = "inactive"
        /\ commands' = positions
        /\ targets' = positions
        /\ offered' = positions
        /\ Hold
        /\ UNCHANGED orderly
     \/ \E k \in Joints :
        /\ FailsAt(k, NotFinite(positions))
        /\ commands' = Before(IF k \in NotFinite(positions) THEN k ELSE k + 1,
                              positions, commands)
        /\ targets' = Before(k, positions, targets)
        /\ UNCHANGED <<held, spoken, offered>>
  /\ UNCHANGED <<turn, simulation, positions, states, applied>>

-----------------------------------------------------------------------------
(* The cycle of the controller manager, which calls the hardware inactive, *)
(* too.                                                                    *)

Called(call) == lifecycle \in {"inactive", "active"} /\ turn = call

(* read: the members change last, and all together.                        *)
Read ==
  /\ Called("read")
  /\ turn' = "write"
  /\ \/ /\ NotFinite(qpos) = {} /\ wrench
        /\ positions' = qpos
        /\ states' = qpos
        /\ UNCHANGED <<lifecycle, orderly>>
     \/ /\ NotFinite(qpos) # {} \/ ~wrench
        /\ lifecycle' = "finalized"
        /\ UNCHANGED <<positions, states, orderly>>
     \/ /\ NotFinite(qpos) = {} /\ wrench
        /\ \E k \in Places : \E n \in Reached(k, {}) :
             FailsAt(k, {}) /\ states' = Before(n, qpos, states)
        /\ UNCHANGED positions
  /\ UNCHANGED <<simulation, commands, targets, history>>

(* A controller sets the targets of all joints.                            *)
Control(v) ==
  /\ Called("write")
  /\ targets' = v
  /\ offered' = v
  /\ spoken' = TRUE
  /\ orderly' = (orderly /\ InRange(v))
  /\ UNCHANGED <<lifecycle, turn, simulation, members, states, held, applied>>

(* mj_step, which may take the arm anywhere.                               *)
Step ==
  /\ steps < MaxSteps
  /\ steps' = steps + 1
  /\ qpos' \in Vectors
  /\ wrench' \in BOOLEAN
  /\ before' = qpos
  /\ orderly' = (orderly /\ InRange(qpos') /\ wrench')

(* A target that was never set is nobody's command: a cycle before the     *)
(* first activation is not in order either.                                *)
Refused == {j \in Joints : targets[j] \notin Allowed}

MutantWrite ==
  /\ Called("write")
  /\ turn' = "read"
  /\ \/ /\ Refused = {}
        /\ ctrl' = targets
        /\ commands' = targets
        /\ Step
        /\ applied' = [vector |-> offered, count |-> applied.count + 1]
        /\ UNCHANGED lifecycle
     \/ \E k \in Joints :
        /\ \A j \in Refused : k <= j
        /\ lifecycle' = "finalized"
        /\ ctrl' = Before(k, targets, ctrl)
        /\ orderly' = (orderly /\ k \in Refused /\ targets # Unset)
        /\ UNCHANGED <<qpos, steps, wrench, before, commands, applied>>
  /\ UNCHANGED <<positions, interfaces, held, spoken, offered>>

(* write: all the targets are looked at before any is used.                *)
Write ==
  /\ Called("write")
  /\ turn' = "read"
  /\ \/ /\ Refused = {}
        /\ ctrl' = targets
        /\ commands' = targets
        /\ Step
        /\ applied' = [vector |-> offered, count |-> applied.count + 1]
        /\ UNCHANGED lifecycle
     \/ /\ lifecycle' = "finalized"
        /\ orderly' = (orderly /\ Refused # {} /\ targets # Unset)
        /\ UNCHANGED <<simulation, commands, applied>>
  /\ UNCHANGED <<positions, interfaces, held, spoken, offered>>

Next ==
  \/ OnInit \/ OnInitFails
  \/ Configure \/ Cleanup \/ OnActivate \/ OnDeactivate
  \/ Read \/ Write
  \/ \E v \in Vectors : Control(v)

Spec == Init /\ [][Next]_vars

-----------------------------------------------------------------------------
(* Properties.                                                             *)

(* docs/mujoco_hardware.md: "If any command is invalid, return an error    *)
(* before changing any Panda actuator control value or advancing           *)
(* simulation time".  The actuators have what the last successful write    *)
(* was given, all of it, and the simulation has made one step for each.    *)
RefusedWritesChangeNothing == ctrl = applied.vector /\ steps = applied.count

(* ... "activation begins from a hold-current-position command instead of  *)
(* introducing an initial command jump": until a controller speaks, every  *)
(* joint is sent to where it was, at most one step earlier, when the       *)
(* simulation was loaded or the hardware last deactivated, however often   *)
(* it has been configured, activated and stepped since.                    *)
HoldsUntilCommanded ==
  lifecycle = "active" /\ ~spoken => \A j \in Joints : targets[j] \in held[j]

(* With an arm that stays in its range, sensors that work, controllers     *)
(* that respect the limits and no cycle before the first activation, no    *)
(* order of calls makes the hardware fail.                                 *)
GoodUseNeverFails == orderly => lifecycle # "finalized"
=============================================================================
