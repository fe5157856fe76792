------------------------ MODULE MuJoCoHardwareProofs ------------------------
(***************************************************************************)
(* Proofs about the simulated hardware: what MuJoCoHardware promises holds *)
(* for any number of joints, any values and any number of steps.           *)
(***************************************************************************)
EXTENDS MuJoCoHardware, TLAPS

Built == lifecycle \in {"unconfigured", "inactive", "active"}

(* on_init finds what the world has left, untouched.                       *)
LoadingIsFresh ==
  lifecycle = "loading" =>
    /\ turn = "read" /\ ~spoken
    /\ before = qpos /\ targets = Unset
    /\ held = [j \in Joints |-> {qpos[j]}]

(* A vector is given to the targets as a whole, except in a call that fails.*)
TargetsAreWhole == lifecycle # "finalized" => targets = offered

(* What was read is where the arm is, until it steps once.                 *)
PositionsAreRecent == Built => positions = (IF turn = "write" THEN qpos ELSE before)

(* What is commanded before a controller speaks.                           *)
CommandsHold ==
  Built /\ ~spoken =>
    /\ \A j \in Joints : commands[j] \in held[j]
    /\ targets = commands \/ (targets = Unset /\ lifecycle # "active")

(* In good order everything the calls look at is in range.                 *)
OrderlyIsInRange ==
  /\ orderly /\ lifecycle # "rejected" => InRange(qpos) /\ InRange(before) /\ wrench
  /\ orderly /\ Built => InRange(commands) /\ (targets = Unset \/ InRange(targets))

Inv ==
  /\ TypeOK
  /\ LoadingIsFresh
  /\ RefusedWritesChangeNothing /\ TargetsAreWhole
  /\ PositionsAreRecent /\ CommandsHold
  /\ OrderlyIsInRange /\ GoodUseNeverFails

-----------------------------------------------------------------------------
(* Values.                                                                 *)

LEMMA NaNIsNoValue == NaN \notin Allowed /\ NaN \notin Finite
BY ValuesAssumption DEF NaN, Finite

(* In range is finite.                                                     *)
LEMMA InRangeIsFinite == ASSUME NEW v, InRange(v) PROVE NotFinite(v) = {}
BY NaNIsNoValue DEF InRange, NotFinite

(* What may be written is in range.                                        *)
LEMMA NotRefused ==
  ASSUME Refused = {}
  PROVE  InRange(targets) /\ (targets = Unset => Joints = {})
BY NaNIsNoValue DEF Refused, InRange, Unset

(* A part of a vector is made of its values and those that were there.     *)
LEMMA BeforeIsVector ==
  ASSUME NEW k, NEW new \in Vectors, NEW old \in Vectors
  PROVE  Before(k, new, old) \in Vectors
BY DEF Before, Vectors

LEMMA FiniteVectors == [Joints -> Finite] \subseteq Vectors /\ Unset \in Vectors
BY DEF Vectors, Values, Unset

-----------------------------------------------------------------------------
(* Types.                                                                  *)

LEMMA InitType == Init => TypeOK
<1> SUFFICES ASSUME Init PROVE TypeOK
  OBVIOUS
<1>1. {qpos, before, targets, states, positions, commands, offered} \subseteq Vectors
  BY FiniteVectors DEF Init
<1>2. held \in [Joints -> SUBSET Values] /\ orderly \in BOOLEAN
  BY DEF Init, Values, InRange
<1>3. applied \in [vector : Vectors, count : 0..MaxSteps] /\ steps \in 0..MaxSteps
  BY FiniteVectors, JointsAssumption DEF Init
<1> QED BY <1>1, <1>2, <1>3 DEF Init, TypeOK

(* A vector that has no refused value can be a control.                    *)
LEMMA InRangeIsControl ==
  ASSUME NEW v \in Vectors, InRange(v) PROVE v \in [Joints -> Finite]
BY DEF Vectors, InRange, Finite

LEMMA NextType == Inv /\ [Next]_vars => TypeOK'
<1> SUFFICES ASSUME Inv, [Next]_vars PROVE TypeOK'
  OBVIOUS
<1>0. /\ TypeOK /\ orderly \in BOOLEAN /\ steps \in 0..MaxSteps
      /\ qpos \in Vectors /\ before \in Vectors /\ targets \in Vectors
      /\ states \in Vectors /\ positions \in Vectors /\ commands \in Vectors
      /\ offered \in Vectors
  BY DEF Inv, TypeOK
<1> USE DEF simulation, members, interfaces, history
<1>1. CASE OnInit
  BY <1>0, <1>1 DEF OnInit, TypeOK
<1>2. CASE OnInitFails
  BY <1>0, <1>2 DEF OnInitFails, TypeOK
<1>3. CASE Configure \/ Cleanup
  BY <1>0, <1>3 DEF Configure, Cleanup, TypeOK
<1>4. CASE OnActivate
  <2>1. states' \in Vectors /\ targets' \in Vectors /\ offered' \in Vectors
    BY <1>0, <1>4, BeforeIsVector DEF OnActivate
  <2>2. orderly' \in BOOLEAN /\ lifecycle' \in {"active", "finalized"}
    BY <1>0, <1>4 DEF OnActivate, FailsAt
  <2> QED BY <1>0, <1>4, <2>1, <2>2 DEF OnActivate, TypeOK
<1>5. CASE OnDeactivate
  <2>1. commands' \in Vectors /\ targets' \in Vectors /\ offered' \in Vectors
    BY <1>0, <1>5, BeforeIsVector DEF OnDeactivate
  <2>2. orderly' \in BOOLEAN /\ lifecycle' \in {"inactive", "finalized"}
    BY <1>0, <1>5 DEF OnDeactivate, FailsAt
  <2>3. spoken' \in BOOLEAN /\ held' \in [Joints -> SUBSET Values]
    <3>1. CASE UNCHANGED <<held, spoken>>
      BY <3>1, <1>0 DEF TypeOK
    <3>2. CASE Hold
      <4>1. \A j \in Joints : qpos[j] \in Values /\ before[j] \in Values
        BY <1>0 DEF Vectors
      <4> QED BY <3>2, <4>1 DEF Hold
    <3> QED BY <1>5, <3>1, <3>2 DEF OnDeactivate
  <2> QED BY <1>0, <1>5, <2>1, <2>2, <2>3 DEF OnDeactivate, TypeOK
<1>6. CASE Read
  <2>1. states' \in Vectors /\ positions' \in Vectors
    BY <1>0, <1>6, BeforeIsVector DEF Read
  <2>2. orderly' \in BOOLEAN /\ lifecycle' \in {lifecycle, "finalized"}
    BY <1>0, <1>6 DEF Read, FailsAt
  <2> QED BY <1>0, <1>6, <2>1, <2>2 DEF Read, TypeOK
<1>7. CASE Write
  <2>1. CASE Refused = {} /\ Step /\ ctrl' = targets /\ commands' = targets
             /\ applied' = [vector |-> offered, count |-> applied.count + 1]
             /\ UNCHANGED lifecycle
    <3>1. ctrl' \in [Joints -> Finite]
      BY <1>0, <2>1, NotRefused, InRangeIsControl
    <3>2. steps' \in 0..MaxSteps /\ steps = applied.count
      BY <1>0, <2>1, JointsAssumption DEF Step, Inv, RefusedWritesChangeNothing
    <3>3. applied' \in [vector : Vectors, count : 0..MaxSteps]
      BY <1>0, <2>1, <3>2 DEF Step
    <3>4. qpos' \in Vectors /\ before' \in Vectors /\ commands' \in Vectors
          /\ wrench' \in BOOLEAN /\ orderly' \in BOOLEAN
      BY <1>0, <2>1 DEF Step
    <3> QED BY <1>0, <1>7, <2>1, <3>1, <3>2, <3>3, <3>4 DEF Write, TypeOK
  <2>2. CASE lifecycle' = "finalized" /\ UNCHANGED <<simulation, commands, applied>>
             /\ orderly' = (orderly /\ Refused # {} /\ targets # Unset)
    BY <1>0, <1>7, <2>2 DEF Write, TypeOK
  <2> QED BY <1>7, <2>1, <2>2 DEF Write
<1>8. ASSUME NEW v \in Vectors, Control(v) PROVE TypeOK'
  BY <1>0, <1>8 DEF Control, TypeOK
<1>9. CASE UNCHANGED vars
  BY <1>0, <1>9 DEF vars, TypeOK
<1> QED BY <1>1, <1>2, <1>3, <1>4, <1>5, <1>6, <1>7, <1>8, <1>9 DEF Next

-----------------------------------------------------------------------------
(* The invariant.                                                          *)

LEMMA InitInv == Init => Inv
<1> SUFFICES ASSUME Init PROVE Inv
  OBVIOUS
<1>1. TypeOK
  BY InitType
<1>2. LoadingIsFresh /\ TargetsAreWhole /\ RefusedWritesChangeNothing
  BY DEF Init, LoadingIsFresh, TargetsAreWhole, RefusedWritesChangeNothing
<1>3. PositionsAreRecent /\ CommandsHold /\ GoodUseNeverFails
  BY DEF Init, Built, PositionsAreRecent, CommandsHold, GoodUseNeverFails
<1>4. OrderlyIsInRange
  BY DEF Init, Built, OrderlyIsInRange
<1> QED BY <1>1, <1>2, <1>3, <1>4 DEF Inv

(* All of the invariant but the types.                                     *)
Rest ==
  /\ LoadingIsFresh
  /\ RefusedWritesChangeNothing /\ TargetsAreWhole
  /\ PositionsAreRecent /\ CommandsHold
  /\ OrderlyIsInRange /\ GoodUseNeverFails

(* A call that fails leaves nothing to hold but the actuators and the      *)
(* clock, if it was not in order.                                          *)
LEMMA FailureKeepsInv ==
  ASSUME Inv, lifecycle' = "finalized", ~orderly',
         UNCHANGED <<ctrl, steps, applied>>
  PROVE  Rest'
BY DEF Inv, Rest, LoadingIsFresh, RefusedWritesChangeNothing, TargetsAreWhole, Built,
   PositionsAreRecent, CommandsHold, OrderlyIsInRange, GoodUseNeverFails

(* Where a loop fails something was not in order.                          *)
LEMMA FailsOutOfOrder ==
  ASSUME NEW k, FailsAt(k, {}) PROVE lifecycle' = "finalized" /\ ~orderly'
BY DEF FailsAt

LEMMA OnInitKeepsInv == ASSUME Inv, OnInit PROVE Rest'
<1> USE DEF OnInit, simulation, interfaces, history
<1>1. /\ turn = "read" /\ ~spoken /\ before = qpos /\ targets = Unset
      /\ \A j \in Joints : qpos[j] \in held[j]
  BY DEF Inv, LoadingIsFresh
<1>2. (LoadingIsFresh /\ TargetsAreWhole /\ RefusedWritesChangeNothing)'
  BY DEF Inv, LoadingIsFresh, TargetsAreWhole, RefusedWritesChangeNothing
<1>3. (PositionsAreRecent /\ CommandsHold /\ GoodUseNeverFails)'
  BY <1>1 DEF Built, PositionsAreRecent, CommandsHold, GoodUseNeverFails
<1>4. OrderlyIsInRange'
  BY <1>1 DEF Inv, OrderlyIsInRange, InRange
<1> QED BY <1>2, <1>3, <1>4 DEF Rest

(* Configured and cleaned up is what it was, but that it is not active.    *)
LEMMA LifecycleKeepsInv ==
  ASSUME Inv, Built, lifecycle' \in {"unconfigured", "inactive", "rejected"},
         UNCHANGED <<turn, simulation, members, interfaces, history, orderly>>
  PROVE  Rest'
BY DEF simulation, members, interfaces, history, Inv, Rest, LoadingIsFresh,
   RefusedWritesChangeNothing, TargetsAreWhole, Built, PositionsAreRecent, CommandsHold,
   OrderlyIsInRange, InRange, GoodUseNeverFails

LEMMA OnActivateKeepsInv == ASSUME Inv, OnActivate PROVE Rest'
<1> USE DEF OnActivate, simulation, members
<1>1. lifecycle = "inactive" /\ Built
  BY DEF Built
<1>2. orderly => NotFinite(positions) \cup NotFinite(commands) = {}
  <2>1. orderly => InRange(commands) /\ InRange(qpos) /\ InRange(before)
    BY <1>1 DEF Inv, OrderlyIsInRange
  <2>2. positions = qpos \/ positions = before
    BY <1>1 DEF Inv, PositionsAreRecent
  <2> QED BY <2>1, <2>2, InRangeIsFinite
<1>3. CASE /\ lifecycle' = "active" /\ targets' = commands /\ offered' = commands
           /\ UNCHANGED orderly
  <2>1. (LoadingIsFresh /\ TargetsAreWhole /\ RefusedWritesChangeNothing)'
    BY <1>3 DEF Inv, LoadingIsFresh, TargetsAreWhole, RefusedWritesChangeNothing
  <2>2. (PositionsAreRecent /\ CommandsHold /\ GoodUseNeverFails)'
    BY <1>1, <1>3 DEF Inv, Built, PositionsAreRecent, CommandsHold, GoodUseNeverFails
  <2>3. OrderlyIsInRange'
    BY <1>1, <1>3 DEF Inv, OrderlyIsInRange, InRange
  <2> QED BY <2>1, <2>2, <2>3 DEF Rest
<1>4. CASE \E k \in Places : FailsAt(k, NotFinite(positions) \cup NotFinite(commands))
  BY <1>2, <1>4, FailureKeepsInv DEF FailsAt
<1> QED BY <1>3, <1>4

LEMMA OnDeactivateKeepsInv == ASSUME Inv, OnDeactivate PROVE Rest'
<1> USE DEF OnDeactivate, simulation
<1>1. lifecycle = "active" /\ Built
  BY DEF Built
<1>2. positions = qpos \/ positions = before
  BY <1>1 DEF Inv, PositionsAreRecent
<1>3. orderly => InRange(positions) /\ NotFinite(positions) = {}
  <2>1. orderly => InRange(qpos) /\ InRange(before)
    BY <1>1 DEF Inv, OrderlyIsInRange
  <2> QED BY <1>2, <2>1, InRangeIsFinite
<1>4. CASE /\ lifecycle' = "inactive" /\ commands' = positions /\ targets' = positions
           /\ offered' = positions /\ Hold /\ UNCHANGED orderly
  <2>1. (LoadingIsFresh /\ TargetsAreWhole /\ RefusedWritesChangeNothing)'
    BY <1>4 DEF Inv, LoadingIsFresh, TargetsAreWhole, RefusedWritesChangeNothing
  <2>2. (PositionsAreRecent /\ GoodUseNeverFails)'
    BY <1>1, <1>4 DEF Inv, Built, PositionsAreRecent, GoodUseNeverFails
  <2>3. CommandsHold'
    BY <1>2, <1>4 DEF Hold, CommandsHold
  <2>4. OrderlyIsInRange'
    BY <1>1, <1>3, <1>4 DEF Inv, OrderlyIsInRange, InRange
  <2> QED BY <2>1, <2>2, <2>3, <2>4 DEF Rest
<1>5. CASE \E k \in Joints : FailsAt(k, NotFinite(positions))
  BY <1>3, <1>5, FailureKeepsInv DEF FailsAt
<1> QED BY <1>4, <1>5

LEMMA ReadKeepsInv == ASSUME Inv, Read PROVE Rest'
<1> USE DEF Read, Called, simulation, history
<1>1. Built /\ turn = "read" /\ turn' = "write" /\ lifecycle \in {"inactive", "active"}
  BY DEF Built
<1>2. orderly => NotFinite(qpos) = {} /\ wrench
  BY <1>1, InRangeIsFinite DEF Inv, OrderlyIsInRange
<1>3. CASE positions' = qpos /\ UNCHANGED <<lifecycle, orderly>>
  <2>1. (LoadingIsFresh /\ TargetsAreWhole /\ RefusedWritesChangeNothing)'
    BY <1>1, <1>3 DEF Inv, LoadingIsFresh, TargetsAreWhole, RefusedWritesChangeNothing
  <2>2. (PositionsAreRecent /\ CommandsHold /\ GoodUseNeverFails)'
    BY <1>1, <1>3 DEF Inv, Built, PositionsAreRecent, CommandsHold, GoodUseNeverFails
  <2>3. OrderlyIsInRange'
    BY <1>1, <1>3 DEF Inv, Built, OrderlyIsInRange, InRange
  <2> QED BY <2>1, <2>2, <2>3 DEF Rest
<1>4. CASE /\ NotFinite(qpos) # {} \/ ~wrench
           /\ lifecycle' = "finalized" /\ UNCHANGED orderly
  BY <1>2, <1>4, FailureKeepsInv
<1>5. CASE \E k \in Places : FailsAt(k, {})
  BY <1>5, FailsOutOfOrder, FailureKeepsInv
<1> QED BY <1>3, <1>4, <1>5

LEMMA ControlKeepsInv == ASSUME Inv, NEW v \in Vectors, Control(v) PROVE Rest'
<1> USE DEF Control, Called, simulation, members
<1>1. Built /\ lifecycle \in {"inactive", "active"}
  BY DEF Built
<1>2. (LoadingIsFresh /\ TargetsAreWhole /\ RefusedWritesChangeNothing)'
  BY <1>1 DEF Inv, LoadingIsFresh, TargetsAreWhole, RefusedWritesChangeNothing
<1>3. (PositionsAreRecent /\ CommandsHold /\ GoodUseNeverFails)'
  BY <1>1 DEF Inv, Built, PositionsAreRecent, CommandsHold, GoodUseNeverFails
<1>4. OrderlyIsInRange'
  BY <1>1 DEF Inv, Built, OrderlyIsInRange, InRange
<1> QED BY <1>2, <1>3, <1>4 DEF Rest

LEMMA WriteKeepsInv == ASSUME Inv, Write PROVE Rest'
<1> USE DEF Write, Called, interfaces
<1>1. Built /\ turn = "write" /\ turn' = "read" /\ lifecycle \in {"inactive", "active"}
  BY DEF Built
<1>2. targets = offered /\ ctrl = applied.vector /\ steps = applied.count
  BY <1>1 DEF Inv, TargetsAreWhole, RefusedWritesChangeNothing
<1>3. CASE /\ Refused = {} /\ ctrl' = targets /\ commands' = targets /\ Step
           /\ applied' = [vector |-> offered, count |-> applied.count + 1]
           /\ UNCHANGED lifecycle
  <2>1. InRange(targets) /\ (targets = Unset => Joints = {})
    BY <1>3, NotRefused
  <2>2. (LoadingIsFresh /\ TargetsAreWhole /\ RefusedWritesChangeNothing)'
    BY <1>1, <1>2, <1>3 DEF Step, LoadingIsFresh, TargetsAreWhole,
       RefusedWritesChangeNothing
  <2>3. PositionsAreRecent' /\ GoodUseNeverFails'
    BY <1>1, <1>3 DEF Step, Inv, PositionsAreRecent, GoodUseNeverFails
  <2>4. CommandsHold'
    BY <1>1, <1>3, <2>1 DEF Inv, Built, CommandsHold
  <2>5. OrderlyIsInRange'
    BY <1>1, <1>3, <2>1 DEF Step, Inv, Built, OrderlyIsInRange, InRange
  <2> QED BY <2>2, <2>3, <2>4, <2>5 DEF Rest
<1>4. CASE /\ lifecycle' = "finalized" /\ UNCHANGED <<simulation, commands, applied>>
           /\ orderly' = (orderly /\ Refused # {} /\ targets # Unset)
  <2>1. orderly => targets = Unset \/ InRange(targets)
    BY <1>1 DEF Inv, OrderlyIsInRange
  <2>2. InRange(targets) => Refused = {}
    BY DEF InRange, Refused
  <2> QED BY <1>4, <2>1, <2>2, FailureKeepsInv DEF simulation
<1> QED BY <1>3, <1>4

LEMMA NextInv == Inv /\ [Next]_vars => Inv'
<1> SUFFICES ASSUME Inv, [Next]_vars PROVE Rest'
  BY NextType DEF Inv, Rest
<1>1. CASE OnInit
  BY <1>1, OnInitKeepsInv
<1>2. CASE OnInitFails
  BY <1>2 DEF OnInitFails, simulation, members, interfaces, history, Inv, Rest,
     LoadingIsFresh, RefusedWritesChangeNothing, TargetsAreWhole, Built,
     PositionsAreRecent, CommandsHold, OrderlyIsInRange, GoodUseNeverFails
<1>3. CASE Configure \/ Cleanup
  BY <1>3, LifecycleKeepsInv DEF Configure, Cleanup, Built
<1>4. CASE OnActivate
  BY <1>4, OnActivateKeepsInv
<1>5. CASE OnDeactivate
  BY <1>5, OnDeactivateKeepsInv
<1>6. CASE Read
  BY <1>6, ReadKeepsInv
<1>7. CASE Write
  BY <1>7, WriteKeepsInv
<1>8. ASSUME NEW v \in Vectors, Control(v) PROVE Rest'
  BY <1>8, ControlKeepsInv
<1>9. CASE UNCHANGED vars
  BY <1>9 DEF vars, simulation, members, interfaces, history, Inv, Rest, LoadingIsFresh,
     RefusedWritesChangeNothing, TargetsAreWhole, Built, PositionsAreRecent,
     CommandsHold, OrderlyIsInRange, InRange, GoodUseNeverFails
<1> QED BY <1>1, <1>2, <1>3, <1>4, <1>5, <1>6, <1>7, <1>8, <1>9 DEF Next

LEMMA Invariance == Spec => []Inv
BY InitInv, NextInv, PTL DEF Spec

-----------------------------------------------------------------------------
(* Theorems.                                                               *)

(* Every variable of the hardware keeps its type; in particular an         *)
(* actuator is never given a number that is not finite.                    *)
THEOREM TypeCorrect == Spec => []TypeOK
<1>1. Inv => TypeOK
  BY DEF Inv
<1> QED BY <1>1, Invariance, PTL

(* What the actuators have is, as a whole, what the last successful write  *)
(* was given, and the clock has made one step for each such write: a write *)
(* that is refused changes neither.                                        *)
THEOREM RefusedWritesChangeNothingHolds == Spec => []RefusedWritesChangeNothing
<1>1. Inv => RefusedWritesChangeNothing
  BY DEF Inv
<1> QED BY <1>1, Invariance, PTL

(* Until a controller speaks an active arm is sent to where it was, when it *)
(* was loaded or last deactivated.                                         *)
THEOREM HoldsUntilCommandedHolds == Spec => []HoldsUntilCommanded
<1>1. Inv => HoldsUntilCommanded
  BY DEF Inv, Built, CommandsHold, HoldsUntilCommanded
<1> QED BY <1>1, Invariance, PTL

(* In good order no sequence of calls makes the hardware fail.             *)
THEOREM GoodUseNeverFailsHolds == Spec => []GoodUseNeverFails
<1>1. Inv => GoodUseNeverFails
  BY DEF Inv
<1> QED BY <1>1, Invariance, PTL
=============================================================================
