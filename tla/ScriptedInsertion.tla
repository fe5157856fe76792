-------------------------- MODULE ScriptedInsertion --------------------------
(***************************************************************************)
(* The control law of the scripted expert (ClassicalInsertionExpert in     *)
(* scripted_insertion.py) and the judgement of the task (task.py): from    *)
(* where the peg is and what it touches to what is to be done.             *)
(*                                                                         *)
(* Both distances are abstracted to what the thresholds tell apart.  By    *)
(* the defaults of config.py and of the expert, lateral error is           *)
(*   0  within the expert's alignment tolerance (0.5 mm)                   *)
(*   1  within the task's success tolerance     (1 mm)                     *)
(*   2  below the task's failure limit          (2.2 mm)                   *)
(*   3  at the failure limit or beyond                                     *)
(* and insertion depth is                                                  *)
(*   0  outside   1  inside   2  at the success depth (10 mm) or beyond.   *)
(***************************************************************************)
EXTENDS Integers

Pegs == [lateral : 0..3, depth : 0..2]

Near(p, q) ==
  /\ p.lateral \in {q.lateral - 1, q.lateral, q.lateral + 1}
  /\ p.depth \in {q.depth - 1, q.depth, q.depth + 1}

(* The force at the wrist: at its axial limit or at its lateral one.       *)
Contacts == {"free", "axial", "lateral"}

(* evaluate_insertion_task                                                 *)
Succeeded(peg) == peg.lateral <= 1 /\ peg.depth = 2
Failed(peg) == peg.lateral = 3 /\ peg.depth > 0

MutantPhase(peg) ==
  IF peg.depth > 0 THEN "hold" ELSE IF peg.lateral > 0 THEN "align" ELSE "insert"

(* update_phase, of a task that has not failed.                            *)
Phase(peg) ==
  IF peg.depth = 2 THEN "hold" ELSE IF peg.lateral > 0 THEN "align" ELSE "insert"

(* joint_targets raises on a lateral force, and moves nothing in phase     *)
(* HOLD or where an axial force stands against the insertion.              *)
IsUnsafe(contact) == contact = "lateral"
Moves(peg, contact) ==
  \/ Phase(peg) = "align"
  \/ Phase(peg) = "insert" /\ contact # "axial"

(* One step of the aim, carried out.                                       *)
Moved(peg, aim) ==
  IF aim = "align"
  THEN [peg EXCEPT !.lateral = IF @ = 0 THEN 0 ELSE @ - 1]
  ELSE [peg EXCEPT !.depth = IF @ = 2 THEN 2 ELSE @ + 1]
=============================================================================
