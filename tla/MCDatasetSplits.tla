-------------------------- MODULE MCDatasetSplits --------------------------
(* Six files.   The sixth repeats the index of the first; of the others    *)
(* one is refused by the validator and taken by the reader, and one is     *)
(* refused by both.                                                        *)
EXTENDS DatasetSplits, TLC

CONSTANTS g1, g2, g3, g4

GroupSymmetry == Permutations({g1, g2, g3, g4})

SixFiles == 1..6
SixIds == [f \in 1..6 |-> IF f = 6 THEN 1 ELSE f]
SixKinds == [f \in 1..6 |-> CASE f = 4 -> "loose" [] f = 5 -> "broken" [] OTHER -> "valid"]
=============================================================================
