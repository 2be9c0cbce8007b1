--------------------------- MODULE MCTaskExecution ---------------------------
(* Instances of TaskExecution for TLC. *)
EXTENDS TaskExecution, TLC

CONSTANTS r1, r2, r3, w1, w2, c1, c2

RunSymmetry == Permutations(Runs)
=============================================================================
