---------------------------- MODULE MCBatchChannel ----------------------------
(* Instances of BatchChannel for TLC. *)
EXTENDS BatchChannel, TLC

CONSTANTS c1, c2, c3

CallSymmetry == Permutations(Calls)
=============================================================================
