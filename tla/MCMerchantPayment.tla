-------------------------- MODULE MCMerchantPayment --------------------------
(* Instances of MerchantPayment for TLC. *)
EXTENDS MerchantPayment, TLC

CONSTANTS c1, c2, c3, d1, p1, p2

CallSymmetry == Permutations(Calls) \cup Permutations(Payments)
=============================================================================
