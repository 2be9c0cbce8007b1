----------------------------- MODULE MCClientAuth -----------------------------
(* Instances of ClientAuth for TLC. *)
EXTENDS ClientAuth

CONSTANTS r1, r2, r3
=============================================================================
